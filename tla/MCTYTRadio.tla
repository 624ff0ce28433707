----------------------------- MODULE MCTYTRadio -----------------------------
(* Small instances of TYTRadio for TLC. *)
EXTENDS TYTRadio

(* STM32F40X in small: sectors that start above 0 and grow. *)
MCSmallMap == <<[start |-> 2, size |-> 2], [start |-> 4, size |-> 2],
                [start |-> 6, size |-> 4]>>

SegmentsOf(addresses, sizes) == [address : addresses, size : sizes]

(* Segments that overlap, share a sector, start or end inside a sector,    *)
(* leave the mapped memory or wrap around.                                 *)
MCSegments == SegmentsOf({2, 3, 5, 7, 9, 13}, {0, 1, 3, 6})

(* No segment, any one of at most six bytes, or two. *)
MCFirmwares == {<<>>} \cup {<<s>> : s \in SegmentsOf(1..13, 0..6)}
                 \cup {<<s, t>> : s, t \in MCSegments}

(* Two segments, each inside the mapped memory, that meet in one sector. *)
MCSharedSector == {<<[address |-> 6, size |-> 2], [address |-> 8, size |-> 2]>>}
=============================================================================

-------------------------- MODULE MCTYTOverChannel --------------------------
(* A small instance of TYTOverChannel for TLC. *)
EXTENDS TYTOverChannel

(* Three sectors of three bytes, from 0. *)
MCMap == MakeSimpleLayout(0, 3, 3)

SegmentsOf(addresses, sizes) == [address : addresses, size : sizes]

(* Segments of one block or more, inside one sector, over two or past the  *)
(* memory; and pairs in their own sectors, in one, and over each other.    *)
MCFirmwares ==
  {<<s>> : s \in SegmentsOf({0, 2, 4, 7}, {1, 3, 4})}
    \cup {<<s, t>> : s \in SegmentsOf({1, 5}, {2}), t \in SegmentsOf({0, 3, 4}, {1, 3})}
=============================================================================

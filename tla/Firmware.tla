------------------------------ MODULE Firmware ------------------------------
(***************************************************************************)
(* FirmwareSupport (include/radio_tool/fw/fw.hpp), what the classes for    *)
(* firmware files share, and the files as these classes see them.          *)
(*                                                                         *)
(* A file is a record: its format, the fields of its header, and "rest",   *)
(* the bytes behind the header.  A "plain" file is one in which no class   *)
(* finds its header.  An operator that reads a file returns the set of     *)
(* what it may return: empty if it throws.                                 *)
(***************************************************************************)
EXTENDS Cipher, SequencesExt

Missing == [format |-> "missing"]   \* a file that cannot be opened

Plain(bytes) == [format |-> "plain", rest |-> bytes]

EmptyFile == Plain(<<>>)

(* Create() of every class takes the default: segments are not aligned. *)
align == 0

(* A handler; "info" is what a class keeps besides. *)
Handler(class, info) ==
  [class |-> class, data |-> <<>>, memory_ranges |-> <<>>, info |-> info]

(* resize and read: what the file does not have is zero. *)
ReadBytes(bytes, n) == [z \in 1..n |-> IF z <= Len(bytes) THEN bytes[z] ELSE Zero]

(* Mutant: the data of a segment replaces that of the one before. *)
AppendReplaced(h, addr, new_data) ==
  [h EXCEPT !.data = new_data,
            !.memory_ranges = Append(@, [address |-> addr, size |-> Len(new_data)])]

AppendSegment(h, addr, new_data) ==
  LET extra == IF align # 0 THEN Len(new_data) % align ELSE 0
      fill  == IF extra > 0 THEN [z \in 1..(align - extra) |-> Ones] ELSE <<>>
  IN  [h EXCEPT !.data = @ \o new_data \o fill,
                !.memory_ranges =
                   Append(@, [address |-> addr, size |-> Len(new_data) + Len(fill)])]

(* Where range i starts in the data. *)
RangeOffset(ranges, i) ==
  SumFirst([j \in DOMAIN ranges |-> ranges[j].size], i - 1)

(* Mutant: every segment starts at the start of the data. *)
SegmentsFromStart(h) ==
  [i \in DOMAIN h.memory_ranges |->
     [address |-> h.memory_ranges[i].address,
      data    |-> SubSeq(h.data, 1, h.memory_ranges[i].size)]]

GetDataSegments(h) ==
  [i \in DOMAIN h.memory_ranges |->
     LET first == RangeOffset(h.memory_ranges, i)
     IN  [address |-> h.memory_ranges[i].address,
          data    |-> SubSeq(h.data, first + 1, first + h.memory_ranges[i].size)]]
=============================================================================

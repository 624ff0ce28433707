----------------------------- MODULE FlashUtil -----------------------------
(***************************************************************************)
(* Flash maps: include/radio_tool/util/flash.hpp.                          *)
(*                                                                         *)
(* A map is a sequence of sectors, each a start address and a size.  The   *)
(* loop of AlignedContiguousMemoryOp is not a definition of its own: its   *)
(* callback talks to the radio, so every user of the loop unrolls it with  *)
(* InRange (go round again), ChunkSize (n_bytes) and addr + ChunkSize.     *)
(***************************************************************************)
EXTENDS Integers, Sequences

CONSTANTS
  map,        \* the FlashMap: a sequence of [start |-> Nat, size |-> Nat]
  AddrSpace   \* number of addresses of a uint32_t (2^32 in the code)

Lower(a, b) == IF a < b THEN a ELSE b

(* uint32_t addition of two values that are themselves in range *)
WrapAdd(a, b) == IF a + b >= AddrSpace THEN a + b - AddrSpace ELSE a + b

End(n) == map[n].start + map[n].size

InSector(n, a) == a >= map[n].start /\ a < End(n)

Mapped(a) == \E n \in DOMAIN map : InSector(n, a)

(* The first sector that holds the address; only asked of mapped ones. *)
GetSector(a) ==
  CHOOSE n \in DOMAIN map :
    InSector(n, a) /\ \A m \in 1..(n - 1) : ~InSector(m, a)

SectorBytes(n) == map[n].start..(End(n) - 1)

MappedBytes == UNION {SectorBytes(n) : n \in DOMAIN map}

(* Mutant: the end of the range is taken to be part of it. *)
InRangeInclusive(a, end) == a <= end /\ Mapped(a)

(* AlignedContiguousMemoryOp goes round: below the end, in a mapped sector *)
InRange(a, end) == a < end /\ Mapped(a)

ChunkSize(a, end) == Lower(end, End(GetSector(a))) - a

(* Equal sectors, one after the other. *)
MakeSimpleLayout(start_addr, sector_size, sectors) ==
  [n \in 1..sectors |-> [start |-> start_addr + sector_size * (n - 1),
                         size  |-> sector_size]]

(***************************************************************************)
(* What STM32F40X and every map MakeSimpleLayout builds satisfy: sectors   *)
(* in ascending order, no gap, below the end of the address space.         *)
(***************************************************************************)
ASSUME MapAssumption ==
  /\ AddrSpace \in Nat
  /\ map \in Seq([start : Nat, size : Nat])
  /\ \A n \in DOMAIN map : map[n].size > 0 /\ End(n) < AddrSpace
  /\ \A m, n \in DOMAIN map : m < n => End(m) <= map[n].start
  /\ \A m, n \in DOMAIN map :
       \A a \in map[m].start..(End(n) - 1) : Mapped(a)
=============================================================================

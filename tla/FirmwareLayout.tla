--------------------------- MODULE FirmwareLayout ---------------------------
(***************************************************************************)
(* Firmware files as the radios see them: data segments with an address    *)
(* and a size (FirmwareSegment in include/radio_tool/fw/fw.hpp), laid over *)
(* a flash map.  A byte of the flash holds a pair that tells where it came *)
(* from, which is all the data an update is about.                         *)
(***************************************************************************)
EXTENDS FlashUtil

CONSTANT
  Firmwares   \* the firmware files: sequences of [address |-> , size |-> ]

ASSUME FirmwareAssumption ==
  \A f \in Firmwares :
    /\ f \in Seq([address : Nat, size : Nat])
    /\ \A i \in DOMAIN f : f[i].address < AddrSpace /\ f[i].size < AddrSpace

(* Contents of a byte: <<i, k>> is byte k of segment i, i >= 1. *)
Erased  == <<0, 0>>
Old     == <<0, 1>>   \* what the radio held before the first update
Garbled == <<0, 2>>   \* programmed over something that was not erased

(* The addresses segment i reaches, none if its end wraps around. *)
Span(f, i) == f[i].address..(WrapAdd(f[i].address, f[i].size) - 1)

(* Contents that byte a may be given by an update to f. *)
InPlace(f, a) ==
  {c \in {<<i, a - f[i].address>> : i \in DOMAIN f} : a \in Span(f, c[1])}

(* Sectors an update to f may touch. *)
Touched(f) ==
  {n \in DOMAIN map : \E i \in DOMAIN f : \E a \in Span(f, i) : InSector(n, a)}

TouchedBytes(f) == UNION {SectorBytes(n) : n \in Touched(f)}

(***************************************************************************)
(* Firmware the update is meant for: every segment lies in mapped memory,  *)
(* does not wrap around, and shares no sector with another segment.        *)
(***************************************************************************)
WellPlaced(f) ==
  /\ \A i \in DOMAIN f : /\ f[i].address + f[i].size < AddrSpace
                         /\ Span(f, i) \subseteq MappedBytes
  /\ \A i, j \in DOMAIN f : i # j =>
       \A a \in Span(f, i), b \in Span(f, j) : GetSector(a) # GetSector(b)

(* Every byte of every segment is at its address. *)
Complete(f, mem) ==
  \A i \in DOMAIN f : \A k \in 0..(f[i].size - 1) :
    /\ f[i].address + k \in DOMAIN mem
    /\ mem[f[i].address + k] = <<i, k>>
=============================================================================

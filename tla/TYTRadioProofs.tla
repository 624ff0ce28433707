--------------------------- MODULE TYTRadioProofs ---------------------------
(***************************************************************************)
(* Proofs about TYTRadio::WriteFirmware: the invariant IInv is inductive,  *)
(* for every flash map, transfer size and set of firmware files.  First    *)
(* come the facts about flash maps that the proof rests on.                *)
(***************************************************************************)
EXTENDS TYTRadio, SequenceTheorems, TLAPS

(* Every sector has natural bounds and at least one byte. *)
LEMMA SectorBounds ==
  ASSUME NEW n \in DOMAIN map
  PROVE  /\ map[n].start \in Nat /\ map[n].size \in Nat /\ End(n) \in Nat
         /\ map[n].start < End(n)
<1>1. map \in Seq([start : Nat, size : Nat]) /\ map[n].size > 0
  BY MapAssumption
<1>2. map[n] \in [start : Nat, size : Nat]
  BY <1>1, LenProperties, ElementOfSeq
<1>3. QED
  BY <1>1, <1>2 DEF End

(* GetSector of flash.hpp returns a sector that holds the address: sectors *)
(* do not overlap, so whichever holds it is also the first that does.      *)
LEMMA SectorOf ==
  ASSUME NEW a \in Int, Mapped(a)
  PROVE  GetSector(a) \in DOMAIN map /\ InSector(GetSector(a), a)
<1>1. PICK n \in DOMAIN map : InSector(n, a)
  BY DEF Mapped
<1>2. ASSUME NEW m \in 1..(n - 1), InSector(m, a)
      PROVE  FALSE
  <2>1. n \in 1..Len(map) /\ m \in DOMAIN map /\ m < n
    BY MapAssumption, SMTT(20) DEF MapAssumption
  <2>2. End(m) <= map[n].start
    BY <2>1, MapAssumption DEF MapAssumption
  <2>3. QED
    BY <1>1, <1>2, <2>1, <2>2, SectorBounds DEF InSector
<1>3. QED
  BY <1>1, <1>2 DEF GetSector

(* An address is in one sector only. *)
LEMMA OneSector ==
  ASSUME NEW a \in Int, NEW m \in DOMAIN map, NEW n \in DOMAIN map,
         InSector(m, a), InSector(n, a)
  PROVE  m = n
<1>1. m \in Nat /\ n \in Nat
  BY MapAssumption DEF MapAssumption
<1>2. ~(m < n) /\ ~(n < m)
  <2>1. m < n => End(m) <= map[n].start
    BY MapAssumption DEF MapAssumption
  <2>2. n < m => End(n) <= map[m].start
    BY MapAssumption DEF MapAssumption
  <2>3. QED
    BY <2>1, <2>2, SectorBounds DEF InSector
<1>3. QED
  BY <1>1, <1>2

LEMMA MappedIsByte ==
  ASSUME NEW a \in Int
  PROVE  Mapped(a) <=> a \in MappedBytes
<1>1. ASSUME NEW n \in DOMAIN map
      PROVE  InSector(n, a) <=> a \in SectorBytes(n)
  BY <1>1, SectorBounds DEF InSector, SectorBytes
<1>2. QED
  BY <1>1 DEF Mapped, MappedBytes

LEMMA MappedBytesNat == MappedBytes \subseteq Nat
<1>1. ASSUME NEW n \in DOMAIN map PROVE SectorBytes(n) \subseteq Nat
  BY <1>1, SectorBounds DEF SectorBytes
<1>2. QED
  BY <1>1 DEF MappedBytes

(* Mapped memory has no holes. *)
LEMMA NoGap ==
  ASSUME NEW a \in Int, NEW b \in Int, NEW c \in Int,
         Mapped(a), Mapped(c), a <= b, b <= c
  PROVE  Mapped(b)
<1>1. PICK m \in DOMAIN map : InSector(m, a)
  BY DEF Mapped
<1>2. PICK n \in DOMAIN map : InSector(n, c)
  BY DEF Mapped
<1>3. b \in map[m].start..(End(n) - 1)
  BY <1>1, <1>2, SectorBounds DEF InSector
<1>4. QED
  BY <1>3, MapAssumption DEF MapAssumption

(***************************************************************************)
(* One turn of AlignedContiguousMemoryOp: the chunk is not empty, does not *)
(* pass the end and lies in one sector.  The loop makes progress.          *)
(***************************************************************************)
LEMMA Chunk ==
  ASSUME NEW a \in Nat, NEW end \in Nat, InRange(a, end)
  PROVE  /\ ChunkSize(a, end) \in Nat
         /\ ChunkSize(a, end) > 0
         /\ a + ChunkSize(a, end) <= end
         /\ a..(a + ChunkSize(a, end) - 1) \subseteq SectorBytes(GetSector(a))
         /\ GetSector(a) \in DOMAIN map
<1> DEFINE n == GetSector(a)
<1>1. n \in DOMAIN map /\ InSector(n, a) /\ a < end
  BY SectorOf DEF InRange
<1>2. map[n].start \in Nat /\ End(n) \in Nat
  BY <1>1, SectorBounds
<1> HIDE DEF n
<1>3. ChunkSize(a, end) = Lower(end, End(n)) - a
  BY DEF ChunkSize, n
<1>4. QED
  BY <1>1, <1>2, <1>3 DEF Lower, InSector, SectorBytes, n
-----------------------------------------------------------------------------

LEMMA FirmwareTypes ==
  ASSUME NEW f \in Firmwares
  PROVE  /\ f \in Seq([address : Nat, size : Nat])
         /\ Len(f) \in Nat
         /\ DOMAIN f = 1..Len(f)
  BY FirmwareAssumption, LenProperties

(* A segment's end as a uint32_t: the sum, or below the address. *)
LEMMA SegmentTypes ==
  ASSUME NEW f \in Firmwares, NEW i \in DOMAIN f
  PROVE  /\ f[i].address \in Nat
         /\ f[i].size \in Nat
         /\ f[i].address < AddrSpace
         /\ WrapAdd(f[i].address, f[i].size) \in Nat
         /\ f[i].address <= WrapAdd(f[i].address, f[i].size) =>
              WrapAdd(f[i].address, f[i].size) = f[i].address + f[i].size
<1>1. f[i] \in [address : Nat, size : Nat]
  BY FirmwareTypes, ElementOfSeq
<1>2. f[i].address < AddrSpace /\ f[i].size < AddrSpace /\ AddrSpace \in Nat
  BY FirmwareAssumption, MapAssumption
<1>3. QED
  BY <1>1, <1>2 DEF WrapAdd

(* ceil: the last block of a chunk starts inside it, the next would not. *)
LEMMA Ceiling ==
  ASSUME NEW t \in Nat \ {0}, NEW s \in Nat, NEW w \in Nat
  PROVE  /\ w < (s + t - 1) \div t => t * w < s
         /\ w >= (s + t - 1) \div t => t * w >= s
<1> DEFINE q == (s + t - 1) \div t
<1>1. q \in Int /\ t * q <= s + t - 1 /\ s + t - 1 < t * q + t
  OBVIOUS
<1> HIDE DEF q
<1>2. w < q => t * w <= t * q - t
  BY <1>1
<1>3. w >= q => t * w >= t * q
  BY <1>1
<1>4. QED
  BY <1>1, <1>2, <1>3 DEF q

(* What an update may touch: whole sectors that hold a byte of a segment.  *)
LEMMA SpanTouched ==
  ASSUME NEW f, NEW i \in DOMAIN f, NEW n \in DOMAIN map,
         NEW a \in Span(f, i), InSector(n, a)
  PROVE  SectorBytes(n) \subseteq TouchedBytes(f)
  BY DEF Touched, TouchedBytes

(* The bytes of a well placed segment: mapped, and in its span. *)
LEMMA WellPlacedByte ==
  ASSUME NEW f \in Firmwares, WellPlaced(f), NEW i \in DOMAIN f,
         NEW k \in 0..(f[i].size - 1)
  PROVE  /\ f[i].address + k \in Nat
         /\ f[i].address + k \in Span(f, i)
         /\ f[i].address + k \in MappedBytes
         /\ WrapAdd(f[i].address, f[i].size) = f[i].address + f[i].size
<1>1. f[i].address \in Nat /\ f[i].size \in Nat /\ AddrSpace \in Nat
  BY SegmentTypes, MapAssumption
<1>2. f[i].address + f[i].size < AddrSpace /\ Span(f, i) \subseteq MappedBytes
  BY DEF WellPlaced
<1>3. WrapAdd(f[i].address, f[i].size) = f[i].address + f[i].size
  BY <1>1, <1>2 DEF WrapAdd
<1>4. QED
  BY <1>1, <1>2, <1>3 DEF Span

(* A sector with a byte of one segment has none of another's. *)
LEMMA NotInSector ==
  ASSUME NEW f \in Firmwares, WellPlaced(f),
         NEW i \in DOMAIN f, NEW j \in DOMAIN f, i # j,
         NEW a \in Span(f, i), NEW b \in Span(f, j),
         a \in Int, b \in Int, Mapped(a)
  PROVE  b \notin SectorBytes(GetSector(a))
<1>1. GetSector(a) # GetSector(b)
  BY DEF WellPlaced
<1>2. GetSector(a) \in DOMAIN map
  BY SectorOf
<1>3. ASSUME b \in SectorBytes(GetSector(a))
      PROVE  FALSE
  <2>1. InSector(GetSector(a), b)
    BY <1>2, <1>3, SectorBounds DEF SectorBytes, InSector
  <2>2. Mapped(b)
    BY <1>2, <2>1 DEF Mapped
  <2>3. GetSector(b) = GetSector(a)
    BY <1>2, <2>1, <2>2, SectorOf, OneSector
  <2>4. QED
    BY <1>1, <2>3
<1>4. QED
  BY <1>3

LEMMA ContentsDiffer ==
  /\ Erased # Old /\ Erased # Garbled /\ Old # Garbled
  /\ Erased[1] = 0 /\ Old[1] = 0 /\ Garbled[1] = 0
  /\ Erased \in Nat \X Nat /\ Old \in Nat \X Nat /\ Garbled \in Nat \X Nat
  BY DEF Erased, Old, Garbled
-----------------------------------------------------------------------------
(* Where WriteFirmware stands while it works on segment r. *)
LEMMA SegmentState ==
  ASSUME TypeOK, pc \in {"erase", "setaddr", "block"}
  PROVE  /\ seg \in DOMAIN fw /\ fw \in Firmwares /\ DOMAIN fw = 1..Len(fw)
         /\ fw[seg].address \in Nat /\ fw[seg].size \in Nat
         /\ SegEnd \in Nat
         /\ fw[seg].address <= SegEnd => SegEnd = fw[seg].address + fw[seg].size
         /\ Span(fw, seg) = fw[seg].address..(SegEnd - 1)
<1>1. fw \in Firmwares /\ seg \in 1..Len(fw)
  BY FirmwareTypes DEF TypeOK
<1>2. DOMAIN fw = 1..Len(fw)
  BY <1>1, FirmwareTypes
<1>3. QED
  BY <1>1, <1>2, SegmentTypes DEF SegEnd, Span

(* The block that is sent next: inside r.data, and, behind the pointer the *)
(* radio holds, exactly at the addresses its bytes belong to.              *)
LEMMA BlockFacts ==
  ASSUME TypeOK, Position, pc = "block", wValue < Blocks
  PROVE  /\ BlockOffset \in Nat /\ BlockLen \in Nat
         /\ BlockLen > 0
         /\ BlockOffset + BlockLen <= fw[seg].size
         /\ BlockAddress = fw[seg].address + BlockOffset
         /\ BlockBytes \subseteq Span(fw, seg)
         /\ \A a \in BlockBytes : ByteFor(a) = <<seg, a - fw[seg].address>>
<1>1. /\ fw[seg].address \in Nat /\ fw[seg].size \in Nat /\ SegEnd \in Nat
      /\ fw[seg].address <= SegEnd => SegEnd = fw[seg].address + fw[seg].size
      /\ Span(fw, seg) = fw[seg].address..(SegEnd - 1)
  BY SegmentState
<1>2. /\ InRange(addr, SegEnd) /\ addr \in Nat /\ wValue \in Nat
      /\ TransferSize \in Nat \ {0} /\ bOffset \in Nat
      /\ ptr = addr /\ fw[seg].address <= addr
      /\ bOffset = addr - fw[seg].address
  BY RadioAssumption DEF Position, TypeOK
<1>3. NBytes \in Nat /\ addr + NBytes <= SegEnd
  BY <1>1, <1>2, Chunk DEF NBytes
<1>4. addr < SegEnd /\ SegEnd = fw[seg].address + fw[seg].size
  BY <1>1, <1>2 DEF InRange
<1>5. PICK sent \in Nat : sent = TransferSize * wValue /\ sent < NBytes
  BY <1>2, <1>3, Ceiling DEF Blocks
<1>6. BlockOffset = (addr - fw[seg].address) + sent
  BY <1>2, <1>5 DEF BlockOffset
<1>7. BlockAddress = addr + sent
  <2>1. BlockNum - 2 = wValue
    BY <1>2 DEF BlockNum
  <2>2. QED
    BY <2>1, <1>2, <1>5 DEF BlockAddress
<1>8. BlockLen = Lower(TransferSize, fw[seg].size - BlockOffset)
  BY DEF BlockLen
<1>9. BlockOffset \in Int /\ BlockLen \in Int
  BY <1>1, <1>2, <1>6, <1>8 DEF Lower
<1>10. /\ BlockOffset \in Nat /\ BlockLen \in Nat /\ BlockLen > 0
       /\ BlockOffset + BlockLen <= fw[seg].size
       /\ BlockAddress = fw[seg].address + BlockOffset
       /\ BlockBytes \subseteq Span(fw, seg)
  <2>1. /\ fw[seg].address \in Nat /\ fw[seg].size \in Nat /\ addr \in Nat
        /\ NBytes \in Nat /\ sent \in Nat /\ TransferSize \in Nat \ {0}
        /\ BlockOffset \in Int /\ BlockLen \in Int
        /\ fw[seg].address <= addr
        /\ addr + NBytes <= fw[seg].address + fw[seg].size
        /\ sent < NBytes
        /\ BlockOffset = (addr - fw[seg].address) + sent
        /\ BlockLen = Lower(TransferSize, fw[seg].size - BlockOffset)
    BY <1>1, <1>2, <1>3, <1>4, <1>5, <1>6, <1>8, <1>9
  <2>2. /\ BlockOffset \in Nat /\ BlockLen \in Nat /\ BlockLen > 0
        /\ BlockOffset + BlockLen <= fw[seg].size
        /\ addr + sent = fw[seg].address + BlockOffset
        /\ (addr + sent)..(addr + sent + BlockLen - 1)
             \subseteq fw[seg].address..(fw[seg].address + fw[seg].size - 1)
    BY <2>1, SMTT(30) DEF Lower
  <2>3. QED
    BY <2>2, <1>1, <1>4, <1>7, SMTT(20) DEF BlockBytes
<1>11. ASSUME NEW a \in BlockBytes
       PROVE  ByteFor(a) = <<seg, a - fw[seg].address>>
  <2>1. a \in Int
    BY <1>10, <1>1 DEF BlockBytes
  <2>2. BlockOffset + (a - BlockAddress) = a - fw[seg].address
    BY <2>1, <1>1, <1>10
  <2>3. QED
    BY <2>2 DEF ByteFor
<1>12. QED
  BY <1>10, <1>11
-----------------------------------------------------------------------------
Memory == ProgrammedInPlace /\ NeverGarbled /\ Footprint

FlashTypes == /\ DOMAIN flash = MappedBytes
              /\ \A a \in MappedBytes : flash[a] \in Nat \X Nat

LEMMA MemoryUnchanged ==
  ASSUME Memory, FlashTypes, UNCHANGED <<fw, flash>>
  PROVE  Memory' /\ FlashTypes'
  BY DEF Memory, FlashTypes, ProgrammedInPlace, NeverGarbled, Footprint

(* The sector at addr is one the firmware reaches. *)
LEMMA EraseTouches ==
  ASSUME IInv, pc = "erase", InRange(addr, SegEnd)
  PROVE  SectorBytes(GetSector(addr)) \subseteq TouchedBytes(fw)
<1>1. /\ seg \in DOMAIN fw /\ SegEnd \in Nat /\ fw[seg].address \in Nat
      /\ Span(fw, seg) = fw[seg].address..(SegEnd - 1)
  BY SegmentState DEF IInv
<1>2. addr \in Nat /\ fw[seg].address <= addr /\ addr < SegEnd
  BY DEF IInv, TypeOK, Position, InRange
<1>3. addr \in Span(fw, seg)
  BY <1>1, <1>2
<1>4. GetSector(addr) \in DOMAIN map /\ InSector(GetSector(addr), addr)
  BY <1>2, SectorOf DEF InRange
<1>5. QED
  BY <1>1, <1>3, <1>4, SpanTouched

(* Erasing part of the sector at addr, as a completed or a failed Erase    *)
(* does, touches only a sector of the firmware and garbles nothing.        *)
LEMMA EraseSafe ==
  ASSUME IInv, pc = "erase", InRange(addr, SegEnd),
         NEW S \in SUBSET SectorBytes(GetSector(addr)),
         flash' = EraseBytes(S), fw' = fw
  PROVE  Memory' /\ FlashTypes'
<1>1. S \subseteq TouchedBytes(fw)
  BY EraseTouches
<1>2. /\ DOMAIN flash' = DOMAIN flash
      /\ \A a \in DOMAIN flash : flash'[a] = IF a \in S THEN Erased ELSE flash[a]
  BY DEF EraseBytes
<1>3. FlashTypes'
  BY <1>2, ContentsDiffer DEF FlashTypes, IInv, TypeOK
<1>4. ProgrammedInPlace'
  BY <1>2, ContentsDiffer DEF IInv, ProgrammedInPlace
<1>5. NeverGarbled'
  BY <1>2, ContentsDiffer DEF IInv, NeverGarbled
<1>6. Footprint'
  BY <1>1, <1>2 DEF IInv, Footprint
<1>7. QED
  BY <1>3, <1>4, <1>5, <1>6 DEF Memory

(* Programming part of a block gives each byte its own content: what was   *)
(* there was erased, or an earlier, longer block put the same byte there.  *)
LEMMA ProgramContents ==
  ASSUME IInv, pc = "block", wValue < Blocks,
         NEW S \in SUBSET (BlockBytes \cap DOMAIN flash)
  PROVE  /\ DOMAIN Programmed(S) = DOMAIN flash
         /\ \A a \in DOMAIN flash :
              Programmed(S)[a] = IF a \in S THEN <<seg, a - fw[seg].address>>
                                 ELSE flash[a]
         /\ \A a \in S :
              /\ Programmed(S)[a] = <<seg, a - fw[seg].address>>
              /\ Programmed(S)[a] \in Nat \X Nat
              /\ Programmed(S)[a] \in InPlace(fw, a)
              /\ Programmed(S)[a] # Garbled
              /\ a \in TouchedBytes(fw)
<1>1. /\ seg \in DOMAIN fw /\ fw[seg].address \in Nat /\ SegEnd \in Nat
      /\ Span(fw, seg) = fw[seg].address..(SegEnd - 1) /\ seg \in Nat /\ seg # 0
  BY SegmentState DEF IInv, TypeOK
<1>2. /\ BlockBytes \subseteq Span(fw, seg)
      /\ \A a \in BlockBytes : ByteFor(a) = <<seg, a - fw[seg].address>>
  BY BlockFacts DEF IInv
<1>3. Mapped(fw[seg].address)
  BY DEF IInv, Position, InRange
<1>4. ASSUME NEW a \in S
      PROVE  /\ flash[a] \in {Erased, <<seg, a - fw[seg].address>>}
             /\ ByteFor(a) = <<seg, a - fw[seg].address>>
             /\ a \in Span(fw, seg) /\ a \in MappedBytes /\ a \in Int
  <2>1. a \in BlockBytes /\ a \in DOMAIN flash /\ a \in MappedBytes
    BY DEF IInv, TypeOK
  <2>2. a \in Span(fw, seg) /\ ByteFor(a) = <<seg, a - fw[seg].address>>
    BY <1>2, <2>1
  <2>3. flash[a] \in {Erased, <<seg, a - fw[seg].address>>}
    BY <1>3, <2>1, <2>2 DEF IInv, Prepared
  <2>4. QED
    BY <2>1, <2>2, <2>3, MappedBytesNat
<1>5. /\ DOMAIN Programmed(S) = DOMAIN flash
      /\ \A a \in DOMAIN flash :
           Programmed(S)[a] = IF a \in S THEN <<seg, a - fw[seg].address>>
                              ELSE flash[a]
  BY <1>4 DEF Programmed
<1>6. ASSUME NEW a \in S
      PROVE  /\ <<seg, a - fw[seg].address>> \in Nat \X Nat
             /\ <<seg, a - fw[seg].address>> \in InPlace(fw, a)
             /\ <<seg, a - fw[seg].address>> # Garbled
             /\ a \in TouchedBytes(fw)
  <2>1. a - fw[seg].address \in Nat
    BY <1>1, <1>4
  <2>2. PICK n \in DOMAIN map : InSector(n, a) /\ a \in SectorBytes(n)
    BY <1>4, SectorBounds DEF MappedBytes, SectorBytes, InSector
  <2>3. a \in TouchedBytes(fw)
    BY <1>1, <1>4, <2>2, SpanTouched
  <2>4. <<seg, a - fw[seg].address>> \in InPlace(fw, a)
    BY <1>1, <1>4 DEF InPlace
  <2>5. QED
    BY <2>1, <2>3, <2>4, <1>1 DEF Garbled
<1>7. ASSUME NEW a \in S
      PROVE  Programmed(S)[a] = <<seg, a - fw[seg].address>>
  BY <1>5
<1>8. QED
  BY <1>5, <1>6, <1>7

LEMMA ProgramSafe ==
  ASSUME IInv, pc = "block", wValue < Blocks,
         NEW S \in SUBSET (BlockBytes \cap DOMAIN flash),
         flash' = Programmed(S), fw' = fw
  PROVE  /\ Memory' /\ FlashTypes'
         /\ DOMAIN flash' = DOMAIN flash
         /\ \A a \in DOMAIN flash :
              flash'[a] = IF a \in S THEN <<seg, a - fw[seg].address>>
                          ELSE flash[a]
<1>1. /\ DOMAIN flash' = DOMAIN flash
      /\ \A a \in DOMAIN flash :
           flash'[a] = IF a \in S THEN <<seg, a - fw[seg].address>> ELSE flash[a]
      /\ \A a \in S : /\ flash'[a] \in Nat \X Nat
                      /\ flash'[a] \in InPlace(fw, a)
                      /\ flash'[a] # Garbled
                      /\ a \in TouchedBytes(fw)
  BY ProgramContents
<1>2. \A a \in DOMAIN flash : a \notin S => flash'[a] = flash[a]
  BY <1>1
<1>3. FlashTypes'
  BY <1>1, <1>2 DEF FlashTypes, IInv, TypeOK
<1>4. ProgrammedInPlace'
  BY <1>1, <1>2 DEF IInv, ProgrammedInPlace
<1>5. NeverGarbled'
  BY <1>1, <1>2 DEF IInv, NeverGarbled
<1>6. Footprint'
  BY <1>1, <1>2 DEF IInv, Footprint
<1>7. QED
  BY <1>1, <1>3, <1>4, <1>5, <1>6 DEF Memory
-----------------------------------------------------------------------------
(* While the host is at work no earlier command is still at work. *)
LEMMA NothingLate ==
  ASSUME IInv, pc \notin {"threw", "upgrade"}
  PROVE  late = Nothing
  BY DEF IInv, LateSafe

LEMMA NothingLateSafe ==
  ASSUME late' = Nothing
  PROVE  LateSafe'
  BY DEF LateSafe, Nothing

(* A command that threw may still erase what it was to erase. *)
LEMMA LateErase ==
  ASSUME IInv, pc = "erase", InRange(addr, SegEnd),
         UNCHANGED <<fw, flash>>, pc' = "threw",
         late' = Only(SectorBytes(GetSector(addr)),
                      EraseBytes(SectorBytes(GetSector(addr))))
  PROVE  LateSafe'
<1> DEFINE S == SectorBytes(GetSector(addr))
<1>1. S \subseteq TouchedBytes(fw)
  BY EraseTouches
<1>2. GetSector(addr) \in DOMAIN map
  BY SectorOf DEF InRange, IInv, TypeOK
<1>3. S \subseteq DOMAIN flash
  BY <1>2, SectorBounds DEF IInv, TypeOK, MappedBytes, SectorBytes, InSector
<1>4. DOMAIN late' = S /\ \A a \in S : late'[a] = Erased
  BY <1>3 DEF Only, EraseBytes
<1>5. QED
  BY <1>1, <1>3, <1>4, ContentsDiffer DEF LateSafe

(* A command that threw may still program what it was to program. *)
LEMMA LateProgram ==
  ASSUME IInv, pc = "block", wValue < Blocks,
         UNCHANGED <<fw, flash>>, pc' = "threw",
         late' = Only(BlockBytes \cap DOMAIN flash,
                      Programmed(BlockBytes \cap DOMAIN flash))
  PROVE  LateSafe'
<1> DEFINE S == BlockBytes \cap DOMAIN flash
<1>1. ASSUME NEW a \in S
      PROVE  /\ Programmed(S)[a] = <<seg, a - fw[seg].address>>
             /\ a \in TouchedBytes(fw)
             /\ Programmed(S)[a] \in InPlace(fw, a)
             /\ Programmed(S)[a] \in Nat \X Nat
  BY ProgramContents
<1>2. DOMAIN late' = S /\ \A a \in S : late'[a] = Programmed(S)[a]
  BY DEF Only
<1>3. QED
  BY <1>1, <1>2 DEF LateSafe

(* One lemma per action: what it preserves. *)

(* Starting a segment keeps the position and what is written. *)
LEMMA StartSegmentSafe ==
  ASSUME IInv, NEW i \in Nat \ {0}, i <= Len(fw) + 1, StartSegment(i),
         UNCHANGED <<fw, bOffset, wValue, ptr, flash, runs>>, late' = Nothing,
         WellPlaced(fw) =>
           \A j \in DOMAIN fw : \A k \in 0..(fw[j].size - 1) :
             j < i => flash[fw[j].address + k] = <<j, k>>
  PROVE  IInv'
<1>1. /\ fw \in Firmwares /\ Len(fw) \in Nat /\ DOMAIN fw = 1..Len(fw)
  BY FirmwareTypes DEF IInv, TypeOK
<1>2. i <= Len(fw) => fw[i].address \in Nat
  BY <1>1, SegmentTypes
<1>3. Memory' /\ FlashTypes'
  BY MemoryUnchanged DEF IInv, Memory, FlashTypes, TypeOK
<1>4. /\ seg' = i
      /\ \/ pc' = "erase" /\ i <= Len(fw) /\ addr' = fw[i].address
         \/ pc' = "done" /\ i > Len(fw) /\ addr' = addr
  BY DEF StartSegment
<1>5. TypeOK'
  BY <1>1, <1>2, <1>3, <1>4 DEF IInv, TypeOK, FlashTypes
<1>6. Position'
  BY <1>1, <1>2, <1>4 DEF Position
<1>7. Prepared'
  <2>1. ASSUME pc' = "erase", NEW a \in DOMAIN flash
        PROVE  a \notin fw[i].address..(addr' - 1)
    BY <1>2, <1>4, <2>1
  <2>2. QED
    BY <1>4, <2>1 DEF Prepared
<1>8. Written'
  <2>1. WrittenBytes' = 0
    BY <1>4 DEF WrittenBytes
  <2>2. SUFFICES ASSUME WellPlaced(fw), NEW j \in DOMAIN fw,
                        NEW k \in 0..(fw[j].size - 1),
                        j < i \/ (j = i /\ k < 0)
                 PROVE  flash[fw[j].address + k] = <<j, k>>
    BY <1>4, <2>1 DEF Written
  <2>3. fw[j].size \in Nat
    BY <1>1, SegmentTypes
  <2>4. j < i
    BY <2>2, <2>3, <1>1
  <2>5. QED
    BY <2>2, <2>4
<1>9. QED
  BY <1>3, <1>5, <1>6, <1>7, <1>8, NothingLateSafe DEF IInv, Memory

LEMMA SendFirmwareUpgradeSafe ==
  ASSUME IInv, SendFirmwareUpgrade
  PROVE  IInv'
<1>1. fw \in Firmwares /\ Len(fw) \in Nat /\ DOMAIN fw = 1..Len(fw)
  BY FirmwareTypes DEF IInv, TypeOK
<1>2. \A j \in DOMAIN fw : ~(j < 1)
  BY <1>1
<1>3. QED
  BY <1>1, <1>2, StartSegmentSafe DEF SendFirmwareUpgrade

(* At the end of a segment all of it is written, if it is all mapped. *)
LEMMA SegmentEndSafe ==
  ASSUME IInv, SegmentEnd
  PROVE  IInv'
<1>1. /\ seg \in DOMAIN fw /\ fw \in Firmwares /\ DOMAIN fw = 1..Len(fw)
      /\ Len(fw) \in Nat
      /\ fw[seg].address \in Nat /\ fw[seg].size \in Nat /\ SegEnd \in Nat
      /\ fw[seg].address <= SegEnd => SegEnd = fw[seg].address + fw[seg].size
      /\ Span(fw, seg) = fw[seg].address..(SegEnd - 1)
  BY SegmentState, FirmwareTypes DEF IInv, SegmentEnd
<1>2. /\ pc = "setaddr" /\ addr \in Nat /\ fw[seg].address <= addr
      /\ bOffset = addr - fw[seg].address /\ ~InRange(addr, SegEnd)
  BY DEF IInv, SegmentEnd, TypeOK, Position
<1>3. ASSUME WellPlaced(fw), NEW k \in 0..(fw[seg].size - 1)
      PROVE  k < WrittenBytes
  <2>1. SegEnd = fw[seg].address + fw[seg].size
    BY <1>1, <1>3, WellPlacedByte DEF SegEnd
  <2>2. ASSUME addr < SegEnd
        PROVE  FALSE
    <3>1. addr \in Span(fw, seg)
      BY <1>1, <1>2, <2>2
    <3>2. Mapped(addr)
      BY <1>1, <1>2, <1>3, <3>1, MappedIsByte DEF WellPlaced
    <3>3. QED
      BY <1>2, <2>2, <3>2 DEF InRange
  <2>3. WrittenBytes = bOffset
    BY <1>2 DEF WrittenBytes
  <2>4. QED
    BY <1>1, <1>2, <2>1, <2>2, <2>3
<1>4. ASSUME WellPlaced(fw), NEW j \in DOMAIN fw,
             NEW k \in 0..(fw[j].size - 1), j < seg + 1
      PROVE  flash[fw[j].address + k] = <<j, k>>
  <2>1. j < seg \/ (j = seg /\ k < WrittenBytes)
    BY <1>1, <1>3, <1>4
  <2>2. QED
    BY <1>2, <1>4, <2>1 DEF IInv, Written
<1>5. seg + 1 \in Nat \ {0} /\ seg + 1 <= Len(fw) + 1
  BY <1>1
<1>6. /\ StartSegment(seg + 1) /\ UNCHANGED <<fw, bOffset, wValue, ptr, flash, runs>>
      /\ late' = Nothing
  BY NothingLate DEF SegmentEnd
<1>7. QED
  BY <1>4, <1>5, <1>6, StartSegmentSafe

(* The erase pass leaves erased all it goes over, and spares what earlier  *)
(* segments put into other sectors.                                        *)
LEMMA EraseSectorSafe ==
  ASSUME IInv, EraseSector
  PROVE  IInv'
<1> DEFINE n == GetSector(addr)
<1>1. /\ seg \in DOMAIN fw /\ fw \in Firmwares /\ DOMAIN fw = 1..Len(fw)
      /\ fw[seg].address \in Nat /\ fw[seg].size \in Nat /\ SegEnd \in Nat
      /\ Span(fw, seg) = fw[seg].address..(SegEnd - 1)
  BY SegmentState DEF IInv, EraseSector
<1>2. /\ pc = "erase" /\ addr \in Nat /\ fw[seg].address <= addr
      /\ InRange(addr, SegEnd) /\ addr < SegEnd /\ Mapped(addr)
  BY DEF IInv, EraseSector, TypeOK, Position, InRange
<1>3. /\ NBytes \in Nat /\ NBytes > 0
      /\ addr..(addr + NBytes - 1) \subseteq SectorBytes(n)
  BY <1>1, <1>2, Chunk DEF NBytes
<1>4. /\ flash' = EraseBytes(SectorBytes(n)) /\ addr' = addr + NBytes
      /\ UNCHANGED <<fw, pc, seg, bOffset, wValue, ptr, runs>>
  BY DEF EraseSector
<1> HIDE DEF n
<1>5. Memory' /\ FlashTypes'
  BY <1>2, <1>4, EraseSafe DEF n
<1>6. /\ DOMAIN flash' = DOMAIN flash
      /\ \A a \in DOMAIN flash :
           flash'[a] = IF a \in SectorBytes(n) THEN Erased ELSE flash[a]
  BY <1>4 DEF EraseBytes
<1>7. addr' \in Nat /\ fw[seg].address <= addr'
  BY <1>1, <1>2, <1>3, <1>4
<1>8. TypeOK'
  BY <1>4, <1>5, <1>7 DEF IInv, TypeOK, FlashTypes
<1>9. Position'
  BY <1>2, <1>4, <1>7 DEF Position
<1>10. Prepared'
  <2>1. ASSUME NEW a \in DOMAIN flash, a \in fw[seg].address..(addr' - 1)
        PROVE  flash'[a] = Erased
    <3>1. CASE a < addr
      <4>1. flash[a] = Erased
        BY <1>1, <1>2, <2>1, <3>1 DEF IInv, Prepared
      <4>2. QED
        BY <1>6, <4>1
    <3>2. CASE a >= addr
      <4>1. a \in addr..(addr + NBytes - 1)
        BY <1>1, <1>2, <1>3, <1>4, <2>1, <3>2
      <4>2. QED
        BY <1>3, <1>6, <4>1
    <3>3. QED
      BY <1>1, <1>2, <1>4, <1>7, <2>1, <3>1, <3>2
  <2>2. QED
    BY <1>2, <1>4, <1>6, <2>1 DEF Prepared
<1>11. Written'
  <2>1. WrittenBytes' = 0 /\ WrittenBytes = 0
    BY <1>2, <1>4 DEF WrittenBytes
  <2>2. SUFFICES ASSUME WellPlaced(fw), NEW i \in DOMAIN fw,
                        NEW k \in 0..(fw[i].size - 1),
                        i < seg \/ (i = seg /\ k < 0)
                 PROVE  flash'[fw[i].address + k] = <<i, k>>
    BY <1>2, <1>4, <2>1 DEF Written
  <2>3. i < seg /\ i # seg
    BY <2>2, <1>1, SegmentTypes
  <2>4. flash[fw[i].address + k] = <<i, k>>
    BY <1>2, <2>2, <2>3 DEF IInv, Written
  <2>5. fw[i].address + k \notin SectorBytes(n)
    <3>1. addr \in Span(fw, seg)
      BY <1>1, <1>2
    <3>2. fw[i].address + k \in Span(fw, i) /\ fw[i].address + k \in Nat
      BY <1>1, <2>2, WellPlacedByte
    <3>3. QED
      BY <1>1, <1>2, <2>2, <2>3, <3>1, <3>2, NotInSector, SMTT(20) DEF n
  <2>6. fw[i].address + k \in DOMAIN flash
    BY <1>1, <2>2, WellPlacedByte DEF IInv, TypeOK
  <2>7. QED
    BY <1>6, <2>4, <2>5, <2>6
<1>12. LateSafe'
  BY NothingLate, NothingLateSafe DEF EraseSector
<1>13. QED
  BY <1>5, <1>8, <1>9, <1>10, <1>11, <1>12 DEF IInv, Memory

(* After the erase pass all of the segment is erased - or none of it will  *)
(* be written, when it starts below the mapped memory.                     *)
LEMMA EraseEndSafe ==
  ASSUME IInv, EraseEnd
  PROVE  IInv'
<1>1. /\ seg \in DOMAIN fw /\ fw[seg].address \in Nat /\ SegEnd \in Nat
      /\ fw[seg].size \in Nat
      /\ Span(fw, seg) = fw[seg].address..(SegEnd - 1)
  BY SegmentState DEF IInv, EraseEnd
<1>2. /\ pc = "erase" /\ addr \in Nat /\ fw[seg].address <= addr
      /\ ~InRange(addr, SegEnd)
  BY DEF IInv, EraseEnd, TypeOK, Position
<1>3. /\ pc' = "setaddr" /\ bOffset' = 0 /\ addr' = fw[seg].address
      /\ UNCHANGED <<fw, seg, wValue, ptr, flash, runs>>
  BY DEF EraseEnd
<1>4. Memory' /\ FlashTypes'
  BY <1>3, MemoryUnchanged DEF IInv, Memory, FlashTypes, TypeOK
<1>5. TypeOK'
  BY <1>1, <1>2, <1>3, <1>4 DEF IInv, TypeOK, FlashTypes
<1>6. Position'
  BY <1>1, <1>3 DEF Position
<1>7. Prepared'
  <2>1. ASSUME Mapped(fw[seg].address), NEW a \in DOMAIN flash,
               a \in Span(fw, seg)
        PROVE  flash[a] = Erased
    <3>1. a \in Nat /\ fw[seg].address <= a /\ a < SegEnd
      BY <1>1, <2>1
    <3>2. Mapped(a)
      BY <2>1, <3>1, MappedIsByte DEF IInv, TypeOK
    <3>3. a < addr
      <4>1. ASSUME addr <= a
            PROVE  FALSE
        <5>1. Mapped(addr)
          BY <1>1, <1>2, <2>1, <3>1, <3>2, <4>1, NoGap
        <5>2. addr < SegEnd
          BY <1>1, <1>2, <3>1, <4>1
        <5>3. QED
          BY <1>2, <5>1, <5>2 DEF InRange
      <4>2. QED
        BY <1>2, <3>1, <4>1
    <3>4. a \in fw[seg].address..(addr - 1)
      BY <1>1, <1>2, <3>1, <3>3
    <3>5. QED
      BY <1>2, <2>1, <3>4 DEF IInv, Prepared
  <2>2. QED
    BY <1>3, <2>1 DEF Prepared
<1>8. Written'
  <2>1. WrittenBytes' = 0 /\ WrittenBytes = 0
    BY <1>2, <1>3 DEF WrittenBytes
  <2>2. QED
    BY <1>2, <1>3, <2>1 DEF IInv, Written
<1>9. LateSafe'
  BY NothingLate, NothingLateSafe DEF EraseEnd
<1>10. QED
  BY <1>4, <1>5, <1>6, <1>7, <1>8, <1>9 DEF IInv, Memory

LEMMA SetAddressSafe ==
  ASSUME IInv, SetAddress
  PROVE  IInv'
<1>1. /\ seg \in DOMAIN fw /\ fw[seg].address \in Nat /\ SegEnd \in Nat
  BY SegmentState DEF IInv, SetAddress
<1>2. /\ pc = "setaddr" /\ InRange(addr, SegEnd)
      /\ ptr' = addr /\ wValue' = 0 /\ pc' = "block"
      /\ UNCHANGED <<fw, seg, addr, bOffset, flash, runs>>
  BY DEF SetAddress
<1>3. Memory' /\ FlashTypes'
  BY <1>2, MemoryUnchanged DEF IInv, Memory, FlashTypes, TypeOK
<1>4. TypeOK'
  BY <1>2, <1>3 DEF IInv, TypeOK, FlashTypes
<1>5. Position'
  BY <1>2 DEF IInv, Position, SegEnd
<1>6. Prepared'
  BY <1>2 DEF IInv, Prepared
<1>7. Written'
  <2>1. WrittenBytes' = bOffset /\ WrittenBytes = bOffset
    BY <1>2, RadioAssumption DEF WrittenBytes, BlockOffset, IInv, TypeOK
  <2>2. QED
    BY <1>2, <2>1 DEF IInv, Written
<1>8. LateSafe'
  BY NothingLate, NothingLateSafe DEF SetAddress
<1>9. QED
  BY <1>3, <1>4, <1>5, <1>6, <1>7, <1>8 DEF IInv, Memory

(* A block puts its bytes in place and disturbs no other segment. *)
LEMMA WriteBlockSafe ==
  ASSUME IInv, WriteBlock
  PROVE  IInv'
<1>1. /\ seg \in DOMAIN fw /\ fw \in Firmwares /\ DOMAIN fw = 1..Len(fw)
      /\ fw[seg].address \in Nat /\ fw[seg].size \in Nat /\ SegEnd \in Nat
      /\ Span(fw, seg) = fw[seg].address..(SegEnd - 1)
  BY SegmentState DEF IInv, WriteBlock
<1>2. /\ pc = "block" /\ wValue < Blocks /\ BlockBytes \subseteq DOMAIN flash
      /\ flash' = Programmed(BlockBytes) /\ wValue' = wValue + 1
      /\ UNCHANGED <<fw, pc, seg, addr, bOffset, ptr, runs>>
  BY DEF WriteBlock
<1>3. /\ Memory' /\ FlashTypes'
      /\ DOMAIN flash' = DOMAIN flash
      /\ \A a \in DOMAIN flash :
           flash'[a] = IF a \in BlockBytes THEN <<seg, a - fw[seg].address>>
                       ELSE flash[a]
  BY <1>2, ProgramSafe
<1>4. /\ BlockOffset \in Nat /\ BlockLen \in Nat
      /\ BlockAddress = fw[seg].address + BlockOffset
      /\ BlockBytes \subseteq Span(fw, seg)
  BY <1>2, BlockFacts DEF IInv
<1>5. wValue \in Nat /\ bOffset \in Nat /\ TransferSize \in Nat \ {0}
  BY RadioAssumption DEF IInv, TypeOK
<1>6. TypeOK'
  BY <1>2, <1>3, <1>5 DEF IInv, TypeOK, FlashTypes
<1>7. Position'
  BY <1>2 DEF IInv, Position, SegEnd
<1>8. Prepared'
  BY <1>2, <1>3 DEF IInv, Prepared
<1>9. Written'
  <2>1. BlockOffset' = BlockOffset + TransferSize
    <3>1. TransferSize * (wValue + 1) = TransferSize * wValue + TransferSize
      BY <1>5
    <3>2. TransferSize * wValue \in Nat
      BY <1>5
    <3>3. QED
      BY <1>2, <1>5, <3>1, <3>2 DEF BlockOffset
  <2>2. WrittenBytes = BlockOffset /\ WrittenBytes' = BlockOffset + TransferSize
    BY <1>2, <2>1 DEF WrittenBytes
  <2>3. SUFFICES ASSUME WellPlaced(fw), NEW i \in DOMAIN fw,
                        NEW k \in 0..(fw[i].size - 1),
                        i < seg \/ (i = seg /\ k < BlockOffset + TransferSize)
                 PROVE  flash'[fw[i].address + k] = <<i, k>>
    BY <1>2, <2>2 DEF Written
  <2>4. /\ fw[i].address + k \in Nat /\ fw[i].address + k \in Span(fw, i)
        /\ fw[i].address + k \in DOMAIN flash
        /\ fw[i].address + k \in MappedBytes
    BY <1>1, <2>3, WellPlacedByte DEF IInv, TypeOK
  <2>5. CASE i = seg
    <3>1. CASE k < BlockOffset
      <4>1. flash[fw[i].address + k] = <<i, k>>
        BY <1>2, <2>2, <2>3, <2>5, <3>1 DEF IInv, Written
      <4>2. fw[i].address + k \notin BlockBytes
        BY <1>1, <1>4, <2>5, <3>1 DEF BlockBytes
      <4>3. QED
        BY <1>3, <2>4, <4>1, <4>2
    <3>2. CASE k >= BlockOffset
      <4>1. k \in Nat /\ k < BlockOffset + BlockLen
        BY <1>1, <1>4, <1>5, <2>3, <2>5, <3>2, SMTT(20) DEF BlockLen, Lower
      <4>2. fw[i].address + k \in BlockBytes
        BY <1>1, <1>4, <2>5, <3>2, <4>1, SMTT(20) DEF BlockBytes
      <4>3. (fw[i].address + k) - fw[seg].address = k
        BY <1>1, <2>5, <4>1
      <4>4. QED
        BY <1>3, <2>4, <2>5, <4>2, <4>3
    <3>3. QED
      BY <1>4, <3>1, <3>2
  <2>6. CASE i # seg
    <3>1. flash[fw[i].address + k] = <<i, k>>
      BY <1>2, <2>3, <2>6 DEF IInv, Written
    <3>2. fw[i].address + k \notin BlockBytes
      <4>1. ASSUME fw[i].address + k \in BlockBytes
            PROVE  FALSE
        <5>1. fw[i].address + k \in Span(fw, seg)
          BY <1>4, <4>1
        <5>2. Mapped(fw[i].address + k)
          BY <2>4, MappedIsByte
        <5>3. fw[i].address + k \notin SectorBytes(GetSector(fw[i].address + k))
          BY <1>1, <2>3, <2>4, <2>6, <5>1, <5>2, NotInSector
        <5>4. fw[i].address + k \in SectorBytes(GetSector(fw[i].address + k))
          BY <2>4, <5>2, SectorOf, SectorBounds DEF InSector, SectorBytes
        <5>5. QED
          BY <5>3, <5>4
      <4>2. QED
        BY <4>1
    <3>3. QED
      BY <1>3, <2>4, <3>1, <3>2
  <2>7. QED
    BY <2>5, <2>6
<1>10. LateSafe'
  BY NothingLate, NothingLateSafe DEF WriteBlock
<1>11. QED
  BY <1>3, <1>6, <1>7, <1>8, <1>9, <1>10 DEF IInv, Memory

LEMMA ChunkEndSafe ==
  ASSUME IInv, ChunkEnd
  PROVE  IInv'
<1>1. /\ seg \in DOMAIN fw /\ fw[seg].address \in Nat /\ SegEnd \in Nat
      /\ fw \in Firmwares
  BY SegmentState DEF IInv, ChunkEnd
<1>2. /\ pc = "block" /\ wValue >= Blocks
      /\ bOffset' = bOffset + NBytes /\ addr' = addr + NBytes
      /\ pc' = "setaddr" /\ UNCHANGED <<fw, seg, wValue, ptr, flash, runs>>
  BY DEF ChunkEnd
<1>3. /\ addr \in Nat /\ bOffset \in Nat /\ wValue \in Nat
      /\ InRange(addr, SegEnd) /\ fw[seg].address <= addr
      /\ bOffset = addr - fw[seg].address
      /\ Mapped(fw[seg].address)
      /\ TransferSize \in Nat \ {0}
  BY <1>2, RadioAssumption DEF IInv, TypeOK, Position, InRange
<1>4. NBytes \in Nat /\ NBytes > 0
  BY <1>1, <1>3, Chunk DEF NBytes
<1>5. TransferSize * wValue >= NBytes /\ TransferSize * wValue \in Nat
  BY <1>2, <1>3, <1>4, Ceiling DEF Blocks
<1>6. Memory' /\ FlashTypes'
  BY <1>2, MemoryUnchanged DEF IInv, Memory, FlashTypes, TypeOK
<1>7. TypeOK'
  BY <1>2, <1>3, <1>4, <1>6 DEF IInv, TypeOK, FlashTypes
<1>8. Position'
  <2>1. bOffset' = addr' - fw[seg].address /\ fw[seg].address <= addr'
    BY <1>1, <1>2, <1>3, <1>4
  <2>2. QED
    BY <1>2, <1>3, <2>1 DEF Position
<1>9. Prepared'
  BY <1>2 DEF IInv, Prepared
<1>10. Written'
  <2>1. WrittenBytes \in Nat /\ WrittenBytes' \in Nat /\ WrittenBytes' <= WrittenBytes
    BY <1>2, <1>3, <1>4, <1>5 DEF WrittenBytes, BlockOffset
  <2>2. SUFFICES ASSUME WellPlaced(fw), NEW i \in DOMAIN fw,
                        NEW k \in 0..(fw[i].size - 1),
                        i < seg \/ (i = seg /\ k < WrittenBytes')
                 PROVE  flash[fw[i].address + k] = <<i, k>>
    BY <1>2 DEF Written
  <2>3. k \in Nat
    BY <1>1, <2>2, SegmentTypes
  <2>4. i < seg \/ (i = seg /\ k < WrittenBytes)
    BY <2>1, <2>2, <2>3
  <2>5. QED
    BY <1>2, <2>2, <2>4 DEF IInv, Written
<1>11. LateSafe'
  BY NothingLate, NothingLateSafe DEF ChunkEnd
<1>12. QED
  BY <1>6, <1>7, <1>8, <1>9, <1>10, <1>11 DEF IInv, Memory

(* A command that throws ends the update: only the memory matters then. *)
LEMMA StoppedIsSafe ==
  ASSUME IInv, Memory', FlashTypes', LateSafe', Stop, ptr' \in Nat
  PROVE  IInv'
<1>1. pc' = "threw" /\ UNCHANGED <<fw, seg, addr, bOffset, wValue, runs>>
  BY DEF Stop
<1>2. TypeOK'
  BY <1>1 DEF IInv, TypeOK, FlashTypes
<1>3. Position' /\ Prepared' /\ Written'
  BY <1>1 DEF Position, Prepared, Written
<1>4. QED
  BY <1>2, <1>3 DEF IInv, Memory

LEMMA ThrowsSafe ==
  ASSUME IInv, Throws
  PROVE  IInv'
<1>1. Memory /\ FlashTypes /\ ptr \in Nat /\ addr \in Nat
  BY DEF IInv, TypeOK, Memory, FlashTypes
<1>2. CASE UpgradeThrows
  <2>1. LateSafe'
    BY <1>2 DEF UpgradeThrows, Stop, IInv, LateSafe, Nothing
  <2>2. QED
    BY <1>1, <1>2, <2>1, MemoryUnchanged, StoppedIsSafe DEF UpgradeThrows, Stop
<1>3. CASE SetAddressThrows
  <2>1. LateSafe'
    BY <1>3, NothingLate, NothingLateSafe DEF SetAddressThrows
  <2>2. QED
    BY <1>1, <1>3, <2>1, MemoryUnchanged, StoppedIsSafe DEF SetAddressThrows, Stop
<1>4. CASE EraseThrows
  <2> DEFINE All == SectorBytes(GetSector(addr))
  <2>1. \/ (\E S \in SUBSET All : flash' = EraseBytes(S)) /\ late' = Nothing
        \/ late' = Only(All, EraseBytes(All)) /\ UNCHANGED flash
    BY <1>4 DEF EraseThrows
  <2>2. /\ pc = "erase" /\ InRange(addr, SegEnd) /\ Stop /\ ptr' = ptr
        /\ pc' = "threw" /\ fw' = fw
    BY <1>4 DEF EraseThrows, Stop
  <2>3. ASSUME NEW S \in SUBSET All, flash' = EraseBytes(S), late' = Nothing
        PROVE  IInv'
    BY <1>1, <2>2, <2>3, EraseSafe, NothingLateSafe, StoppedIsSafe
  <2>4. CASE late' = Only(All, EraseBytes(All)) /\ UNCHANGED flash
    BY <1>1, <2>2, <2>4, MemoryUnchanged, LateErase, StoppedIsSafe
  <2>5. QED
    BY <2>1, <2>3, <2>4
<1>5. CASE BlockThrows
  <2> DEFINE All == BlockBytes \cap DOMAIN flash
  <2>1. \/ (\E S \in SUBSET All : flash' = Programmed(S)) /\ late' = Nothing
        \/ late' = Only(All, Programmed(All)) /\ UNCHANGED flash
    BY <1>5 DEF BlockThrows
  <2>2. /\ pc = "block" /\ wValue < Blocks /\ Stop /\ ptr' = ptr
        /\ pc' = "threw" /\ fw' = fw
    BY <1>5 DEF BlockThrows, Stop
  <2>3. ASSUME NEW S \in SUBSET All, flash' = Programmed(S), late' = Nothing
        PROVE  IInv'
    BY <1>1, <2>2, <2>3, ProgramSafe, NothingLateSafe, StoppedIsSafe
  <2>4. CASE late' = Only(All, Programmed(All)) /\ UNCHANGED flash
    BY <1>1, <2>2, <2>4, MemoryUnchanged, LateProgram, StoppedIsSafe
  <2>5. QED
    BY <2>1, <2>3, <2>4
<1>6. QED
  BY <1>2, <1>3, <1>4, <1>5 DEF Throws

(* The radio goes on with the command that threw: nothing it may still do  *)
(* is out of place.                                                        *)
LEMMA LateEffectSafe ==
  ASSUME IInv, LateEffect
  PROVE  IInv'
<1>1. /\ pc \in {"threw", "upgrade"} /\ late' = Nothing
      /\ UNCHANGED <<fw, pc, seg, addr, bOffset, wValue, ptr, runs>>
  BY DEF LateEffect
<1>2. \A a \in DOMAIN late : /\ a \in TouchedBytes(fw)
                            /\ late[a] \in {Erased} \cup InPlace(fw, a)
                            /\ late[a] \in Nat \X Nat
  BY DEF IInv, LateSafe, LateEffect
<1>3. PICK S \in SUBSET DOMAIN late :
        /\ DOMAIN flash' = DOMAIN flash
        /\ \A a \in DOMAIN flash :
             flash'[a] = IF a \in S THEN late[a] ELSE flash[a]
  BY DEF LateEffect
<1>4. FlashTypes'
  BY <1>1, <1>2, <1>3 DEF FlashTypes, IInv, TypeOK
<1>5. ProgrammedInPlace'
  BY <1>1, <1>2, <1>3, ContentsDiffer DEF IInv, ProgrammedInPlace
<1>6. NeverGarbled'
  <2>1. ASSUME NEW a \in DOMAIN late
        PROVE  late[a] # Garbled
    <3>1. CASE late[a] = Erased
      BY <3>1, ContentsDiffer
    <3>2. CASE late[a] \in InPlace(fw, a)
      <4>1. PICK i \in DOMAIN fw : late[a][1] = i
        BY <3>2 DEF InPlace
      <4>2. fw \in Firmwares /\ DOMAIN fw = 1..Len(fw) /\ Len(fw) \in Nat
        BY FirmwareTypes DEF IInv, TypeOK
      <4>3. QED
        BY <4>1, <4>2, ContentsDiffer
    <3>3. QED
      BY <1>2, <3>1, <3>2
  <2>2. QED
    BY <1>1, <1>3, <2>1 DEF IInv, NeverGarbled
<1>7. Footprint'
  BY <1>1, <1>2, <1>3 DEF IInv, Footprint
<1>8. TypeOK'
  BY <1>1, <1>4 DEF IInv, TypeOK, FlashTypes
<1>9. Position' /\ Prepared' /\ Written'
  BY <1>1 DEF IInv, Position, Prepared, Written
<1>10. QED
  BY <1>1, <1>5, <1>6, <1>7, <1>8, <1>9, NothingLateSafe DEF IInv

LEMMA RerunSafe ==
  ASSUME IInv, Rerun
  PROVE  IInv'
<1>1. /\ pc' = "upgrade" /\ seg' = 1 /\ addr' = 0 /\ bOffset' = 0 /\ wValue' = 0
      /\ ptr' \in {ptr, 0} /\ late' \in {late, Nothing}
      /\ runs' = runs + 1 /\ UNCHANGED <<fw, flash>>
  BY DEF Rerun
<1>2. Memory' /\ FlashTypes'
  BY <1>1, MemoryUnchanged DEF IInv, Memory, FlashTypes, TypeOK
<1>3. TypeOK'
  BY <1>1, <1>2, FirmwareTypes DEF IInv, TypeOK, FlashTypes
<1>4. Position' /\ Prepared' /\ Written'
  BY <1>1 DEF Position, Prepared, Written
<1>5. LateSafe'
  BY <1>1 DEF IInv, LateSafe, Nothing
<1>6. QED
  BY <1>2, <1>3, <1>4, <1>5 DEF IInv, Memory

LEMMA InitSafe ==
  ASSUME Init
  PROVE  IInv
<1>1. /\ fw \in Firmwares /\ pc = "upgrade" /\ seg = 1 /\ addr = 0
      /\ bOffset = 0 /\ wValue = 0 /\ ptr = 0 /\ runs = 1
      /\ flash = [a \in MappedBytes |-> Old] /\ late = Nothing
  BY DEF Init
<1>2. Len(fw) \in Nat
  BY <1>1, FirmwareTypes
<1>3. TypeOK
  BY <1>1, <1>2, ContentsDiffer DEF TypeOK
<1>4. Position /\ Prepared /\ Written
  BY <1>1 DEF Position, Prepared, Written
<1>5. ProgrammedInPlace /\ NeverGarbled /\ Footprint
  BY <1>1, ContentsDiffer DEF ProgrammedInPlace, NeverGarbled, Footprint
<1>6. LateSafe
  BY <1>1 DEF LateSafe
<1>7. QED
  BY <1>3, <1>4, <1>5, <1>6 DEF IInv

LEMMA StutterSafe ==
  ASSUME IInv, UNCHANGED vars
  PROVE  IInv'
  BY DEF vars, IInv, TypeOK, Position, Prepared, Written, WrittenBytes,
         BlockOffset, SegEnd, ProgrammedInPlace, NeverGarbled, Footprint,
         LateSafe, Nothing

(* An update that ended well wrote all of a well placed firmware. *)
LEMMA CompleteWhenDone == IInv => DoneMeansFlashed
<1>1. SUFFICES ASSUME IInv, pc = "done", WellPlaced(fw),
                      NEW i \in DOMAIN fw, NEW k \in 0..(fw[i].size - 1)
               PROVE  /\ fw[i].address + k \in DOMAIN flash
                      /\ flash[fw[i].address + k] = <<i, k>>
  BY DEF Complete, DoneMeansFlashed
<1>2. fw \in Firmwares /\ DOMAIN fw = 1..Len(fw) /\ Len(fw) \in Nat
  BY <1>1, FirmwareTypes DEF IInv, TypeOK
<1>3. i < seg
  BY <1>1, <1>2 DEF IInv, Position
<1>4. fw[i].address + k \in DOMAIN flash
  BY <1>1, <1>2, WellPlacedByte DEF IInv, TypeOK
<1>5. QED
  BY <1>1, <1>3, <1>4 DEF IInv, Written

-----------------------------------------------------------------------------
(***************************************************************************)
(* Between any two commands of any number of updates of TYTRadio::         *)
(* WriteFirmware, wherever they break off, the invariant holds.            *)
(***************************************************************************)
THEOREM Invariance == Spec => []IInv
<1>1. Init => IInv
  BY InitSafe
<1>2. IInv /\ [Next]_vars => IInv'
  <2>1. SUFFICES ASSUME IInv, [Next]_vars PROVE IInv'
    OBVIOUS
  <2>2. CASE SendFirmwareUpgrade BY <2>1, <2>2, SendFirmwareUpgradeSafe
  <2>3. CASE EraseSector BY <2>1, <2>3, EraseSectorSafe
  <2>4. CASE EraseEnd BY <2>1, <2>4, EraseEndSafe
  <2>5. CASE SetAddress BY <2>1, <2>5, SetAddressSafe
  <2>6. CASE WriteBlock BY <2>1, <2>6, WriteBlockSafe
  <2>7. CASE ChunkEnd BY <2>1, <2>7, ChunkEndSafe
  <2>8. CASE SegmentEnd BY <2>1, <2>8, SegmentEndSafe
  <2>9. CASE Throws BY <2>1, <2>9, ThrowsSafe
  <2>10. CASE Rerun BY <2>1, <2>10, RerunSafe
  <2>11. CASE UNCHANGED vars BY <2>1, <2>11, StutterSafe
  <2>15. CASE LateEffect BY <2>1, <2>15, LateEffectSafe
  <2>12. Proceeds \/ Throws \/ LateEffect \/ Rerun \/ UNCHANGED vars
    BY <2>1 DEF Next, WriteFirmware
  <2>13. CASE Proceeds
    BY <2>13, <2>2, <2>3, <2>4, <2>5, <2>6, <2>7, <2>8 DEF Proceeds
  <2>14. QED
    BY <2>9, <2>10, <2>11, <2>12, <2>13, <2>15
<1>3. QED
  BY <1>1, <1>2, PTL DEF Spec

(* The variables of WriteFirmware keep their types. *)
THEOREM Types == Spec => []TypeOK
<1>1. IInv => TypeOK
  BY DEF IInv
<1>2. QED
  BY <1>1, Invariance, PTL

(***************************************************************************)
(* For every map, firmware and transfer size: bytes of the firmware are    *)
(* only ever at their own address.                                         *)
(***************************************************************************)
THEOREM InPlaceAlways == Spec => []ProgrammedInPlace
<1>1. IInv => ProgrammedInPlace
  BY DEF IInv
<1>2. QED
  BY <1>1, Invariance, PTL

(* No byte is ever programmed over one that is not erased. *)
THEOREM NothingGarbled == Spec => []NeverGarbled
<1>1. IInv => NeverGarbled
  BY DEF IInv
<1>2. QED
  BY <1>1, Invariance, PTL

(* The sectors of the boot loader, and all no segment reaches, are kept. *)
THEOREM FootprintKept == Spec => []Footprint
<1>1. IInv => Footprint
  BY DEF IInv
<1>2. QED
  BY <1>1, Invariance, PTL

(* The iterators into r.data stay inside it. *)
THEOREM BlocksInBounds == Spec => []BlockInBounds
<1>1. IInv => BlockInBounds
  BY BlockFacts DEF IInv, BlockInBounds
<1>2. QED
  BY <1>1, Invariance, PTL

(***************************************************************************)
(* When WriteFirmware returns without an error, a well placed firmware is  *)
(* in the flash byte for byte.                                             *)
(***************************************************************************)
THEOREM DoneIsFlashed == Spec => []DoneMeansFlashed
  BY CompleteWhenDone, Invariance, PTL
-----------------------------------------------------------------------------
(* FlashUpdate's copies of the layout operators are the same operators. *)
LEMMA PromiseLayout ==
  /\ Promise!Erased = Erased /\ Promise!Old = Old
  /\ Promise!MappedBytes = MappedBytes
  /\ \A f, a : Promise!InPlace(f, a) = InPlace(f, a)
  /\ \A f : Promise!TouchedBytes(f) = TouchedBytes(f)
  /\ \A f : Promise!WellPlaced(f) <=> WellPlaced(f)
  /\ \A f, m : Promise!Complete(f, m) <=> Complete(f, m)
  BY DEF Promise!Erased, Promise!Old, Promise!MappedBytes, Promise!InPlace,
         Promise!TouchedBytes, Promise!Touched, Promise!WellPlaced,
         Promise!Complete, Promise!Span, Promise!WrapAdd, Promise!GetSector,
         Promise!SectorBytes, Promise!InSector, Promise!End,
         Erased, Old, MappedBytes, InPlace, TouchedBytes, Touched, WellPlaced,
         Complete, Span, WrapAdd, GetSector, SectorBytes, InSector, End

(* Commands that leave the flash alone, while the update runs. *)
LEMMA QuietStep ==
  ASSUME UNCHANGED <<fw, flash>>, result' = result
  PROVE  UNCHANGED Promise!vars
  BY DEF Promise!vars

(* Erasing a sector, or a part of it. *)
LEMMA EraseProgress ==
  ASSUME IInv, pc = "erase", InRange(addr, SegEnd),
         NEW S \in SUBSET SectorBytes(GetSector(addr)), flash' = EraseBytes(S)
  PROVE  Promise!Progress
<1>1. S \subseteq TouchedBytes(fw)
  BY EraseTouches
<1>2. /\ DOMAIN flash' = DOMAIN flash
      /\ \A a \in DOMAIN flash : flash'[a] = IF a \in S THEN Erased ELSE flash[a]
  BY DEF EraseBytes
<1>3. QED
  BY <1>1, <1>2, PromiseLayout DEF Promise!Progress

(* Programming a block, or a part of it. *)
LEMMA BlockProgress ==
  ASSUME IInv, pc = "block", wValue < Blocks,
         NEW S \in SUBSET (BlockBytes \cap DOMAIN flash),
         flash' = Programmed(S), fw' = fw
  PROVE  Promise!Progress
<1>1. /\ Memory' /\ DOMAIN flash' = DOMAIN flash
      /\ \A a \in DOMAIN flash :
           flash'[a] = IF a \in S THEN <<seg, a - fw[seg].address>> ELSE flash[a]
  BY ProgramSafe
<1>2. seg # 0
  BY DEF IInv, TypeOK
<1>3. ASSUME NEW a \in DOMAIN flash, a \in S
      PROVE  flash'[a] \in InPlace(fw, a)
  BY <1>1, <1>2, <1>3 DEF Memory, ProgrammedInPlace
<1>4. QED
  BY <1>1, <1>3, PromiseLayout DEF Promise!Progress

(* What is left of a command that threw. *)
LEMMA LateProgress ==
  ASSUME IInv, LateEffect
  PROVE  Promise!Progress
<1>1. \A a \in DOMAIN late : /\ a \in TouchedBytes(fw)
                            /\ late[a] \in {Erased} \cup InPlace(fw, a)
  BY DEF IInv, LateSafe, LateEffect
<1>2. PICK S \in SUBSET DOMAIN late :
        /\ DOMAIN flash' = DOMAIN flash
        /\ \A a \in DOMAIN flash :
             flash'[a] = IF a \in S THEN late[a] ELSE flash[a]
  BY DEF LateEffect
<1>3. QED
  BY <1>1, <1>2, PromiseLayout DEF Promise!Progress

(* StartSegment moves on, or ends the update with all in place. *)
LEMMA StartProgress ==
  ASSUME pc \in {"upgrade", "setaddr"}, NEW i \in Nat, StartSegment(i),
         UNCHANGED <<fw, flash>>,
         DoneMeansFlashed'
  PROVE  Promise!Next \/ UNCHANGED Promise!vars
<1>1. CASE pc' = "erase"
  BY <1>1, QuietStep DEF result
<1>2. CASE pc' = "done"
  <2>1. WellPlaced(fw) => Complete(fw, flash)
    BY <1>2 DEF DoneMeansFlashed
  <2>2. Promise!Succeed
    BY <1>2, <2>1, PromiseLayout DEF Promise!Succeed, result
  <2>3. QED
    BY <2>2 DEF Promise!Next
<1>3. QED
  BY <1>1, <1>2 DEF StartSegment

(* A command that throws throws in the promise. *)
LEMMA ThrowPromised ==
  ASSUME Promise!Progress, Stop, pc \in {"upgrade", "erase", "setaddr", "block"}
  PROVE  Promise!Next
  BY DEF Stop, result, Promise!Throw, Promise!Next

LEMMA NoProgress ==
  ASSUME UNCHANGED flash
  PROVE  Promise!Progress
  BY DEF Promise!Progress

(***************************************************************************)
(* TYTRadio::WriteFirmware, retried as often as the user likes, keeps what *)
(* FlashUpdate promises: every step is a step of the promise or none.      *)
(***************************************************************************)
THEOREM PromiseKept == Spec => KeepsPromise
<1>1. Init => Promise!Init
  BY PromiseLayout DEF Init, Promise!Init, result
<1>2. IInv => DoneMeansFlashed
  BY CompleteWhenDone
<1>3. IInv /\ DoneMeansFlashed' /\ [Next]_vars => [Promise!Next]_(Promise!vars)
  <2>1. SUFFICES ASSUME IInv, Next,
                        DoneMeansFlashed'
                 PROVE  Promise!Next \/ UNCHANGED Promise!vars
    BY DEF vars, Promise!vars, result
  <2>2. CASE SendFirmwareUpgrade
    BY <2>1, <2>2, StartProgress DEF SendFirmwareUpgrade
  <2>3. CASE SegmentEnd
    <3>1. seg + 1 \in Nat
      BY <2>1, <2>3 DEF IInv, TypeOK
    <3>2. QED
      BY <2>1, <2>3, <3>1, StartProgress DEF SegmentEnd
  <2>4. CASE EraseSector
    <3>1. Promise!Progress
      BY <2>1, <2>4, EraseProgress DEF EraseSector
    <3>2. Promise!Work
      BY <2>4, <3>1 DEF EraseSector, Promise!Work, result
    <3>3. QED
      BY <3>2 DEF Promise!Next
  <2>5. CASE WriteBlock
    <3>1. Promise!Progress
      BY <2>1, <2>5, BlockProgress DEF WriteBlock
    <3>2. Promise!Work
      BY <2>5, <3>1 DEF WriteBlock, Promise!Work, result
    <3>3. QED
      BY <3>2 DEF Promise!Next
  <2>6. CASE EraseEnd \/ SetAddress \/ ChunkEnd
    BY <2>6, QuietStep DEF EraseEnd, SetAddress, ChunkEnd, result
  <2>7. CASE Throws
    <3>1. Promise!Progress
      <4>1. CASE UpgradeThrows \/ SetAddressThrows
        BY <4>1, NoProgress DEF UpgradeThrows, SetAddressThrows
      <4>2. CASE EraseThrows
        BY <2>1, <4>2, EraseProgress, NoProgress DEF EraseThrows
      <4>3. CASE BlockThrows
        BY <2>1, <4>3, BlockProgress, NoProgress DEF BlockThrows, Stop
      <4>4. QED
        BY <2>7, <4>1, <4>2, <4>3 DEF Throws
    <3>2. Stop /\ pc \in {"upgrade", "erase", "setaddr", "block"}
      BY <2>7 DEF Throws, UpgradeThrows, EraseThrows, SetAddressThrows, BlockThrows
    <3>3. QED
      BY <3>1, <3>2, ThrowPromised
  <2>8. CASE Rerun
    BY <2>8 DEF Rerun, result, Promise!Retry, Promise!Next
  <2>12. CASE LateEffect
    <3>1. Promise!Progress
      BY <2>1, <2>12, LateProgress
    <3>2. Promise!Work
      BY <2>12, <3>1 DEF LateEffect, Promise!Work, result
    <3>3. QED
      BY <3>2 DEF Promise!Next
  <2>9. Proceeds \/ Throws \/ LateEffect \/ Rerun
    BY <2>1 DEF Next, WriteFirmware
  <2>10. CASE Proceeds
    BY <2>10, <2>2, <2>3, <2>4, <2>5, <2>6 DEF Proceeds
  <2>11. QED
    BY <2>7, <2>8, <2>9, <2>10, <2>12
<1>4. QED
  BY <1>1, <1>2, <1>3, Invariance, PTL DEF Spec, KeepsPromise, Promise!Spec
=============================================================================

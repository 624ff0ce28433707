------------------------------ MODULE TYTRadio ------------------------------
(***************************************************************************)
(* TYTRadio::WriteFirmware (src/tyt_radio.cpp): for every segment of the   *)
(* firmware, erase the sectors it spans, then send it sector by sector in  *)
(* blocks of TransferSize bytes behind an address pointer the radio keeps. *)
(*                                                                         *)
(* Each DFU command is one step here: it completes, or it throws and any   *)
(* part of its effect may have happened, or may still happen until the     *)
(* next command reaches the radio (TYTOverChannel.tla shows that this is   *)
(* what DFU provides).  The user may start the update again.               *)
(***************************************************************************)
EXTENDS FirmwareLayout

CONSTANTS
  TransferSize,  \* constexpr TransferSize (1024 in the code)
  MaxRuns        \* bound: how many times the user starts the update

VARIABLES
  fw,       \* the firmware file: its data segments
  pc,       \* the next thing WriteFirmware does, or how it ended
  seg,      \* which segment r is
  addr,     \* addr of AlignedContiguousMemoryOp
  bOffset,  \* b_offset
  wValue,   \* wValue, the block within a chunk
  ptr,      \* in the radio: the address pointer SetAddress sets
  flash,    \* in the radio: address -> content
  late,     \* in the radio: what a command that threw may still do
  runs      \* how many times the update was started

vars == <<fw, pc, seg, addr, bOffset, wValue, ptr, flash, late, runs>>

ASSUME RadioAssumption == TransferSize \in Nat \ {0} /\ MaxRuns \in Nat

-----------------------------------------------------------------------------
SegEnd == WrapAdd(fw[seg].address, fw[seg].size)

NBytes == ChunkSize(addr, SegEnd)

(* Mutant: the number of blocks is rounded down. *)
BlocksRoundedDown == NBytes \div TransferSize

(* ceil(size / TransferSize) *)
Blocks == (NBytes + TransferSize - 1) \div TransferSize

(* Mutant: every chunk starts over at the start of the data. *)
BlockOffsetInChunk == TransferSize * wValue

BlockOffset == bOffset + TransferSize * wValue

BlockLen == Lower(TransferSize, fw[seg].size - BlockOffset)

BlockNum == 2 + wValue

(* The radio's side: block n goes (n - 2) transfers behind the pointer. *)
BlockAddress == ptr + TransferSize * (BlockNum - 2)

BlockBytes == BlockAddress..(BlockAddress + BlockLen - 1)

(* The byte of r.data that the block carries to address a. *)
ByteFor(a) == <<seg, BlockOffset + (a - BlockAddress)>>

(* Erasing, and programming, the bytes of S. *)
EraseBytes(S) == [a \in DOMAIN flash |-> IF a \in S THEN Erased ELSE flash[a]]

Programmed(S) ==
  [a \in DOMAIN flash |->
     IF a \notin S THEN flash[a]
     ELSE IF flash[a] \in {Erased, ByteFor(a)} THEN ByteFor(a) ELSE Garbled]

(* Nothing left to do; and the contents that the bytes of S are to get. *)
Nothing == [a \in {} |-> Erased]

Only(S, contents) == [a \in S |-> contents[a]]

-----------------------------------------------------------------------------
Init ==
  /\ fw \in Firmwares
  /\ pc = "upgrade"
  /\ seg = 1
  /\ addr = 0
  /\ bOffset = 0
  /\ wValue = 0
  /\ ptr = 0
  /\ flash = [a \in MappedBytes |-> Old]
  /\ late = Nothing
  /\ runs = 1

(* The head of the loop over the segments. *)
StartSegment(i) ==
  /\ seg' = i
  /\ \/ /\ i <= Len(fw)
        /\ pc' = "erase"
        /\ addr' = fw[i].address
     \/ /\ i > Len(fw)
        /\ pc' = "done"
        /\ addr' = addr

SendFirmwareUpgrade ==
  /\ pc = "upgrade"
  /\ StartSegment(1)
  /\ late' = Nothing
  /\ UNCHANGED <<fw, bOffset, wValue, ptr, flash, runs>>

(* Mutant: only the first sector of a segment is erased. *)
EraseFirstSector ==
  /\ pc = "erase"
  /\ InRange(addr, SegEnd)
  /\ flash' = EraseBytes(SectorBytes(GetSector(addr)))
  /\ addr' = SegEnd
  /\ UNCHANGED <<fw, pc, seg, bOffset, wValue, ptr, late, runs>>

(* Mutant: the loop does not advance. *)
EraseSectorInPlace ==
  /\ pc = "erase"
  /\ InRange(addr, SegEnd)
  /\ flash' = EraseBytes(SectorBytes(GetSector(addr)))
  /\ addr' = addr
  /\ UNCHANGED <<fw, pc, seg, bOffset, wValue, ptr, late, runs>>

(* The erase pass: the radio erases the whole sector that holds addr. *)
EraseSector ==
  /\ pc = "erase"
  /\ InRange(addr, SegEnd)
  /\ flash' = EraseBytes(SectorBytes(GetSector(addr)))
  /\ addr' = addr + NBytes
  /\ UNCHANGED <<fw, pc, seg, bOffset, wValue, ptr, late, runs>>

(* Mutant: b_offset is not reset for the next segment. *)
EraseEndKeepsOffset ==
  /\ pc = "erase"
  /\ ~InRange(addr, SegEnd)
  /\ pc' = "setaddr"
  /\ bOffset' = bOffset
  /\ addr' = fw[seg].address
  /\ UNCHANGED <<fw, seg, wValue, ptr, flash, late, runs>>

EraseEnd ==
  /\ pc = "erase"
  /\ ~InRange(addr, SegEnd)
  /\ pc' = "setaddr"
  /\ bOffset' = 0
  /\ addr' = fw[seg].address
  /\ UNCHANGED <<fw, seg, wValue, ptr, flash, late, runs>>

(* The write pass: one chunk per sector, a pointer and then blocks. *)
SetAddress ==
  /\ pc = "setaddr"
  /\ InRange(addr, SegEnd)
  /\ ptr' = addr
  /\ wValue' = 0
  /\ pc' = "block"
  /\ UNCHANGED <<fw, seg, addr, bOffset, flash, late, runs>>

(* The radio takes a block only if all of it falls in mapped memory. *)
WriteBlock ==
  /\ pc = "block"
  /\ wValue < Blocks
  /\ BlockBytes \subseteq DOMAIN flash
  /\ flash' = Programmed(BlockBytes)
  /\ wValue' = wValue + 1
  /\ UNCHANGED <<fw, pc, seg, addr, bOffset, ptr, late, runs>>

(* Mutant: b_offset does not move on with the chunk. *)
ChunkEndKeepsOffset ==
  /\ pc = "block"
  /\ wValue >= Blocks
  /\ bOffset' = bOffset
  /\ addr' = addr + NBytes
  /\ pc' = "setaddr"
  /\ UNCHANGED <<fw, seg, wValue, ptr, flash, late, runs>>

ChunkEnd ==
  /\ pc = "block"
  /\ wValue >= Blocks
  /\ bOffset' = bOffset + NBytes
  /\ addr' = addr + NBytes
  /\ pc' = "setaddr"
  /\ UNCHANGED <<fw, seg, wValue, ptr, flash, late, runs>>

SegmentEnd ==
  /\ pc = "setaddr"
  /\ ~InRange(addr, SegEnd)
  /\ StartSegment(seg + 1)
  /\ UNCHANGED <<fw, bOffset, wValue, ptr, flash, late, runs>>

(***************************************************************************)
(* DFU::Download throws: nothing in WriteFirmware catches it.  The command *)
(* may have taken effect on some of the bytes it was about, or the radio   *)
(* is still busy with it.                                                  *)
(***************************************************************************)
Stop == pc' = "threw" /\ UNCHANGED <<fw, seg, addr, bOffset, wValue, runs>>

UpgradeThrows ==
  /\ pc = "upgrade"
  /\ late' \in {late, Nothing}
  /\ Stop
  /\ UNCHANGED <<ptr, flash>>

EraseThrows ==
  /\ pc = "erase"
  /\ InRange(addr, SegEnd)
  /\ \/ /\ \E S \in SUBSET SectorBytes(GetSector(addr)) : flash' = EraseBytes(S)
        /\ late' = Nothing
     \/ /\ late' = Only(SectorBytes(GetSector(addr)),
                        EraseBytes(SectorBytes(GetSector(addr))))
        /\ UNCHANGED flash
  /\ Stop
  /\ UNCHANGED ptr

SetAddressThrows ==
  /\ pc = "setaddr"
  /\ InRange(addr, SegEnd)
  /\ ptr' \in {ptr, addr}
  /\ Stop
  /\ UNCHANGED <<flash, late>>

BlockThrows ==
  /\ pc = "block"
  /\ wValue < Blocks
  /\ \/ /\ \E S \in SUBSET (BlockBytes \cap DOMAIN flash) : flash' = Programmed(S)
        /\ late' = Nothing
     \/ /\ late' = Only(BlockBytes \cap DOMAIN flash,
                        Programmed(BlockBytes \cap DOMAIN flash))
        /\ UNCHANGED flash
  /\ Stop
  /\ UNCHANGED ptr

(* The radio goes on with the command that threw, to its end or not. *)
LateEffect ==
  /\ pc \in {"threw", "upgrade"}
  /\ late # Nothing
  /\ \E S \in SUBSET DOMAIN late :
       flash' = [a \in DOMAIN flash |-> IF a \in S THEN late[a] ELSE flash[a]]
  /\ late' = Nothing
  /\ UNCHANGED <<fw, pc, seg, addr, bOffset, wValue, ptr, runs>>

(* The user starts the update again, with the radio as it was left, or     *)
(* switched off and on.                                                    *)
Rerun ==
  /\ pc \in {"threw", "done"}
  /\ runs < MaxRuns
  /\ runs' = runs + 1
  /\ pc' = "upgrade"
  /\ seg' = 1 /\ addr' = 0 /\ bOffset' = 0 /\ wValue' = 0
  /\ \/ UNCHANGED <<ptr, late>>
     \/ ptr' = 0 /\ late' = Nothing
  /\ UNCHANGED <<fw, flash>>

Throws == UpgradeThrows \/ EraseThrows \/ SetAddressThrows \/ BlockThrows

Proceeds ==
  \/ SendFirmwareUpgrade
  \/ EraseSector
  \/ EraseEnd
  \/ SetAddress
  \/ WriteBlock
  \/ ChunkEnd
  \/ SegmentEnd

WriteFirmware == Proceeds \/ Throws

Next == WriteFirmware \/ LateEffect \/ Rerun

Spec == Init /\ [][Next]_vars

(* The radio does not take a block that leaves its memory. *)
BlockRefused == BlockThrows /\ ~(BlockBytes \subseteq DOMAIN flash)

(***************************************************************************)
(* The host runs on, one thread whose transfers have a time limit.  There  *)
(* is no fairness of errors: nothing says that the link ever fails.        *)
(***************************************************************************)
FairSpec == Spec /\ WF_vars(Proceeds \/ BlockRefused)

-----------------------------------------------------------------------------
(* Refinement mapping: the update as its owner sees it. *)
result == IF pc \in {"threw", "done"} THEN pc ELSE "running"

Promise == INSTANCE FlashUpdate WITH result <- result

(* Types of the variables: the states WriteFirmware can be in. *)
TypeOK ==
  /\ fw \in Firmwares
  /\ pc \in {"upgrade", "erase", "setaddr", "block", "threw", "done"}
  /\ seg \in 1..(Len(fw) + 1)
  /\ pc \in {"erase", "setaddr", "block"} => seg <= Len(fw)
  /\ addr \in Nat
  /\ bOffset \in Nat
  /\ wValue \in Nat
  /\ ptr \in Nat
  /\ DOMAIN flash = MappedBytes
  /\ \A a \in MappedBytes : flash[a] \in Nat \X Nat
  /\ runs \in Nat

(***************************************************************************)
(* Whatever happened before - retries, failed commands, a pointer left by  *)
(* an earlier run - a byte of the firmware in the flash is at the address  *)
(* its segment gives it.  The host never sends that address: it is the     *)
(* pointer of the last SetAddress, the block number and the offset into    *)
(* r.data that have to agree.                                              *)
(***************************************************************************)
ProgrammedInPlace ==
  \A a \in DOMAIN flash :
    flash[a][1] # 0 => flash[a] \in InPlace(fw, a)

(***************************************************************************)
(* No byte is programmed while it still holds something else: the erase    *)
(* pass of a segment covers all the write pass touches, including the tail *)
(* of a block that runs past the end of its sector.                        *)
(***************************************************************************)
NeverGarbled == \A a \in DOMAIN flash : flash[a] # Garbled

(***************************************************************************)
(* Sectors no segment reaches - the boot loader's - keep what they held,   *)
(* also when an update breaks off.                                         *)
(***************************************************************************)
Footprint ==
  \A a \in DOMAIN flash \ TouchedBytes(fw) : flash[a] = Old

(***************************************************************************)
(* While blocks are sent, the iterators WriteFirmware forms into r.data    *)
(* stay inside it and no block is empty.                                   *)
(***************************************************************************)
BlockInBounds ==
  pc = "block" /\ wValue < Blocks =>
    BlockLen > 0 /\ BlockOffset + BlockLen <= fw[seg].size

(***************************************************************************)
(* WriteFirmware returns without an error only when every byte of a well   *)
(* placed firmware is in the flash: no later erase undid an earlier write. *)
(***************************************************************************)
DoneMeansFlashed ==
  pc = "done" /\ WellPlaced(fw) => Complete(fw, flash)

(***************************************************************************)
(* What the header says of WriteFirmware and of a segment's address, with  *)
(* no condition on the firmware: an update that ended well is complete.    *)
(***************************************************************************)
DoneMeansFlashedAlways == pc = "done" => Complete(fw, flash)

(* An update keeps the promise of FlashUpdate, step by step. *)
KeepsPromise == Promise!Spec

(* Every update ends: neither pass goes round without moving on. *)
Terminates == pc = "upgrade" ~> pc \in {"threw", "done"}

(***************************************************************************)
(* The inductive invariant behind the theorems of TYTRadioProofs.          *)
(*                                                                         *)
(* Position: addr walks up from the segment's address; b_offset is how far *)
(* it got in the write pass; the radio's pointer is addr while blocks are  *)
(* sent.                                                                   *)
(***************************************************************************)
Position ==
  /\ pc \in {"erase", "setaddr", "block"} => fw[seg].address <= addr
  /\ pc \in {"setaddr", "block"} => bOffset = addr - fw[seg].address
  /\ pc \in {"setaddr", "block"} /\ addr # fw[seg].address =>
       Mapped(fw[seg].address)
  /\ pc = "block" => ptr = addr /\ InRange(addr, SegEnd)
  /\ pc = "done" => seg = Len(fw) + 1

(* Bytes the erase pass has gone over are erased; in the write pass, all   *)
(* of the segment still is, or already holds the segment's own byte.       *)
Prepared ==
  /\ pc = "erase" =>
       \A a \in DOMAIN flash : a \in fw[seg].address..(addr - 1) => flash[a] = Erased
  /\ pc \in {"setaddr", "block"} /\ Mapped(fw[seg].address) =>
       \A a \in DOMAIN flash : a \in Span(fw, seg) =>
         flash[a] \in {Erased, <<seg, a - fw[seg].address>>}

(* How many bytes of the current segment are written. *)
WrittenBytes == IF pc = "block" THEN BlockOffset
                ELSE IF pc = "setaddr" THEN bOffset ELSE 0

(* The bytes of a well placed firmware that are in the flash for good. *)
Written ==
  WellPlaced(fw) /\ pc \in {"erase", "setaddr", "block", "done"} =>
    \A i \in DOMAIN fw : \A k \in 0..(fw[i].size - 1) :
      i < seg \/ (i = seg /\ k < WrittenBytes) =>
        flash[fw[i].address + k] = <<i, k>>

(* What a broken command may still do is what it might have done, and no   *)
(* command runs beside it.                                                 *)
LateSafe ==
  late # Nothing =>
    /\ pc \in {"threw", "upgrade"}
    /\ DOMAIN late \subseteq DOMAIN flash
    /\ \A a \in DOMAIN late :
         /\ a \in TouchedBytes(fw)
         /\ late[a] \in {Erased} \cup InPlace(fw, a)
         /\ late[a] \in Nat \X Nat

(***************************************************************************)
(* The parts together: what holds between any two commands of an update.   *)
(***************************************************************************)
IInv ==
  /\ TypeOK
  /\ Position
  /\ Prepared
  /\ Written
  /\ LateSafe
  /\ ProgrammedInPlace
  /\ NeverGarbled
  /\ Footprint
=============================================================================

----------------------- MODULE TYTOverChannelProofs -----------------------
(***************************************************************************)
(* WriteFirmware over the channel that DFU provides implements TYTRadio,   *)
(* for every flash map, transfer size and set of firmware files: what is   *)
(* proved of TYTRadio is true of the update whose commands travel, take    *)
(* time and may outlive the call that sent them.                           *)
(***************************************************************************)
EXTENDS TYTOverChannel, SequenceTheorems, FiniteSetTheorems, TLAPS

(* TYTRadio's copies of the layout operators are the same operators. *)
LEMMA RadioLayout ==
  /\ Radio!Erased = Erased /\ Radio!Old = Old /\ Radio!Garbled = Garbled
  /\ Radio!MappedBytes = MappedBytes
  /\ \A a, b : Radio!WrapAdd(a, b) = WrapAdd(a, b)
  /\ \A a, b : Radio!Lower(a, b) = Lower(a, b)
  /\ \A a, b : Radio!InRange(a, b) <=> InRange(a, b)
  /\ \A a : Radio!GetSector(a) = GetSector(a)
  /\ \A n : Radio!SectorBytes(n) = SectorBytes(n)
  /\ \A a, b : Radio!ChunkSize(a, b) = ChunkSize(a, b)
  BY DEF Radio!Erased, Radio!Old, Radio!Garbled, Radio!MappedBytes, Radio!WrapAdd,
         Radio!Lower, Radio!InRange, Radio!Mapped, Radio!GetSector,
         Radio!SectorBytes, Radio!InSector, Radio!End, Radio!ChunkSize,
         Erased, Old, Garbled, MappedBytes, WrapAdd, Lower, InRange, Mapped,
         GetSector, SectorBytes, InSector, End, ChunkSize

(* The host's variables, as in TYTRadio. *)
HostTypes ==
  /\ fw \in Firmwares
  /\ pc \in {"upgrade", "erase", "setaddr", "block", "threw", "done"}
  /\ seg \in Nat
  /\ pc \in {"erase", "setaddr", "block"} => seg \in 1..Len(fw)
  /\ addr \in Nat /\ bOffset \in Nat /\ wValue \in Nat
  /\ pc = "block" => InRange(addr, Radio!SegEnd)

IsMemory(m) == m = [a \in MappedBytes |-> m[a]]

Types ==
  /\ HostTypes
  /\ waiting \in BOOLEAN /\ link \in {"up", "down"}
  /\ pointer \in Nat /\ confirmed \in Nat
  /\ command.name = "setaddr" => command.arg \in Nat
  /\ IsMemory(memory)
  /\ waiting => IsMemory(before.memory)

(* Commands are numbered as they are sent. *)
Numbered ==
  /\ sent \in Nat /\ executed \in Seq(Nat)
  /\ \A k \in Channel!ToSet(executed) : k <= sent

Executed == sent \in Channel!ToSet(executed)

(* The radio is at work only for a call, or for one that threw. *)
AtWork ==
  /\ waiting => Calls
  /\ ~waiting /\ pc \notin {"threw", "upgrade"} => command = None
  /\ link = "down" => command = None
  /\ waiting /\ command # None =>
       command = NextCommand /\ memory = before.memory /\ ~Executed

(* The radio's pointer is the one the host was told of, if it has power. *)
PointerKept ==
  /\ link = "up" /\ pc = "block" => pointer = confirmed
  /\ link = "up" /\ pc = "setaddr" /\ waiting /\ Executed => pointer = addr

(* What the call has done to the memory so far. *)
Begun ==
  waiting =>
    /\ pc \in {"upgrade", "setaddr"} => memory = before.memory
    /\ pc = "erase" =>
         \E S \in SUBSET SectorBytes(GetSector(addr)) : memory = Radio!EraseBytes(S)
    /\ pc = "block" =>
         \E S \in SUBSET (Radio!BlockBytes \cap DOMAIN before.memory) :
           memory = Radio!Programmed(S)

(* What it has done when it returns. *)
Finished ==
  waiting /\ Executed =>
    /\ pc = "erase" => memory = Radio!EraseBytes(SectorBytes(GetSector(addr)))
    /\ pc = "block" =>
         /\ Radio!BlockBytes \subseteq DOMAIN before.memory
         /\ memory = Radio!Programmed(Radio!BlockBytes)

(* Only the first command of an update may meet one that threw. *)
NothingElse == waiting /\ pc # "upgrade" => before.late = Radio!Nothing

ChannelInv ==
  /\ Types /\ Numbered /\ AtWork /\ PointerKept /\ Begun /\ Finished /\ NothingElse
-----------------------------------------------------------------------------
(* The segment the host is at. *)
LEMMA SegmentFacts ==
  ASSUME HostTypes, pc \in {"erase", "setaddr", "block"}
  PROVE  /\ fw[seg].address \in Nat /\ fw[seg].size \in Nat
         /\ Radio!SegEnd \in Nat
<1>1. fw[seg] \in [address : Nat, size : Nat]
  BY FirmwareAssumption, LenProperties, ElementOfSeq DEF HostTypes
<1>2. fw[seg].address < AddrSpace /\ fw[seg].size < AddrSpace /\ AddrSpace \in Nat
  BY FirmwareAssumption, MapAssumption, LenProperties DEF HostTypes
<1> QED
  BY <1>1, <1>2, RadioLayout DEF Radio!SegEnd, WrapAdd

(* GetSector returns a sector that begins at or below the address and ends *)
(* behind it.                                                              *)
LEMMA SectorFound ==
  ASSUME NEW a \in Int, Mapped(a)
  PROVE  /\ GetSector(a) \in DOMAIN map
         /\ End(GetSector(a)) \in Nat /\ a < End(GetSector(a))
<1>1. ASSUME NEW n \in DOMAIN map
      PROVE  map[n].start \in Nat /\ End(n) \in Nat
  <2>1. map \in Seq([start : Nat, size : Nat])
    BY MapAssumption DEF MapAssumption
  <2>2. map[n] \in [start : Nat, size : Nat]
    BY <2>1, LenProperties, ElementOfSeq
  <2> QED
    BY <2>2 DEF End
<1>2. PICK n \in DOMAIN map : InSector(n, a)
  BY DEF Mapped
<1>3. ASSUME NEW m \in 1..(n - 1), InSector(m, a)
      PROVE  FALSE
  <2>1. n \in 1..Len(map) /\ m \in DOMAIN map /\ m < n
    BY MapAssumption DEF MapAssumption
  <2>2. End(m) <= map[n].start
    BY <2>1, MapAssumption DEF MapAssumption
  <2> QED
    BY <1>1, <1>2, <1>3, <2>1, <2>2 DEF InSector
<1>4. GetSector(a) \in DOMAIN map /\ InSector(GetSector(a), a)
  BY <1>2, <1>3 DEF GetSector
<1> QED
  BY <1>1, <1>4 DEF InSector

LEMMA ChunkFacts ==
  ASSUME HostTypes, pc \in {"erase", "setaddr", "block"}, InRange(addr, Radio!SegEnd)
  PROVE  /\ Radio!NBytes \in Nat
         /\ GetSector(addr) \in DOMAIN map
         /\ SectorBytes(GetSector(addr)) \subseteq MappedBytes
<1>1. addr \in Nat /\ Radio!SegEnd \in Nat
  BY SegmentFacts DEF HostTypes
<1>2. GetSector(addr) \in DOMAIN map /\ ChunkSize(addr, Radio!SegEnd) \in Nat
  BY <1>1, SectorFound DEF InRange, ChunkSize, Lower
<1> QED
  BY <1>2, RadioLayout DEF Radio!NBytes, MappedBytes

(* A radio that has no command does nothing late. *)
LEMMA NoneNothing ==
  ASSUME command = None
  PROVE  Bytes = {} /\ Effect = Radio!Nothing
<1>1. Bytes = {}
  BY DEF None, Bytes
<1> QED
  BY <1>1, RadioLayout DEF Effect, Radio!Nothing

(* Nor does one that has a command without bytes. *)
LEMMA NoBytesNothing ==
  ASSUME command.name \notin {"erase", "block"}
  PROVE  Bytes = {} /\ Effect = Radio!Nothing
<1>1. Bytes = {}
  BY DEF Bytes
<1> QED
  BY <1>1, RadioLayout DEF Effect, Radio!Nothing
-----------------------------------------------------------------------------
(* What the command in the radio is about, while its call runs. *)
AtCommand ==
  /\ Types /\ waiting /\ Calls
  /\ command = NextCommand /\ memory = before.memory

LEMMA EraseCommand ==
  ASSUME AtCommand, pc = "erase"
  PROVE  /\ Bytes = SectorBytes(GetSector(addr))
         /\ Bytes \subseteq MappedBytes
         /\ \A S \in SUBSET Bytes : Apply(S) = Radio!EraseBytes(S)
         /\ Effect = Radio!Only(Bytes, Radio!EraseBytes(Bytes))
<1>1. command.name = "erase" /\ command.arg = addr
  BY DEF AtCommand, NextCommand
<1>2. Bytes = SectorBytes(GetSector(addr))
  BY <1>1 DEF Bytes
<1>3. Bytes \subseteq MappedBytes
  <2>1. InRange(addr, Radio!SegEnd)
    BY RadioLayout DEF AtCommand, Calls
  <2> QED
    BY <1>2, <2>1, ChunkFacts DEF AtCommand, Types
<1>4. DOMAIN memory = MappedBytes
  BY DEF AtCommand, Types, IsMemory
<1>5. \A a \in Bytes : Effect[a] = Erased
  BY <1>1 DEF Effect
<1>6. ASSUME NEW S \in SUBSET Bytes
      PROVE  Apply(S) = Radio!EraseBytes(S)
  <2>1. Apply(S) = [a \in DOMAIN memory |-> IF a \in S THEN Erased ELSE memory[a]]
    BY <1>5 DEF Apply
  <2> QED
    BY <2>1, RadioLayout DEF Radio!EraseBytes, AtCommand
<1>7. Effect = Radio!Only(Bytes, Radio!EraseBytes(Bytes))
  <2>1. \A a \in Bytes : Radio!EraseBytes(Bytes)[a] = Erased
    BY <1>3, <1>4, RadioLayout DEF Radio!EraseBytes, AtCommand
  <2>2. Effect = [a \in Bytes |-> Erased]
    BY <1>1 DEF Effect
  <2> QED
    BY <2>1, <2>2 DEF Radio!Only
<1> QED
  BY <1>2, <1>3, <1>6, <1>7

(* A block travels with its number and its bytes; that they end up where   *)
(* TYTRadio has them is up to the radio's pointer.                         *)
LEMMA BlockCommand ==
  ASSUME AtCommand, pc = "block", pointer = confirmed
  PROVE  /\ Bytes = Radio!BlockBytes \cap DOMAIN memory
         /\ \A S \in SUBSET Bytes : Apply(S) = Radio!Programmed(S)
         /\ Effect = Radio!Only(Bytes, Radio!Programmed(Bytes))
         /\ ~Refused => Radio!BlockBytes \subseteq DOMAIN memory
<1>1. /\ command.name = "block" /\ command.arg = Radio!BlockNum
      /\ command.data = [k \in 1..Radio!BlockLen |-> <<seg, Radio!BlockOffset + k - 1>>]
  BY DEF AtCommand, NextCommand
<1>2. /\ fw[seg].size \in Nat /\ bOffset \in Nat /\ wValue \in Nat
      /\ TransferSize \in Nat /\ pointer \in Nat
  BY SegmentFacts, ChannelAssumption DEF AtCommand, Types, HostTypes
<1>3. PICK w \in Nat : w = TransferSize * wValue
  BY <1>2
<1>4. /\ Radio!BlockOffset = bOffset + w /\ Radio!BlockOffset \in Nat
      /\ Radio!BlockLen \in Int
  BY <1>2, <1>3, RadioLayout DEF Radio!BlockOffset, Radio!BlockLen, Lower
<1>5. Radio!BlockNum \in Nat /\ Radio!BlockNum - 2 = wValue
  BY <1>2 DEF Radio!BlockNum
<1>6. BlockStart = Radio!BlockAddress /\ BlockStart = pointer + w /\ BlockStart \in Nat
  BY <1>1, <1>2, <1>3, <1>5 DEF BlockStart, Radio!BlockAddress
<1>7. BlockStart..(BlockStart + Len(command.data) - 1) = Radio!BlockBytes
      /\ Len(command.data) \in Nat
  <2>1. CASE Radio!BlockLen >= 0
    <3>1. Len(command.data) = Radio!BlockLen
      BY <1>1, <1>4, <2>1
    <3> QED
      BY <3>1, <1>4, <1>6, <2>1 DEF Radio!BlockBytes
  <2>2. CASE Radio!BlockLen < 0
    <3>1. 1..Radio!BlockLen = 1..0
      BY <1>4, <2>2
    <3>2. command.data = [k \in 1..0 |-> <<seg, Radio!BlockOffset + k - 1>>]
      BY <1>1, <3>1
    <3>3. Len([k \in 1..0 |-> <<seg, Radio!BlockOffset + k - 1>>]) = 0
      OBVIOUS
    <3>4. Len(command.data) = 0
      BY <3>2, <3>3
    <3> QED
      BY <3>4, <1>4, <1>6, <2>2 DEF Radio!BlockBytes
  <2> QED
    BY <2>1, <2>2, <1>4
<1>8. Bytes = Radio!BlockBytes \cap DOMAIN memory
  BY <1>1, <1>7 DEF Bytes
<1>9. ASSUME NEW a \in Bytes
      PROVE  command.data[a - BlockStart + 1] = Radio!ByteFor(a)
  <2>1. a \in Int /\ Radio!BlockAddress <= a /\ a < Radio!BlockAddress + Radio!BlockLen
    <3>1. a \in Radio!BlockAddress..(Radio!BlockAddress + Radio!BlockLen - 1)
      BY <1>8 DEF Radio!BlockBytes
    <3>2. Radio!BlockAddress \in Int /\ Radio!BlockLen \in Int
      BY <1>4, <1>6
    <3> QED
      BY <3>1, <3>2
  <2>2. a - BlockStart + 1 \in 1..Radio!BlockLen
    BY <2>1, <1>4, <1>6
  <2>3. command.data[a - BlockStart + 1]
          = <<seg, Radio!BlockOffset + (a - BlockStart + 1) - 1>>
    BY <1>1, <2>2
  <2>4. Radio!BlockOffset + (a - BlockStart + 1) - 1
          = Radio!BlockOffset + (a - Radio!BlockAddress)
    BY <2>1, <1>4, <1>6
  <2> QED
    BY <2>3, <2>4 DEF Radio!ByteFor
<1>10. \A a \in Bytes :
         Effect[a] = IF memory[a] \in {Erased, Radio!ByteFor(a)}
                     THEN Radio!ByteFor(a) ELSE Garbled
  BY <1>1, <1>9 DEF Effect, Flashed
<1>11. Bytes \subseteq DOMAIN memory
  BY <1>8
<1>12. ASSUME NEW S \in SUBSET Bytes
       PROVE  Apply(S) = Radio!Programmed(S)
  <2>1. ASSUME NEW a \in DOMAIN memory
        PROVE  (IF a \in S THEN Effect[a] ELSE memory[a])
               = (IF a \notin S THEN memory[a]
                  ELSE IF memory[a] \in {Erased, Radio!ByteFor(a)}
                       THEN Radio!ByteFor(a) ELSE Garbled)
    BY <1>10
  <2> QED
    BY <2>1, RadioLayout DEF Apply, Radio!Programmed, AtCommand
<1>13. Effect = Radio!Only(Bytes, Radio!Programmed(Bytes))
  <2>1. Radio!Programmed(Bytes) = Apply(Bytes)
    BY <1>12
  <2>2. \A a \in Bytes : Apply(Bytes)[a] = Effect[a]
    BY <1>11 DEF Apply
  <2>3. Effect = [a \in Bytes |-> Effect[a]]
    BY DEF Effect
  <2> QED
    BY <2>1, <2>2, <2>3 DEF Radio!Only
<1>14. ~Refused => Radio!BlockBytes \subseteq DOMAIN memory
  <2> DEFINE n == Len(command.data)
             m == Cardinality(Bytes)
             B == Radio!BlockBytes
  <2>1. B = BlockStart..(BlockStart + n - 1) /\ n \in Nat /\ BlockStart \in Nat
    BY <1>6, <1>7
  <2> HIDE DEF n
  <2>2. IsFiniteSet(B) /\ Cardinality(B) = n
    <3>1. BlockStart \in Int /\ BlockStart + n - 1 \in Int
      BY <2>1
    <3>2. /\ IsFiniteSet(BlockStart..(BlockStart + n - 1))
          /\ Cardinality(BlockStart..(BlockStart + n - 1)) =
               IF BlockStart > BlockStart + n - 1 THEN 0
               ELSE (BlockStart + n - 1) - BlockStart + 1
      BY <3>1, FS_Interval
    <3>3. (IF BlockStart > BlockStart + n - 1 THEN 0
           ELSE (BlockStart + n - 1) - BlockStart + 1) = n
      BY <2>1
    <3> QED
      BY <2>1, <3>2, <3>3
  <2>3. Bytes \subseteq B
    BY <1>8
  <2> HIDE DEF B
  <2>4. m \in Nat /\ m <= n /\ (m = n => Bytes = B)
    <3>1. m \in Nat
      BY <2>2, <2>3, FS_Subset, FS_CardinalityType
    <3>2. m <= Cardinality(B) /\ (Cardinality(B) = m => B = Bytes)
      BY <2>2, <2>3, FS_Subset
    <3> QED
      BY <2>2, <3>1, <3>2
  <2> HIDE DEF m
  <2>5. ~Refused => ~(m < n)
    BY <1>1 DEF Refused, m, n
  <2>6. ~Refused => Bytes = B
    BY <2>1, <2>4, <2>5
  <2> QED
    BY <2>6, <1>11 DEF B
<1> QED
  BY <1>8, <1>12, <1>13, <1>14
-----------------------------------------------------------------------------
(* Steps of the radio, and of the link, leave the host where it is. *)
LEMMA SameHost ==
  ASSUME UNCHANGED hostVars
  PROVE  /\ HostTypes' = HostTypes /\ Calls' = Calls /\ NextCommand' = NextCommand
         /\ Radio!BlockOffset' = Radio!BlockOffset
         /\ Radio!BlockLen' = Radio!BlockLen /\ Radio!BlockNum' = Radio!BlockNum
<1>1. UNCHANGED <<fw, pc, seg, addr, bOffset, wValue>>
  BY DEF hostVars
<1>2. Radio!SegEnd' = Radio!SegEnd
  BY <1>1 DEF Radio!SegEnd
<1>3. Radio!NBytes' = Radio!NBytes
  BY <1>1, <1>2 DEF Radio!NBytes
<1>4. Radio!Blocks' = Radio!Blocks
  BY <1>3 DEF Radio!Blocks
<1>5. /\ Radio!BlockOffset' = Radio!BlockOffset
      /\ Radio!BlockLen' = Radio!BlockLen /\ Radio!BlockNum' = Radio!BlockNum
  BY <1>1 DEF Radio!BlockOffset, Radio!BlockLen, Radio!BlockNum
<1> QED
  BY <1>1, <1>2, <1>4, <1>5 DEF HostTypes, Calls, NextCommand

(* While a call runs, TYTRadio's step starts from the memory before it. *)
LEMMA SameCall ==
  ASSUME UNCHANGED <<hostVars, waiting, history>>, waiting
  PROVE  /\ Radio!BlockBytes' = Radio!BlockBytes
         /\ \A S : Radio!EraseBytes(S)' = Radio!EraseBytes(S)
         /\ \A S : Radio!Programmed(S)' = Radio!Programmed(S)
<1>1. UNCHANGED <<fw, seg, waiting, before, confirmed>>
  BY DEF hostVars, history
<1>2. /\ Radio!BlockOffset' = Radio!BlockOffset
      /\ Radio!BlockLen' = Radio!BlockLen /\ Radio!BlockNum' = Radio!BlockNum
  BY SameHost DEF hostVars
<1>3. Radio!BlockAddress' = Radio!BlockAddress
  BY <1>1, <1>2 DEF Radio!BlockAddress
<1>4. Radio!BlockBytes' = Radio!BlockBytes
  BY <1>2, <1>3 DEF Radio!BlockBytes
<1>5. \A a : Radio!ByteFor(a)' = Radio!ByteFor(a)
  BY <1>1, <1>2, <1>3 DEF Radio!ByteFor
<1>6. \A S : Radio!EraseBytes(S)' = Radio!EraseBytes(S)
  BY <1>1 DEF Radio!EraseBytes
<1>7. \A S : Radio!Programmed(S)' = Radio!Programmed(S)
  BY <1>1, <1>5 DEF Radio!Programmed
<1> QED
  BY <1>4, <1>6, <1>7

LEMMA InitChannelInv == Init => ChannelInv
<1> SUFFICES ASSUME Init PROVE ChannelInv
  OBVIOUS
<1>1. Channel!ToSet(executed) = {}
  BY DEF Init, Channel!Init, Channel!ToSet
<1>2. Types
  BY DEF Init, Types, HostTypes, IsMemory, None
<1>3. Numbered
  BY <1>1 DEF Init, Channel!Init, Numbered
<1>4. AtWork /\ PointerKept /\ Begun /\ Finished /\ NothingElse
  BY DEF Init, AtWork, PointerKept, Begun, Finished, NothingElse, None
<1> QED
  BY <1>2, <1>3, <1>4 DEF ChannelInv

LEMMA AppendToSet ==
  ASSUME NEW s, s \in Seq(Nat), NEW n \in Nat
  PROVE  Channel!ToSet(Append(s, n)) = Channel!ToSet(s) \cup {n}
<1>1. /\ Append(s, n) \in Seq(Nat) /\ Len(Append(s, n)) = Len(s) + 1 /\ Len(s) \in Nat
      /\ \A i \in 1..Len(s) : Append(s, n)[i] = s[i]
      /\ Append(s, n)[Len(s) + 1] = n
  BY AppendProperties
<1>2. DOMAIN s = 1..Len(s) /\ DOMAIN Append(s, n) = 1..(Len(s) + 1)
  BY <1>1
<1> QED
  BY <1>1, <1>2 DEF Channel!ToSet

(* What a command leaves behind, when it came to the end or stopped before. *)
LEMMA CommandEffect ==
  ASSUME ChannelInv, command # None, waiting,
         NEW S \in SUBSET Bytes
  PROVE  /\ AtCommand
         /\ pc \in {"upgrade", "setaddr"} => Bytes = {} /\ Apply(S) = memory
         /\ pc = "erase" =>
              /\ Bytes = SectorBytes(GetSector(addr))
              /\ Apply(S) = Radio!EraseBytes(S)
         /\ pc = "block" =>
              /\ Bytes = Radio!BlockBytes \cap DOMAIN before.memory
              /\ Apply(S) = Radio!Programmed(S)
              /\ ~Refused => Radio!BlockBytes \subseteq DOMAIN before.memory
<1>1. AtCommand
  BY DEF ChannelInv, AtWork, AtCommand
<1>2. link = "up"
  BY DEF ChannelInv, AtWork, Types
<1>3. ASSUME pc \in {"upgrade", "setaddr"}
      PROVE  Bytes = {} /\ Apply(S) = memory
  <2>1. command.name = pc
    BY <1>1, <1>3 DEF AtCommand, NextCommand
  <2>2. Bytes = {}
    BY <1>3, <2>1 DEF Bytes
  <2>3. Apply(S) = [a \in DOMAIN memory |-> memory[a]]
    BY <2>2 DEF Apply
  <2> QED
    BY <2>2, <2>3 DEF ChannelInv, Types, IsMemory
<1>4. ASSUME pc = "block" PROVE pointer = confirmed
  BY <1>2, <1>4 DEF ChannelInv, PointerKept
<1> QED
  BY <1>1, <1>3, <1>4, EraseCommand, BlockCommand DEF AtCommand

LEMMA ExecutesInv == ASSUME ChannelInv, Executes PROVE ChannelInv'
<1>1. /\ command # None /\ ~Refused /\ memory' = Apply(Bytes) /\ command' = None
      /\ UNCHANGED <<hostVars, waiting, link, history>>
      /\ pointer' = IF command.name = "setaddr" THEN command.arg ELSE pointer
      /\ sent \notin Channel!ToSet(executed) /\ sent' = sent
      /\ executed' = Append(executed, sent)
  BY DEF Executes, Channel!Execute
<1>2. /\ UNCHANGED <<fw, pc, seg, addr, bOffset, wValue, before, confirmed>>
      /\ HostTypes' = HostTypes /\ Calls' = Calls
  BY <1>1, SameHost DEF hostVars, history
<1>3. Channel!ToSet(executed') = Channel!ToSet(executed) \cup {sent}
  BY <1>1, AppendToSet DEF ChannelInv, Numbered
<1>4. ~waiting => pc \in {"threw", "upgrade"}
  BY <1>1 DEF ChannelInv, AtWork
<1>5. Numbered'
  BY <1>1, <1>3, AppendProperties DEF ChannelInv, Numbered
<1>6. Types'
  <2>1. pointer' \in Nat /\ command'.name # "setaddr"
    BY <1>1 DEF ChannelInv, Types, None
  <2>2. IsMemory(memory')
    BY <1>1 DEF Apply, ChannelInv, Types, IsMemory
  <2> QED
    BY <1>1, <1>2, <2>1, <2>2 DEF ChannelInv, Types
<1>7. AtWork' /\ NothingElse'
  <2>1. Radio!Nothing' = Radio!Nothing
    BY DEF Radio!Nothing
  <2> QED
    BY <1>1, <1>2, <2>1 DEF ChannelInv, AtWork, NothingElse
<1>8. PointerKept'
  <2>1. CASE waiting
    <3>1. command = NextCommand /\ pc \in {"upgrade", "erase", "setaddr", "block"}
      BY <1>1, <2>1 DEF ChannelInv, AtWork, Calls
    <3>2. command.name = pc /\ (pc = "setaddr" => command.arg = addr)
      BY <3>1 DEF NextCommand
    <3> QED
      BY <1>1, <1>2, <3>2 DEF ChannelInv, PointerKept
  <2>2. CASE ~waiting
    BY <1>1, <1>2, <1>4, <2>2 DEF PointerKept
  <2> QED
    BY <2>1, <2>2
<1>9. Begun' /\ Finished'
  <2>1. CASE waiting
    <3>1. /\ Radio!BlockBytes' = Radio!BlockBytes
          /\ \A S : Radio!EraseBytes(S)' = Radio!EraseBytes(S)
          /\ \A S : Radio!Programmed(S)' = Radio!Programmed(S)
      BY <1>1, <2>1, SameCall
    <3>2. /\ pc \in {"upgrade", "setaddr"} => Bytes = {} /\ Apply(Bytes) = memory
          /\ pc = "erase" =>
               /\ Bytes = SectorBytes(GetSector(addr))
               /\ Apply(Bytes) = Radio!EraseBytes(Bytes)
          /\ pc = "block" =>
               /\ Bytes = Radio!BlockBytes \cap DOMAIN before.memory
               /\ Apply(Bytes) = Radio!Programmed(Bytes)
               /\ Radio!BlockBytes \subseteq DOMAIN before.memory
      BY <1>1, <2>1, CommandEffect
    <3>3. memory = before.memory
      BY <1>1, <2>1 DEF ChannelInv, AtWork
    <3>4. Begun'
      BY <1>1, <1>2, <3>1, <3>2, <3>3 DEF Begun
    <3>5. Finished'
      <4>1. pc = "block" => Bytes = Radio!BlockBytes
        BY <3>2
      <4> QED
        BY <1>1, <1>2, <3>1, <3>2, <4>1 DEF Finished
    <3> QED
      BY <3>4, <3>5
  <2>2. CASE ~waiting
    BY <1>1, <2>2 DEF Begun, Finished
  <2> QED
    BY <2>1, <2>2
<1> QED
  BY <1>5, <1>6, <1>7, <1>8, <1>9 DEF ChannelInv

LEMMA FailsInv == ASSUME ChannelInv, Fails PROVE ChannelInv'
<1>1. /\ command # None /\ command' = None
      /\ UNCHANGED <<hostVars, waiting, channel, link, pointer, history>>
  BY DEF Fails
<1>2. PICK S \in SUBSET Bytes : memory' = Apply(S)
  BY DEF Fails
<1>3. /\ UNCHANGED <<fw, pc, seg, addr, bOffset, wValue, before, confirmed, sent, executed>>
      /\ HostTypes' = HostTypes /\ Calls' = Calls
  BY <1>1, SameHost DEF hostVars, history, channel
<1>4. Numbered' /\ Executed' = Executed
  BY <1>3 DEF ChannelInv, Numbered, Executed
<1>5. waiting => ~Executed
  BY <1>1 DEF ChannelInv, AtWork
<1>6. Types'
  <2>1. command'.name # "setaddr"
    BY <1>1 DEF None
  <2>2. IsMemory(memory')
    BY <1>2 DEF Apply, ChannelInv, Types, IsMemory
  <2> QED
    BY <1>1, <1>3, <2>1, <2>2 DEF ChannelInv, Types
<1>7. AtWork' /\ NothingElse'
  <2>1. Radio!Nothing' = Radio!Nothing
    BY DEF Radio!Nothing
  <2> QED
    BY <1>1, <1>3, <2>1 DEF ChannelInv, AtWork, NothingElse
<1>8. PointerKept' /\ Finished'
  BY <1>1, <1>3, <1>4, <1>5 DEF ChannelInv, PointerKept, Finished
<1>9. Begun'
  <2>1. CASE waiting
    <3>1. /\ Radio!BlockBytes' = Radio!BlockBytes
          /\ \A T : Radio!EraseBytes(T)' = Radio!EraseBytes(T)
          /\ \A T : Radio!Programmed(T)' = Radio!Programmed(T)
      BY <1>1, <2>1, SameCall
    <3>2. /\ pc \in {"upgrade", "setaddr"} => Apply(S) = memory
          /\ pc = "erase" =>
               /\ Bytes = SectorBytes(GetSector(addr))
               /\ Apply(S) = Radio!EraseBytes(S)
          /\ pc = "block" =>
               /\ Bytes = Radio!BlockBytes \cap DOMAIN before.memory
               /\ Apply(S) = Radio!Programmed(S)
      BY <1>1, <2>1, CommandEffect
    <3>3. memory = before.memory
      BY <1>1, <2>1 DEF ChannelInv, AtWork
    <3> QED
      BY <1>1, <1>2, <1>3, <3>1, <3>2, <3>3 DEF Begun
  <2>2. CASE ~waiting
    BY <1>1, <2>2 DEF Begun
  <2> QED
    BY <2>1, <2>2
<1> QED
  BY <1>4, <1>6, <1>7, <1>8, <1>9 DEF ChannelInv

LEMMA SwitchOffInv == ASSUME ChannelInv, SwitchOff PROVE ChannelInv'
<1>1. /\ link' = "down" /\ command' = None /\ pointer' = 0
      /\ UNCHANGED <<hostVars, waiting, channel, memory, history>>
  BY DEF SwitchOff
<1>2. /\ UNCHANGED <<fw, pc, seg, addr, bOffset, wValue, before, confirmed, sent, executed>>
      /\ HostTypes' = HostTypes /\ Calls' = Calls
  BY <1>1, SameHost DEF hostVars, history, channel
<1>3. Numbered' /\ Executed' = Executed
  BY <1>2 DEF ChannelInv, Numbered, Executed
<1>4. Types'
  BY <1>1, <1>2 DEF ChannelInv, Types, None
<1>5. AtWork' /\ NothingElse'
  <2>1. Radio!Nothing' = Radio!Nothing
    BY DEF Radio!Nothing
  <2> QED
    BY <1>1, <1>2, <2>1 DEF ChannelInv, AtWork, NothingElse
<1>6. PointerKept'
  BY <1>1 DEF PointerKept
<1>7. Begun' /\ Finished'
  <2>1. CASE waiting
    <3>1. /\ Radio!BlockBytes' = Radio!BlockBytes
          /\ \A T : Radio!EraseBytes(T)' = Radio!EraseBytes(T)
          /\ \A T : Radio!Programmed(T)' = Radio!Programmed(T)
      BY <1>1, <2>1, SameCall
    <3>2. Begun'
      BY <1>1, <1>2, <2>1, <3>1 DEF ChannelInv, Begun
    <3>3. Finished'
      BY <1>1, <1>2, <1>3, <2>1, <3>1 DEF ChannelInv, Finished
    <3> QED
      BY <3>2, <3>3
  <2>2. CASE ~waiting
    BY <1>1, <2>2 DEF Begun, Finished
  <2> QED
    BY <2>1, <2>2
<1> QED
  BY <1>3, <1>4, <1>5, <1>6, <1>7 DEF ChannelInv
-----------------------------------------------------------------------------
(* Steps of the host. *)
LEMMA CallInv == ASSUME ChannelInv, Call PROVE ChannelInv'
<1>1. /\ ~waiting /\ Calls /\ link = "up" /\ waiting' = TRUE
      /\ sent' = sent + 1 /\ executed' = executed
      /\ command' = NextCommand
      /\ before' = [memory |-> memory, late |-> Effect]
      /\ UNCHANGED <<hostVars, link, pointer, memory, confirmed>>
  BY DEF Call, Channel!Send
<1>2. /\ UNCHANGED <<fw, pc, seg, addr, bOffset, wValue>>
      /\ HostTypes' = HostTypes /\ Calls' = Calls /\ NextCommand' = NextCommand
  BY <1>1, SameHost DEF hostVars
<1>3. before'.memory = memory /\ before'.late = Effect
  BY <1>1
<1>4. Numbered' /\ ~Executed'
  <2>1. Channel!ToSet(executed') = Channel!ToSet(executed)
    BY <1>1
  <2>2. sent + 1 \notin Channel!ToSet(executed)
    BY DEF ChannelInv, Numbered
  <2>3. ~Executed'
    BY <1>1, <2>1, <2>2 DEF Executed
  <2>4. Channel!ToSet(executed) \subseteq Nat
    BY DEF ChannelInv, Numbered, Channel!ToSet
  <2>5. Numbered'
    BY <1>1, <2>1, <2>4 DEF ChannelInv, Numbered
  <2> QED
    BY <2>3, <2>5
<1>5. Types'
  <2>1. command'.name = "setaddr" => command'.arg \in Nat
    BY <1>1 DEF NextCommand, ChannelInv, Types, HostTypes
  <2> QED
    BY <1>1, <1>2, <1>3, <2>1 DEF ChannelInv, Types
<1>6. AtWork'
  BY <1>1, <1>2, <1>3, <1>4 DEF ChannelInv, AtWork
<1>7. PointerKept' /\ Finished'
  BY <1>1, <1>2, <1>4 DEF ChannelInv, PointerKept, Finished
<1>8. Begun'
  <2>1. memory = [a \in DOMAIN memory |-> memory[a]]
    BY DEF ChannelInv, Types, IsMemory
  <2>2. Radio!EraseBytes({})' = memory
    BY <1>1, <1>3, <2>1 DEF Radio!EraseBytes
  <2>3. Radio!Programmed({})' = memory
    BY <1>1, <1>3, <2>1 DEF Radio!Programmed
  <2> QED
    BY <1>1, <1>2, <1>3, <2>2, <2>3 DEF Begun
<1>9. NothingElse'
  <2>1. Radio!Nothing' = Radio!Nothing
    BY DEF Radio!Nothing
  <2>2. pc # "upgrade" => command = None
    BY <1>1 DEF ChannelInv, AtWork, Calls
  <2>3. pc # "upgrade" => Effect = Radio!Nothing
    BY <2>2, NoneNothing
  <2> QED
    BY <1>2, <1>3, <2>1, <2>3 DEF NothingElse
<1> QED
  BY <1>4, <1>5, <1>6, <1>7, <1>8, <1>9 DEF ChannelInv

(* A call that has been executed left nothing in the radio. *)
LEMMA ReturnFacts ==
  ASSUME ChannelInv, Return
  PROVE  /\ waiting /\ waiting' = FALSE /\ Executed /\ command = None /\ Calls
         /\ link = "up" /\ Advance
         /\ pc \in {"upgrade", "erase", "setaddr", "block"}
         /\ UNCHANGED <<fw, runs, sent, executed, link, command, pointer, memory, before>>
<1>1. /\ waiting /\ waiting' = FALSE /\ Executed /\ link = "up" /\ Advance
      /\ UNCHANGED <<fw, runs, sent, executed, link, command, pointer, memory, before>>
  BY DEF Return, Channel!Return, Executed, radioVars
<1>2. Calls /\ command = None
  BY <1>1 DEF ChannelInv, AtWork
<1> QED
  BY <1>1, <1>2 DEF Calls

(* Starting a segment keeps the host's types. *)
LEMMA StartTypes ==
  ASSUME HostTypes, NEW i \in Nat \ {0}, Radio!StartSegment(i),
         UNCHANGED <<fw, bOffset, wValue>>
  PROVE  HostTypes' /\ pc' \in {"erase", "done"}
<1>1. fw \in Seq([address : Nat, size : Nat]) /\ Len(fw) \in Nat
  BY FirmwareAssumption, LenProperties DEF HostTypes
<1>2. CASE i <= Len(fw)
  <2>1. pc' = "erase" /\ addr' = fw[i].address /\ seg' = i /\ i \in 1..Len(fw)
    BY <1>1, <1>2 DEF Radio!StartSegment
  <2>2. fw[i] \in [address : Nat, size : Nat]
    BY <1>1, <2>1, ElementOfSeq
  <2>3. addr' \in Nat
    BY <2>1, <2>2
  <2> QED
    BY <2>1, <2>3 DEF HostTypes
<1>3. CASE ~(i <= Len(fw))
  <2>1. pc' = "done" /\ addr' = addr /\ seg' = i
    BY <1>3 DEF Radio!StartSegment
  <2> QED
    BY <2>1 DEF HostTypes
<1> QED
  BY <1>2, <1>3

LEMMA ReturnInv == ASSUME ChannelInv, Return PROVE ChannelInv'
<1>1. /\ waiting /\ waiting' = FALSE /\ Executed /\ command = None /\ Calls
      /\ link = "up" /\ Advance
      /\ pc \in {"upgrade", "erase", "setaddr", "block"}
      /\ UNCHANGED <<fw, runs, sent, executed, link, command, pointer, memory, before>>
  BY ReturnFacts
<1>2. HostTypes /\ PointerKept /\ confirmed \in Nat
  BY DEF ChannelInv, Types
<1>3. HostTypes' /\ confirmed' \in Nat /\ (pc' = "block" => pointer = confirmed')
  <2>1. CASE pc = "upgrade"
    <3>1. Radio!StartSegment(1) /\ UNCHANGED <<fw, bOffset, wValue, confirmed>>
      BY <1>1, <2>1 DEF Advance
    <3> QED
      BY <1>2, <3>1, StartTypes
  <2>2. CASE pc = "erase"
    <3>1. addr' = addr + Radio!NBytes
          /\ UNCHANGED <<fw, pc, seg, bOffset, wValue, confirmed>>
      BY <1>1, <2>2 DEF Advance
    <3>2. Radio!NBytes \in Nat
      BY <1>1, <1>2, <2>2, ChunkFacts, RadioLayout DEF Calls
    <3> QED
      BY <1>2, <2>2, <3>1, <3>2 DEF HostTypes
  <2>3. CASE pc = "setaddr"
    <3>1. pc' = "block" /\ wValue' = 0 /\ confirmed' = addr
          /\ UNCHANGED <<fw, seg, addr, bOffset>>
      BY <1>1, <2>3 DEF Advance
    <3>2. Radio!SegEnd' = Radio!SegEnd
      BY <3>1 DEF Radio!SegEnd
    <3>3. InRange(addr, Radio!SegEnd)
      BY <1>1, <2>3, RadioLayout DEF Calls
    <3>4. pointer = addr
      BY <1>1, <1>2, <2>3 DEF PointerKept
    <3> QED
      BY <1>2, <2>3, <3>1, <3>2, <3>3, <3>4 DEF HostTypes
  <2>4. CASE pc = "block"
    <3>1. wValue' = wValue + 1 /\ UNCHANGED <<fw, pc, seg, addr, bOffset, confirmed>>
      BY <1>1, <2>4 DEF Advance
    <3>2. Radio!SegEnd' = Radio!SegEnd
      BY <3>1 DEF Radio!SegEnd
    <3>3. pointer = confirmed
      BY <1>1, <1>2, <2>4 DEF PointerKept
    <3> QED
      BY <1>2, <2>4, <3>1, <3>2, <3>3 DEF HostTypes
  <2> QED
    BY <1>1, <2>1, <2>2, <2>3, <2>4
<1>4. Types'
  BY <1>1, <1>3 DEF ChannelInv, Types
<1>5. Numbered'
  BY <1>1 DEF ChannelInv, Numbered
<1>6. AtWork' /\ PointerKept' /\ Begun' /\ Finished' /\ NothingElse'
  BY <1>1, <1>3 DEF AtWork, PointerKept, Begun, Finished, NothingElse
<1> QED
  BY <1>4, <1>5, <1>6 DEF ChannelInv

LEMMA ThrowInv == ASSUME ChannelInv, Throw PROVE ChannelInv'
<1>1. /\ pc' = "threw" /\ waiting' = FALSE
      /\ UNCHANGED <<fw, seg, addr, bOffset, wValue, sent, executed, link,
                     command, pointer, memory, before, confirmed>>
  BY DEF Throw, channel, radioVars, history
<1>2. Types'
  BY <1>1 DEF ChannelInv, Types, HostTypes
<1>3. Numbered'
  BY <1>1 DEF ChannelInv, Numbered
<1>4. AtWork' /\ PointerKept' /\ Begun' /\ Finished' /\ NothingElse'
  BY <1>1 DEF ChannelInv, AtWork, PointerKept, Begun, Finished, NothingElse
<1> QED
  BY <1>2, <1>3, <1>4 DEF ChannelInv

LEMMA LoopEndsInv == ASSUME ChannelInv, LoopEnds PROVE ChannelInv'
<1>1. /\ ~waiting
      /\ UNCHANGED <<waiting, sent, executed, link, command, pointer, memory,
                     before, confirmed>>
      /\ Radio!EraseEnd \/ Radio!ChunkEnd \/ Radio!SegmentEnd
  BY DEF LoopEnds, channel, radioVars, history
<1>2. HostTypes /\ fw' = fw /\ pc \in {"erase", "setaddr", "block"}
  BY <1>1 DEF ChannelInv, Types, Radio!EraseEnd, Radio!ChunkEnd, Radio!SegmentEnd
<1>3. HostTypes' /\ pc' # "block"
  <2>1. CASE Radio!EraseEnd
    <3>1. pc' = "setaddr" /\ bOffset' = 0 /\ addr' = fw[seg].address
          /\ UNCHANGED <<fw, seg, wValue>>
      BY <2>1 DEF Radio!EraseEnd
    <3>2. fw[seg].address \in Nat
      BY <1>2, SegmentFacts
    <3> QED
      BY <1>2, <3>1, <3>2 DEF HostTypes
  <2>2. CASE Radio!ChunkEnd
    <3>1. pc = "block" /\ pc' = "setaddr"
          /\ bOffset' = bOffset + Radio!NBytes /\ addr' = addr + Radio!NBytes
          /\ UNCHANGED <<fw, seg, wValue>>
      BY <2>2 DEF Radio!ChunkEnd
    <3>2. InRange(addr, Radio!SegEnd)
      BY <1>2, <3>1 DEF HostTypes
    <3>3. Radio!NBytes \in Nat
      BY <1>2, <3>2, ChunkFacts
    <3> QED
      BY <1>2, <3>1, <3>3 DEF HostTypes
  <2>3. CASE Radio!SegmentEnd
    <3>1. Radio!StartSegment(seg + 1) /\ UNCHANGED <<fw, bOffset, wValue>>
      BY <2>3 DEF Radio!SegmentEnd
    <3>2. seg + 1 \in Nat \ {0}
      BY <1>2 DEF HostTypes
    <3> QED
      BY <1>2, <3>1, <3>2, StartTypes
  <2> QED
    BY <1>1, <2>1, <2>2, <2>3
<1>4. command = None
  BY <1>1, <1>2 DEF ChannelInv, AtWork
<1>5. Types'
  BY <1>1, <1>3 DEF ChannelInv, Types
<1>6. Numbered'
  BY <1>1 DEF ChannelInv, Numbered
<1>7. AtWork' /\ PointerKept' /\ Begun' /\ Finished' /\ NothingElse'
  BY <1>1, <1>3, <1>4 DEF AtWork, PointerKept, Begun, Finished, NothingElse
<1> QED
  BY <1>5, <1>6, <1>7 DEF ChannelInv

LEMMA RerunInv == ASSUME ChannelInv, Rerun PROVE ChannelInv'
<1>1. /\ pc \in {"threw", "done"} /\ pc' = "upgrade" /\ link' = "up"
      /\ seg' = 1 /\ addr' = 0 /\ bOffset' = 0 /\ wValue' = 0
      /\ UNCHANGED <<fw, waiting, sent, executed, command, pointer, memory,
                     before, confirmed>>
  BY DEF Rerun, channel, radioVars, history
<1>2. ~waiting
  BY <1>1 DEF ChannelInv, AtWork, Calls
<1>3. Types'
  BY <1>1, <1>2 DEF ChannelInv, Types, HostTypes
<1>4. Numbered'
  BY <1>1 DEF ChannelInv, Numbered
<1>5. AtWork' /\ PointerKept' /\ Begun' /\ Finished' /\ NothingElse'
  BY <1>1, <1>2 DEF ChannelInv, AtWork, PointerKept, Begun, Finished, NothingElse
<1> QED
  BY <1>3, <1>4, <1>5 DEF ChannelInv

LEMMA ChannelInvInductive == ChannelInv /\ [Next]_vars => ChannelInv'
<1> SUFFICES ASSUME ChannelInv, [Next]_vars PROVE ChannelInv'
  OBVIOUS
<1>1. CASE UNCHANGED vars
  <2>1. UNCHANGED <<hostVars, waiting, history, sent, executed, link, command,
                    pointer, memory>>
    BY <1>1 DEF vars, channel, radioVars
  <2>2. UNCHANGED <<fw, pc, seg, addr, bOffset, wValue, before, confirmed>>
        /\ HostTypes' = HostTypes /\ Calls' = Calls /\ NextCommand' = NextCommand
    BY <2>1, SameHost DEF hostVars, history
  <2>3. Types' /\ Numbered' /\ PointerKept'
    BY <2>1, <2>2 DEF ChannelInv, Types, Numbered, PointerKept, Executed
  <2>4. Executed' = Executed
    BY <2>1 DEF Executed
  <2>5. AtWork' /\ NothingElse'
    <3>1. Radio!Nothing' = Radio!Nothing
      BY DEF Radio!Nothing
    <3> QED
      BY <2>1, <2>2, <2>4, <3>1 DEF ChannelInv, AtWork, NothingElse
  <2>6. Begun' /\ Finished'
    <3>1. CASE waiting
      BY <2>1, <2>2, <2>4, <3>1, SameCall DEF ChannelInv, Begun, Finished
    <3>2. CASE ~waiting
      BY <2>1, <3>2 DEF Begun, Finished
    <3> QED
      BY <3>1, <3>2
  <2> QED
    BY <2>3, <2>5, <2>6 DEF ChannelInv
<1>2. CASE Call
  BY <1>2, CallInv
<1>3. CASE Return
  BY <1>3, ReturnInv
<1>4. CASE Throw
  BY <1>4, ThrowInv
<1>5. CASE LoopEnds
  BY <1>5, LoopEndsInv
<1>6. CASE Rerun
  BY <1>6, RerunInv
<1>7. CASE Executes
  BY <1>7, ExecutesInv
<1>8. CASE Fails
  BY <1>8, FailsInv
<1>9. CASE SwitchOff
  BY <1>9, SwitchOffInv
<1> QED
  BY <1>1, <1>2, <1>3, <1>4, <1>5, <1>6, <1>7, <1>8, <1>9 DEF Next

(* The radio works at the command of the call that waits, or of one that   *)
(* threw, behind the pointer the host was told of; what a call did when it *)
(* returns is all of its command.                                          *)
THEOREM ChannelInvariant == Spec => []ChannelInv
<1> QED
  BY InitChannelInv, ChannelInvInductive, PTL DEF Spec
-----------------------------------------------------------------------------
(* The flash and the late effects that TYTRadio sees. *)
flashSeen == IF waiting THEN before.memory ELSE memory
lateSeen  == IF waiting THEN before.late ELSE Effect

RadioStep == [Radio!Next]_(Radio!vars)

LEMMA EffectKept ==
  ASSUME UNCHANGED <<command, pointer, memory>>
  PROVE  Effect' = Effect
  BY DEF Effect, Bytes, BlockStart, Flashed

LEMMA EffectGone ==
  ASSUME command' = None
  PROVE  Effect' = Radio!Nothing
<1>1. Bytes' = {}
  BY DEF Bytes, None
<1> QED
  BY <1>1, RadioLayout DEF Effect, Radio!Nothing

LEMMA Stutters ==
  ASSUME UNCHANGED <<hostVars, confirmed, flashSeen, lateSeen>>
  PROVE  RadioStep
  BY DEF RadioStep, Radio!vars, hostVars, flashSeen, lateSeen

LEMMA InitSeen == Init => Radio!Init
<1> SUFFICES ASSUME Init PROVE Radio!Init
  OBVIOUS
<1>1. Effect = Radio!Nothing
  BY NoneNothing DEF Init
<1> QED
  BY <1>1, RadioLayout DEF Init, Radio!Init

(* A radio still at work, with no call waiting for it. *)
LEMMA LateStep ==
  ASSUME ChannelInv, ~waiting, ~waiting', command' = None,
         UNCHANGED <<hostVars, confirmed>>,
         NEW S \in SUBSET Bytes, memory' = Apply(S)
  PROVE  RadioStep
<1>1. lateSeen = Effect /\ lateSeen' = Radio!Nothing
      /\ flashSeen = memory /\ flashSeen' = memory'
  BY EffectGone DEF lateSeen, flashSeen
<1>2. memory' = [a \in DOMAIN memory |-> IF a \in S THEN Effect[a] ELSE memory[a]]
  BY DEF Apply
<1>3. DOMAIN Effect = Bytes
  BY DEF Effect
<1>4. CASE Effect = Radio!Nothing
  <2>1. Bytes = {}
    BY <1>3, <1>4 DEF Radio!Nothing
  <2>2. memory' = memory
    BY <1>2, <2>1 DEF ChannelInv, Types, IsMemory
  <2> QED
    BY <1>1, <1>4, <2>2, Stutters
<1>5. CASE Effect # Radio!Nothing
  <2>1. pc \in {"threw", "upgrade"}
    BY <1>5, NoneNothing DEF ChannelInv, AtWork
  <2>2. /\ lateSeen # Radio!Nothing
        /\ \E T \in SUBSET DOMAIN lateSeen :
             flashSeen' = [a \in DOMAIN flashSeen |->
                             IF a \in T THEN lateSeen[a] ELSE flashSeen[a]]
        /\ lateSeen' = Radio!Nothing
    BY <1>1, <1>2, <1>3, <1>5
  <2>3. UNCHANGED <<fw, pc, seg, addr, bOffset, wValue, runs>>
    BY DEF hostVars
  <2>4. Radio!LateEffect
    BY <2>1, <2>2, <2>3 DEF Radio!LateEffect, lateSeen, flashSeen
  <2> QED
    BY <2>4 DEF RadioStep, Radio!Next
<1> QED
  BY <1>4, <1>5

(* A call begins, and what the radio does during it, do not show. *)
LEMMA CallStep == ASSUME ChannelInv, Call PROVE RadioStep
<1>1. /\ ~waiting /\ waiting' = TRUE
      /\ before' = [memory |-> memory, late |-> Effect]
      /\ UNCHANGED <<hostVars, confirmed>>
  BY DEF Call
<1> QED
  BY <1>1, Stutters DEF flashSeen, lateSeen

LEMMA RadioSteps ==
  ASSUME ChannelInv, Executes \/ Fails \/ SwitchOff
  PROVE  RadioStep
<1>1. /\ command' = None
      /\ UNCHANGED <<hostVars, waiting, before, confirmed>>
  BY DEF Executes, Fails, SwitchOff, history
<1>2. CASE waiting
  BY <1>1, <1>2, Stutters DEF flashSeen, lateSeen
<1>3. CASE ~waiting
  <2>1. \E S \in SUBSET Bytes : memory' = Apply(S)
    <3>1. CASE Executes
      BY <3>1 DEF Executes
    <3>2. CASE Fails
      BY <3>2 DEF Fails
    <3>3. CASE SwitchOff
      <4>1. memory' = memory
        BY <3>3 DEF SwitchOff
      <4>2. Apply({}) = [a \in DOMAIN memory |-> memory[a]]
        BY DEF Apply
      <4>3. memory' = Apply({})
        BY <4>1, <4>2 DEF ChannelInv, Types, IsMemory
      <4> QED
        BY <4>3
    <3> QED
      BY <3>1, <3>2, <3>3
  <2> QED
    BY <1>1, <1>3, <2>1, LateStep
<1> QED
  BY <1>2, <1>3

LEMMA RerunStep == ASSUME ChannelInv, Rerun PROVE RadioStep
<1>1. /\ pc \in {"threw", "done"} /\ runs < MaxRuns /\ runs' = runs + 1
      /\ pc' = "upgrade" /\ seg' = 1 /\ addr' = 0 /\ bOffset' = 0 /\ wValue' = 0
      /\ UNCHANGED <<fw, waiting, command, pointer, memory, before, confirmed>>
  BY DEF Rerun, radioVars, history
<1>2. UNCHANGED <<flashSeen, lateSeen>>
  BY <1>1, EffectKept DEF flashSeen, lateSeen
<1>3. Radio!Rerun
  BY <1>1, <1>2 DEF Radio!Rerun, flashSeen, lateSeen
<1> QED
  BY <1>3 DEF RadioStep, Radio!Next

LEMMA LoopEndsStep == ASSUME LoopEnds PROVE RadioStep
  BY DEF LoopEnds, RadioStep, Radio!Next, Radio!WriteFirmware, Radio!Proceeds

(* When a call returns, all of its command shows, and nothing is late. *)
LEMMA ReturnStep == ASSUME ChannelInv, Return PROVE RadioStep
<1>1. /\ waiting /\ waiting' = FALSE /\ Executed /\ command = None /\ Calls
      /\ Advance /\ pc \in {"upgrade", "erase", "setaddr", "block"}
      /\ UNCHANGED <<fw, runs, command, pointer, memory, before>>
  BY ReturnFacts
<1>2. /\ flashSeen = before.memory /\ flashSeen' = memory
      /\ lateSeen = before.late /\ lateSeen' = Radio!Nothing
  BY <1>1, EffectGone DEF flashSeen, lateSeen
<1>3. pc # "upgrade" => before.late = Radio!Nothing
  BY <1>1 DEF ChannelInv, NothingElse
<1>4. Begun /\ Finished
  BY DEF ChannelInv
<1>5. CASE pc = "upgrade"
  <2>1. Radio!StartSegment(1) /\ UNCHANGED <<bOffset, wValue, confirmed>>
    BY <1>1, <1>5 DEF Advance
  <2>2. flashSeen' = flashSeen
    BY <1>1, <1>2, <1>4, <1>5 DEF Begun
  <2>3. Radio!SendFirmwareUpgrade
    BY <1>1, <1>2, <1>5, <2>1, <2>2 DEF Radio!SendFirmwareUpgrade, flashSeen, lateSeen
  <2> QED
    BY <2>3 DEF RadioStep, Radio!Next, Radio!WriteFirmware, Radio!Proceeds
<1>6. CASE pc = "erase"
  <2>1. addr' = addr + Radio!NBytes
        /\ UNCHANGED <<pc, seg, bOffset, wValue, confirmed>>
    BY <1>1, <1>6 DEF Advance
  <2>2. Radio!InRange(addr, Radio!SegEnd)
    BY <1>1, <1>6 DEF Calls, InRange, Radio!InRange, Mapped, Radio!Mapped,
                      InSector, Radio!InSector, End, Radio!End
  <2>3. memory = Radio!EraseBytes(Radio!SectorBytes(Radio!GetSector(addr)))
    BY <1>1, <1>4, <1>6, RadioLayout DEF Finished
  <2>4. Radio!EraseSector
    BY <1>1, <1>2, <1>3, <1>6, <2>1, <2>2, <2>3
       DEF Radio!EraseSector, flashSeen, lateSeen
  <2> QED
    BY <2>4 DEF RadioStep, Radio!Next, Radio!WriteFirmware, Radio!Proceeds
<1>7. CASE pc = "setaddr"
  <2>1. pc' = "block" /\ wValue' = 0 /\ confirmed' = addr
        /\ UNCHANGED <<seg, addr, bOffset>>
    BY <1>1, <1>7 DEF Advance
  <2>2. Radio!InRange(addr, Radio!SegEnd)
    BY <1>1, <1>7, RadioLayout DEF Calls
  <2>3. flashSeen' = flashSeen
    BY <1>1, <1>2, <1>4, <1>7 DEF Begun
  <2>4. Radio!SetAddress
    BY <1>1, <1>2, <1>3, <1>7, <2>1, <2>2, <2>3
       DEF Radio!SetAddress, flashSeen, lateSeen
  <2> QED
    BY <2>4 DEF RadioStep, Radio!Next, Radio!WriteFirmware, Radio!Proceeds
<1>8. CASE pc = "block"
  <2>1. wValue' = wValue + 1 /\ UNCHANGED <<pc, seg, addr, bOffset, confirmed>>
    BY <1>1, <1>8 DEF Advance
  <2>2. wValue < Radio!Blocks
    BY <1>1, <1>8 DEF Calls
  <2>3. /\ Radio!BlockBytes \subseteq DOMAIN flashSeen
        /\ memory = Radio!Programmed(Radio!BlockBytes)
    BY <1>1, <1>2, <1>4, <1>8 DEF Finished
  <2>4. Radio!WriteBlock
    BY <1>1, <1>2, <1>3, <1>8, <2>1, <2>2, <2>3
       DEF Radio!WriteBlock, flashSeen, lateSeen
  <2> QED
    BY <2>4 DEF RadioStep, Radio!Next, Radio!WriteFirmware, Radio!Proceeds
<1> QED
  BY <1>1, <1>5, <1>6, <1>7, <1>8

(* When a call throws, what was done so far shows; what may still happen   *)
(* is late.                                                                *)
LEMMA ThrowStep == ASSUME ChannelInv, Throw PROVE RadioStep
<1>1. /\ Calls /\ pc' = "threw" /\ waiting' = FALSE
      /\ UNCHANGED <<fw, seg, addr, bOffset, wValue, runs,
                     command, pointer, memory, before, confirmed>>
  BY DEF Throw, radioVars, history, ChannelInv, AtWork
<1>2. /\ flashSeen' = memory /\ lateSeen' = Effect
      /\ waiting => flashSeen = before.memory /\ lateSeen = before.late
      /\ ~waiting => flashSeen = memory /\ lateSeen = Effect
      /\ waiting \in BOOLEAN
  BY <1>1, EffectKept DEF flashSeen, lateSeen, ChannelInv, Types
<1>3. Radio!Stop
  BY <1>1 DEF Radio!Stop
<1>4. /\ pc # "upgrade" /\ waiting => lateSeen = Radio!Nothing
      /\ pc # "upgrade" /\ ~waiting => lateSeen = Radio!Nothing
  BY <1>1, <1>2, NoneNothing DEF ChannelInv, NothingElse, AtWork, Calls
<1>5. waiting /\ command # None => AtCommand
  BY CommandEffect
<1>6. command = None => lateSeen' = Radio!Nothing
  BY <1>2, NoneNothing
<1>7. Begun
  BY DEF ChannelInv
<1>8. memory = [a \in DOMAIN memory |-> memory[a]]
  BY DEF ChannelInv, Types, IsMemory
<1>9. CASE pc = "upgrade"
  <2>1. flashSeen' = flashSeen
    BY <1>2, <1>7, <1>9 DEF Begun
  <2>2. lateSeen' \in {lateSeen, Radio!Nothing}
    <3>1. CASE ~waiting
      BY <1>2, <3>1
    <3>2. CASE waiting /\ command # None
      <4>1. command.name = "upgrade"
        BY <1>5, <1>9, <3>2 DEF AtCommand, NextCommand
      <4> QED
        BY <1>2, <4>1, NoBytesNothing
    <3>3. CASE command = None
      BY <1>6, <3>3
    <3> QED
      BY <1>2, <3>1, <3>2, <3>3
  <2>3. Radio!UpgradeThrows
    BY <1>1, <1>3, <1>9, <2>1, <2>2 DEF Radio!UpgradeThrows, flashSeen, lateSeen
  <2> QED
    BY <2>3 DEF RadioStep, Radio!Next, Radio!WriteFirmware, Radio!Throws
<1>10. CASE pc = "setaddr"
  <2>1. flashSeen' = flashSeen
    BY <1>2, <1>7, <1>10 DEF Begun
  <2>2. lateSeen' = lateSeen
    <3>1. CASE ~waiting
      BY <1>2, <3>1
    <3>2. CASE waiting /\ command # None
      <4>1. command.name = "setaddr"
        BY <1>5, <1>10, <3>2 DEF AtCommand, NextCommand
      <4> QED
        BY <1>2, <1>4, <1>10, <3>2, <4>1, NoBytesNothing
    <3>3. CASE waiting /\ command = None
      BY <1>4, <1>6, <1>10, <3>3
    <3> QED
      BY <1>2, <3>1, <3>2, <3>3
  <2>3. Radio!InRange(addr, Radio!SegEnd)
    BY <1>1, <1>10, RadioLayout DEF Calls
  <2>4. Radio!SetAddressThrows
    BY <1>1, <1>3, <1>10, <2>1, <2>2, <2>3
       DEF Radio!SetAddressThrows, flashSeen, lateSeen
  <2> QED
    BY <2>4 DEF RadioStep, Radio!Next, Radio!WriteFirmware, Radio!Throws
<1>11. CASE pc = "erase"
  <2> DEFINE Sector == Radio!SectorBytes(Radio!GetSector(addr))
  <2>1. Sector = SectorBytes(GetSector(addr))
    BY RadioLayout
  <2>2. Radio!InRange(addr, Radio!SegEnd)
    BY <1>1, <1>11, RadioLayout DEF Calls
  <2>3. \/ /\ \E S \in SUBSET Sector : flashSeen' = Radio!EraseBytes(S)
           /\ lateSeen' = Radio!Nothing
        \/ /\ lateSeen' = Radio!Only(Sector, Radio!EraseBytes(Sector))
           /\ flashSeen' = flashSeen
    <3>1. CASE ~waiting
      <4>1. Radio!EraseBytes({}) = memory
        BY <1>8, <3>1 DEF Radio!EraseBytes
      <4>2. lateSeen' = Radio!Nothing
        BY <1>2, <1>4, <1>11, <3>1
      <4>3. flashSeen' = Radio!EraseBytes({}) /\ {} \in SUBSET Sector
        BY <1>2, <4>1
      <4> QED
        BY <4>2, <4>3
    <3>2. CASE waiting /\ command # None
      BY <1>2, <1>5, <1>11, <2>1, <3>2, EraseCommand DEF AtCommand
    <3>3. CASE waiting /\ command = None
      BY <1>2, <1>6, <1>7, <1>11, <2>1, <3>3 DEF Begun
    <3> QED
      BY <1>2, <3>1, <3>2, <3>3
  <2>4. Radio!EraseThrows
    BY <1>1, <1>3, <1>11, <2>2, <2>3 DEF Radio!EraseThrows, flashSeen, lateSeen
  <2> QED
    BY <2>4 DEF RadioStep, Radio!Next, Radio!WriteFirmware, Radio!Throws
<1>12. CASE pc = "block"
  <2> DEFINE Block == Radio!BlockBytes \cap DOMAIN flashSeen
  <2>1. wValue < Radio!Blocks
    BY <1>1, <1>12 DEF Calls
  <2>2. \/ /\ \E S \in SUBSET Block : flashSeen' = Radio!Programmed(S)
           /\ lateSeen' = Radio!Nothing
        \/ /\ lateSeen' = Radio!Only(Block, Radio!Programmed(Block))
           /\ flashSeen' = flashSeen
    <3>1. CASE ~waiting
      <4>1. Radio!Programmed({}) = memory
        BY <1>8, <3>1 DEF Radio!Programmed
      <4>2. lateSeen' = Radio!Nothing
        BY <1>2, <1>4, <1>12, <3>1
      <4>3. flashSeen' = Radio!Programmed({}) /\ {} \in SUBSET Block
        BY <1>2, <4>1
      <4> QED
        BY <4>2, <4>3
    <3>2. CASE waiting /\ command # None
      <4>1. pointer = confirmed
        BY <1>12, <3>2 DEF ChannelInv, PointerKept, AtWork, Types
      <4>2. /\ Bytes = Radio!BlockBytes \cap DOMAIN memory
            /\ Effect = Radio!Only(Bytes, Radio!Programmed(Bytes))
            /\ memory = before.memory
        BY <1>5, <1>12, <3>2, <4>1, BlockCommand DEF AtCommand
      <4> QED
        BY <1>2, <3>2, <4>2
    <3>3. CASE waiting /\ command = None
      BY <1>2, <1>6, <1>7, <1>12, <3>3 DEF Begun
    <3> QED
      BY <1>2, <3>1, <3>2, <3>3
  <2>3. Radio!BlockThrows
    BY <1>1, <1>3, <1>12, <2>1, <2>2 DEF Radio!BlockThrows, flashSeen, lateSeen
  <2> QED
    BY <2>3 DEF RadioStep, Radio!Next, Radio!WriteFirmware, Radio!Throws
<1> QED
  BY <1>1, <1>9, <1>10, <1>11, <1>12 DEF Calls

LEMMA EveryStep == ChannelInv /\ [Next]_vars => RadioStep
<1> SUFFICES ASSUME ChannelInv, [Next]_vars PROVE RadioStep
  OBVIOUS
<1>1. CASE UNCHANGED vars
  <2>1. UNCHANGED <<hostVars, waiting, command, pointer, memory, before, confirmed>>
    BY <1>1 DEF vars, radioVars, history
  <2> QED
    BY <2>1, EffectKept, Stutters DEF flashSeen, lateSeen
<1>2. CASE Call
  BY <1>2, CallStep
<1>3. CASE Return
  BY <1>3, ReturnStep
<1>4. CASE Throw
  BY <1>4, ThrowStep
<1>5. CASE LoopEnds
  BY <1>5, LoopEndsStep
<1>6. CASE Rerun
  BY <1>6, RerunStep
<1>7. CASE Executes \/ Fails \/ SwitchOff
  BY <1>7, RadioSteps
<1> QED
  BY <1>1, <1>2, <1>3, <1>4, <1>5, <1>6, <1>7 DEF Next

(* Every update over the channel is one that TYTRadio describes: a call of *)
(* DFU::Download that throws while the radio is still busy, a radio that   *)
(* is switched off and forgets its pointer, a command that arrives while   *)
(* an old one is under way do nothing that WriteFirmware's specification   *)
(* with one step per command does not allow.                               *)
THEOREM UpdateOverChannel == Spec => ImplementsTYTRadio
<1>1. Init => Radio!Init
  BY InitSeen
<1>2. ChannelInv /\ [Next]_vars => [Radio!Next]_(Radio!vars)
  BY EveryStep DEF RadioStep
<1> QED
  BY <1>1, <1>2, ChannelInvariant, PTL DEF Spec, ImplementsTYTRadio, Radio!Spec
-----------------------------------------------------------------------------
(* The commands a radio may hold. *)
Commands == {"none", "upgrade", "erase", "setaddr", "block"}

LEMMA KnownCommand == ChannelInv /\ command.name \in Commands /\ [Next]_vars
                        => (command.name \in Commands)'
<1> SUFFICES ASSUME ChannelInv, command.name \in Commands, [Next]_vars
             PROVE  command'.name \in Commands
  OBVIOUS
<1>1. CASE Call
  <2>1. command' = NextCommand
    BY <1>1 DEF Call
  <2>2. pc \in {"upgrade", "erase", "setaddr", "block"}
    BY <1>1 DEF Call, Calls
  <2>3. command'.name = pc
    BY <2>1 DEF NextCommand
  <2> QED
    BY <2>2, <2>3 DEF Commands
<1>2. CASE Executes \/ Fails \/ SwitchOff
  <2>1. command' = None
    BY <1>2 DEF Executes, Fails, SwitchOff
  <2> QED
    BY <2>1 DEF None, Commands
<1>3. CASE Return \/ Throw \/ LoopEnds \/ Rerun \/ UNCHANGED vars
  BY <1>3 DEF Return, Throw, LoopEnds, Rerun, vars, radioVars
<1> QED
  BY <1>1, <1>2, <1>3 DEF Next

(* The host waits only in one of WriteFirmware's four calls, the radio     *)
(* holds one of their commands, and no command adds or loses an address.   *)
THEOREM TypeCorrect == Spec => []TypeOK
<1>1. Init => command.name \in Commands
  BY DEF Init, None, Commands
<1>2. ChannelInv /\ command.name \in Commands => TypeOK
  <2> SUFFICES ASSUME ChannelInv, command.name \in Commands PROVE TypeOK
    OBVIOUS
  <2>1. DOMAIN memory = MappedBytes
    BY DEF ChannelInv, Types, IsMemory
  <2>2. waiting => pc \in {"upgrade", "erase", "setaddr", "block"}
    BY DEF ChannelInv, AtWork, Calls
  <2> QED
    BY <2>1, <2>2 DEF TypeOK, ChannelInv, Types, Commands
<1> QED
  BY <1>1, <1>2, KnownCommand, ChannelInvariant, PTL DEF Spec
=============================================================================

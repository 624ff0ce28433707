--------------------------- MODULE TYTOverChannel ---------------------------
(***************************************************************************)
(* TYTRadio::WriteFirmware over what DFU provides.  In TYTRadio.tla a      *)
(* command and its answer are one step; here the host calls DFU::Download, *)
(* the command travels with the numbers the code puts into it, the radio   *)
(* executes it in its own time behind a pointer of its own, and the call   *)
(* returns or throws - at once, or long before the radio is finished.      *)
(*                                                                         *)
(* CommandChannel is what DFU.tla was shown to provide; the refinement     *)
(* below shows that no more is needed: TYTRadio's proofs hold of this.     *)
(***************************************************************************)
EXTENDS FirmwareLayout, FiniteSets

CONSTANTS TransferSize, MaxRuns   \* as in TYTRadio

ASSUME ChannelAssumption == TransferSize \in Nat \ {0} /\ MaxRuns \in Nat

VARIABLES
  fw, pc, seg, addr, bOffset, wValue, runs,  \* the host, as in TYTRadio
  waiting,    \* the host is inside a call of Download
  sent, executed, returned,                  \* the channel
  link,       \* "up", or "down" once the radio was switched off
  command,    \* in the radio: the command it was sent and has not finished
  pointer,    \* in the radio: where block 2 goes
  memory,     \* in the radio: address -> content
  before,     \* history: the memory, and what was to come, when the call began
  confirmed   \* history: the pointer of the last SetAddress that returned

hostVars  == <<fw, pc, seg, addr, bOffset, wValue, runs>>
channel   == <<sent, executed, returned>>
radioVars == <<command, pointer, memory>>
history   == <<before, confirmed>>
vars      == <<hostVars, waiting, channel, link, radioVars, history>>

Channel == INSTANCE CommandChannel WITH sent <- sent, executed <- executed,
                                        returned <- returned

-----------------------------------------------------------------------------
(* What a command does to the radio. *)
None == [name |-> "none", arg |-> 0, data |-> <<>>]

NothingToDo == [a \in {} |-> Erased]

BlockStart == pointer + TransferSize * (command.arg - 2)

(* The bytes of mapped memory a command is about. *)
Bytes ==
  IF command.name = "erase" THEN SectorBytes(GetSector(command.arg))
  ELSE IF command.name = "block"
       THEN BlockStart..(BlockStart + Len(command.data) - 1) \cap DOMAIN memory
       ELSE {}

(* A block that does not fit into the mapped memory. *)
Refused == command.name = "block" /\ Cardinality(Bytes) < Len(command.data)

Flashed(a, byte) == IF memory[a] \in {Erased, byte} THEN byte ELSE Garbled

Effect ==
  [a \in Bytes |-> IF command.name = "erase" THEN Erased
                   ELSE Flashed(a, command.data[a - BlockStart + 1])]

Apply(S) == [a \in DOMAIN memory |-> IF a \in S THEN Effect[a] ELSE memory[a]]

-----------------------------------------------------------------------------
(* The refinement: the effect of a call shows when it returns or throws.   *)
Radio == INSTANCE TYTRadio WITH
  ptr   <- confirmed,
  flash <- IF waiting THEN before.memory ELSE memory,
  late  <- IF waiting THEN before.late ELSE Effect

Init ==
  /\ fw \in Firmwares
  /\ pc = "upgrade" /\ seg = 1 /\ addr = 0 /\ bOffset = 0 /\ wValue = 0 /\ runs = 1
  /\ waiting = FALSE
  /\ Channel!Init
  /\ link = "up"
  /\ command = None /\ pointer = 0
  /\ memory = [a \in MappedBytes |-> Old]
  /\ before = [memory |-> NothingToDo, late |-> NothingToDo] /\ confirmed = 0

(* The command WriteFirmware sends next, with what the call carries. *)
Calls == \/ pc = "upgrade"
         \/ pc \in {"erase", "setaddr"} /\ InRange(addr, Radio!SegEnd)
         \/ pc = "block" /\ wValue < Radio!Blocks

NextCommand ==
  IF pc = "block"
  THEN [name |-> pc, arg |-> Radio!BlockNum,
        data |-> [k \in 1..Radio!BlockLen |-> <<seg, Radio!BlockOffset + k - 1>>]]
  ELSE [name |-> pc, arg |-> addr, data |-> <<>>]

(* Mutant: the loops do not end. *)
CallPastTheEnd ==
  /\ ~waiting /\ link = "up"
  /\ Channel!Send
  /\ command' = NextCommand
  /\ waiting' = TRUE
  /\ before' = [memory |-> memory, late |-> Effect]
  /\ UNCHANGED <<hostVars, link, pointer, memory, confirmed>>

(* Download's OUT transfer reaches the radio; a command that was still     *)
(* there is gone.                                                          *)
Call ==
  /\ ~waiting /\ Calls /\ link = "up"
  /\ Channel!Send
  /\ command' = NextCommand
  /\ waiting' = TRUE
  /\ before' = [memory |-> memory, late |-> Effect]
  /\ UNCHANGED <<hostVars, link, pointer, memory, confirmed>>

(* What WriteFirmware does when the call has returned. *)
Advance ==
  \/ /\ pc = "upgrade"
     /\ Radio!StartSegment(1)
     /\ UNCHANGED <<bOffset, wValue, confirmed>>
  \/ /\ pc = "erase"
     /\ addr' = addr + Radio!NBytes
     /\ UNCHANGED <<pc, seg, bOffset, wValue, confirmed>>
  \/ /\ pc = "setaddr"
     /\ pc' = "block" /\ wValue' = 0 /\ confirmed' = addr
     /\ UNCHANGED <<seg, addr, bOffset>>
  \/ /\ pc = "block"
     /\ wValue' = wValue + 1
     /\ UNCHANGED <<pc, seg, addr, bOffset, confirmed>>

(* Mutant: Download returns when the radio has begun the command. *)
ReturnOnceSent ==
  /\ waiting /\ link = "up"
  /\ Advance
  /\ waiting' = FALSE
  /\ UNCHANGED <<fw, runs, channel, link, radioVars, before>>

(* Both status answers were good. *)
Return ==
  /\ waiting /\ link = "up"
  /\ Channel!Return
  /\ Advance
  /\ waiting' = FALSE
  /\ UNCHANGED <<fw, runs, link, radioVars, before>>

(* A transfer fails, before the command reached the radio or after. *)
Throw ==
  /\ waiting \/ Calls
  /\ pc' = "threw"
  /\ waiting' = FALSE
  /\ UNCHANGED <<fw, seg, addr, bOffset, wValue, runs, channel, link, radioVars, history>>

(* The loops' ends need no command. *)
LoopEnds ==
  /\ ~waiting
  /\ UNCHANGED <<waiting, channel, link, radioVars, history>>
  /\ Radio!EraseEnd \/ Radio!ChunkEnd \/ Radio!SegmentEnd

Rerun ==
  /\ pc \in {"threw", "done"}
  /\ runs < MaxRuns
  /\ runs' = runs + 1
  /\ pc' = "upgrade" /\ seg' = 1 /\ addr' = 0 /\ bOffset' = 0 /\ wValue' = 0
  /\ link' = "up"
  /\ UNCHANGED <<fw, waiting, channel, radioVars, history>>

-----------------------------------------------------------------------------
(* The radio: it executes the command, fails somewhere in it - or drops it *)
(* at an ABORT - or is switched off.                                       *)
Executes ==
  /\ command # None /\ ~Refused
  /\ Channel!Execute
  /\ memory' = Apply(Bytes)
  /\ pointer' = IF command.name = "setaddr" THEN command.arg ELSE pointer
  /\ command' = None
  /\ UNCHANGED <<hostVars, waiting, link, history>>

Fails ==
  /\ command # None
  /\ \E S \in SUBSET Bytes : memory' = Apply(S)
  /\ command' = None
  /\ UNCHANGED <<hostVars, waiting, channel, link, pointer, history>>

SwitchOff ==
  /\ link = "up"
  /\ link' = "down"
  /\ command' = None
  /\ pointer' = 0
  /\ UNCHANGED <<hostVars, waiting, channel, memory, history>>

Next ==
  \/ Call \/ Return \/ Throw \/ LoopEnds \/ Rerun
  \/ Executes \/ Fails \/ SwitchOff

Spec == Init /\ [][Next]_vars
-----------------------------------------------------------------------------
(* Types of the variables; while a call runs, the host is in one. *)
TypeOK ==
  /\ waiting \in BOOLEAN
  /\ waiting => pc \in {"upgrade", "erase", "setaddr", "block"}
  /\ link \in {"up", "down"}
  /\ command.name \in {"none", "upgrade", "erase", "setaddr", "block"}
  /\ pointer \in Nat /\ confirmed \in Nat
  /\ DOMAIN memory = MappedBytes

(***************************************************************************)
(* The update over the channel is the update of TYTRadio: that a call may  *)
(* throw and leave the radio at work, that the radio is switched off under *)
(* it and forgets its pointer, shows as nothing TYTRadio does not already  *)
(* do - so all that is proved of TYTRadio holds here.                      *)
(***************************************************************************)
ImplementsTYTRadio == Radio!Spec
=============================================================================

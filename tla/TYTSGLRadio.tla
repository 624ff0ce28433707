----------------------------- MODULE TYTSGLRadio -----------------------------
(***************************************************************************)
(* Flashing a radio of the SGL family: TYTSGLRadio::WriteFirmware and the  *)
(* command exchange of TYTHID (src/tyt_sgl_radio.cpp, src/tyt_hid.cpp).    *)
(*                                                                         *)
(* Every command is one interrupt transfer out and one in.  An answer that *)
(* comes too late stays with the radio, and the next run of the tool finds *)
(* it in front of its own.  What the radio answers is modelled from what   *)
(* the host expects of it.                                                 *)
(***************************************************************************)
EXTENDS Integers, Sequences

CONSTANTS
  Sizes,              \* lengths of a firmware image, in bytes
  TransferSize,       \* 0x20: the bytes in one transfer
  ChecksumBlockSize,  \* 0x400: the bytes under one checksum
  FlashSize,          \* the radio's flash: addresses 0..FlashSize - 1
  MaxRuns             \* bound: how often the update is started

ASSUME SGLAssumption ==
  /\ TransferSize \in Nat \ {0} /\ ChecksumBlockSize \in Nat \ {0}
  /\ ChecksumBlockSize % TransferSize = 0
  /\ FlashSize \in Nat /\ Sizes \subseteq 0..FlashSize
  /\ MaxRuns \in Nat \ {0}

VARIABLES
  size,           \* binary.size
  pc,             \* "send" or "reply", "done" or "threw"
  step,           \* the command being sent or answered
  address,        \* how many bytes have been sent
  checksumBlock,  \* how many checksums have been sent
  taken,          \* radio: the last step it has taken, 0 for none
  flash,          \* radio: what is at each address
  since,          \* radio: the addresses written since the last checksum
  cmds,           \* on the way to the radio
  answers,        \* on the way to the host
  runs,           \* how often the update was started
  mayFail         \* whether, this time, transfers fail and commands are refused

hostVars  == <<size, pc, step, address, checksumBlock>>
radioVars == <<taken, flash, since>>
vars == <<hostVars, radioVars, cmds, answers, runs, mayFail>>

(* The commands, in order; from "data" on they repeat. *)
Steps == <<"download", "ok", "key", "flashProgram", "group", "model", "version",
           "flashErase", "okErase", "program", "data", "end">>

At(name) == CHOOSE k \in DOMAIN Steps : Steps[k] = name

(* What a byte of flash holds, other than the image's byte of its address. *)
Old    == -1
Erased == -2
Wrong  == -3

Lower(a, b) == IF a < b THEN a ELSE b

-----------------------------------------------------------------------------
Init ==
  /\ size \in Sizes
  /\ pc = "send" /\ step = 1 /\ address = 0 /\ checksumBlock = 0
  /\ taken = 0 /\ since = {}
  /\ flash = [a \in 0..(FlashSize - 1) |-> Old]
  /\ cmds = <<>> /\ answers = <<>>
  /\ runs = 1 /\ mayFail \in BOOLEAN

(* Mutants: slips that the code could have. *)
LengthFull         == TransferSize
SumDueInside(a)    == a % ChecksumBlockSize = 0
SumRangeFromStart  == [from |-> 0, to |-> address]
ExpectedAny(v)     == TRUE
ExpectedOk(v)      == v = "A"

(* The bytes of the next transfer. *)
Length == Lower(TransferSize, size - address)

(* Whether a checksum is due when a bytes have been sent. *)
SumDue(a) == a % ChecksumBlockSize = 0 \/ a = size

SumRange == [from |-> ChecksumBlockSize * checksumBlock, to |-> address]

More(a) == a < size

(* Transfers carry the bytes, and checksums cover them, from "from" to     *)
(* before "to".                                                            *)
RangeOf(k) ==
  IF Steps[k] = "data" THEN [from |-> address, to |-> address + Length]
  ELSE IF Steps[k] = "end" THEN SumRange
  ELSE [from |-> 0, to |-> 0]

Command == [k |-> step, from |-> RangeOf(step).from, to |-> RangeOf(step).to]

-----------------------------------------------------------------------------
Send ==
  /\ pc = "send"
  /\ cmds' = Append(cmds, Command)
  /\ pc' = "reply"
  /\ UNCHANGED <<size, step, address, checksumBlock, radioVars, answers, runs>>

(***************************************************************************)
(* Most answers must be the one OK; the first and the third are compared   *)
(* as far as they go, so that one without data passes.                     *)
(***************************************************************************)
Expected(v) ==
  \/ Steps[step] = "download" /\ v \in {"UPDATE", ""}
  \/ Steps[step] = "key" /\ v \in {"key", ""}
  \/ Steps[step] \notin {"download", "key"} /\ v = "A"

(* The head of the loop over the image, after a of its bytes. *)
NextTransfer(a) ==
  IF More(a) THEN step' = At("data") /\ pc' = "send"
  ELSE UNCHANGED step /\ pc' = "done"

Handshaken ==
  /\ step < At("program")
  /\ step' = step + 1 /\ pc' = "send"
  /\ UNCHANGED <<address, checksumBlock>>

Programming ==
  /\ Steps[step] = "program"
  /\ NextTransfer(0)
  /\ UNCHANGED <<address, checksumBlock>>

Transferred ==
  /\ Steps[step] = "data"
  /\ address' = address + Length
  /\ IF SumDue(address') THEN step' = At("end") /\ pc' = "send"
     ELSE NextTransfer(address')
  /\ UNCHANGED checksumBlock

Summed ==
  /\ Steps[step] = "end"
  /\ checksumBlock' = checksumBlock + 1
  /\ NextTransfer(address)
  /\ UNCHANGED address

ReadAnswer ==
  /\ pc = "reply" /\ answers # <<>>
  /\ answers' = Tail(answers)
  /\ \/ /\ Expected(Head(answers))
        /\ Handshaken \/ Programming \/ Transferred \/ Summed
     \/ /\ ~Expected(Head(answers))
        /\ pc' = "threw" /\ UNCHANGED <<step, address, checksumBlock>>
  /\ UNCHANGED <<size, radioVars, cmds, runs>>

WriteFirmware == Send \/ ReadAnswer

(* A transfer fails or times out; the command may get through all the      *)
(* same, and its answer may come later.                                    *)
TransferFails ==
  /\ mayFail
  /\ pc \in {"send", "reply"}
  /\ pc' = "threw"
  /\ cmds' \in IF pc = "send" THEN {cmds, Append(cmds, Command)} ELSE {cmds}
  /\ UNCHANGED <<size, step, address, checksumBlock, radioVars, answers, runs>>

(* The user starts the update again, with the radio as it is, or off and on. *)
Rerun ==
  /\ pc \in {"done", "threw"} /\ runs < MaxRuns
  /\ runs' = runs + 1
  /\ pc' = "send" /\ step' = 1 /\ address' = 0 /\ checksumBlock' = 0
  /\ \/ UNCHANGED <<taken, since, cmds, answers>>
     \/ taken' = 0 /\ since' = {} /\ cmds' = <<>> /\ answers' = <<>>
  /\ UNCHANGED <<size, flash>>

-----------------------------------------------------------------------------
(* The radio starts over on "download", and else goes through the steps;   *)
(* it checks what it has written against a checksum.                       *)
Bytes(c) == c.from..(c.to - 1)

Accepts(c) ==
  \/ Steps[c.k] = "download"
  \/ c.k = taken + 1 /\ c.k < At("data")
  \/ Steps[c.k] = "data" /\ taken >= At("program") /\ Bytes(c) \subseteq DOMAIN flash
  \/ Steps[c.k] = "end" /\ Steps[taken] = "data" /\ Bytes(c) = since

Answer(k) ==
  IF Steps[k] = "download" THEN "UPDATE" ELSE IF Steps[k] = "key" THEN "key" ELSE "A"

FlashAfter(c) ==
  CASE Steps[c.k] = "flashErase" -> [a \in DOMAIN flash |-> Erased]
    [] Steps[c.k] = "data" ->
         [a \in DOMAIN flash |->
            IF a \notin Bytes(c) THEN flash[a]
            ELSE IF a < size /\ flash[a] = Erased THEN a ELSE Wrong]
    [] OTHER -> flash

RadioTakes ==
  /\ cmds # <<>> /\ Accepts(Head(cmds))
  /\ taken' = Head(cmds).k
  /\ flash' = FlashAfter(Head(cmds))
  /\ since' = IF Steps[Head(cmds).k] = "data" THEN since \cup Bytes(Head(cmds)) ELSE {}
  /\ answers' = Append(answers, Answer(Head(cmds).k))
  /\ cmds' = Tail(cmds)
  /\ UNCHANGED <<hostVars, runs>>

RadioRefuses ==
  /\ cmds # <<>>
  /\ mayFail \/ ~Accepts(Head(cmds))
  /\ \E v \in {"other", ""} : answers' = Append(answers, v)
  /\ cmds' = Tail(cmds)
  /\ UNCHANGED <<hostVars, radioVars, runs>>

Radio == RadioTakes \/ RadioRefuses

Next == (WriteFirmware \/ TransferFails \/ Rerun \/ Radio) /\ UNCHANGED mayFail

Spec == Init /\ [][Next]_vars

(* Both sides run on. *)
FairSpec == Spec /\ WF_vars(WriteFirmware /\ UNCHANGED mayFail)
                 /\ WF_vars(Radio /\ UNCHANGED mayFail)

-----------------------------------------------------------------------------
TypeOK ==
  /\ size \in Sizes
  /\ pc \in {"send", "reply", "done", "threw"}
  /\ step \in DOMAIN Steps /\ taken \in 0..Len(Steps)
  /\ address \in 0..size /\ checksumBlock \in 0..size
  /\ flash \in [0..(FlashSize - 1) -> Wrong..(FlashSize - 1)]
  /\ since \subseteq DOMAIN flash
  /\ Len(cmds) <= MaxRuns /\ Len(answers) <= MaxRuns

(***************************************************************************)
(* A run that is past the handshake is in step with the radio, whatever    *)
(* answers earlier runs have left behind: every command before this one    *)
(* was taken, and nothing is on the way.  So it is with up to four runs.   *)
(* Nothing in the code reads old answers away: four runs, each timed out   *)
(* one command later than the one before, leave the answers to a whole     *)
(* handshake, and the fifth goes past its own without one of its own.      *)
(***************************************************************************)
InStep ==
  pc = "send" /\ step > At("flashProgram") =>
    taken >= step - 1 /\ cmds = <<>> /\ answers = <<>>

(* Each checksum is over exactly what was sent since the one before.       *)
SumCovers ==
  pc = "send" /\ Steps[step] = "end" => since = SumRange.from..(SumRange.to - 1)

(* An update that ends well has put the image in place, nothing else, and  *)
(* the radio has checked the sum of all of it.                             *)
ImageArrives ==
  pc = "done" =>
    /\ \A a \in DOMAIN flash : flash[a] = IF a < size THEN a ELSE Erased
    /\ since = {}

(* Every update ends, and well if nothing fails.                           *)
UpdateEnds ==
  pc = "send" ~> pc = "done" \/ (mayFail /\ pc = "threw")
=============================================================================

-------------------------------- MODULE H8SX --------------------------------
(***************************************************************************)
(* Identifying and flashing a Yaesu radio: YaesuRadio::ToString and        *)
(* WriteFirmware, and the dialogue of H8SX::Init, InquireDevice,           *)
(* InitDownload and Download with the boot program of the radio            *)
(* (src/h8sx.cpp).                                                         *)
(*                                                                         *)
(* The dialogue is a script of commands, each answered before the next is  *)
(* sent; the command that programs is repeated for every chunk of 1024     *)
(* bytes.  Transfers have no time limit, so an answer that does not come   *)
(* is waited for; one may fail with an error.  What the radio answers is   *)
(* modelled from what the host expects of it.                              *)
(***************************************************************************)
EXTENDS Integers, Sequences

CONSTANTS
  Files,     \* firmware files, by their length in chunks of 1024 bytes
  Cells,     \* the radio's flash in chunks: addresses 0..Cells - 1
  Refusals,  \* the commands that the radio may refuse although in order
  Faults,    \* what may go wrong: "transfer" errors, a bad "cell", "empty" answers
  MaxRuns    \* bound: how often the tool is started

H8SXAssumption ==
  /\ Files \subseteq 0..Cells
  /\ Cells \in Nat /\ MaxRuns \in Nat
  /\ Faults \subseteq {"transfer", "cell", "empty"}
ASSUME H8SXAssumption

VARIABLES
  op,      \* "flash" or "info"
  file,    \* the chunks of the firmware file; none if it cannot be opened
  pc,      \* "init"; "send", "reply", "extra": in the dialogue; "done", "threw"
  step,    \* the command of the script being sent or answered
  i,       \* the chunk
  buf0,    \* what buf[0] holds: "ack" or "other"
  taken,   \* radio: how many commands of the script it has taken
  cells,   \* radio: its flash
  answers, \* on the line to the host
  cmd,     \* on the line to the radio
  runs     \* how often the tool was started

hostVars  == <<op, file, pc, step, i, buf0>>
radioVars == <<taken, cells>>
vars == <<hostVars, radioVars, answers, cmd, runs>>

Script == <<"BEGIN_INQUIRY", "DEVICE_INQUIRY", "DEVICE_SELECT",
            "CLOCK_MODE_INQUIRY", "CLOCK_MODE_SELECT", "PROG_UNIT_INQUIRY",
            "BITRATE_SELECT", "CONFIRM", "BEGIN_PROGRAMMING",
            "USER_MAT_SELECT", "PROGRAM", "END", "USER_MAT_CHECKSUM">>

At(name) == CHOOSE k \in DOMAIN Script : Script[k] = name

(* Answered by a message and one byte of checksum. *)
Inquiries == {"DEVICE_INQUIRY", "CLOCK_MODE_INQUIRY", "PROG_UNIT_INQUIRY"}

(* What a cell holds, other than the chunk of its own number. *)
Old     == -1
Erased  == -2
Damaged == -3   \* programmed, but not as it was sent
Mixed   == -4   \* programmed without an erase

(* IdentifyDevice ends after InquireDevice, Download after the whole script. *)
Last == IF op = "info" THEN At("DEVICE_INQUIRY") ELSE Len(Script)

-----------------------------------------------------------------------------
Init ==
  /\ op \in {"flash", "info"} /\ file \in Files
  /\ pc = "init" /\ step = 1 /\ i = 0 /\ buf0 = "other"
  /\ taken = 0
  /\ cells = [a \in 0..(Cells - 1) |-> Old]
  /\ answers = <<>> /\ cmd = <<>>
  /\ runs = 1

(* Mutants: slips that the code could have. *)
MoreChunksButLast(k) == k < file - 1
ChunkAddressFromOne  == i + 1
RefusedNever(v)      == FALSE
HasChecksumSelection == Script[step] \in Inquiries \cup {"CLOCK_MODE_SELECT"}

(* Download divides data.size() by 1024. *)
MoreChunks(k) == k < file
ChunkAddress  == i

-----------------------------------------------------------------------------
(* H8SX::Init, run by the radio's constructor, resets the device, and with *)
(* it the transfers; it throws when one of its steps fails.                *)
InitDevice ==
  /\ pc = "init"
  /\ pc' \in {"send", "threw"}
  /\ cmd' = <<>> /\ answers' = <<>>
  /\ UNCHANGED <<op, file, step, i, buf0, radioVars, runs>>

Command == [k |-> step,
            address |-> IF Script[step] = "PROGRAM" THEN ChunkAddress ELSE 0,
            body |-> i]

Send ==
  /\ pc = "send"
  /\ cmd' = Append(cmd, Command)
  /\ pc' = "reply"
  /\ UNCHANGED <<op, file, step, i, buf0, radioVars, answers, runs>>

(* The command after this one, or the first chunk, or the next. *)
Advance ==
  /\ pc' = IF step = Last THEN "done" ELSE "send"
  /\ \/ /\ Script[step] = "PROGRAM" /\ MoreChunks(i + 1)
        /\ i' = i + 1 /\ UNCHANGED step
     \/ /\ ~(Script[step] = "PROGRAM" /\ MoreChunks(i + 1))
        /\ step' = IF Script[step] = "USER_MAT_SELECT" /\ ~MoreChunks(0)
                   THEN At("END")
                   ELSE IF step = Len(Script) THEN step ELSE step + 1
        /\ UNCHANGED i

Throw == pc' = "threw" /\ UNCHANGED <<step, i>>

(***************************************************************************)
(* What buf[0] holds after a read: an empty answer leaves what was there,  *)
(* and InitDownload and Download each have a buf of their own that is not  *)
(* initialised.                                                            *)
(***************************************************************************)
BufferAfter(v) == IF v = "empty" THEN buf0 ELSE v
KeepBuffer(v) ==
  IF Script[step] \in {"DEVICE_INQUIRY", "USER_MAT_SELECT"} /\ pc' = "send"
  THEN buf0' \in {"ack", "other"}
  ELSE buf0' = BufferAfter(v)

Refused(v) == v # "ack"

HasChecksum == Script[step] \in Inquiries

(***************************************************************************)
(* The answer.  Most commands must be acknowledged.  The answer to an      *)
(* inquiry is taken as it comes, and its checksum read next.  The answer   *)
(* to the last command is refused only if its command, its size, its       *)
(* checksum and the sum are all four wrong, so never when it is one: sums  *)
(* that differ go unnoticed.  Of anything else, the bytes compared are     *)
(* whatever the buffer held.                                               *)
(***************************************************************************)
ReadReply ==
  /\ pc = "reply" /\ answers # <<>>
  /\ answers' = Tail(answers)
  /\ LET v == Head(answers) IN
       /\ \/ /\ HasChecksum
             /\ pc' = "extra" /\ UNCHANGED <<step, i>>
          \/ /\ Script[step] = "USER_MAT_CHECKSUM"
             /\ Advance \/ (v # "sums" /\ Throw)
          \/ /\ ~HasChecksum /\ Script[step] # "USER_MAT_CHECKSUM"
             /\ IF Refused(BufferAfter(v)) THEN Throw ELSE Advance
       /\ KeepBuffer(IF v \in {"ack", "empty"} THEN v ELSE "other")
  /\ UNCHANGED <<op, file, radioVars, cmd, runs>>

(* The byte of checksum after an inquiry; nothing looks at it. *)
ReadChecksum ==
  /\ pc = "extra" /\ answers # <<>>
  /\ answers' = Tail(answers)
  /\ Advance
  /\ KeepBuffer("other")
  /\ UNCHANGED <<op, file, radioVars, cmd, runs>>

(***************************************************************************)
(* A transfer fails: the command may have got through, an answer may still *)
(* be there.  Errors of two of the three checksum reads are ignored.       *)
(***************************************************************************)
TransferFails ==
  /\ "transfer" \in Faults
  /\ op \in {"flash", "info"}
  /\ pc \in {"init", "send", "reply", "extra"}
  /\ IF pc = "extra" /\ Script[step] # "DEVICE_INQUIRY" THEN Advance ELSE Throw
  /\ cmd' \in IF pc = "send" THEN {cmd, Append(cmd, Command)} ELSE {cmd}
  /\ answers' \in IF pc # "send" /\ answers # <<>>
                  THEN {answers, Tail(answers)} ELSE {answers}
  /\ UNCHANGED <<op, file, buf0, radioVars, runs>>

Host == InitDevice \/ Send \/ ReadReply \/ ReadChecksum

(* The user starts the tool again.  The boot program goes on where it was, *)
(* unless the radio was switched off.                                      *)
Rerun ==
  /\ pc \in {"done", "threw"} /\ runs < MaxRuns
  /\ runs' = runs + 1 /\ op' \in {"flash", "info"}
  /\ pc' = "init" /\ step' = 1 /\ i' = 0 /\ buf0' = "other"
  /\ taken' \in {taken, 0}
  /\ UNCHANGED <<file, cells, cmd, answers>>

-----------------------------------------------------------------------------
(* The radio takes the commands in the order of the script. *)
Accepts(c) ==
  /\ \/ c.k = taken + 1
     \/ Script[c.k] = "PROGRAM" /\ taken = c.k
     \/ Script[c.k] = "END" /\ taken = At("USER_MAT_SELECT")
  /\ c.address \in DOMAIN cells

AnswerTo(c) ==
  IF Script[c.k] \in Inquiries THEN <<"info", "checksum">>
  ELSE IF Script[c.k] = "USER_MAT_CHECKSUM" THEN <<"sums">>
  ELSE <<"ack">>

(* The cells after command c. *)
CellsAfter(c) ==
  IF Script[c.k] = "BEGIN_PROGRAMMING" THEN {[a \in DOMAIN cells |-> Erased]}
  ELSE IF Script[c.k] # "PROGRAM" THEN {cells}
  ELSE IF cells[c.address] # Erased THEN {[cells EXCEPT ![c.address] = Mixed]}
  ELSE {[cells EXCEPT ![c.address] = b] :
          b \in {c.body} \cup (IF "cell" \in Faults THEN {Damaged} ELSE {})}

(* An answer that goes out empty says nothing, whatever it was. *)
Replies(ans) ==
  answers' \in {answers \o ans}
             \cup (IF "empty" \in Faults THEN {answers \o <<"empty">>} ELSE {})

RadioTakes ==
  /\ cmd # <<>> /\ Accepts(Head(cmd))
  /\ cells' \in CellsAfter(Head(cmd))
  /\ taken' = Head(cmd).k
  /\ Replies(AnswerTo(Head(cmd)))
  /\ cmd' = Tail(cmd)
  /\ UNCHANGED <<hostVars, runs>>

RadioRefuses ==
  /\ cmd # <<>>
  /\ Script[Head(cmd).k] \in Refusals \/ ~Accepts(Head(cmd))
  /\ Replies(<<"error">>)
  /\ cmd' = Tail(cmd)
  /\ UNCHANGED <<hostVars, radioVars, runs>>

Radio == RadioTakes \/ RadioRefuses

Next == Host \/ TransferFails \/ Rerun \/ Radio

Spec == Init /\ [][Next]_vars

(* Both sides run on.  A radio that falls silent would be waited for.  *)
FairSpec == Spec /\ WF_vars(Host) /\ WF_vars(Radio)

-----------------------------------------------------------------------------
TypeOK ==
  /\ file \in Files
  /\ op \in {"flash", "info"}
  /\ pc \in {"init", "send", "reply", "extra", "done", "threw"}
  /\ step \in DOMAIN Script /\ i \in 0..Cells
  /\ buf0 \in {"ack", "other"}
  /\ taken \in 0..Len(Script)
  /\ cells \in [0..(Cells - 1) -> Mixed..(Cells - 1)]
  /\ Len(cmd) <= 1 /\ Len(answers) <= 2

(* No chunk is programmed over what was not erased in the same session,    *)
(* and every chunk is in the place of its number.                          *)
ProgramsErased == \A a \in DOMAIN cells : cells[a] \in {Old, Erased, a}

(* Nothing of the old firmware is left when an update has ended well, and  *)
(* the whole image is there, whatever earlier runs left half way.          *)
DoneMeansImage ==
  pc = "done" /\ op = "flash" =>
    \A a \in DOMAIN cells : cells[a] = IF a < file THEN a ELSE Erased

(* Every run ends, against a radio that answers every command. *)
DialogueEnds == pc = "init" ~> pc \in {"done", "threw"}

(* USER_MAT_CHECKSUM "checks the checksum of the user MAT": no damaged     *)
(* image is taken for a good one.                                          *)
DamageIsNoticed == pc = "done" => \A a \in DOMAIN cells : cells[a] # Damaged
=============================================================================

----------------------------- MODULE H8SXProofs -----------------------------
(***************************************************************************)
(* What flashing a Yaesu radio keeps, for every set of files, size of the  *)
(* flash, number of runs and choice of commands that the radio refuses:    *)
(* nothing is programmed over, every chunk is in the place of its number,  *)
(* and an update that ends well has left the image and nothing else.       *)
(***************************************************************************)
EXTENDS H8SX, SequenceTheorems, TLAPS

(* The commands by their number in the script. *)
LEMMA ScriptFacts ==
  /\ Len(Script) = 13 /\ DOMAIN Script = 1..13
  /\ \A k \in 1..13 :
       /\ Script[k] = "PROGRAM" <=> k = 11
       /\ Script[k] = "END" <=> k = 12
       /\ Script[k] = "USER_MAT_SELECT" <=> k = 10
       /\ Script[k] = "USER_MAT_CHECKSUM" <=> k = 13
       /\ Script[k] = "BEGIN_PROGRAMMING" <=> k = 9
       /\ Script[k] = "DEVICE_INQUIRY" <=> k = 2
       /\ Script[k] \in Inquiries <=> k \in {2, 4, 6}
<1>1. Len(Script) = 13 /\ DOMAIN Script = 1..13
  BY DEF Script
<1>2. \A k \in 1..13 : k \in {1, 2, 3, 4, 5, 6, 7, 8, 9, 10, 11, 12, 13}
  OBVIOUS
<1>3. /\ Script[1] = "BEGIN_INQUIRY" /\ Script[2] = "DEVICE_INQUIRY"
      /\ Script[3] = "DEVICE_SELECT" /\ Script[4] = "CLOCK_MODE_INQUIRY"
      /\ Script[5] = "CLOCK_MODE_SELECT" /\ Script[6] = "PROG_UNIT_INQUIRY"
      /\ Script[7] = "BITRATE_SELECT" /\ Script[8] = "CONFIRM"
      /\ Script[9] = "BEGIN_PROGRAMMING" /\ Script[10] = "USER_MAT_SELECT"
      /\ Script[11] = "PROGRAM" /\ Script[12] = "END"
      /\ Script[13] = "USER_MAT_CHECKSUM"
  BY DEF Script
<1> QED
  BY <1>1, <1>2, <1>3 DEF Inquiries

LEMMA Places ==
  At("DEVICE_INQUIRY") = 2 /\ At("USER_MAT_SELECT") = 10 /\ At("END") = 12
  BY ScriptFacts DEF At

LEMMA LastCommand == Last = IF op = "info" THEN 2 ELSE 13
  BY ScriptFacts, Places DEF Last

-----------------------------------------------------------------------------
(* The invariant. *)

InDialogue == pc \in {"send", "reply", "extra"}

InquirySteps == {2, 4, 6}

HostTypes ==
  /\ file \in Files
  /\ op \in {"flash", "info"}
  /\ pc \in {"init", "send", "reply", "extra", "done", "threw"}
  /\ step \in 1..13 /\ i \in Nat
  /\ buf0 \in {"ack", "other"}
  /\ taken \in 0..13
  /\ cells = [a \in 0..(Cells - 1) |-> cells[a]]

(* Where the host is: the chunks are counted while it programs. *)
HostPlace ==
  /\ step <= 10 => i = 0
  /\ step = 11 => i < file
  /\ i = 0 \/ i < file
  /\ InDialogue => step <= Last
  /\ pc = "init" => step = 1
  /\ step = 1 /\ pc \in {"init", "send", "reply"} => buf0 = "other"
  /\ pc = "extra" => step \in InquirySteps
  /\ pc = "done" /\ op = "flash" => step = 13

Commands == {c \in [k : 1..13, address : Nat, body : Nat] :
               /\ c.k = 11 => c.address = c.body
               /\ c.body = 0 \/ c.body < Cells}

(* At most one command is on its way, the one that the host waits for.     *)
CommandLine ==
  /\ cmd \in Seq(Commands) /\ Len(cmd) <= 1
  /\ pc \in {"send", "extra", "done"} => cmd = <<>>
  /\ pc = "reply" /\ cmd # <<>> => Head(cmd) = Command

(* A checksum that was not read, the read having failed. *)
Stale == answers = <<>> \/ (Len(answers) = 1 /\ answers[1] = "checksum")

Words == {"ack", "error", "empty", "info", "checksum", "sums"}

(* A command has one answer, an inquiry two at most; a checksum left over  *)
(* is met by a command that wants to be acknowledged.                      *)
AnswerLine ==
  /\ answers \in Seq(Words)
  /\ pc = "send" \/ (pc = "reply" /\ cmd # <<>>) =>
       Stale /\ (answers # <<>> => step \in {5, 7})
  /\ pc = "extra" => Stale
  /\ pc = "reply" /\ cmd = <<>> =>
       \/ Len(answers) = 1
       \/ /\ Len(answers) = 2
          /\ answers[IF step \in InquirySteps THEN 2 ELSE 1] = "checksum"
  /\ ~InDialogue =>
       /\ Len(answers) <= 2
       /\ cmd # <<>> => Len(answers) <= 1
       /\ cmd # <<>> /\ Head(cmd).k \in InquirySteps => answers = <<>>

(* What is acknowledged was taken; the radio is never ahead of the host.   *)
RadioPlace ==
  /\ pc = "reply" /\ cmd = <<>> /\ answers[1] = "ack" => taken = step
  /\ InDialogue /\ step >= 2 => taken <= step

(* The chunk that the next PROGRAM command is for. *)
NextChunk == IF step = 11 /\ pc = "reply" /\ cmd = <<>> THEN i + 1 ELSE i

(* A radio that takes a PROGRAM command was erased from its cell on: in    *)
(* the dialogue, or by a command that a run has left behind.               *)
ErasedAhead ==
  /\ InDialogue /\ step \in 2..11 /\ taken >= 9 =>
       \A a \in DOMAIN cells : a >= NextChunk => cells[a] = Erased
  /\ cmd # <<>> /\ taken >= 9 =>
       (Head(cmd).k = 11 /\ Head(cmd).address \in DOMAIN cells
          => cells[Head(cmd).address] = Erased)

InPlace ==
  \A a \in DOMAIN cells :
    \/ cells[a] \in {Old, Erased, a}
    \/ cells[a] = Damaged /\ "cell" \in Faults

DialogueInv ==
  /\ HostTypes /\ HostPlace /\ CommandLine /\ AnswerLine
  /\ RadioPlace /\ ErasedAhead /\ InPlace

(* n chunks of the image, and nothing else. *)
Image(n, flash) == \A a \in DOMAIN flash : flash[a] = IF a < n THEN a ELSE Erased

NoneEmpty == \A k \in DOMAIN answers : answers[k] # "empty"

(* The next command is still to be taken; the last one was acknowledged. *)
ToTake == pc = "send" \/ (pc = "reply" /\ cmd # <<>>)
Acked  == pc = "reply" /\ cmd = <<>> /\ answers[1] = "ack"

(* How much of the image is there, as the host learns of it by answers     *)
(* none of which is empty.                                                 *)
ImageInv ==
  /\ NoneEmpty
  /\ Acked /\ step = 9 => Image(0, cells)
  /\ (ToTake \/ Acked) /\ step = 10 => Image(0, cells)
  /\ ToTake /\ step = 11 => Image(i, cells)
  /\ Acked /\ step = 11 => Image(i + 1, cells)
  /\ pc \in {"send", "reply"} /\ step \in {12, 13} => Image(file, cells)
  /\ pc = "done" /\ op = "flash" => Image(file, cells)

-----------------------------------------------------------------------------
(* The two lines. *)
LEMMA QueueFacts ==
  ASSUME NEW S, NEW s \in Seq(S)
  PROVE  /\ Len(s) \in Nat /\ DOMAIN s = 1..Len(s)
         /\ s = <<>> <=> Len(s) = 0
         /\ s # <<>> => /\ Head(s) = s[1] /\ Head(s) \in S
                        /\ Tail(s) \in Seq(S) /\ Len(Tail(s)) = Len(s) - 1
                        /\ \A k \in 1..(Len(s) - 1) : Tail(s)[k] = s[k + 1]
<1>1. Len(s) \in Nat /\ DOMAIN s = 1..Len(s) /\ (s = <<>> <=> Len(s) = 0)
  BY EmptySeq, LenProperties
<1>2. s # <<>> => Head(s) = s[1] /\ Head(s) \in S /\ Tail(s) \in Seq(S)
                  /\ Len(Tail(s)) = Len(s) - 1
  BY HeadTailProperties, <1>1, ElementOfSeq
<1>3. s # <<>> => \A k \in 1..(Len(s) - 1) : Tail(s)[k] = s[k + 1]
  BY <1>1, <1>2
<1> QED
  BY <1>1, <1>2, <1>3

LEMMA OneCommand ==
  ASSUME NEW c \in Commands
  PROVE  /\ Append(<<>>, c) \in Seq(Commands) /\ Len(Append(<<>>, c)) = 1
         /\ Head(Append(<<>>, c)) = c /\ Append(<<>>, c) # <<>>
  OBVIOUS

LEMMA CommandFacts ==
  ASSUME HostTypes, HostPlace
  PROVE  /\ Command \in Commands /\ Command.k = step /\ Command.body = i
         /\ step = 11 => Command.address = i
<1>1. step \in 1..13 /\ i \in Nat /\ file \in Nat /\ file <= Cells /\ Cells \in Nat
      /\ (i = 0 \/ i < file)
  BY H8SXAssumption DEF HostTypes, HostPlace, H8SXAssumption
<1>2. Command = [k |-> step, address |-> IF step = 11 THEN i ELSE 0, body |-> i]
  BY <1>1, ScriptFacts DEF Command, ChunkAddress
<1> QED
  BY <1>1, <1>2 DEF Commands

LEMMA StaleLength == Stale => Len(answers) \in Nat /\ Len(answers) <= 1
  BY EmptySeq DEF Stale

(* Where the host goes after an answer. *)
LEMMA AdvanceFacts ==
  ASSUME HostTypes, Advance
  PROVE  /\ pc' = IF step = Last THEN "done" ELSE "send"
         /\ \/ step = 11 /\ i + 1 < file /\ i' = i + 1 /\ step' = 11
            \/ /\ ~(step = 11 /\ i + 1 < file) /\ i' = i
               /\ step' = IF step = 10 /\ file = 0 THEN 12
                          ELSE IF step = 13 THEN 13 ELSE step + 1
<1>1. step \in 1..13 /\ i \in Nat /\ file \in Nat
  BY H8SXAssumption DEF HostTypes, H8SXAssumption
<1> QED
  BY <1>1, ScriptFacts, Places DEF Advance, MoreChunks

(* The host's part of the invariant after an answer. *)
LEMMA AdvancePlace ==
  ASSUME HostTypes, HostPlace, InDialogue, Advance, op' = op, file' = file,
         buf0' \in {"ack", "other"}, cells' = cells, taken' = taken
  PROVE  /\ HostTypes' /\ HostPlace' /\ pc' \in {"send", "done"}
         /\ pc' = "send" => step' >= 2
<1>1. /\ step \in 1..13 /\ i \in Nat /\ file \in Nat
      /\ step <= 10 => i = 0
      /\ step = 11 => i < file
      /\ i = 0 \/ i < file
      /\ step <= Last
      /\ op \in {"flash", "info"}
      /\ Last = IF op = "info" THEN 2 ELSE 13
  BY H8SXAssumption, LastCommand DEF HostTypes, HostPlace, H8SXAssumption
<1>2. /\ pc' = IF step = Last THEN "done" ELSE "send"
      /\ \/ step = 11 /\ i + 1 < file /\ i' = i + 1 /\ step' = 11
         \/ /\ ~(step = 11 /\ i + 1 < file) /\ i' = i
            /\ step' = IF step = 10 /\ file = 0 THEN 12
                       ELSE IF step = 13 THEN 13 ELSE step + 1
  BY AdvanceFacts
<1>3. Last' = Last
  BY DEF Last
<1>4. step' \in 1..13 /\ i' \in Nat /\ step' >= 2
  BY <1>1, <1>2
<1>5. HostTypes'
  BY <1>2, <1>4 DEF HostTypes
<1>6. /\ step' <= 10 => i' = 0
      /\ step' = 11 => i' < file
      /\ i' = 0 \/ i' < file
  BY <1>1, <1>2
<1>7. pc' = "send" => step' <= Last
  BY <1>1, <1>2
<1>8. pc' = "done" /\ op = "flash" => step' = 13
  BY <1>1, <1>2
<1>9. pc' \in {"send", "done"}
  BY <1>2
<1> QED
  BY <1>3, <1>4, <1>5, <1>6, <1>7, <1>8, <1>9 DEF HostPlace, InDialogue

-----------------------------------------------------------------------------
(* What no action of the host changes. *)
LEMMA RadioKept ==
  ASSUME InPlace, UNCHANGED cells
  PROVE  InPlace'
  BY DEF InPlace

LEMMA InitInv == Init => DialogueInv
<1> SUFFICES ASSUME Init PROVE DialogueInv
  OBVIOUS
<1>1. HostTypes /\ HostPlace
  BY DEF Init, HostTypes, HostPlace, InDialogue
<1>2. CommandLine /\ AnswerLine
  BY EmptySeq DEF Init, CommandLine, AnswerLine, Stale, InDialogue
<1>3. RadioPlace /\ ErasedAhead /\ InPlace
  BY DEF Init, RadioPlace, ErasedAhead, InPlace, InDialogue
<1> QED
  BY <1>1, <1>2, <1>3 DEF DialogueInv

LEMMA InitDeviceSafe == DialogueInv /\ InitDevice => DialogueInv'
<1> SUFFICES ASSUME DialogueInv, InitDevice PROVE DialogueInv'
  OBVIOUS
<1>1. /\ pc = "init" /\ pc' \in {"send", "threw"} /\ cmd' = <<>> /\ answers' = <<>>
      /\ UNCHANGED <<op, file, step, i, buf0, taken, cells>>
  BY DEF InitDevice, radioVars
<1>2. step = 1 /\ i = 0 /\ buf0 = "other"
  BY <1>1 DEF DialogueInv, HostPlace
<1>3. Last' \in {2, 13}
  BY LastCommand, <1>1 DEF Last
<1>4. HostTypes' /\ HostPlace'
  BY <1>1, <1>2, <1>3 DEF DialogueInv, HostTypes, HostPlace, InDialogue
<1>5. CommandLine' /\ AnswerLine'
  BY <1>1, EmptySeq DEF CommandLine, AnswerLine, Stale, InDialogue
<1>6. RadioPlace' /\ ErasedAhead' /\ InPlace'
  BY <1>1, <1>2, RadioKept DEF DialogueInv, RadioPlace, ErasedAhead, InDialogue
<1> QED
  BY <1>4, <1>5, <1>6 DEF DialogueInv

LEMMA SendSafe == DialogueInv /\ Send => DialogueInv'
<1> SUFFICES ASSUME DialogueInv, Send PROVE DialogueInv'
  OBVIOUS
<1>1. /\ pc = "send" /\ pc' = "reply" /\ cmd = <<>> /\ cmd' = Append(<<>>, Command)
      /\ UNCHANGED <<op, file, step, i, buf0, taken, cells, answers>>
  BY DEF Send, radioVars, DialogueInv, CommandLine
<1>2. /\ Command \in Commands /\ Command.k = step
      /\ step = 11 => Command.address = i
  BY CommandFacts DEF DialogueInv
<1>3. cmd' \in Seq(Commands) /\ Len(cmd') = 1 /\ Head(cmd') = Command /\ cmd' # <<>>
  BY <1>1, <1>2, OneCommand
<1>4. Command' = Command
  BY <1>1 DEF Command, ChunkAddress
<1>5. HostTypes' /\ HostPlace'
  BY <1>1 DEF DialogueInv, HostTypes, HostPlace, InDialogue, Last
<1>6. CommandLine'
  BY <1>1, <1>3, <1>4 DEF CommandLine
<1>7. AnswerLine'
  BY <1>1, <1>3 DEF DialogueInv, AnswerLine, Stale, InDialogue
<1>8. RadioPlace'
  BY <1>1, <1>3 DEF DialogueInv, RadioPlace, InDialogue
<1>9. ErasedAhead'
  <2>1. NextChunk' = NextChunk /\ NextChunk = i
    BY <1>1, <1>3 DEF NextChunk
  <2>2. InDialogue /\ InDialogue'
    BY <1>1 DEF InDialogue
  <2>3. Head(cmd').k = 11 => Head(cmd').address = i /\ step = 11
    BY <1>2, <1>3
  <2>4. i \in Nat
    BY DEF DialogueInv, HostTypes
  <2>5. step = 11 /\ taken >= 9 => \A a \in DOMAIN cells : a >= i => cells[a] = Erased
    BY <2>1, <2>2 DEF DialogueInv, ErasedAhead
  <2> QED
    BY <1>1, <2>1, <2>2, <2>3, <2>4, <2>5 DEF DialogueInv, ErasedAhead
<1> QED
  BY <1>1, <1>5, <1>6, <1>7, <1>8, <1>9, RadioKept DEF DialogueInv

LEMMA RerunSafe == DialogueInv /\ Rerun => DialogueInv'
<1> SUFFICES ASSUME DialogueInv, Rerun PROVE DialogueInv'
  OBVIOUS
<1>1. /\ pc \in {"done", "threw"} /\ pc' = "init" /\ step' = 1 /\ i' = 0
      /\ op' \in {"flash", "info"} /\ buf0' = "other" /\ taken' \in {taken, 0}
      /\ UNCHANGED <<file, cells, cmd, answers>>
  BY DEF Rerun
<1>2. ~InDialogue /\ ~InDialogue'
  BY <1>1 DEF InDialogue
<1>3. HostTypes' /\ HostPlace'
  BY <1>1, <1>2 DEF DialogueInv, HostTypes, HostPlace
<1>4. CommandLine' /\ AnswerLine'
  BY <1>1, <1>2 DEF DialogueInv, CommandLine, AnswerLine
<1>5. RadioPlace' /\ ErasedAhead' /\ InPlace'
  BY <1>1, <1>2, RadioKept DEF DialogueInv, RadioPlace, ErasedAhead
<1> QED
  BY <1>3, <1>4, <1>5 DEF DialogueInv

(* The host goes on, with its command taken and answered. *)
LEMMA AdvanceSafe ==
  ASSUME DialogueInv, pc \in {"reply", "extra"}, cmd = <<>>, taken <= step, Advance,
         UNCHANGED <<op, file, taken, cells, cmd>>, buf0' \in {"ack", "other"},
         answers' \in Seq(Words), Len(answers') <= 2,
         pc' = "send" => Stale' /\ (answers' # <<>> => step' \in {5, 7})
  PROVE  DialogueInv'
<1>1. InDialogue /\ HostTypes /\ HostPlace
  BY DEF InDialogue, DialogueInv
<1>2. /\ HostTypes' /\ HostPlace' /\ pc' \in {"send", "done"}
      /\ pc' = "send" => step' >= 2
  BY <1>1, AdvancePlace
<1>3. CommandLine'
  BY <1>2 DEF DialogueInv, CommandLine
<1>4. AnswerLine'
  BY <1>2 DEF AnswerLine, InDialogue
<1>5. step \in 1..13 /\ taken \in 0..13 /\ i \in Nat
  BY <1>1 DEF HostTypes, HostPlace
<1>6. \/ step = 11 /\ i' = i + 1 /\ step' = 11
      \/ /\ i' = i
         /\ step' = IF step = 10 /\ file = 0 THEN 12
                    ELSE IF step = 13 THEN 13 ELSE step + 1
  BY <1>1, AdvanceFacts
<1>7. step' >= step
  BY <1>5, <1>6
<1>8. RadioPlace'
  BY <1>2, <1>5, <1>7, SMTT(20) DEF RadioPlace, InDialogue, HostTypes
<1>9. ErasedAhead'
  <2>1. ASSUME pc' = "send", step' \in 2..11, taken >= 9,
               NEW a \in DOMAIN cells, a >= i'
        PROVE  cells[a] = Erased
    <3>1. step \in 2..11
      BY <1>5, <1>7, <2>1
    <3>2. \A b \in DOMAIN cells : b >= NextChunk => cells[b] = Erased
      BY <1>1, <2>1, <3>1 DEF DialogueInv, ErasedAhead
    <3>3. step = 11 => pc = "reply"
      BY <1>1 DEF HostPlace, InquirySteps
    <3>4. NextChunk = i'
      <4>1. CASE step = 11
        BY <1>6, <2>1, <3>3, <4>1 DEF NextChunk
      <4>2. CASE step # 11
        BY <1>6, <4>2 DEF NextChunk
      <4> QED
        BY <4>1, <4>2
    <3> QED
      BY <2>1, <3>2, <3>4
  <2>2. pc' = "send" => NextChunk' = i'
    BY DEF NextChunk
  <2> QED
    BY <1>2, <2>1, <2>2 DEF ErasedAhead, InDialogue
<1> QED
  BY <1>2, <1>3, <1>4, <1>8, <1>9, RadioKept DEF DialogueInv

(* A call throws: what was sent may still be there. *)
LEMMA ThrowSafe ==
  ASSUME DialogueInv, InDialogue \/ pc = "init", Throw,
         UNCHANGED <<op, file, taken, cells>>, buf0' \in {"ack", "other"},
         CommandLine', AnswerLine',
         cmd' # <<>> => cmd' = cmd \/ (pc = "send" /\ Head(cmd') = Command)
  PROVE  DialogueInv'
<1>1. pc' = "threw" /\ step' = step /\ i' = i /\ ~InDialogue'
  BY DEF Throw, InDialogue
<1>2. HostTypes' /\ HostPlace'
  BY <1>1 DEF DialogueInv, HostTypes, HostPlace
<1>3. RadioPlace'
  BY <1>1 DEF RadioPlace
<1>4. ErasedAhead'
  <2> SUFFICES ASSUME cmd' # <<>>, taken >= 9, Head(cmd').k = 11,
                      Head(cmd').address \in DOMAIN cells
               PROVE  cells[Head(cmd').address] = Erased
    BY <1>1 DEF ErasedAhead
  <2>1. CASE cmd' = cmd
    BY <2>1 DEF DialogueInv, ErasedAhead
  <2>2. CASE pc = "send" /\ Head(cmd') = Command
    <3>1. step = 11 /\ Head(cmd').address = i
      BY <2>2, CommandFacts DEF DialogueInv
    <3>2. NextChunk = i /\ InDialogue /\ i \in Nat
      BY <2>2 DEF NextChunk, InDialogue, DialogueInv, HostTypes
    <3> QED
      BY <3>1, <3>2 DEF DialogueInv, ErasedAhead
  <2> QED
    BY <2>1, <2>2
<1> QED
  BY <1>2, <1>3, <1>4, RadioKept DEF DialogueInv

(* The buffer after an answer, or after a command that begins with a new   *)
(* one.                                                                    *)
LEMMA BufferFacts ==
  ASSUME HostTypes, NEW v \in {"ack", "empty", "other"}, KeepBuffer(v)
  PROVE  buf0' \in {"ack", "other"}
  BY DEF KeepBuffer, BufferAfter, HostTypes

(* What the host meets when it reads an answer.                            *)
LEMMA AnswerFacts ==
  ASSUME DialogueInv, pc \in {"reply", "extra"}, answers # <<>>
  PROVE  /\ Len(answers) \in Nat /\ Len(answers) >= 1 /\ Len(answers) <= 2
         /\ Head(answers) = answers[1] /\ Tail(answers) \in Seq(Words)
         /\ Len(Tail(answers)) = Len(answers) - 1
         /\ Len(answers) = 1 => Tail(answers) = <<>>
         /\ Len(answers) = 2 => Tail(answers)[1] = answers[2]
         /\ cmd # <<>> => Head(answers) = "checksum" /\ step \in {5, 7} /\ Len(answers) = 1
<1>1. answers \in Seq(Words)
  BY DEF DialogueInv, AnswerLine
<1>2. /\ Len(answers) \in Nat /\ Len(answers) >= 1
      /\ Head(answers) = answers[1] /\ Tail(answers) \in Seq(Words)
      /\ Len(Tail(answers)) = Len(answers) - 1
      /\ \A k \in 1..(Len(answers) - 1) : Tail(answers)[k] = answers[k + 1]
  BY <1>1, QueueFacts
<1>3. Len(answers) = 1 => Tail(answers) = <<>>
  <2>1. Tail(answers) = <<>> <=> Len(Tail(answers)) = 0
    BY <1>2, QueueFacts
  <2> QED
    BY <1>2, <2>1
<1>4. Len(answers) = 2 => Tail(answers)[1] = answers[2]
  <2> SUFFICES ASSUME Len(answers) = 2 PROVE Tail(answers)[1] = answers[2]
    OBVIOUS
  <2>1. 1 \in 1..(Len(answers) - 1) /\ 1 + 1 = 2
    OBVIOUS
  <2>2. Tail(answers)[1] = answers[1 + 1]
    BY <1>2, <2>1
  <2> QED
    BY <2>1, <2>2
<1>5. cmd # <<>> => Stale /\ pc = "reply" /\ step \in {5, 7}
  BY DEF DialogueInv, AnswerLine, CommandLine
<1>6. cmd # <<>> => Head(answers) = "checksum" /\ step \in {5, 7} /\ Len(answers) = 1
  BY <1>2, <1>5 DEF Stale
<1>7. Len(answers) <= 2
  BY <1>2, <1>5 DEF DialogueInv, AnswerLine, Stale
<1> QED
  BY <1>2, <1>3, <1>4, <1>6, <1>7

LEMMA ReadReplySafe == DialogueInv /\ ReadReply => DialogueInv'
<1> SUFFICES ASSUME DialogueInv, ReadReply PROVE DialogueInv'
  OBVIOUS
<1> DEFINE v == Head(answers)
<1>1. /\ pc = "reply" /\ answers # <<>> /\ answers' = Tail(answers)
      /\ \/ HasChecksum /\ pc' = "extra" /\ UNCHANGED <<step, i>>
         \/ Script[step] = "USER_MAT_CHECKSUM" /\ (Advance \/ Throw)
         \/ /\ ~HasChecksum /\ Script[step] # "USER_MAT_CHECKSUM"
            /\ IF Refused(BufferAfter(v)) THEN Throw ELSE Advance
      /\ KeepBuffer(IF v \in {"ack", "empty"} THEN v ELSE "other")
      /\ UNCHANGED <<op, file, taken, cells, cmd>>
  BY DEF ReadReply, radioVars
<1>2. buf0' \in {"ack", "other"}
  BY <1>1, BufferFacts DEF DialogueInv
<1>3. /\ step \in 1..13 /\ (HasChecksum <=> step \in InquirySteps)
      /\ (Script[step] = "USER_MAT_CHECKSUM" <=> step = 13)
  BY ScriptFacts DEF HasChecksum, InquirySteps, DialogueInv, HostTypes
<1>4. /\ Len(answers) \in Nat /\ Len(answers) >= 1 /\ Len(answers) <= 2
      /\ v = answers[1] /\ Tail(answers) \in Seq(Words)
      /\ Len(Tail(answers)) = Len(answers) - 1
      /\ Len(answers) = 1 => Tail(answers) = <<>>
      /\ Len(answers) = 2 => Tail(answers)[1] = answers[2]
      /\ cmd # <<>> => v = "checksum" /\ step \in {5, 7} /\ Len(answers) = 1
  BY <1>1, AnswerFacts
<1>5. InDialogue /\ taken \in 0..13
  BY <1>1 DEF InDialogue, DialogueInv, HostTypes
<1> HIDE DEF v
<1>6. CASE step \in InquirySteps /\ pc' = "extra" /\ UNCHANGED <<step, i>>
  <2>1. cmd = <<>> /\ cmd' = <<>>
    BY <1>1, <1>4, <1>6 DEF InquirySteps
  <2>2. Stale'
    BY <1>1, <1>4, <1>6, <2>1 DEF DialogueInv, AnswerLine, Stale
  <2>3. HostTypes' /\ HostPlace'
    <3>1. Last' = Last
      BY <1>1 DEF Last
    <3>2. HostTypes'
      BY <1>1, <1>2, <1>6 DEF DialogueInv, HostTypes
    <3>3. step # 1
      BY <1>6 DEF InquirySteps
    <3> QED
      BY <1>1, <1>5, <1>6, <3>1, <3>2, <3>3 DEF DialogueInv, HostPlace, InDialogue
  <2>4. CommandLine' /\ AnswerLine'
    BY <1>1, <1>4, <1>6, <2>1, <2>2 DEF DialogueInv, CommandLine, AnswerLine, InDialogue
  <2>5. RadioPlace'
    BY <1>1, <1>5, <1>6 DEF DialogueInv, RadioPlace
  <2>6. ErasedAhead'
    <3>1. NextChunk' = i /\ NextChunk = i
      BY <1>6 DEF NextChunk, InquirySteps
    <3> QED
      BY <1>1, <1>5, <1>6, <2>1, <3>1 DEF DialogueInv, ErasedAhead
  <2> QED
    BY <1>1, <2>3, <2>4, <2>5, <2>6, RadioKept DEF DialogueInv
<1>7. CASE Throw
  <2>1. pc' = "threw" /\ step' = step
    BY <1>7 DEF Throw
  <2>2. CommandLine'
    BY <1>1, <2>1 DEF DialogueInv, CommandLine
  <2>3. AnswerLine'
    BY <1>1, <1>4, <2>1 DEF AnswerLine, InDialogue
  <2> QED
    BY <1>1, <1>2, <1>5, <1>7, <2>2, <2>3, ThrowSafe
<1>8. CASE Advance /\ (step = 13 \/ (step \notin InquirySteps /\ ~Refused(BufferAfter(v))))
  <2>1. step = 13 \/ v = "ack" \/ (v = "empty" /\ buf0 = "ack")
    BY <1>8 DEF Refused, BufferAfter
  <2>2. cmd = <<>>
    BY <1>4, <2>1
  <2>3. taken <= step
    <3>1. CASE step >= 2
      BY <1>5, <3>1 DEF DialogueInv, RadioPlace
    <3>2. CASE step = 1
      <4>1. buf0 = "other" /\ v = "ack"
        BY <1>1, <2>1, <3>2 DEF DialogueInv, HostPlace
      <4> QED
        BY <1>1, <1>3, <1>4, <2>2, <4>1 DEF DialogueInv, RadioPlace
    <3> QED
      BY <1>3, <3>1, <3>2
  <2>4. step # 13 => Tail(answers) = <<>>
    BY <1>1, <1>4, <1>8, <2>1, <2>2 DEF DialogueInv, AnswerLine
  <2>5. pc' = "send" => step # 13
    <3>1. pc' = IF step = Last THEN "done" ELSE "send"
      BY <1>8, AdvanceFacts DEF DialogueInv
    <3>2. step <= Last /\ Last \in {2, 13}
      BY <1>5, LastCommand DEF DialogueInv, HostPlace
    <3> QED
      BY <3>1, <3>2
  <2>6. /\ answers' \in Seq(Words) /\ Len(answers') <= 2
        /\ pc' = "send" => answers' = <<>>
    BY <1>1, <1>4, <2>4, <2>5
  <2>7. pc' = "send" => Stale' /\ (answers' # <<>> => step' \in {5, 7})
    BY <2>6 DEF Stale
  <2> QED
    BY <1>1, <1>2, <1>8, <2>2, <2>3, <2>6, <2>7, AdvanceSafe
<1> QED
  BY <1>1, <1>3, <1>6, <1>7, <1>8

LEMMA ReadChecksumSafe == DialogueInv /\ ReadChecksum => DialogueInv'
<1> SUFFICES ASSUME DialogueInv, ReadChecksum PROVE DialogueInv'
  OBVIOUS
<1>1. /\ pc = "extra" /\ answers # <<>> /\ answers' = Tail(answers) /\ Advance
      /\ KeepBuffer("other") /\ UNCHANGED <<op, file, taken, cells, cmd>>
  BY DEF ReadChecksum, radioVars
<1>2. buf0' \in {"ack", "other"}
  BY <1>1, BufferFacts DEF DialogueInv
<1>3. Len(answers) = 1 /\ answers' = <<>>
  BY <1>1, AnswerFacts DEF DialogueInv, AnswerLine, Stale
<1>4. cmd = <<>> /\ taken <= step
  <2>1. step \in InquirySteps
    BY <1>1 DEF DialogueInv, HostPlace
  <2> QED
    BY <1>1, <2>1 DEF DialogueInv, CommandLine, RadioPlace, InDialogue, InquirySteps
<1>5. /\ answers' \in Seq(Words) /\ Len(answers') <= 2 /\ Stale'
  BY <1>3, EmptySeq DEF Stale
<1> QED
  BY <1>1, <1>2, <1>3, <1>4, <1>5, AdvanceSafe

LEMMA TransferFailsSafe == DialogueInv /\ TransferFails => DialogueInv'
<1> SUFFICES ASSUME DialogueInv, TransferFails PROVE DialogueInv'
  OBVIOUS
<1>1. /\ pc \in {"init", "send", "reply", "extra"}
      /\ IF pc = "extra" /\ Script[step] # "DEVICE_INQUIRY" THEN Advance ELSE Throw
      /\ cmd' = cmd \/ (pc = "send" /\ cmd' = Append(cmd, Command))
      /\ answers' = answers \/ (pc # "send" /\ answers # <<>> /\ answers' = Tail(answers))
      /\ UNCHANGED <<op, file, buf0, taken, cells>>
  BY DEF TransferFails, radioVars
<1>2. step \in 1..13 /\ buf0 \in {"ack", "other"} /\ (Script[step] = "DEVICE_INQUIRY" <=> step = 2)
  BY ScriptFacts DEF DialogueInv, HostTypes
<1>3. /\ answers \in Seq(Words) /\ Len(answers) \in Nat /\ (answers = <<>> <=> Len(answers) = 0)
      /\ answers' \in Seq(Words) /\ Len(answers') \in Nat /\ Len(answers') <= Len(answers)
      /\ answers = <<>> => answers' = <<>>
      /\ Len(answers) <= 1 => answers' = answers \/ answers' = <<>>
  <2>1. answers \in Seq(Words) /\ Len(answers) \in Nat /\ (answers = <<>> <=> Len(answers) = 0)
    BY QueueFacts DEF DialogueInv, AnswerLine
  <2>2. answers # <<>> => /\ Tail(answers) \in Seq(Words)
                          /\ Len(Tail(answers)) = Len(answers) - 1
    BY <2>1, QueueFacts
  <2>3. answers # <<>> /\ Len(answers) <= 1 => Tail(answers) = <<>>
    <3>1. answers # <<>> => (Tail(answers) = <<>> <=> Len(Tail(answers)) = 0)
      BY <2>2, QueueFacts
    <3> QED
      BY <2>1, <2>2, <3>1
  <2> QED
    BY <1>1, <2>1, <2>2, <2>3
<1>4. CASE pc = "extra" /\ step # 2
  <2>1. Advance /\ cmd = <<>> /\ cmd' = cmd /\ step \in {4, 6} /\ Stale
    BY <1>1, <1>2, <1>4 DEF DialogueInv, CommandLine, HostPlace, InquirySteps, AnswerLine
  <2>2. taken <= step
    BY <1>4, <2>1 DEF DialogueInv, RadioPlace, InDialogue
  <2>3. Stale' /\ Len(answers') <= 2
    <3>1. Len(answers) <= 1
      BY <2>1, StaleLength
    <3>2. CASE answers' = answers
      BY <2>1, <3>1, <3>2 DEF Stale
    <3>3. CASE answers' = <<>>
      BY <3>3 DEF Stale
    <3> QED
      BY <1>3, <3>1, <3>2, <3>3
  <2>4. step' \in {5, 7}
    BY <2>1, AdvanceFacts DEF DialogueInv
  <2> QED
    BY <1>1, <1>2, <1>3, <1>4, <2>1, <2>2, <2>3, <2>4, AdvanceSafe
<1>5. CASE ~(pc = "extra" /\ step # 2)
  <2>1. Throw /\ pc' = "threw" /\ ~InDialogue' /\ step' = step
    BY <1>1, <1>2, <1>5 DEF Throw, InDialogue
  <2>2. cmd' = cmd \/ (pc = "send" /\ cmd = <<>> /\ cmd' = Append(<<>>, Command))
    BY <1>1 DEF DialogueInv, CommandLine
  <2>3. /\ Command \in Commands /\ Command.k = step
        /\ Append(<<>>, Command) \in Seq(Commands) /\ Len(Append(<<>>, Command)) = 1
        /\ Head(Append(<<>>, Command)) = Command /\ Append(<<>>, Command) # <<>>
    BY CommandFacts, OneCommand DEF DialogueInv
  <2>4. CommandLine'
    <3>1. CASE cmd' = cmd
      BY <2>1, <3>1 DEF DialogueInv, CommandLine
    <3>2. CASE cmd' = Append(<<>>, Command)
      <4>1. cmd' \in Seq(Commands) /\ Len(cmd') = 1
        BY <2>3, <3>2
      <4>2. pc' = "threw"
        BY <2>1
      <4> QED
        BY <4>1, <4>2 DEF CommandLine
    <3> QED
      BY <2>2, <3>1, <3>2
  <2>5. AnswerLine'
    <3>1. Len(answers') <= 2
      <4>1. Len(answers) <= 2
        <5>1. pc = "init" => Len(answers) <= 2
          BY DEF DialogueInv, AnswerLine, InDialogue
        <5>2. pc \in {"send", "extra"} => Len(answers) <= 2
          BY StaleLength DEF DialogueInv, AnswerLine
        <5>3. pc = "reply" => Len(answers) <= 2
          BY <1>3, AnswerFacts
        <5> QED
          BY <1>1, <5>1, <5>2, <5>3
      <4> QED
        BY <1>3, <4>1
    <3>2. cmd' # <<>> => /\ Len(answers') <= 1
                         /\ Head(cmd').k \in InquirySteps => answers' = <<>>
      <4>1. CASE pc = "init"
        <5>1. cmd' = cmd /\ ~InDialogue
          BY <1>1, <4>1 DEF InDialogue
        <5> QED
          BY <1>3, <5>1 DEF DialogueInv, AnswerLine
      <4>2. CASE pc # "init" /\ cmd' # <<>>
        <5>1. Head(cmd').k = step /\ (pc = "send" \/ (pc = "reply" /\ cmd # <<>>))
          BY <1>1, <2>2, <2>3, <4>2 DEF DialogueInv, CommandLine
        <5>2. Stale /\ (answers # <<>> => step \in {5, 7})
          BY <5>1 DEF DialogueInv, AnswerLine
        <5>3. Len(answers) <= 1
          BY <5>2, StaleLength
        <5>4. step \in InquirySteps => answers = <<>>
          BY <5>2 DEF InquirySteps
        <5> QED
          BY <1>3, <5>1, <5>3, <5>4
      <4> QED
        BY <4>1, <4>2
    <3> QED
      BY <1>3, <2>1, <3>1, <3>2 DEF AnswerLine, InDialogue
  <2>6. InDialogue \/ pc = "init"
    BY <1>1 DEF InDialogue
  <2> QED
    BY <1>1, <1>2, <2>1, <2>2, <2>3, <2>4, <2>5, <2>6, ThrowSafe
<1> QED
  BY <1>4, <1>5

-----------------------------------------------------------------------------
(* An answer goes out behind what is on the line. *)
LEMMA OneMore ==
  ASSUME NEW S, NEW s \in Seq(S), NEW x \in S
  PROVE  /\ s \o <<x>> \in Seq(S) /\ Len(s \o <<x>>) = Len(s) + 1
         /\ \A k \in 1..Len(s) : (s \o <<x>>)[k] = s[k]
         /\ (s \o <<x>>)[Len(s) + 1] = x
<1> DEFINE t == <<x>>
<1>1. t \in Seq(S) /\ Len(t) = 1 /\ t[1] = x
  OBVIOUS
<1> HIDE DEF t
<1>2. /\ s \o t \in Seq(S) /\ Len(s) \in Nat
      /\ Len(s \o t) = Len(s) + Len(t)
      /\ \A k \in 1..Len(s) + Len(t) :
           (s \o t)[k] = IF k <= Len(s) THEN s[k] ELSE t[k - Len(s)]
  BY <1>1, ConcatProperties, LenProperties
<1>3. /\ s \o t \in Seq(S) /\ Len(s \o t) = Len(s) + 1
      /\ \A k \in 1..Len(s) : (s \o t)[k] = s[k]
      /\ (s \o t)[Len(s) + 1] = x
  BY <1>1, <1>2
<1> QED
  BY <1>3 DEF t

LEMMA TwoAnswers ==
  ASSUME NEW S, NEW x \in S, NEW y \in S
  PROVE  /\ <<>> \o <<x, y>> \in Seq(S) /\ Len(<<>> \o <<x, y>>) = 2
         /\ (<<>> \o <<x, y>>)[1] = x /\ (<<>> \o <<x, y>>)[2] = y
<1> DEFINE t == <<x, y>>
<1>1. t \in Seq(S) /\ Len(t) = 2 /\ t[1] = x /\ t[2] = y
  OBVIOUS
<1> HIDE DEF t
<1>2. <<>> \o t = t
  BY <1>1, ConcatEmptySeq
<1>3. /\ <<>> \o t \in Seq(S) /\ Len(<<>> \o t) = 2
      /\ (<<>> \o t)[1] = x /\ (<<>> \o t)[2] = y
  BY <1>1, <1>2
<1> QED
  BY <1>3 DEF t

(* The commands that may be on their way. *)
LEMMA CommandOnLine ==
  ASSUME DialogueInv, cmd # <<>>
  PROVE  /\ Head(cmd) \in Commands /\ Tail(cmd) = <<>>
         /\ pc \in {"reply", "init", "threw"}
         /\ pc = "reply" => /\ Head(cmd) = Command /\ Head(cmd).k = step
                            /\ step = 11 => Head(cmd).address = i
<1>1. cmd \in Seq(Commands) /\ Len(cmd) <= 1
  BY DEF DialogueInv, CommandLine
<1>2. /\ Head(cmd) \in Commands /\ Tail(cmd) \in Seq(Commands)
      /\ Len(Tail(cmd)) = Len(cmd) - 1 /\ Len(cmd) \in Nat
      /\ (cmd = <<>> <=> Len(cmd) = 0)
  BY <1>1, QueueFacts
<1>3. Tail(cmd) = <<>>
  <2>1. Tail(cmd) = <<>> <=> Len(Tail(cmd)) = 0
    BY <1>2, QueueFacts
  <2> QED
    BY <1>1, <1>2, <2>1
<1>4. pc \in {"reply", "init", "threw"}
  BY DEF DialogueInv, CommandLine, HostTypes
<1>5. pc = "reply" => Head(cmd) = Command
  BY DEF DialogueInv, CommandLine
<1> QED
  BY <1>2, <1>3, <1>4, <1>5, CommandFacts DEF DialogueInv

LEMMA OneOrTwo == \A n : n = 1 \/ n = 2 => n <= 2
  OBVIOUS

LEMMA AnswersSafe ==
  ASSUME DialogueInv, cmd # <<>>, cmd' = <<>>, UNCHANGED <<pc, step>>,
         \/ \E x \in Words : answers' = answers \o <<x>>
         \/ Head(cmd).k \in InquirySteps /\ answers' = answers \o <<"info", "checksum">>
  PROVE  /\ AnswerLine'
         /\ pc = "reply" =>
              \/ answers # <<>> /\ answers'[1] = "checksum"
              \/ answers = <<>>
<1>1. /\ answers \in Seq(Words) /\ Len(answers) \in Nat
      /\ (answers = <<>> <=> Len(answers) = 0)
  BY QueueFacts DEF DialogueInv, AnswerLine
<1>2. /\ pc \in {"reply", "init", "threw"}
      /\ pc = "reply" => Head(cmd).k = step
  BY CommandOnLine
<1>3. /\ Len(answers) <= 1
      /\ Head(cmd).k \in InquirySteps => answers = <<>>
      /\ pc = "reply" => (answers # <<>> => Len(answers) = 1 /\ answers[1] = "checksum"
                                            /\ step \notin InquirySteps)
  <2>1. CASE pc = "reply"
    <3>1. Stale /\ (answers # <<>> => step \in {5, 7})
      BY <2>1 DEF DialogueInv, AnswerLine
    <3>2. answers # <<>> => /\ Len(answers) = 1 /\ answers[1] = "checksum"
                            /\ step \notin InquirySteps
      BY <3>1 DEF Stale, InquirySteps
    <3>3. Head(cmd).k = step
      BY <1>2, <2>1
    <3> QED
      BY <1>1, <3>2, <3>3
  <2>2. CASE pc # "reply"
    BY <1>1, <1>2, <2>2 DEF DialogueInv, AnswerLine, InDialogue
  <2> QED
    BY <2>1, <2>2
<1>4. /\ answers' \in Seq(Words)
      /\ Len(answers') = 1 \/ Len(answers') = 2
      /\ pc = "reply" /\ Len(answers') = 2 =>
           answers'[IF step \in InquirySteps THEN 2 ELSE 1] = "checksum"
      /\ pc = "reply" /\ answers # <<>> => answers'[1] = "checksum"
  <2>1. CASE \E x \in Words : answers' = answers \o <<x>>
    <3>1. PICK x \in Words : answers' = answers \o <<x>>
      BY <2>1
    <3>2. /\ answers' \in Seq(Words) /\ Len(answers') = Len(answers) + 1
          /\ \A k \in 1..Len(answers) : answers'[k] = answers[k]
      BY <1>1, <3>1, OneMore
    <3>3. Len(answers) = 1 => answers'[1] = answers[1]
      BY <3>2
    <3>4. pc = "reply" /\ answers # <<>> =>
            Len(answers') = 2 /\ answers'[1] = "checksum" /\ step \notin InquirySteps
      BY <1>1, <1>3, <3>2, <3>3
    <3> QED
      BY <1>1, <1>3, <3>2, <3>3, <3>4
  <2>2. CASE Head(cmd).k \in InquirySteps /\ answers' = answers \o <<"info", "checksum">>
    <3>1. answers = <<>>
      BY <1>3, <2>2
    <3>2. answers' = <<>> \o <<"info", "checksum">>
      BY <2>2, <3>1
    <3>3. "info" \in Words /\ "checksum" \in Words
      BY Zenon DEF Words
    <3>4. answers' \in Seq(Words) /\ Len(answers') = 2 /\ answers'[2] = "checksum"
      <4>1. /\ <<>> \o <<"info", "checksum">> \in Seq(Words)
            /\ Len(<<>> \o <<"info", "checksum">>) = 2
            /\ (<<>> \o <<"info", "checksum">>)[2] = "checksum"
        <5> DEFINE x == "info" y == "checksum"
        <5>1. x \in Words /\ y \in Words
          BY <3>3
        <5> HIDE DEF x, y
        <5>2. /\ <<>> \o <<x, y>> \in Seq(Words) /\ Len(<<>> \o <<x, y>>) = 2
              /\ (<<>> \o <<x, y>>)[2] = y
          BY <5>1, TwoAnswers
        <5> QED
          BY <5>2, Zenon DEF x, y
      <4> QED
        BY <3>2, <4>1, Zenon
    <3> QED
      BY <1>2, <2>2, <3>1, <3>4
  <2> QED
    BY <2>1, <2>2
<1>5. AnswerLine'
  <2>1. pc' \in {"reply", "init", "threw"} /\ Len(answers') <= 2
    <3>1. Len(answers') <= 2
      <4>1. Len(answers') = 1 \/ Len(answers') = 2
        BY <1>4, Zenon
      <4> QED
        BY <4>1, OneOrTwo, Zenon
    <3>2. pc' \in {"reply", "init", "threw"}
      BY <1>2
    <3> QED
      BY <3>1, <3>2
  <2>2. pc' = "reply" =>
          \/ Len(answers') = 1
          \/ /\ Len(answers') = 2
             /\ answers'[IF step' \in InquirySteps THEN 2 ELSE 1] = "checksum"
    BY <1>4
  <2> QED
    BY <1>4, <2>1, <2>2 DEF AnswerLine, InDialogue
<1> QED
  BY <1>4, <1>5

(* What the radio answers. *)
LEMMA ReplyFacts ==
  ASSUME NEW c \in Commands, Replies(AnswerTo(c)) \/ Replies(<<"error">>)
  PROVE  \/ \E x \in Words : answers' = answers \o <<x>>
         \/ c.k \in InquirySteps /\ answers' = answers \o <<"info", "checksum">>
<1>1. AnswerTo(c) \in {<<"sums">>, <<"ack">>}
        \/ (c.k \in InquirySteps /\ AnswerTo(c) = <<"info", "checksum">>)
  BY ScriptFacts DEF AnswerTo, InquirySteps, Commands
<1>2. \/ answers' = answers \o AnswerTo(c)
      \/ answers' = answers \o <<"error">>
      \/ answers' = answers \o <<"empty">>
  BY DEF Replies
<1>3. "sums" \in Words /\ "ack" \in Words /\ "error" \in Words /\ "empty" \in Words
  BY Zenon DEF Words
<1>4. CASE answers' = answers \o <<"error">>
  BY <1>3, <1>4, Zenon
<1>5. CASE answers' = answers \o <<"empty">>
  BY <1>3, <1>5, Zenon
<1>6. CASE answers' = answers \o <<"sums">>
  BY <1>3, <1>6, Zenon
<1>7. CASE answers' = answers \o <<"ack">>
  BY <1>3, <1>7, Zenon
<1>8. CASE c.k \in InquirySteps /\ answers' = answers \o <<"info", "checksum">>
  BY <1>8, Zenon
<1> QED
  BY <1>1, <1>2, <1>4, <1>5, <1>6, <1>7, <1>8, Zenon

(* The command that the radio takes. *)
LEMMA AcceptFacts ==
  ASSUME DialogueInv, NEW c \in Commands, Accepts(c)
  PROVE  /\ c.address \in DOMAIN cells
         /\ \/ c.k = taken + 1
            \/ c.k = 11 /\ taken = 11
            \/ c.k = 12 /\ taken = 10
<1>1. c.k \in 1..13
  BY DEF Commands
<1> QED
  BY <1>1, ScriptFacts, Places DEF Accepts

LEMMA CellsFacts ==
  ASSUME DialogueInv, NEW c \in Commands, cells' \in CellsAfter(c),
         c.address \in DOMAIN cells
  PROVE  /\ c.k = 9 => cells' = [a \in DOMAIN cells |-> Erased]
         /\ c.k \notin {9, 11} => cells' = cells
         /\ c.k = 11 =>
              \E b : /\ cells' = [cells EXCEPT ![c.address] = b]
                     /\ IF cells[c.address] # Erased THEN b = Mixed
                        ELSE b = c.address \/ (b = Damaged /\ "cell" \in Faults)
<1>1. c.k \in 1..13 /\ (c.k = 11 => c.body = c.address)
  BY DEF Commands
<1>2. /\ Script[c.k] = "PROGRAM" <=> c.k = 11
      /\ Script[c.k] = "BEGIN_PROGRAMMING" <=> c.k = 9
  BY <1>1, ScriptFacts
<1>3. c.k = 9 => cells' = [a \in DOMAIN cells |-> Erased]
  BY <1>2 DEF CellsAfter
<1>4. c.k \notin {9, 11} => cells' = cells
  BY <1>2 DEF CellsAfter
<1>5. c.k = 11 /\ cells[c.address] # Erased => cells' = [cells EXCEPT ![c.address] = Mixed]
  BY <1>2 DEF CellsAfter
<1>6. c.k = 11 /\ cells[c.address] = Erased =>
        \E b \in {c.body} \cup (IF "cell" \in Faults THEN {Damaged} ELSE {}) :
          cells' = [cells EXCEPT ![c.address] = b]
  BY <1>2 DEF CellsAfter
<1> QED
  BY <1>1, <1>3, <1>4, <1>5, <1>6, Zenon

LEMMA RadioTakesSafe == DialogueInv /\ RadioTakes => DialogueInv'
<1> SUFFICES ASSUME DialogueInv, RadioTakes PROVE DialogueInv'
  OBVIOUS
<1> DEFINE c == Head(cmd)
<1>1. /\ cmd # <<>> /\ Accepts(c) /\ cells' \in CellsAfter(c) /\ taken' = c.k
      /\ Replies(AnswerTo(c)) /\ cmd' = Tail(cmd)
      /\ UNCHANGED <<op, file, pc, step, i, buf0>>
  BY DEF RadioTakes, hostVars
<1>2. /\ c \in Commands /\ cmd' = <<>>
      /\ pc \in {"reply", "init", "threw"}
      /\ pc = "reply" => c.k = step /\ (step = 11 => c.address = i)
  BY <1>1, CommandOnLine
<1>3. /\ c.address \in DOMAIN cells
      /\ \/ c.k = taken + 1
         \/ c.k = 11 /\ taken = 11
         \/ c.k = 12 /\ taken = 10
  BY <1>1, <1>2, AcceptFacts
<1>4. /\ c.k = 9 => cells' = [a \in DOMAIN cells |-> Erased]
      /\ c.k \notin {9, 11} => cells' = cells
      /\ c.k = 11 =>
           \E b : /\ cells' = [cells EXCEPT ![c.address] = b]
                  /\ IF cells[c.address] # Erased THEN b = Mixed
                     ELSE b = c.address \/ (b = Damaged /\ "cell" \in Faults)
  BY <1>1, <1>2, <1>3, CellsFacts
<1>5. /\ taken \in 0..13 /\ step \in 1..13 /\ i \in Nat /\ DOMAIN cells = 0..(Cells - 1)
      /\ cells = [a \in 0..(Cells - 1) |-> cells[a]] /\ c.k \in 1..13
  BY <1>2 DEF DialogueInv, HostTypes, Commands
<1>6. c.k = 11 => cells[c.address] = Erased
  BY <1>1, <1>3, <1>5 DEF DialogueInv, ErasedAhead
<1>7. c.k = 11 => \E b : /\ cells' = [cells EXCEPT ![c.address] = b]
                         /\ b = c.address \/ (b = Damaged /\ "cell" \in Faults)
  BY <1>4, <1>6
<1>8. DOMAIN cells' = 0..(Cells - 1) /\ cells' = [a \in 0..(Cells - 1) |-> cells'[a]]
  <2>1. CASE c.k = 9
    BY <1>4, <1>5, <2>1
  <2>2. CASE c.k \notin {9, 11}
    BY <1>4, <1>5, <2>2
  <2>3. CASE c.k = 11
    BY <1>5, <1>7, <2>3
  <2> QED
    BY <2>1, <2>2, <2>3
<1>9. HostTypes' /\ HostPlace' /\ CommandLine'
  <2>1. HostTypes'
    BY <1>1, <1>5, <1>8 DEF DialogueInv, HostTypes
  <2>2. HostPlace'
    BY <1>1 DEF DialogueInv, HostPlace, InDialogue, Last
  <2> QED
    BY <1>2, <2>1, <2>2, EmptySeq DEF CommandLine
<1> HIDE DEF c
<1>10. AnswerLine'
  BY <1>1, <1>2, ReplyFacts, AnswersSafe DEF c
<1>11. RadioPlace'
  BY <1>1, <1>2, <1>5 DEF RadioPlace, InDialogue
<1>12. InPlace'
  <2>1. \A a \in DOMAIN cells :
          \/ cells[a] \in {Old, Erased, a}
          \/ cells[a] = Damaged /\ "cell" \in Faults
    BY DEF DialogueInv, InPlace
  <2>2. CASE c.k = 9
    BY <1>4, <2>2 DEF InPlace
  <2>3. CASE c.k \notin {9, 11}
    BY <1>4, <2>1, <2>3 DEF InPlace
  <2>4. CASE c.k = 11
    BY <1>5, <1>7, <2>1, <2>4 DEF InPlace
  <2> QED
    BY <2>2, <2>3, <2>4
<1>13. ErasedAhead'
  <2> SUFFICES ASSUME InDialogue', step \in 2..11, taken' >= 9,
                      NEW a \in DOMAIN cells', a >= NextChunk'
               PROVE  cells'[a] = Erased
    BY <1>1, <1>2 DEF ErasedAhead
  <2>1. pc = "reply" /\ c.k = step /\ InDialogue
    BY <1>1, <1>2 DEF InDialogue
  <2>2. NextChunk' = IF step = 11 THEN i + 1 ELSE i
    BY <1>1, <1>2, <2>1 DEF NextChunk
  <2>3. NextChunk = i
    BY <1>1 DEF NextChunk
  <2>4. taken >= 9 => (a >= i => cells[a] = Erased)
    BY <1>5, <1>8, <2>1, <2>3 DEF DialogueInv, ErasedAhead
  <2>5. CASE c.k = 9
    BY <1>4, <1>5, <1>8, <2>5
  <2>6. CASE c.k = 10
    BY <1>1, <1>3, <1>4, <1>5, <2>1, <2>2, <2>4, <2>6
  <2>7. CASE c.k = 11
    <3>1. a >= i + 1 /\ c.address = i /\ taken >= 9
      BY <1>2, <1>3, <1>5, <2>1, <2>2, <2>7
    <3>2. a # i /\ cells[a] = Erased
      BY <1>5, <1>8, <2>4, <3>1
    <3> QED
      BY <1>5, <1>7, <1>8, <2>7, <3>1, <3>2
  <2> QED
    BY <1>1, <1>5, <2>1, <2>5, <2>6, <2>7
<1> QED
  BY <1>9, <1>10, <1>11, <1>12, <1>13 DEF DialogueInv

LEMMA RefusedIsNoAck ==
  ASSUME Replies(<<"error">>),
         answers = <<>> \/ (answers # <<>> /\ answers'[1] = "checksum")
  PROVE  answers'[1] # "ack"
<1>1. CASE answers = <<>>
  <2>1. answers' = <<>> \o <<"error">> \/ answers' = <<>> \o <<"empty">>
    BY <1>1 DEF Replies
  <2>2. \A x : <<>> \o <<x>> = <<x>>
    OBVIOUS
  <2> QED
    BY <2>1, <2>2
<1>2. CASE answers'[1] = "checksum"
  BY <1>2
<1> QED
  BY <1>1, <1>2

LEMMA RadioRefusesSafe == DialogueInv /\ RadioRefuses => DialogueInv'
<1> SUFFICES ASSUME DialogueInv, RadioRefuses PROVE DialogueInv'
  OBVIOUS
<1>1. /\ cmd # <<>> /\ Replies(<<"error">>) /\ cmd' = Tail(cmd)
      /\ UNCHANGED <<op, file, pc, step, i, buf0, taken, cells>>
  BY DEF RadioRefuses, hostVars, radioVars
<1>2. /\ Head(cmd) \in Commands /\ cmd' = <<>> /\ pc \in {"reply", "init", "threw"}
  BY <1>1, CommandOnLine
<1>3. HostTypes' /\ HostPlace' /\ CommandLine'
  <2>1. HostTypes' /\ HostPlace'
    BY <1>1 DEF DialogueInv, HostTypes, HostPlace, InDialogue, Last
  <2> QED
    BY <1>2, <2>1, EmptySeq DEF CommandLine
<1>4. AnswerLine' /\ (pc = "reply" => \/ answers # <<>> /\ answers'[1] = "checksum"
                                      \/ answers = <<>>)
  BY <1>1, <1>2, ReplyFacts, AnswersSafe
<1>5. pc = "reply" => answers'[1] # "ack"
  BY <1>1, <1>4, RefusedIsNoAck
<1>6. RadioPlace'
  BY <1>1, <1>5 DEF DialogueInv, RadioPlace, InDialogue
<1>7. ErasedAhead'
  <2>1. NextChunk' >= NextChunk /\ NextChunk \in Nat /\ NextChunk' \in Nat
    BY <1>1 DEF NextChunk, DialogueInv, HostTypes
  <2>2. DOMAIN cells = 0..(Cells - 1) /\ Cells \in Nat
    BY H8SXAssumption DEF DialogueInv, HostTypes, H8SXAssumption
  <2> QED
    BY <1>1, <1>2, <2>1, <2>2 DEF DialogueInv, ErasedAhead, InDialogue
<1> QED
  BY <1>1, <1>3, <1>4, <1>6, <1>7, RadioKept DEF DialogueInv

LEMMA DialogueInvInductive == DialogueInv /\ [Next]_vars => DialogueInv'
<1>1. DialogueInv /\ UNCHANGED vars => DialogueInv'
  <2> SUFFICES ASSUME DialogueInv, UNCHANGED vars PROVE DialogueInv'
    OBVIOUS
  <2>1. UNCHANGED <<op, file, pc, step, i, buf0, taken, cells, answers, cmd>>
    BY DEF vars, hostVars, radioVars
  <2>2. HostTypes' /\ HostPlace' /\ CommandLine' /\ AnswerLine'
    BY <2>1 DEF DialogueInv, HostTypes, HostPlace, CommandLine, AnswerLine, InDialogue,
                Last, Stale, Command, ChunkAddress
  <2>3. RadioPlace' /\ ErasedAhead' /\ InPlace'
    BY <2>1 DEF DialogueInv, RadioPlace, ErasedAhead, InPlace, InDialogue, NextChunk
  <2> QED
    BY <2>2, <2>3 DEF DialogueInv
<1> QED
  BY <1>1, InitDeviceSafe, SendSafe, ReadReplySafe, ReadChecksumSafe, TransferFailsSafe,
     RerunSafe, RadioTakesSafe, RadioRefusesSafe DEF Next, Host, Radio

(* Host and radio are at the same place of one script, whatever fails.     *)
THEOREM DialogueInvariant == Spec => []DialogueInv
<1> QED
  BY InitInv, DialogueInvInductive, PTL DEF Spec

(* There is at most one command and its answer on the line, and the chunks *)
(* are counted up to the size of the flash, whatever fails in the line, in *)
(* the radio and in its memory.                                            *)
THEOREM TypeCorrect == Spec => []TypeOK
<1>1. DialogueInv => TypeOK
  <2> SUFFICES ASSUME DialogueInv PROVE TypeOK
    OBVIOUS
  <2>1. /\ file \in Files /\ op \in {"flash", "info"}
        /\ pc \in {"init", "send", "reply", "extra", "done", "threw"}
        /\ step \in 1..13 /\ buf0 \in {"ack", "other"} /\ taken \in 0..13
        /\ cells = [a \in 0..(Cells - 1) |-> cells[a]]
    BY DEF DialogueInv, HostTypes
  <2>2. i \in 0..Cells
    <3>1. file \in Nat /\ file <= Cells /\ i \in Nat /\ Cells \in Nat /\ (i = 0 \/ i < file)
      BY H8SXAssumption DEF H8SXAssumption, DialogueInv, HostTypes, HostPlace
    <3> QED
      BY <3>1
  <2>3. cells \in [0..(Cells - 1) -> Mixed..(Cells - 1)]
    <3>1. Cells \in Nat
      BY H8SXAssumption DEF H8SXAssumption
    <3>2. \A a \in 0..(Cells - 1) : cells[a] \in Mixed..(Cells - 1)
      BY <2>1, <3>1 DEF DialogueInv, InPlace, Old, Erased, Damaged, Mixed
    <3> QED
      BY <2>1, <3>2
  <2>4. Len(cmd) <= 1
    BY DEF DialogueInv, CommandLine
  <2>5. Len(answers) <= 2
    <3>1. CASE pc = "send" \/ pc = "extra" \/ (pc = "reply" /\ cmd # <<>>)
      BY <3>1, StaleLength DEF DialogueInv, AnswerLine
    <3>2. CASE pc = "reply" /\ cmd = <<>>
      <4>1. Len(answers) = 1 \/ Len(answers) = 2
        BY <3>2 DEF DialogueInv, AnswerLine
      <4> QED
        BY <4>1, OneOrTwo, Zenon
    <3>3. CASE ~InDialogue
      BY <3>3 DEF DialogueInv, AnswerLine
    <3> QED
      BY <3>1, <3>2, <3>3 DEF InDialogue
  <2> QED
    BY <2>1, <2>2, <2>3, <2>4, <2>5, ScriptFacts DEF TypeOK
<1> QED
  BY <1>1, DialogueInvariant, PTL

(* No chunk is programmed over what the dialogue has not erased, and every *)
(* chunk is in the place of its number - whatever is refused, however the  *)
(* transfers fail and whichever answers are empty, as long as a cell keeps *)
(* what it is given.                                                       *)
THEOREM ChunksInPlace ==
  ASSUME "cell" \notin Faults
  PROVE  Spec => []ProgramsErased
<1>1. DialogueInv => ProgramsErased
  BY DEF DialogueInv, InPlace, ProgramsErased
<1> QED
  BY <1>1, DialogueInvariant, PTL

-----------------------------------------------------------------------------
(* The image.  An acknowledged command has had its effect, if no answer is *)
(* empty.                                                                  *)
LEMMA NoneEmptyTail ==
  ASSUME DialogueInv, NoneEmpty, answers' = answers \/ (answers # <<>> /\ answers' = Tail(answers))
  PROVE  NoneEmpty'
<1>1. CASE answers' = answers
  BY <1>1 DEF NoneEmpty
<1>2. CASE answers # <<>> /\ answers' = Tail(answers)
  <2>1. answers \in Seq(Words)
    BY DEF DialogueInv, AnswerLine
  <2>2. /\ Len(answers) \in Nat /\ DOMAIN answers = 1..Len(answers)
        /\ answers' \in Seq(Words) /\ Len(answers') = Len(answers) - 1
        /\ \A k \in 1..(Len(answers) - 1) : answers'[k] = answers[k + 1]
    BY <1>2, <2>1, QueueFacts
  <2>3. DOMAIN answers' = 1..(Len(answers) - 1)
    BY <2>2, QueueFacts
  <2> SUFFICES ASSUME NEW k \in 1..(Len(answers) - 1) PROVE answers'[k] # "empty"
    BY <2>3 DEF NoneEmpty
  <2>4. k + 1 \in DOMAIN answers
    BY <2>2
  <2> QED
    BY <2>2, <2>4 DEF NoneEmpty
<1> QED
  BY <1>1, <1>2

(* The host's steps: an acknowledged command is the only reason to go on,  *)
(* but for the last.                                                       *)
LEMMA AdvanceImage ==
  ASSUME DialogueInv, ImageInv, pc \in {"reply", "extra"}, cmd = <<>>, Advance,
         UNCHANGED <<op, file, cells, cmd>>, NoneEmpty',
         pc = "reply" => step = 13 \/ answers[1] = "ack"
  PROVE  ImageInv'
<1>1. /\ HostTypes /\ InDialogue
  BY DEF DialogueInv, InDialogue
<1>2. /\ pc' = IF step = Last THEN "done" ELSE "send"
      /\ \/ step = 11 /\ i + 1 < file /\ i' = i + 1 /\ step' = 11
         \/ /\ ~(step = 11 /\ i + 1 < file) /\ i' = i
            /\ step' = IF step = 10 /\ file = 0 THEN 12
                       ELSE IF step = 13 THEN 13 ELSE step + 1
  BY <1>1, AdvanceFacts
<1>3. /\ step \in 1..13 /\ i \in Nat /\ file \in Nat /\ step <= Last
      /\ Last \in {2, 13} /\ (op = "flash" => Last = 13)
      /\ (step <= 10 => i = 0) /\ (step = 11 => i < file)
  BY <1>1, H8SXAssumption, LastCommand DEF DialogueInv, HostTypes, HostPlace, H8SXAssumption
<1>4. step \in {9, 10, 11, 12, 13} => pc = "reply"
  BY DEF DialogueInv, HostPlace, InquirySteps
<1>5. /\ step \in {9, 10} => Image(0, cells)
      /\ step = 11 => Image(i + 1, cells)
      /\ step \in {12, 13} => Image(file, cells)
  BY <1>4 DEF ImageInv, Acked
<1>6. pc' \in {"send", "done"}
  BY <1>2
<1>7. pc' = "send" /\ step' = 10 => Image(0, cells)
  BY <1>2, <1>3, <1>5
<1>8. pc' = "send" /\ step' = 11 => Image(i', cells)
  BY <1>2, <1>3, <1>5
<1>9. pc' = "send" /\ step' \in {12, 13} => Image(file, cells)
  <2>1. ASSUME pc' = "send", step' \in {12, 13}
        PROVE  step \in {12, 13} \/ (step = 11 /\ i + 1 = file) \/ (step = 10 /\ file = 0)
    BY <1>2, <1>3, <2>1
  <2> QED
    BY <1>5, <2>1
<1>10. pc' = "done" /\ op = "flash" => Image(file, cells)
  BY <1>2, <1>3, <1>5
<1> QED
  BY <1>6, <1>7, <1>8, <1>9, <1>10 DEF ImageInv, Acked, ToTake

(* A step after which the host waits for no command. *)
LEMMA NoCommandImage ==
  ASSUME pc' \in {"threw", "init", "extra"}, NoneEmpty'
  PROVE  ImageInv'
  BY DEF ImageInv, ToTake, Acked

LEMMA HostImage ==
  ASSUME "empty" \notin Faults, DialogueInv, ImageInv, Host \/ TransferFails \/ Rerun
  PROVE  ImageInv'
<1>1. CASE InitDevice
  <2>1. pc = "init" /\ step' = step /\ answers' = <<>> /\ pc' \in {"send", "threw"}
    BY <1>1 DEF InitDevice
  <2>2. step = 1
    BY <2>1 DEF DialogueInv, HostPlace
  <2>3. NoneEmpty'
    BY <2>1 DEF NoneEmpty
  <2> QED
    BY <2>1, <2>2, <2>3 DEF ImageInv, ToTake, Acked
<1>2. CASE Send
  <2>1. /\ pc = "send" /\ pc' = "reply" /\ cmd = <<>> /\ cmd' = Append(<<>>, Command)
        /\ UNCHANGED <<op, file, step, i, cells, answers>>
    BY <1>2 DEF Send, radioVars, DialogueInv, CommandLine
  <2>2. cmd' # <<>>
    BY <2>1, CommandFacts, OneCommand DEF DialogueInv
  <2>3. NoneEmpty' /\ ToTake /\ ToTake' /\ ~Acked'
    BY <2>1, <2>2 DEF ImageInv, NoneEmpty, ToTake, Acked
  <2> QED
    BY <2>1, <2>3 DEF ImageInv
<1>3. CASE ReadReply
  <2> DEFINE v == Head(answers)
  <2>1. /\ pc = "reply" /\ answers # <<>> /\ answers' = Tail(answers)
        /\ \/ pc' = "extra"
           \/ Script[step] = "USER_MAT_CHECKSUM" /\ (Advance \/ Throw)
           \/ IF Refused(BufferAfter(v)) THEN Throw ELSE Advance
        /\ UNCHANGED <<op, file, cells, cmd>>
    BY <1>3 DEF ReadReply, radioVars
  <2>2. NoneEmpty'
    BY <2>1, NoneEmptyTail DEF ImageInv
  <2>3. v = answers[1] /\ v # "empty" /\ (cmd # <<>> => v = "checksum" /\ step \in {5, 7})
    <3>1. /\ v = answers[1] /\ Len(answers) \in Nat /\ Len(answers) >= 1
          /\ (cmd # <<>> => v = "checksum" /\ step \in {5, 7})
      BY <2>1, AnswerFacts
    <3>2. 1 \in DOMAIN answers
      BY <3>1, QueueFacts DEF DialogueInv, AnswerLine
    <3> QED
      BY <3>1, <3>2 DEF ImageInv, NoneEmpty
  <2> HIDE DEF v
  <2>4. pc' \in {"extra", "threw"} \/ (Advance /\ (step = 13 \/ v = "ack"))
    <3>1. Script[step] = "USER_MAT_CHECKSUM" <=> step = 13
      BY ScriptFacts DEF DialogueInv, HostTypes
    <3>2. Refused(BufferAfter(v)) <=> v # "ack"
      BY <2>3 DEF Refused, BufferAfter
    <3>3. Throw => pc' = "threw"
      BY DEF Throw
    <3> QED
      BY <2>1, <3>1, <3>2, <3>3
  <2>5. CASE pc' \in {"extra", "threw"}
    BY <2>2, <2>5, NoCommandImage
  <2>6. CASE Advance /\ (step = 13 \/ v = "ack")
    <3>1. cmd = <<>>
      BY <2>3, <2>6
    <3> QED
      BY <2>1, <2>2, <2>3, <2>6, <3>1, AdvanceImage
  <2> QED
    BY <2>4, <2>5, <2>6
<1>4. CASE ReadChecksum
  <2>1. /\ pc = "extra" /\ answers # <<>> /\ answers' = Tail(answers) /\ Advance
        /\ UNCHANGED <<op, file, cells, cmd>>
    BY <1>4 DEF ReadChecksum, radioVars
  <2>2. cmd = <<>>
    BY <2>1 DEF DialogueInv, CommandLine
  <2> QED
    BY <2>1, <2>2, NoneEmptyTail, AdvanceImage DEF ImageInv
<1>5. CASE TransferFails
  <2>1. /\ pc \in {"init", "send", "reply", "extra"}
        /\ (pc = "extra" /\ Advance /\ cmd' = cmd) \/ Throw
        /\ answers' = answers \/ (answers # <<>> /\ answers' = Tail(answers))
        /\ UNCHANGED <<op, file, cells>>
    BY <1>5 DEF TransferFails, radioVars
  <2>2. NoneEmpty'
    BY <2>1, NoneEmptyTail DEF ImageInv
  <2>3. CASE Throw
    BY <2>2, <2>3, NoCommandImage DEF Throw
  <2>4. CASE pc = "extra" /\ Advance /\ cmd' = cmd
    <3>1. cmd = <<>>
      BY <2>4 DEF DialogueInv, CommandLine
    <3> QED
      BY <2>1, <2>2, <2>4, <3>1, AdvanceImage
  <2> QED
    BY <2>1, <2>3, <2>4
<1>6. CASE Rerun
  <2>1. pc' = "init" /\ NoneEmpty'
    BY <1>6 DEF Rerun, ImageInv, NoneEmpty
  <2> QED
    BY <2>1, NoCommandImage
<1> QED
  BY <1>1, <1>2, <1>3, <1>4, <1>5, <1>6 DEF Host

LEMMA NoneEmptyAnswer ==
  ASSUME "empty" \notin Faults, DialogueInv, NoneEmpty, NEW c \in Commands,
         Replies(AnswerTo(c)) \/ Replies(<<"error">>)
  PROVE  NoneEmpty'
<1> DEFINE ans == IF Replies(<<"error">>) THEN <<"error">> ELSE AnswerTo(c)
<1>1. answers' = answers \o ans
  BY DEF Replies
<1>2. ans \in {<<"error">>, <<"sums">>, <<"ack">>, <<"info", "checksum">>}
  BY DEF AnswerTo
<1>3. ans \in Seq(Words) /\ \A k \in 1..Len(ans) : ans[k] # "empty"
  <2>1. /\ "error" \in Words /\ "sums" \in Words /\ "ack" \in Words
        /\ "info" \in Words /\ "checksum" \in Words
    BY Zenon DEF Words
  <2> HIDE DEF ans
  <2>2. ASSUME NEW x \in Words, ans = <<x>>, x # "empty"
        PROVE  ans \in Seq(Words) /\ \A k \in 1..Len(ans) : ans[k] # "empty"
    BY <2>2
  <2>3. ASSUME NEW x \in Words, NEW y \in Words, ans = <<x, y>>, x # "empty", y # "empty"
        PROVE  ans \in Seq(Words) /\ \A k \in 1..Len(ans) : ans[k] # "empty"
    BY <2>3
  <2>4. CASE ans = <<"error">>
    BY <2>1, <2>2, <2>4
  <2>5. CASE ans = <<"sums">>
    BY <2>1, <2>2, <2>5
  <2>6. CASE ans = <<"ack">>
    BY <2>1, <2>2, <2>6
  <2>7. CASE ans = <<"info", "checksum">>
    BY <2>1, <2>3, <2>7
  <2> QED
    BY <1>2, <2>4, <2>5, <2>6, <2>7
<1> HIDE DEF ans
<1>4. answers \in Seq(Words) /\ Len(answers) \in Nat /\ DOMAIN answers = 1..Len(answers)
  BY QueueFacts DEF DialogueInv, AnswerLine
<1>5. /\ answers \o ans \in Seq(Words)
      /\ Len(answers \o ans) = Len(answers) + Len(ans) /\ Len(ans) \in Nat
      /\ \A k \in 1..Len(answers) + Len(ans) :
           (answers \o ans)[k] = IF k <= Len(answers) THEN answers[k]
                                 ELSE ans[k - Len(answers)]
  BY <1>3, <1>4, ConcatProperties, LenProperties
<1>6. DOMAIN answers' = 1..(Len(answers) + Len(ans))
  BY <1>1, <1>5, QueueFacts
<1>7. ASSUME NEW k \in 1..(Len(answers) + Len(ans))
      PROVE  answers'[k] # "empty"
  <2>1. CASE k <= Len(answers)
    <3>1. k \in DOMAIN answers /\ answers'[k] = answers[k]
      BY <1>1, <1>4, <1>5, <2>1
    <3> QED
      BY <3>1 DEF NoneEmpty
  <2>2. CASE ~(k <= Len(answers))
    <3>1. k - Len(answers) \in 1..Len(ans) /\ answers'[k] = ans[k - Len(answers)]
      BY <1>1, <1>4, <1>5, <2>2
    <3> QED
      BY <1>3, <3>1
  <2> QED
    BY <2>1, <2>2
<1> QED
  BY <1>6, <1>7 DEF NoneEmpty

LEMMA RadioImage ==
  ASSUME "empty" \notin Faults, "cell" \notin Faults, DialogueInv, ImageInv, Radio
  PROVE  ImageInv'
<1> DEFINE c == Head(cmd)
<1>1. /\ cmd # <<>> /\ cmd' = Tail(cmd)
      /\ Replies(AnswerTo(c)) \/ Replies(<<"error">>)
      /\ UNCHANGED <<op, file, pc, step, i>>
  BY DEF Radio, RadioTakes, RadioRefuses, hostVars
<1>2. /\ c \in Commands /\ cmd' = <<>> /\ pc \in {"reply", "init", "threw"}
      /\ pc = "reply" => c.k = step /\ (step = 11 => c.address = i)
  BY <1>1, CommandOnLine
<1> HIDE DEF c
<1>3. NoneEmpty'
  BY <1>1, <1>2, NoneEmptyAnswer DEF ImageInv
<1>4. CASE pc # "reply"
  BY <1>1, <1>2, <1>3, <1>4, NoCommandImage DEF ImageInv, ToTake, Acked
<1>5. CASE pc = "reply"
  <2>1. ToTake /\ ~ToTake' /\ pc' = "reply" /\ c.k = step
    BY <1>1, <1>2, <1>5 DEF ToTake
  <2>2. /\ step \in 1..13 /\ i \in Nat
        /\ cells = [a \in 0..(Cells - 1) |-> cells[a]] /\ Cells \in Nat
    BY H8SXAssumption DEF DialogueInv, HostTypes, H8SXAssumption
  <2>3. CASE RadioRefuses
    <3>1. UNCHANGED cells /\ Replies(<<"error">>)
      BY <2>3 DEF RadioRefuses, radioVars
    <3>2. \/ answers # <<>> /\ answers'[1] = "checksum"
          \/ answers = <<>>
      BY <1>1, <1>2, <1>5, ReplyFacts, AnswersSafe DEF c
    <3>3. ~Acked'
      BY <3>1, <3>2, RefusedIsNoAck DEF Acked
    <3> QED
      BY <1>1, <1>3, <1>5, <2>1, <3>1, <3>3 DEF ImageInv
  <2>4. CASE RadioTakes
    <3>1. Accepts(c) /\ cells' \in CellsAfter(c)
      BY <2>4 DEF RadioTakes, c
    <3>2. c.address \in DOMAIN cells
      BY <1>2, <3>1, AcceptFacts
    <3>3. /\ c.k = 9 => cells' = [a \in DOMAIN cells |-> Erased]
          /\ c.k \notin {9, 11} => cells' = cells
          /\ c.k = 11 =>
               \E b : /\ cells' = [cells EXCEPT ![c.address] = b]
                      /\ IF cells[c.address] # Erased THEN b = Mixed
                         ELSE b = c.address \/ (b = Damaged /\ "cell" \in Faults)
      BY <1>2, <3>1, <3>2, CellsFacts
    <3>4. step = 9 => Image(0, cells')
      BY <2>1, <2>2, <3>3 DEF Image
    <3>5. step = 10 => Image(0, cells')
      BY <2>1, <3>3 DEF ImageInv
    <3>6. step = 11 => Image(i + 1, cells')
      <4> SUFFICES ASSUME step = 11 PROVE Image(i + 1, cells')
        OBVIOUS
      <4>1. Image(i, cells) /\ c.address = i
        BY <1>2, <1>5, <2>1 DEF ImageInv
      <4>2. cells[i] = Erased
        BY <2>2, <3>2, <4>1 DEF Image
      <4>3. cells' = [cells EXCEPT ![i] = i]
        BY <2>1, <3>3, <4>1, <4>2
      <4> QED
        BY <2>2, <3>2, <4>1, <4>3 DEF Image
    <3>7. step \in {12, 13} => Image(file, cells')
      BY <1>5, <2>1, <3>3 DEF ImageInv
    <3> QED
      BY <1>1, <1>3, <1>5, <2>1, <3>4, <3>5, <3>6, <3>7 DEF ImageInv
  <2> QED
    BY <2>3, <2>4 DEF Radio
<1> QED
  BY <1>4, <1>5

(* An update that ends well leaves the whole image and nothing of the old  *)
(* firmware, whatever earlier runs left half way: however the transfers    *)
(* fail and whatever the radio refuses.  It takes a flash that keeps what  *)
(* it is given, for the code compares no sums; and answers that are never  *)
(* empty, for it takes those for the answer before.                        *)
THEOREM EndsWithTheImage ==
  ASSUME "empty" \notin Faults, "cell" \notin Faults
  PROVE  Spec => []DoneMeansImage
<1>1. Init => ImageInv
  BY DEF Init, ImageInv, NoneEmpty, ToTake, Acked
<1>2. DialogueInv /\ ImageInv /\ [Next]_vars => ImageInv'
  <2>1. DialogueInv /\ ImageInv /\ Next => ImageInv'
    BY HostImage, RadioImage DEF Next
  <2>2. ImageInv /\ UNCHANGED vars => ImageInv'
    BY DEF vars, hostVars, radioVars, ImageInv, NoneEmpty, ToTake, Acked
  <2> QED
    BY <2>1, <2>2
<1>3. DialogueInv /\ ImageInv => DoneMeansImage
  <2> SUFFICES ASSUME DialogueInv, ImageInv, pc = "done", op = "flash"
               PROVE  \A a \in DOMAIN cells : cells[a] = IF a < file THEN a ELSE Erased
    BY DEF DoneMeansImage
  <2>1. Image(file, cells)
    BY DEF ImageInv
  <2> QED
    BY <2>1 DEF Image
<1> QED
  BY <1>1, <1>2, <1>3, DialogueInvariant, PTL DEF Spec
=============================================================================

------------------------------ MODULE DFUProofs ------------------------------
(***************************************************************************)
(* What DFU promises its callers, for every set of operations, every       *)
(* number of them and every way a radio may take an ABORT; and, for the    *)
(* operations of TYTDFU, that a register is read after it was selected     *)
(* and a timestamp sent after SetRTC.  The theorems other than TypeCorrect *)
(* are about radios that answer GETSTATUS and GETSTATE with the bytes that *)
(* USB DFU prescribes (no ShortReplies): of an answer cut short the code   *)
(* takes a status, or a state, from memory it never wrote.                 *)
(***************************************************************************)
EXTENDS TYTDFU, SequenceTheorems, TLAPS

(* Commands are numbered as they reach the radio. *)
Numbered ==
  /\ sent \in Nat /\ executed \in Seq(Nat)
  /\ ToSet(executed) \subseteq 1..sent

(* The last command that reached the radio was executed. *)
Done == sent \in ToSet(executed)

(* The radio works on the last command it was sent, and has not finished it. *)
AtWork ==
  dev \in {"sync", "busy"} =>
    sent > 0 /\ pending.id = sent /\ ~Done

(* What a Download that waits for the status knows nothing of. *)
Executing ==
  pc \in {"status", "status2"} /\ link = "up" =>
    \/ dev \in {"sync", "busy"} /\ pending.cmd = asked
    \/ dev = "downloadIdle" /\ Done /\ selected = asked
    \/ dev = "error"

(* What every step keeps beside the types. *)
Channelled == Numbered /\ AtWork /\ Executing

(* An Upload, here or later in these calls, follows a Download, and where *)
(* there is one, the last call is one.                                     *)
ReadsAfterDownloads(o) ==
  /\ \A i \in 2..Len(o) : o[i].call = "upload" => o[i - 1].call = "download"
  /\ \A i \in 1..Len(o) : o[i].call = "upload" => o[Len(o)].call = "upload"

(* Nor is a timestamp sent but after a Download. *)
TimestampsAfterDownloads(o) ==
  \A i \in 2..Len(o) : o[i] = Down("timestamp") => o[i - 1].call = "download"

OperationShape(o) ==
  /\ ReadsAfterDownloads(o) /\ TimestampsAfterDownloads(o)
  /\ o[1].call # "upload" /\ o[1] # Down("timestamp")

(* What is left of the running operation, and what it has read. *)
Running ==
  pc \notin Ended =>
    /\ ReadsAfterDownloads(calls) /\ TimestampsAfterDownloads(calls)
    /\ got # "unread" => calls[Len(calls)].call = "upload"

(* The register an Upload is about to read is the one asked for. *)
Selected ==
  pc \notin Ended /\ calls[1].call = "upload" =>
    /\ dev \notin {"sync", "busy"}
    /\ link = "up" => selected = asked

(* The command before a timestamp was executed. *)
Preceded ==
  pc \in {"getState", "abort", "download"} /\ calls[1] = Down("timestamp") =>
    Done

InOperation == Running /\ Selected /\ Preceded /\ ReadsItsRegister
-----------------------------------------------------------------------------
LEMMA CallFacts ==
  ASSUME NEW c, c \in Seq(Calls), c # <<>>
  PROVE  /\ Len(c) \in Nat /\ Len(c) > 0
         /\ Head(c) = c[1] /\ c[1] \in Calls
         /\ Tail(c) \in Seq(Calls) /\ Len(Tail(c)) = Len(c) - 1
         /\ \A i \in 1..Len(Tail(c)) : Tail(c)[i] = c[i + 1]
         /\ Len(c) # 1 => Tail(c) # <<>>
<1>1. Len(c) \in Nat /\ Len(c) > 0
  BY EmptySeq, LenProperties
<1>2. Head(c) = c[1] /\ c[1] \in Calls
  BY <1>1, HeadTailProperties, ElementOfSeq
<1>3. /\ Tail(c) \in Seq(Calls) /\ Len(Tail(c)) = Len(c) - 1
      /\ \A i \in 1..Len(Tail(c)) : Tail(c)[i] = c[i + 1]
  BY HeadTailProperties
<1>4. Len(<<>>) = 0
  BY EmptySeq
<1>5. Len(c) # 1 => Tail(c) # <<>>
  <2>1. Len(Tail(c)) # 0 => Tail(c) # <<>>
    BY <1>4, Zenon
  <2> QED
    BY <1>1, <1>3, <2>1, SMT
<1> QED
  BY <1>1, <1>2, <1>3, <1>5

LEMMA InitTypes == Init => TypeOK
<1> SUFFICES ASSUME Init PROVE TypeOK
  OBVIOUS
<1>1. "none" \in Commands
  BY DEF Commands
<1>2. pending \in [id : Nat, cmd : Commands]
  BY <1>1 DEF Init, NoCommand
<1>3. calls \in Seq(Calls) /\ executed \in Seq(Nat) /\ returned \subseteq Nat
  BY EmptySeq DEF Init
<1> QED
  BY <1>1, <1>2, <1>3 DEF Init, TypeOK, Ended, DevStates

(* The types of what the host keeps, and of all the rest. *)
HostTypes ==
  /\ pc \in {"getState", "abort", "download", "status", "status2", "upload"} \cup Ended
  /\ calls \in Seq(Calls)
  /\ pc \notin Ended => calls # <<>>
  /\ pc \in {"download", "status", "status2"} => calls[1].call = "download"
  /\ pc = "upload" => calls[1].call = "upload"

OtherTypes ==
  /\ ops \in Nat
  /\ asked \in Commands /\ got \in Commands \cup {"unread"} /\ selected \in Commands
  /\ link \in {"up", "down"}
  /\ dev \in DevStates
  /\ pending \in [id : Nat, cmd : Commands]
  /\ sent \in Nat
  /\ executed \in Seq(Nat)
  /\ returned \subseteq Nat

LEMMA TypesSplit == TypeOK <=> HostTypes /\ OtherTypes
<1>1. calls \in Seq(Calls) /\ calls # <<>> => Head(calls) = calls[1]
  BY CallFacts
<1>2. "download" \notin Ended /\ "status" \notin Ended /\ "status2" \notin Ended
      /\ "upload" \notin Ended
  BY DEF Ended
<1> QED
  BY <1>1, <1>2 DEF TypeOK, HostTypes, OtherTypes

LEMMA TypesSplitNext == HostTypes' /\ OtherTypes' => TypeOK'
  BY TypesSplit, PTL

(* The host goes on with the call it is in. *)
LEMMA SameCalls ==
  ASSUME HostTypes, UNCHANGED calls, calls # <<>>,
         pc' \in {"getState", "abort", "download", "status", "status2", "upload"} \cup Ended,
         pc' \in {"download", "status", "status2"} => calls[1].call = "download",
         pc' = "upload" => calls[1].call = "upload"
  PROVE  HostTypes'
  BY DEF HostTypes, Ended

LEMMA ReturnTypes ==
  ASSUME HostTypes, pc \notin Ended, CallReturns
  PROVE  HostTypes'
<1>1. calls \in Seq(Calls) /\ calls # <<>>
  BY DEF HostTypes
<1>2. Tail(calls) \in Seq(Calls) /\ (Len(calls) # 1 => Tail(calls) # <<>>)
  BY <1>1, CallFacts
<1> QED
  BY <1>2 DEF CallReturns, HostTypes, Ended

LEMMA ThrowTypes ==
  ASSUME TypeOK, Throws
  PROVE  HostTypes' /\ UNCHANGED hostVars
  BY TypesSplit DEF Throws, HostTypes, Ended, hostVars

LEMMA UndeliveredTypes ==
  ASSUME TypeOK, Undelivered
  PROVE  TypeOK'
<1>1. HostTypes' /\ UNCHANGED hostVars
  BY ThrowTypes DEF Undelivered
<1>2. OtherTypes'
  BY <1>1, TypesSplit DEF Undelivered, OtherTypes, hostVars, devVars, logVars
<1> QED
  BY <1>1, <1>2, TypesSplitNext
-----------------------------------------------------------------------------
(* Every step keeps the types; one lemma for the steps of each kind. *)
LEMMA StartTypes == TypeOK /\ StartOperation => TypeOK'
<1> SUFFICES ASSUME TypeOK, StartOperation PROVE TypeOK'
  OBVIOUS
<1>1. calls' \in Seq(Calls) /\ calls' # <<>>
  BY DFUAssumption DEF StartOperation
<1>2. HostTypes'
  BY <1>1 DEF StartOperation, HostTypes, Ended
<1>3. "none" \in Commands
  BY DEF Commands
<1>4. OtherTypes'
  BY <1>3, TypesSplit DEF StartOperation, OtherTypes, devVars, logVars
<1> QED
  BY <1>2, <1>4, TypesSplitNext

LEMMA GetStateTypes == TypeOK /\ GetState => TypeOK'
<1> SUFFICES ASSUME TypeOK, GetState PROVE TypeOK'
  OBVIOUS
<1>1. CASE Undelivered
  BY <1>1, UndeliveredTypes
<1>2. ASSUME ~Undelivered PROVE TypeOK'
  <2>1. HostTypes /\ pc \notin Ended /\ calls # <<>> /\ calls[1] \in Calls
        /\ Head(calls) = calls[1]
    BY TypesSplit, CallFacts DEF GetState, HostTypes, Ended
  <2>2. UNCHANGED <<ops, asked, got, link, devVars, logVars>>
    BY <1>2 DEF GetState
  <2>3. Initialised => HostTypes'
    <3>1. CASE calls[1].call = "download"
      BY <3>1, <2>1, SameCalls DEF Initialised
    <3>2. CASE calls[1].call = "upload"
      BY <3>2, <2>1, SameCalls DEF Initialised
    <3>3. CASE calls[1].call = "initupload"
      BY <3>3, <2>1, ReturnTypes DEF Initialised
    <3> QED
      BY <3>1, <3>2, <3>3, <2>1 DEF Calls
  <2>4. HostTypes'
    BY <1>2, <2>1, <2>3, SameCalls DEF GetState
  <2>5. OtherTypes'
    BY <2>2, TypesSplit DEF OtherTypes, devVars, logVars
  <2> QED
    BY <2>4, <2>5, TypesSplitNext
<1> QED
  BY <1>1, <1>2

LEMMA AbortTypes == TypeOK /\ Abort => TypeOK'
<1> SUFFICES ASSUME TypeOK, Abort PROVE TypeOK'
  OBVIOUS
<1>1. CASE Undelivered
  BY <1>1, UndeliveredTypes
<1>2. ASSUME ~Undelivered PROVE TypeOK'
  <2>1. HostTypes /\ calls # <<>>
    BY TypesSplit DEF Abort, HostTypes, Ended
  <2>2. HostTypes' /\ UNCHANGED <<hostVars, link, logVars>>
    <3>1. CASE Throws
      BY <3>1, <1>2, ThrowTypes DEF Abort
    <3>2. CASE pc' = "getState" /\ UNCHANGED hostVars
      BY <3>2, <2>1, <1>2, SameCalls DEF Abort, hostVars
    <3> QED
      BY <1>2, <3>1, <3>2 DEF Abort
  <2>3. /\ dev' \in DevStates /\ selected' = selected
        /\ pending' \in [id : Nat, cmd : Commands]
    <3>1. NoCommand \in [id : Nat, cmd : Commands]
      BY DEF NoCommand, Commands
    <3> QED
      BY <1>2, <3>1, TypesSplit
      DEF Abort, AbortTaken, AbortIgnored, OtherTypes, DevStates, devVars
  <2>4. OtherTypes'
    BY <2>2, <2>3, TypesSplit DEF OtherTypes, hostVars, logVars
  <2> QED
    BY <2>2, <2>4, TypesSplitNext
<1> QED
  BY <1>1, <1>2

LEMMA DownloadTypes == TypeOK /\ DownloadTransfer => TypeOK'
<1> SUFFICES ASSUME TypeOK, DownloadTransfer PROVE TypeOK'
  OBVIOUS
<1>0. HostTypes /\ calls # <<>> /\ Head(calls) = calls[1] /\ calls[1] \in Calls
      /\ calls[1].call = "download"
  BY TypesSplit, CallFacts DEF DownloadTransfer, HostTypes, Ended
<1>1. CASE Undelivered
  BY <1>1, UndeliveredTypes
<1>2. CASE CommandStalls
  <2>1. HostTypes' /\ UNCHANGED hostVars
    BY <1>2, ThrowTypes DEF CommandStalls
  <2>2. OtherTypes'
    BY <1>2, <2>1, TypesSplit DEF CommandStalls, OtherTypes, hostVars, logVars, DevStates
  <2> QED
    BY <2>1, <2>2, TypesSplitNext
<1>3. CASE /\ CommandReachesRadio /\ UNCHANGED link
           /\ \/ pc' = "status" /\ asked' = Head(calls).cmd /\ UNCHANGED <<calls, ops, got>>
              \/ Throws
  <2>1. /\ HostTypes' /\ UNCHANGED <<calls, ops, got, link>>
        /\ asked' = asked \/ asked' = Head(calls).cmd
    BY <1>0, <1>3, ThrowTypes, SameCalls DEF hostVars
  <2>2. Head(calls).cmd \in Commands
    BY <1>0 DEF Calls
  <2>3. OtherTypes'
    BY <1>3, <2>1, <2>2, TypesSplit DEF CommandReachesRadio, OtherTypes, DevStates
  <2> QED
    BY <2>1, <2>3, TypesSplitNext
<1> QED
  BY <1>1, <1>2, <1>3 DEF DownloadTransfer

LEMMA FirstStatusTypes == TypeOK /\ FirstStatus => TypeOK'
<1> SUFFICES ASSUME TypeOK, FirstStatus PROVE TypeOK'
  OBVIOUS
<1>1. CASE Undelivered
  BY <1>1, UndeliveredTypes
<1>2. ASSUME ~Undelivered PROVE TypeOK'
  <2>1. HostTypes /\ calls # <<>> /\ calls[1].call = "download"
    BY TypesSplit DEF FirstStatus, HostTypes, Ended
  <2>2. HostTypes' /\ UNCHANGED <<hostVars, link, logVars>>
    <3>1. CASE Throws
      BY <3>1, <1>2, ThrowTypes DEF FirstStatus
    <3>2. CASE pc' = "status2" /\ UNCHANGED hostVars
      BY <3>2, <2>1, <1>2, SameCalls DEF FirstStatus, hostVars
    <3> QED
      BY <1>2, <3>1, <3>2 DEF FirstStatus
  <2>3. OtherTypes'
    BY <1>2, <2>2, TypesSplit
    DEF FirstStatus, DevGetStatus, OtherTypes, hostVars, logVars, DevStates
  <2> QED
    BY <2>2, <2>3, TypesSplitNext
<1> QED
  BY <1>1, <1>2

LEMMA SecondStatusTypes == TypeOK /\ SecondStatus => TypeOK'
<1> SUFFICES ASSUME TypeOK, SecondStatus PROVE TypeOK'
  OBVIOUS
<1>1. CASE Undelivered
  BY <1>1, UndeliveredTypes
<1>2. ASSUME ~Undelivered PROVE TypeOK'
  <2>1. HostTypes /\ pc \notin Ended
    BY TypesSplit DEF SecondStatus, HostTypes, Ended
  <2>2. /\ HostTypes' /\ UNCHANGED <<ops, asked, got, link, sent, executed>>
        /\ returned' \subseteq Nat
    <3>1. CASE Throws /\ UNCHANGED logVars
      BY <3>1, <1>2, ThrowTypes, TypesSplit
      DEF SecondStatus, hostVars, logVars, OtherTypes
    <3>2. CASE /\ CallReturns /\ returned' = returned \cup {sent}
               /\ UNCHANGED <<ops, asked, got, sent, executed>>
      BY <3>2, <2>1, <1>2, ReturnTypes, TypesSplit DEF SecondStatus, OtherTypes
    <3> QED
      BY <1>2, <3>1, <3>2 DEF SecondStatus
  <2>3. OtherTypes'
    BY <1>2, <2>2, TypesSplit DEF SecondStatus, DevGetStatus, OtherTypes, DevStates
  <2> QED
    BY <2>2, <2>3, TypesSplitNext
<1> QED
  BY <1>1, <1>2

LEMMA UploadTypes == TypeOK /\ Upload => TypeOK'
<1> SUFFICES ASSUME TypeOK, Upload PROVE TypeOK'
  OBVIOUS
<1>1. CASE Undelivered
  BY <1>1, UndeliveredTypes
<1>2. ASSUME ~Undelivered PROVE TypeOK'
  <2>1. HostTypes /\ pc \notin Ended
    BY TypesSplit DEF Upload, HostTypes, Ended
  <2>2. /\ HostTypes' /\ UNCHANGED <<ops, asked>>
        /\ got' \in Commands \cup {"unread"}
    <3>1. CASE Throws
      BY <3>1, ThrowTypes, TypesSplit DEF hostVars, OtherTypes
    <3>2. CASE got' = selected /\ CallReturns /\ UNCHANGED <<ops, asked>>
      BY <3>2, <2>1, ReturnTypes, TypesSplit DEF OtherTypes
    <3> QED
      BY <1>2, <3>1, <3>2 DEF Upload
  <2>3. OtherTypes'
    BY <1>2, <2>2, TypesSplit DEF Upload, OtherTypes, DevStates, logVars
  <2> QED
    BY <2>2, <2>3, TypesSplitNext
<1> QED
  BY <1>1, <1>2

LEMMA RadioTypes == TypeOK /\ Radio => TypeOK'
<1> SUFFICES ASSUME TypeOK, Radio PROVE TypeOK'
  OBVIOUS
<1>1. HostTypes'
  BY TypesSplit DEF Radio, Finish, Fail, SwitchOff, HostTypes, hostVars
<1>2. "none" \in Commands /\ NoCommand \in [id : Nat, cmd : Commands]
  BY DEF NoCommand, Commands
<1>3. Append(executed, pending.id) \in Seq(Nat) /\ pending.cmd \in Commands
  BY TypesSplit, AppendProperties DEF OtherTypes
<1>4. executed' \in Seq(Nat) /\ selected' \in Commands /\ dev' \in DevStates
      /\ pending' = NoCommand
  BY <1>2, <1>3, TypesSplit
  DEF Radio, Finish, Fail, SwitchOff, OtherTypes, logVars, DevStates
<1>5. OtherTypes'
  BY <1>2, <1>4, TypesSplit
  DEF Radio, Finish, Fail, SwitchOff, OtherTypes, hostVars, logVars
<1> QED
  BY <1>1, <1>5, TypesSplitNext

(* The host is always at a transfer of a call it has left to make, of the  *)
(* kind the call is made of, whatever the operations, the way the radio    *)
(* takes an ABORT, and the answers that are cut short.                     *)
THEOREM TypeCorrect == Spec => []TypeOK
<1>1. TypeOK /\ [Next]_vars => TypeOK'
  <2>1. TypeOK /\ UNCHANGED vars => TypeOK'
    BY DEF TypeOK, vars, hostVars, devVars, logVars
  <2> QED
    BY <2>1, StartTypes, GetStateTypes, AbortTypes, DownloadTypes, FirstStatusTypes,
       SecondStatusTypes, UploadTypes, RadioTypes DEF Next, Host
<1> QED
  BY InitTypes, <1>1, PTL DEF Spec
-----------------------------------------------------------------------------
LEMMA AppendToSet ==
  ASSUME NEW n \in Nat, executed \in Seq(Nat)
  PROVE  ToSet(Append(executed, n)) = ToSet(executed) \cup {n}
<1>1. /\ Append(executed, n) \in Seq(Nat) /\ Len(Append(executed, n)) = Len(executed) + 1
      /\ Len(executed) \in Nat
      /\ \A i \in 1..Len(executed) : Append(executed, n)[i] = executed[i]
      /\ Append(executed, n)[Len(executed) + 1] = n
  BY AppendProperties
<1>2. DOMAIN executed = 1..Len(executed)
      /\ DOMAIN Append(executed, n) = 1..(Len(executed) + 1)
  BY <1>1
<1> QED
  BY <1>1, <1>2 DEF ToSet

(* Steps in which nothing reaches the radio and nothing comes of it, but   *)
(* that it is asked, told to stop, or refuses.                             *)
Quiet ==
  /\ UNCHANGED <<sent, executed>>
  /\ \/ UNCHANGED devVars
     \/ dev' \notin {"sync", "busy"}
  /\ pc' \notin {"status", "status2"}

LEMMA QuietKeeps == Channelled /\ Quiet => Channelled'
  BY DEF Channelled, Numbered, AtWork, Done, Executing, Quiet, devVars

LEMMA UndeliveredQuiet == Undelivered => Quiet
  BY DEF Undelivered, Throws, Quiet, logVars

LEMMA ReturnsAnywhere == CallReturns => pc' \in {"returned", "getState"}
  BY DEF CallReturns

LEMMA StartQuiet == StartOperation => Quiet
  BY DEF StartOperation, Quiet, logVars

LEMMA GetStateQuiet == TypeOK /\ GetState => Quiet
<1> SUFFICES ASSUME TypeOK, GetState PROVE Quiet
  OBVIOUS
<1>1. Initialised => pc' \notin {"status", "status2"}
  <2>1. calls[1] \in Calls /\ Head(calls) = calls[1]
    BY TypesSplit, CallFacts DEF GetState, HostTypes, Ended
  <2>2. CASE calls[1].call = "download"
    BY <2>1, <2>2 DEF Initialised
  <2>3. CASE calls[1].call = "upload"
    BY <2>1, <2>3 DEF Initialised
  <2>4. CASE calls[1].call = "initupload"
    BY <2>1, <2>4, ReturnsAnywhere DEF Initialised
  <2> QED
    BY <2>1, <2>2, <2>3, <2>4 DEF Calls
<1> QED
  BY <1>1, UndeliveredQuiet DEF GetState, Quiet, devVars, logVars

LEMMA AbortQuiet == Abort => Quiet
  BY UndeliveredQuiet DEF Abort, AbortTaken, AbortIgnored, Throws, Quiet, logVars

LEMMA UploadQuiet == Upload => Quiet
  BY UndeliveredQuiet, ReturnsAnywhere DEF Upload, Throws, Quiet, logVars, devVars

LEMMA DownloadKeeps ==
  ASSUME TypeOK, Channelled, DownloadTransfer
  PROVE  Channelled'
<1>1. CASE Undelivered
  BY <1>1, UndeliveredQuiet, QuietKeeps
<1>2. CASE CommandStalls
  BY <1>2, QuietKeeps DEF CommandStalls, Throws, Quiet, logVars, devVars
<1>3. CASE /\ CommandReachesRadio /\ UNCHANGED link
           /\ \/ pc' = "status" /\ asked' = Head(calls).cmd /\ UNCHANGED <<calls, ops, got>>
              \/ Throws
  <2>1. Numbered' /\ AtWork'
    BY <1>3 DEF CommandReachesRadio, Channelled, Numbered, AtWork, Done
  <2>2. Executing'
    BY <1>3 DEF CommandReachesRadio, Throws, Executing
  <2> QED
    BY <2>1, <2>2 DEF Channelled
<1> QED
  BY <1>1, <1>2, <1>3 DEF DownloadTransfer

LEMMA FirstStatusKeeps ==
  ASSUME TypeOK, Channelled, FirstStatus
  PROVE  Channelled'
<1>1. CASE Undelivered
  BY <1>1, UndeliveredQuiet, QuietKeeps
<1>2. CASE /\ pc = "status" /\ link = "up" /\ DevGetStatus
           /\ (pc' = "status2" /\ UNCHANGED hostVars) \/ Throws
           /\ UNCHANGED <<link, logVars>>
  <2>1. Numbered' /\ AtWork'
    BY <1>2 DEF DevGetStatus, Channelled, Numbered, AtWork, Done, logVars
  <2>2. Executing'
    BY <1>2 DEF DevGetStatus, Throws, Channelled, Executing, Done, logVars, hostVars
  <2> QED
    BY <2>1, <2>2 DEF Channelled
<1> QED
  BY <1>1, <1>2 DEF FirstStatus

(* A call that returns, returns of a command that was executed, from a     *)
(* radio that answers with the register it selected.                       *)
LEMMA SecondStatusReturns ==
  ASSUME ShortReplies = FALSE, Channelled, SecondStatus, ~Undelivered
  PROVE  /\ UNCHANGED <<link, pending, selected, sent, executed, ops, asked, got>>
         /\ link = "up"
         /\ \/ /\ CallReturns /\ returned' = returned \cup {sent}
               /\ Done /\ dev' = "downloadIdle" /\ selected = asked
            \/ Throws /\ UNCHANGED returned
  BY DEF SecondStatus, DevGetStatus, Reply, Throws, Channelled, Executing, Done,
         logVars, hostVars

LEMMA SecondStatusKeeps ==
  ASSUME TypeOK, Channelled, SecondStatus
  PROVE  Channelled'
<1>1. CASE Undelivered
  BY <1>1, UndeliveredQuiet, QuietKeeps
<1>2. ASSUME ~Undelivered PROVE Channelled'
  <2>1. /\ DevGetStatus /\ UNCHANGED <<link, sent, executed>>
        /\ pc' \notin {"status", "status2"}
    BY <1>2, ReturnsAnywhere DEF SecondStatus, Throws, logVars
  <2>2. Numbered' /\ AtWork' /\ Executing'
    BY <2>1 DEF DevGetStatus, Channelled, Numbered, AtWork, Done, Executing
  <2> QED
    BY <2>2 DEF Channelled
<1> QED
  BY <1>1, <1>2

LEMMA RadioKeeps ==
  ASSUME TypeOK, Channelled, Radio
  PROVE  Channelled'
<1>1. executed \in Seq(Nat) /\ sent \in Nat
  BY DEF Channelled, Numbered
<1>2. ToSet(Append(executed, sent)) = ToSet(executed) \cup {sent}
      /\ Append(executed, sent) \in Seq(Nat)
  BY <1>1, AppendToSet, AppendProperties
<1>3. dev = "busy" => pending.id = sent /\ sent > 0
  BY DEF Channelled, AtWork, Done
<1>4. UNCHANGED <<pc, asked, sent>>
  BY DEF Radio, Finish, Fail, SwitchOff, hostVars, logVars
<1>5. /\ executed' = executed \/ (executed' = Append(executed, sent) /\ sent > 0)
      /\ dev' \notin {"sync", "busy"}
  BY <1>3 DEF Radio, Finish, Fail, SwitchOff, logVars
<1>6. Numbered' /\ AtWork'
  <2>1. ToSet(executed) \subseteq 1..sent
    BY DEF Channelled, Numbered
  <2>2. executed' \in Seq(Nat) /\ ToSet(executed') \subseteq 1..sent
    <3>1. CASE executed' = executed
      BY <3>1, <1>1, <2>1
    <3>2. CASE executed' = Append(executed, sent) /\ sent > 0
      BY <3>2, <1>1, <1>2, <2>1
    <3> QED
      BY <3>1, <3>2, <1>5
  <2> QED
    BY <2>2, <1>1, <1>4, <1>5 DEF Numbered, AtWork, Done
<1>7. Executing'
  <2>1. CASE Finish
    BY <2>1, <1>2, <1>3, <1>4 DEF Finish, Channelled, Executing, Done
  <2>2. CASE Fail
    BY <2>2, <1>4 DEF Fail, Executing
  <2>3. CASE SwitchOff
    BY <2>3, <1>4 DEF SwitchOff, Executing
  <2> QED
    BY <2>1, <2>2, <2>3 DEF Radio
<1> QED
  BY <1>6, <1>7 DEF Channelled

LEMMA ChannelInvariant == Spec => [](TypeOK /\ Channelled)
<1>1. Init => Channelled
  <2>1. ToSet(<<>>) = {} /\ <<>> \in Seq(Nat)
    BY EmptySeq DEF ToSet
  <2> QED
    BY <2>1 DEF Init, Channelled, Numbered, AtWork, Done, Executing, DevStates
<1>2. TypeOK /\ Channelled /\ [Next]_vars => Channelled'
  <2>1. Channelled /\ UNCHANGED vars => Channelled'
    BY DEF Channelled, Numbered, AtWork, Done, Executing, vars, hostVars, devVars, logVars
  <2> QED
    BY <2>1, QuietKeeps, StartQuiet, GetStateQuiet, AbortQuiet, UploadQuiet,
       DownloadKeeps, FirstStatusKeeps, SecondStatusKeeps, RadioKeeps DEF Next, Host
<1> QED
  BY <1>1, <1>2, TypeCorrect, PTL DEF Spec
-----------------------------------------------------------------------------
(* The steps of the channel: nothing, or one of CommandChannel's. *)
LEMMA ChannelSets == \A q : Channel!ToSet(q) = ToSet(q)
  BY DEF Channel!ToSet, ToSet

LEMMA ChannelStep ==
  ASSUME ShortReplies = FALSE, TypeOK, Channelled, [Next]_vars
  PROVE  [Channel!Next]_(Channel!vars)
<1>1. Undelivered => UNCHANGED Channel!vars
  BY DEF Undelivered, logVars, Channel!vars
<1>2. CASE StartOperation
  BY <1>2 DEF StartOperation, logVars, Channel!vars
<1>3. CASE GetState
  BY <1>1, <1>3 DEF GetState, logVars, Channel!vars
<1>4. CASE Abort
  BY <1>1, <1>4 DEF Abort, logVars, Channel!vars
<1>5. CASE DownloadTransfer
  <2>1. CommandReachesRadio => Channel!Send
    BY DEF CommandReachesRadio, Channel!Send
  <2>2. CommandStalls => UNCHANGED Channel!vars
    BY DEF CommandStalls, logVars, Channel!vars
  <2> QED
    BY <1>1, <1>5, <2>1, <2>2 DEF DownloadTransfer, Channel!Next
<1>6. CASE FirstStatus
  BY <1>1, <1>6 DEF FirstStatus, logVars, Channel!vars
<1>7. CASE SecondStatus
  <2>1. CASE Undelivered
    BY <1>1, <2>1
  <2>2. CASE ~Undelivered
    BY <1>7, <2>2, SecondStatusReturns, ChannelSets
    DEF Done, Channel!Next, Channel!Return, Channel!vars
  <2> QED
    BY <2>1, <2>2
<1>8. CASE Upload
  BY <1>1, <1>8 DEF Upload, logVars, Channel!vars
<1>9. CASE Radio
  <2>1. dev = "busy" => pending.id = sent /\ sent > 0 /\ sent \notin ToSet(executed)
    BY DEF Channelled, AtWork, Done
  <2> QED
    BY <1>9, <2>1, ChannelSets DEF Radio, Finish, Fail, SwitchOff, logVars,
       Channel!Next, Channel!Execute, Channel!vars
<1>10. CASE UNCHANGED vars
  BY <1>10 DEF vars, logVars, Channel!vars
<1> QED
  BY <1>2, <1>3, <1>4, <1>5, <1>6, <1>7, <1>8, <1>9, <1>10 DEF Next, Host

(* Of a radio that answers GETSTATUS with all the bytes USB DFU prescribes *)
(* a Download returns normally only when its command has been executed,    *)
(* and no command is executed twice or after a later one was sent, for     *)
(* every set of operations and every way to take an ABORT: DFU implements  *)
(* the CommandChannel.  Of an answer cut short the code takes the state    *)
(* from memory it never wrote, and none of this holds.                     *)
THEOREM ImplementsChannel == ShortReplies = FALSE => (Spec => KeepsChannel)
<1> SUFFICES ASSUME ShortReplies = FALSE PROVE Spec => KeepsChannel
  OBVIOUS
<1>1. Init => Channel!Init
  BY DEF Init, Channel!Init
<1>2. TypeOK /\ Channelled /\ [Next]_vars => [Channel!Next]_(Channel!vars)
  BY ChannelStep
<1> QED
  BY <1>1, <1>2, ChannelInvariant, PTL DEF Spec, KeepsChannel, Channel!Spec
-----------------------------------------------------------------------------
(* The calls left after the first keep the shape of the operation. *)
LEMMA TailShape ==
  ASSUME NEW c, c \in Seq(Calls), c # <<>>, Len(c) # 1,
         ReadsAfterDownloads(c), TimestampsAfterDownloads(c)
  PROVE  /\ ReadsAfterDownloads(Tail(c)) /\ TimestampsAfterDownloads(Tail(c))
         /\ Tail(c)[Len(Tail(c))] = c[Len(c)]
         /\ Tail(c)[1].call = "upload" => c[1].call = "download"
         /\ Tail(c)[1] = Down("timestamp") => c[1].call = "download"
         /\ c[1].call = "upload" => c[Len(c)].call = "upload"
<1>1. /\ Len(c) \in Nat /\ Len(c) > 1 /\ Len(Tail(c)) = Len(c) - 1
      /\ \A i \in 1..Len(Tail(c)) : Tail(c)[i] = c[i + 1]
  BY CallFacts
<1>2. Tail(c)[Len(Tail(c))] = c[Len(c)] /\ Tail(c)[1] = c[2]
  BY <1>1
<1>3. TimestampsAfterDownloads(Tail(c))
  BY <1>1 DEF TimestampsAfterDownloads
<1>4. ReadsAfterDownloads(Tail(c))
  BY <1>1, <1>2 DEF ReadsAfterDownloads
<1> QED
  BY <1>1, <1>2, <1>3, <1>4 DEF ReadsAfterDownloads, TimestampsAfterDownloads

LEMMA ThrowInOperation == pc' = "threw" => InOperation'
  BY DEF InOperation, Running, Selected, Preceded, ReadsItsRegister, Ended

(* A step within a call that takes nothing from the register asked for. *)
LEMMA WithinCall ==
  ASSUME InOperation, pc \notin Ended, UNCHANGED <<calls, got>>, pc' \notin Ended,
         pc \in {"getState", "abort", "download"} \/ pc' \notin {"getState", "abort", "download"},
         UNCHANGED <<sent, executed>>,
         calls[1].call = "upload" =>
           /\ dev' \in {"sync", "busy"} => dev \in {"sync", "busy"}
           /\ UNCHANGED <<link, asked, selected>>
  PROVE  InOperation'
<1>1. Running'
  BY DEF InOperation, Running
<1>2. Selected'
  BY DEF InOperation, Selected
<1>3. Preceded'
  BY DEF InOperation, Preceded, Done
<1>4. ReadsItsRegister'
  BY DEF ReadsItsRegister, Ended
<1> QED
  BY <1>1, <1>2, <1>3, <1>4 DEF InOperation

(* A call returns, to the caller of the operation or to its next call. *)
LEMMA WhenCallReturns ==
  ASSUME TypeOK, InOperation, pc \notin Ended, CallReturns,
         IF calls[1].call = "upload" THEN got' = asked' ELSE got' = got,
         calls[1].call = "download" => Done' /\ dev' = "downloadIdle" /\ selected' = asked'
  PROVE  InOperation'
<1>1. /\ calls \in Seq(Calls) /\ calls # <<>> /\ calls[1] \in Calls
      /\ Len(calls) \in Nat
  BY TypesSplit, CallFacts DEF HostTypes
<1>2. /\ ReadsAfterDownloads(calls) /\ TimestampsAfterDownloads(calls)
      /\ got # "unread" => calls[Len(calls)].call = "upload"
  BY DEF InOperation, Running
<1>3. CASE Len(calls) = 1
  <2>1. pc' = "returned"
    BY <1>3 DEF CallReturns
  <2>2. ReadsItsRegister'
    BY <1>2, <1>3, <2>1 DEF ReadsItsRegister
  <2> QED
    BY <2>1, <2>2 DEF InOperation, Running, Selected, Preceded, Ended
<1>4. CASE Len(calls) # 1
  <2>1. pc' = "getState" /\ calls' = Tail(calls)
    BY <1>4 DEF CallReturns
  <2>2. /\ ReadsAfterDownloads(calls') /\ TimestampsAfterDownloads(calls')
        /\ calls'[Len(calls')] = calls[Len(calls)]
        /\ calls'[1].call = "upload" => calls[1].call = "download"
        /\ calls'[1] = Down("timestamp") => calls[1].call = "download"
        /\ calls[1].call = "upload" => calls[Len(calls)].call = "upload"
    BY <1>1, <1>2, <1>4, <2>1, TailShape
  <2>3. Running'
    BY <1>2, <2>2 DEF Running, ReadsAfterDownloads, TimestampsAfterDownloads
  <2>4. Selected' /\ Preceded'
    BY <2>2 DEF Selected, Preceded
  <2>5. ReadsItsRegister'
    BY <2>1 DEF ReadsItsRegister
  <2> QED
    BY <2>3, <2>4, <2>5 DEF InOperation
<1> QED
  BY <1>3, <1>4
-----------------------------------------------------------------------------
(* One command, other than a timestamp. *)
LEMMA OneCommand ==
  ASSUME NEW c, c # "timestamp"
  PROVE  OperationShape(<<Down(c)>>)
<1>1. Down(c).call = "download" /\ Down(c) # Down("timestamp")
  <2>1. Down(c).cmd = c /\ Down("timestamp").cmd = "timestamp" /\ Down(c).call = "download"
    BY DEF Down
  <2> QED
    BY <2>1
<1>2. Len(<<Down(c)>>) = 1 /\ <<Down(c)>>[1] = Down(c)
  OBVIOUS
<1>3. 2..1 = {} /\ 1..1 = {1}
  OBVIOUS
<1> QED
  BY <1>1, <1>2, <1>3 DEF OperationShape, ReadsAfterDownloads, TimestampsAfterDownloads

(* The operations of TYTDFU select a register before they read it, and     *)
(* write a timestamp only after SetRTC.                                    *)
LEMMA Shapes == \A o \in TYTOperations : OperationShape(o)
<1> DEFINE C == [call : {"download", "upload", "initupload"},
                 cmd : {"RadioInfo", "RTC", "none"}]
<1>1. InitUp \in C /\ Up \in C /\ Down("RTC") \in C /\ Down("RadioInfo") \in C
  BY DEF InitUp, Up, Down
<1>2. /\ <<InitUp>> \in Seq(C) /\ <<Down("RTC"), Up>> \in Seq(C)
      /\ <<Down("RadioInfo"), Up>> \in Seq(C)
  BY <1>1
<1> HIDE DEF C
<1>3. /\ GetTime \in Seq(C) /\ Len(GetTime) = 3
      /\ GetTime[1] = InitUp /\ GetTime[2] = Down("RTC") /\ GetTime[3] = Up
  BY <1>2, ConcatProperties DEF GetTime, ReadRegister
<1>4. /\ IdentifyDevice \in Seq(C) /\ Len(IdentifyDevice) = 2
       /\ IdentifyDevice[1] = Down("RadioInfo") /\ IdentifyDevice[2] = Up
  BY <1>2 DEF IdentifyDevice, ReadRegister
<1>5. /\ Len(RadioToString) = 5
      /\ RadioToString[1] = Down("RadioInfo") /\ RadioToString[2] = Up
      /\ RadioToString[3] = InitUp /\ RadioToString[4] = Down("RTC")
      /\ RadioToString[5] = Up
  <2>1. /\ Len(RadioToString) = Len(IdentifyDevice) + Len(GetTime)
        /\ \A i \in 1..(Len(IdentifyDevice) + Len(GetTime)) :
             RadioToString[i] = IF i <= Len(IdentifyDevice) THEN IdentifyDevice[i]
                                ELSE GetTime[i - Len(IdentifyDevice)]
    BY <1>3, <1>4, ConcatProperties DEF RadioToString
  <2> QED
    BY <1>3, <1>4, <2>1
<1>6. OperationShape(GetTime)
  BY <1>3 DEF OperationShape, ReadsAfterDownloads, TimestampsAfterDownloads,
              Down, Up, InitUp
<1>7. OperationShape(RadioToString)
  BY <1>5 DEF OperationShape, ReadsAfterDownloads, TimestampsAfterDownloads,
              Down, Up, InitUp
<1>8. OperationShape(IdentifyDevice)
  BY DEF OperationShape, ReadsAfterDownloads, TimestampsAfterDownloads,
         Down, Up, IdentifyDevice, ReadRegister
<1>9. OperationShape(SetTime) /\ OperationShape(Reboot)
  BY DEF OperationShape, ReadsAfterDownloads, TimestampsAfterDownloads,
         Down, SetTime, Reboot
<1>10. /\ OperationShape(SendTYTCommand("FirmwareUpgrade"))
       /\ OperationShape(SetAddress) /\ OperationShape(Erase)
  <2>1. "0x21 address" # "timestamp" /\ "0x41 address" # "timestamp"
        /\ "FirmwareUpgrade" # "timestamp"
    BY Zenon
  <2> QED
    BY <2>1, OneCommand, Zenon DEF SendTYTCommand, SetAddress, Erase
<1> QED
  BY <1>6, <1>7, <1>8, <1>9, <1>10, Zenon DEF TYTOperations

LEMMA OperationStep ==
  ASSUME ShortReplies = FALSE, \A o \in Operations : OperationShape(o),
         TypeOK, Channelled, InOperation, [Next]_vars
  PROVE  InOperation'
<1>1. Undelivered \/ Throws => InOperation'
  BY ThrowInOperation DEF Undelivered, Throws
<1>2. CASE StartOperation
  <2>1. OperationShape(calls') /\ pc' = "getState" /\ got' = "unread"
    BY <1>2 DEF StartOperation
  <2> QED
    BY <2>1 DEF OperationShape, InOperation, Running, Selected, Preceded, ReadsItsRegister
<1>3. pc \notin Ended => calls \in Seq(Calls) /\ calls # <<>> /\ calls[1] \in Calls
                         /\ Head(calls) = calls[1]
  BY TypesSplit, CallFacts DEF HostTypes
<1>4. CASE GetState /\ ~Undelivered
  <2>0. pc = "getState" /\ pc \notin Ended
    BY <1>4 DEF GetState, Ended
  <2>1. UNCHANGED <<ops, asked, got, link, dev, pending, selected, sent, executed>>
    BY <1>4 DEF GetState, devVars, logVars
  <2>2. CASE UNCHANGED calls /\ pc' \in {"abort", "download", "upload"}
    BY <2>0, <2>1, <2>2, WithinCall DEF Ended
  <2>3. CASE Initialised
    <3>1. CASE calls[1].call = "initupload"
      <4>1. CallReturns
        BY <1>3, <2>0, <2>3, <3>1 DEF Initialised
      <4> QED
        BY <2>0, <2>1, <3>1, <4>1, WhenCallReturns
    <3>2. CASE calls[1].call = "download"
      BY <1>3, <2>0, <2>2, <2>3, <3>2 DEF Initialised
    <3>3. CASE calls[1].call = "upload"
      BY <1>3, <2>0, <2>2, <2>3, <3>3 DEF Initialised
    <3> QED
      BY <1>3, <2>0, <3>1, <3>2, <3>3 DEF Calls
  <2> QED
    BY <1>4, <2>2, <2>3 DEF GetState
<1>5. CASE Abort /\ ~Undelivered
  <2>1. CASE Throws
    BY <1>1, <2>1
  <2>2. CASE ~Throws
    <3>1. /\ pc = "abort" /\ pc' = "getState"
          /\ UNCHANGED <<calls, got, asked, selected, link, sent, executed>>
          /\ dev' \in {"sync", "busy"} => dev \in {"sync", "busy"}
      BY <1>5, <2>2 DEF Abort, AbortTaken, AbortIgnored, hostVars, devVars, logVars
    <3> QED
      BY <3>1, WithinCall DEF Ended
  <2> QED
    BY <2>1, <2>2
<1>6. CASE DownloadTransfer /\ ~Undelivered /\ ~Throws
  <2>1. /\ pc = "download" /\ pc' = "status" /\ UNCHANGED <<calls, got>>
        /\ calls[1].call = "download"
    BY <1>6, TypesSplit DEF DownloadTransfer, CommandStalls, HostTypes
  <2> QED
    BY <2>1 DEF InOperation, Running, Selected, Preceded, ReadsItsRegister, Ended
<1>7. CASE FirstStatus /\ ~Undelivered /\ ~Throws
  <2>1. /\ pc = "status" /\ pc' = "status2" /\ UNCHANGED <<calls, got>>
        /\ calls[1].call = "download"
    BY <1>7, TypesSplit DEF FirstStatus, HostTypes, hostVars
  <2> QED
    BY <2>1 DEF InOperation, Running, Selected, Preceded, ReadsItsRegister, Ended
<1>8. CASE SecondStatus /\ ~Undelivered /\ ~Throws
  <2>1. pc \notin Ended /\ calls[1].call = "download"
    BY <1>8, TypesSplit DEF SecondStatus, HostTypes, Ended
  <2>2. /\ CallReturns /\ UNCHANGED <<got, selected, asked, sent, executed>>
        /\ Done /\ dev' = "downloadIdle" /\ selected = asked
    BY <1>8, SecondStatusReturns
  <2>3. Done'
    BY <2>2 DEF Done
  <2> QED
    BY <2>1, <2>2, <2>3, WhenCallReturns
<1>9. CASE Upload /\ ~Undelivered /\ ~Throws
  <2>1. pc \notin Ended /\ calls[1].call = "upload" /\ link = "up"
        /\ got' = selected /\ CallReturns /\ UNCHANGED asked
    BY <1>9, TypesSplit DEF Upload, HostTypes, Ended
  <2>2. selected = asked
    BY <2>1 DEF InOperation, Selected
  <2> QED
    BY <2>1, <2>2, WhenCallReturns
<1>10. CASE Radio
  <2>1. UNCHANGED <<pc, calls, asked, got, sent>>
    BY <1>10 DEF Radio, Finish, Fail, SwitchOff, hostVars, logVars
  <2>2. Running' /\ ReadsItsRegister'
    BY <2>1 DEF InOperation, Running, ReadsItsRegister
  <2>3. Selected'
    BY <1>10, <2>1 DEF InOperation, Selected, Radio, Finish, Fail, SwitchOff
  <2>4. Done => Done'
    <3>1. dev = "busy" => ~Done
      BY DEF Channelled, AtWork
    <3>2. Finish \/ Fail => dev = "busy"
      BY DEF Finish, Fail
    <3>3. SwitchOff => UNCHANGED executed
      BY DEF SwitchOff, logVars
    <3> QED
      BY <1>10, <2>1, <3>1, <3>2, <3>3 DEF Radio, Done
  <2>5. Preceded'
    BY <2>1, <2>4 DEF InOperation, Preceded
  <2> QED
    BY <2>2, <2>3, <2>5 DEF InOperation
<1>11. CASE UNCHANGED vars
  BY <1>11 DEF vars, hostVars, devVars, logVars, InOperation, Running, Selected,
               Preceded, Done, ReadsItsRegister
<1> QED
  BY <1>1, <1>2, <1>4, <1>5, <1>6, <1>7, <1>8, <1>9, <1>10, <1>11 DEF Next, Host

LEMMA OperationInvariant ==
  ASSUME ShortReplies = FALSE, Operations \subseteq TYTOperations
  PROVE  Spec => [](TypeOK /\ InOperation)
<1>1. \A o \in Operations : OperationShape(o)
  BY Shapes
<1>2. Init => InOperation
  BY DEF Init, InOperation, Running, Selected, Preceded, ReadsItsRegister, Ended
<1>3. TypeOK /\ Channelled /\ InOperation /\ [Next]_vars => InOperation'
  BY <1>1, OperationStep
<1> QED
  BY <1>2, <1>3, ChannelInvariant, PTL DEF Spec

(* Of a radio that answers in full, an operation of TYTDFU that returns    *)
(* returns the register it asked for: neither the ABORT before an Upload,  *)
(* nor a command that threw, nor a radio switched off and on in between    *)
(* leaves another one selected.                                            *)
THEOREM ReadsWhatItAskedFor ==
  ShortReplies = FALSE /\ Operations \subseteq TYTOperations
    => (Spec => []ReadsItsRegister)
<1> SUFFICES ASSUME ShortReplies = FALSE, Operations \subseteq TYTOperations
             PROVE  Spec => []ReadsItsRegister
  OBVIOUS
<1>1. InOperation => ReadsItsRegister
  BY DEF InOperation
<1> QED
  BY <1>1, OperationInvariant, PTL

(* Of a radio that answers in full, SetTime sends its timestamp only when  *)
(* the last command the radio executed is SetRTC.                          *)
THEOREM TimestampFollowsSetRTC ==
  ShortReplies = FALSE /\ Operations \subseteq TYTOperations
    => (Spec => []InSetTime)
<1> SUFFICES ASSUME ShortReplies = FALSE, Operations \subseteq TYTOperations
             PROVE  Spec => []InSetTime
  OBVIOUS
<1>1. TypeOK /\ InOperation => InSetTime
  BY DEF InOperation, Preceded, InSetTime, Done
<1> QED
  BY <1>1, OperationInvariant, PTL
=============================================================================

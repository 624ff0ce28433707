-------------------------------- MODULE DFU --------------------------------
(***************************************************************************)
(* The DFU transport (src/dfu.cpp) between one host thread and a radio.    *)
(*                                                                         *)
(* Every control transfer of the host is a step.  The radio is external:   *)
(* a device of the USB DFU class as this code uses it.  It executes a      *)
(* command in its own time after the first GETSTATUS, may fail, and may be *)
(* switched off; a transfer may be lost, or its answer may be.             *)
(*                                                                         *)
(* An operation of the layer above (TYTDFU.tla) is a sequence of calls:    *)
(*   Down(c)  Download of command c                                        *)
(*   Up       Upload                                                       *)
(*   InitUp   InitUpload alone                                             *)
(***************************************************************************)
EXTENDS Naturals, Sequences, SequencesExt

CONSTANTS
  Operations,    \* operations of the layer above: sequences of calls
  MaxOps,        \* bound: how many operations are started
  AbortBusy,     \* how the radio may take an ABORT while busy, and
  AbortError,    \*   in its error state: "stalls", "ignores", "idles"
  ShortReplies   \* TRUE if the radio may answer with no data at all

Down(c) == [call |-> "download", cmd |-> c]
Up      == [call |-> "upload", cmd |-> "none"]
InitUp  == [call |-> "initupload", cmd |-> "none"]

VARIABLES
  pc,        \* the host's next transfer, or how the operation ended
  calls,     \* the calls the operation has left, the running one first
  ops,       \* how many operations were started
  asked,     \* the register the operation selected last
  got,       \* the register the last Upload's data came from
  link,      \* "up", or "down" once the radio was switched off
  dev,       \* in the radio: its DFU state
  pending,   \* in the radio: the command it was sent and has not finished
  selected,  \* in the radio: the register UPLOAD answers with
  sent,      \* commands that reached the radio
  executed,  \* ids of the commands the radio executed
  returned   \* ids of the Download calls that returned

hostVars == <<calls, ops, asked, got>>
logVars  == <<sent, executed, returned>>
devVars  == <<dev, pending, selected>>
vars     == <<pc, hostVars, link, devVars, logVars>>

DevStates == {"idle", "sync", "busy", "downloadIdle", "uploadIdle", "error"}

Ended == {"returned", "threw"}

NoCommand == [id |-> 0, cmd |-> "none"]

(* The calls there are, and the commands the operations send. *)
Commands == {"none"} \cup UNION {{o[i].cmd : i \in DOMAIN o} : o \in Operations}

Calls == [call : {"download", "upload", "initupload"}, cmd : Commands]

ASSUME DFUAssumption ==
  /\ MaxOps \in Nat
  /\ AbortBusy \subseteq {"stalls", "ignores", "idles"}
  /\ AbortError \subseteq {"stalls", "ignores", "idles"}
  /\ ShortReplies \in BOOLEAN
  /\ Operations \subseteq Seq(Calls) \ {<<>>}

Init ==
  /\ pc = "returned" /\ calls = <<>> /\ ops = 0
  /\ asked = "none" /\ got = "unread"
  /\ link = "up"
  /\ dev \in DevStates \ {"busy", "sync"}
  /\ pending = NoCommand /\ selected = "none"
  /\ sent = 0 /\ executed = <<>> /\ returned = {}

-----------------------------------------------------------------------------
(* A transfer that fails, lost on its way out or on its way back: every    *)
(* caller throws.                                                          *)
Throws == pc' = "threw" /\ UNCHANGED hostVars

Undelivered == Throws /\ UNCHANGED <<link, devVars, logVars>>

(* What the host reads when the radio is in state s. *)
Reply(s) == IF ShortReplies THEN DevStates ELSE {s}

(* Mutant: the operation does not end with its last call. *)
CallReturnsToNext ==
  /\ calls' = Tail(calls)
  /\ pc' = "getState"

(* The running call returns; the operation goes on with the next one. *)
CallReturns ==
  /\ calls' = Tail(calls)
  /\ pc' = IF Len(calls) = 1 THEN "returned" ELSE "getState"

(* A new operation, of this process or, after a throw, of the next one. *)
StartOperation ==
  /\ pc \in Ended
  /\ ops < MaxOps
  /\ ops' = ops + 1
  /\ calls' \in Operations
  /\ pc' = "getState"
  /\ link' = "up"
  /\ asked' = "none" /\ got' = "unread"
  /\ UNCHANGED <<devVars, logVars>>

-----------------------------------------------------------------------------
(* Mutant: InitUpload does not take the idle state for ready. *)
ReadyForOneState(s) ==
  IF Head(calls).call = "download" THEN s \in {"downloadIdle", "idle"}
                                   ELSE s = "uploadIdle"

(* InitDownload and InitUpload: ask for the state until it is a good one,  *)
(* with an ABORT after each that is not.                                   *)
Ready(s) ==
  IF Head(calls).call = "download" THEN s \in {"downloadIdle", "idle"}
                                   ELSE s \in {"uploadIdle", "idle"}

Initialised ==
  CASE Head(calls).call = "download"   -> pc' = "download" /\ UNCHANGED calls
    [] Head(calls).call = "upload"     -> pc' = "upload" /\ UNCHANGED calls
    [] Head(calls).call = "initupload" -> CallReturns

GetState ==
  /\ pc = "getState"
  /\ \/ /\ link = "up"
        /\ \E s \in Reply(dev) :
             \/ Ready(s) /\ Initialised
             \/ ~Ready(s) /\ pc' = "abort" /\ UNCHANGED calls
        /\ UNCHANGED <<ops, asked, got, link, devVars, logVars>>
     \/ Undelivered

(* The radio takes an ABORT: what it was sent and did not finish is gone. *)
AbortTaken ==
  /\ dev \in {"busy"} => "idles" \in AbortBusy
  /\ dev \in {"error"} => "idles" \in AbortError
  /\ dev' = "idle"
  /\ pending' = NoCommand
  /\ UNCHANGED selected

AbortIgnored ==
  /\ \/ dev = "busy" /\ "ignores" \in AbortBusy
     \/ dev = "error" /\ "ignores" \in AbortError
  /\ UNCHANGED devVars

Abort ==
  /\ pc = "abort"
  /\ \/ /\ link = "up"
        /\ AbortTaken \/ AbortIgnored
        /\ \/ pc' = "getState" /\ UNCHANGED hostVars
           \/ Throws
        /\ UNCHANGED <<link, logVars>>
     \/ Undelivered

-----------------------------------------------------------------------------
(* Download, once InitDownload returned. *)
TakesDownload == dev \in {"idle", "downloadIdle"}

(* The radio takes the command. *)
CommandReachesRadio ==
  /\ TakesDownload
  /\ dev' = "sync"
  /\ sent' = sent + 1
  /\ pending' = [id |-> sent', cmd |-> Head(calls).cmd]
  /\ UNCHANGED <<selected, executed, returned>>

(* A command in any other state is an error. *)
CommandStalls ==
  /\ ~TakesDownload
  /\ dev' \in {dev, "error"}
  /\ Throws
  /\ UNCHANGED <<pending, selected, logVars, link>>

DownloadTransfer ==
  /\ pc = "download"
  /\ \/ /\ link = "up"
        /\ CommandReachesRadio
        /\ \/ pc' = "status" /\ asked' = Head(calls).cmd /\ UNCHANGED <<calls, ops, got>>
           \/ Throws
        /\ UNCHANGED link
     \/ link = "up" /\ CommandStalls
     \/ Undelivered

(* The radio's side of GETSTATUS: the first one starts the command. *)
DevGetStatus ==
  /\ dev' = IF dev = "sync" THEN "busy" ELSE dev
  /\ UNCHANGED <<pending, selected>>

(* Mutant: Download does not wait for the second status. *)
FirstStatusReturns ==
  /\ pc = "status"
  /\ \/ /\ link = "up"
        /\ DevGetStatus
        /\ \E s \in Reply(dev') :
             \/ /\ s = "busy" /\ CallReturns
                /\ returned' = returned \cup {sent}
                /\ UNCHANGED <<ops, asked, got, sent, executed>>
             \/ Throws /\ UNCHANGED logVars
        /\ UNCHANGED link
     \/ Undelivered

(* "execute command by calling GetStatus": only "busy" is good. *)
FirstStatus ==
  /\ pc = "status"
  /\ \/ /\ link = "up"
        /\ DevGetStatus
        /\ \E s \in Reply(dev') :
             \/ s = "busy" /\ pc' = "status2" /\ UNCHANGED hostVars
             \/ Throws
        /\ UNCHANGED <<link, logVars>>
     \/ Undelivered

(* Mutant: a command that is still running counts as done. *)
SecondStatusTakesBusy ==
  /\ pc = "status2"
  /\ \/ /\ link = "up"
        /\ DevGetStatus
        /\ \E s \in Reply(dev') :
             \/ /\ s \in {"downloadIdle", "busy"}
                /\ CallReturns
                /\ returned' = returned \cup {sent}
                /\ UNCHANGED <<ops, asked, got, sent, executed>>
             \/ Throws /\ UNCHANGED logVars
        /\ UNCHANGED link
     \/ Undelivered

(* Mutant: the second status is not looked at. *)
SecondStatusUnchecked ==
  /\ pc = "status2"
  /\ \/ /\ link = "up"
        /\ DevGetStatus
        /\ \E s \in Reply(dev') :
             \/ /\ CallReturns
                /\ returned' = returned \cup {sent}
                /\ UNCHANGED <<ops, asked, got, sent, executed>>
             \/ Throws /\ UNCHANGED logVars
        /\ UNCHANGED link
     \/ Undelivered

(* "check the command executed ok": no wait before it, whatever poll       *)
(* timeout the radio reported.                                             *)
SecondStatus ==
  /\ pc = "status2"
  /\ \/ /\ link = "up"
        /\ DevGetStatus
        /\ \E s \in Reply(dev') :
             \/ /\ s = "downloadIdle"
                /\ CallReturns
                /\ returned' = returned \cup {sent}
                /\ UNCHANGED <<ops, asked, got, sent, executed>>
             \/ Throws /\ UNCHANGED logVars
        /\ UNCHANGED link
     \/ Undelivered

-----------------------------------------------------------------------------
(* Upload, once InitUpload returned. *)
Upload ==
  /\ pc = "upload"
  /\ \/ /\ link = "up"
        /\ dev \in {"idle", "uploadIdle"}
        /\ dev' = "uploadIdle"
        /\ \/ got' = selected /\ CallReturns /\ UNCHANGED <<ops, asked>>
           \/ Throws
        /\ UNCHANGED <<link, pending, selected, logVars>>
     \/ /\ link = "up"
        /\ dev \notin {"idle", "uploadIdle"}
        /\ dev' \in {dev, "error"}
        /\ Throws
        /\ UNCHANGED <<link, pending, selected, logVars>>
     \/ Undelivered

Host == GetState \/ Abort \/ DownloadTransfer \/ FirstStatus \/ SecondStatus \/ Upload
-----------------------------------------------------------------------------
(* The radio on its own: it finishes a command, in full or with an error   *)
(* after some of it, or it is switched off.                                *)
Finish ==
  /\ dev = "busy"
  /\ dev' = "downloadIdle"
  /\ executed' = Append(executed, pending.id)
  /\ selected' = pending.cmd
  /\ pending' = NoCommand
  /\ UNCHANGED <<pc, hostVars, link, sent, returned>>

Fail ==
  /\ dev = "busy"
  /\ dev' = "error"
  /\ executed' \in {executed, Append(executed, pending.id)}
  /\ pending' = NoCommand
  /\ UNCHANGED <<pc, hostVars, link, selected, sent, returned>>

SwitchOff ==
  /\ link = "up"
  /\ link' = "down"
  /\ dev' = "idle"
  /\ pending' = NoCommand
  /\ selected' = "none"
  /\ UNCHANGED <<pc, hostVars, logVars>>

Radio == Finish \/ Fail \/ SwitchOff

Next == StartOperation \/ Host \/ Radio

Spec == Init /\ [][Next]_vars

(* One host thread that runs on, and a radio that finishes what it began. *)
FairSpec == Spec /\ WF_vars(Host) /\ WF_vars(Finish \/ Fail)
-----------------------------------------------------------------------------
TypeOK ==
  /\ pc \in {"getState", "abort", "download", "status", "status2", "upload"} \cup Ended
  /\ calls \in Seq(Calls)
  /\ pc \notin Ended => calls # <<>>
  /\ pc \in {"download", "status", "status2"} => Head(calls).call = "download"
  /\ pc = "upload" => Head(calls).call = "upload"
  /\ ops \in Nat
  /\ asked \in Commands /\ got \in Commands \cup {"unread"} /\ selected \in Commands
  /\ link \in {"up", "down"}
  /\ dev \in DevStates
  /\ pending \in [id : Nat, cmd : Commands]
  /\ sent \in Nat
  /\ executed \in Seq(Nat)
  /\ returned \subseteq Nat

(***************************************************************************)
(* Download returns normally only for a command the radio has executed,    *)
(* and commands are executed once, in the order they were sent, whatever   *)
(* was lost or thrown in between.                                          *)
(***************************************************************************)
Channel == INSTANCE CommandChannel WITH sent <- sent, executed <- executed,
                                       returned <- returned
KeepsChannel == Channel!Spec

(***************************************************************************)
(* ReadRegister returns the register it asked for, not one an earlier or a *)
(* failed command left selected: the ABORT that InitUpload sends between   *)
(* the two transfers must not undo the first.                              *)
(***************************************************************************)
ReadsItsRegister == pc = "returned" /\ got # "unread" => got = asked

(***************************************************************************)
(* A call that never returns is in InitDownload or InitUpload with a radio *)
(* that stays in its error state, whatever it is told: the loops end for   *)
(* every other radio, one that ignores an ABORT while busy included.       *)
(***************************************************************************)
EveryCallEnds ==
  (pc \notin Ended ~> pc \in Ended) \/ <>[](dev = "error" /\ pc \in {"getState", "abort"})
=============================================================================

--------------------------- MODULE CommandChannel ---------------------------
(***************************************************************************)
(* What a caller of DFU::Download relies on.  Commands reach the radio one *)
(* at a time.  The radio executes a command at most once, and never after  *)
(* a later one has reached it.  A call that returns normally returns after *)
(* its command was executed; a call that throws promises nothing more.     *)
(***************************************************************************)
EXTENDS Naturals, Sequences, SequencesExt

VARIABLES
  sent,      \* number of commands that reached the radio; the last one's id
  executed,  \* ids in the order the radio executed them
  returned   \* ids of the calls that returned normally

vars == <<sent, executed, returned>>

Init == sent = 0 /\ executed = <<>> /\ returned = {}

Send == sent' = sent + 1 /\ UNCHANGED <<executed, returned>>

Execute ==
  /\ sent > 0
  /\ sent \notin ToSet(executed)
  /\ executed' = Append(executed, sent)
  /\ UNCHANGED <<sent, returned>>

Return ==
  /\ sent \in ToSet(executed)
  /\ returned' = returned \cup {sent}
  /\ UNCHANGED <<sent, executed>>

Next == Send \/ Execute \/ Return

Spec == Init /\ [][Next]_vars
=============================================================================

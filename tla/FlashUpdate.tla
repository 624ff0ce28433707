---------------------------- MODULE FlashUpdate ----------------------------
(***************************************************************************)
(* What a firmware update promises the owner of the radio, whatever the    *)
(* order of the erases and writes and wherever an update breaks off.       *)
(*                                                                         *)
(* The flash only ever loses bytes (they become Erased) or gains bytes of  *)
(* the firmware at their own address; sectors no segment of the firmware   *)
(* reaches keep what they hold, the boot loader among them; and an update  *)
(* of a well placed firmware that ends without an error has put every byte *)
(* in place.  TYTRadio implements this.                                    *)
(***************************************************************************)
EXTENDS FirmwareLayout

VARIABLES
  fw,      \* the firmware being written
  result,  \* "running", "threw", "done"
  flash    \* the radio's memory: address -> content

vars == <<fw, result, flash>>

Init ==
  /\ fw \in Firmwares
  /\ result = "running"
  /\ flash = [a \in MappedBytes |-> Old]

(* A change an update may make to the flash. *)
Progress ==
  /\ DOMAIN flash' = DOMAIN flash
  /\ \A a \in DOMAIN flash :
       \/ flash'[a] = flash[a]
       \/ a \in TouchedBytes(fw) /\ flash'[a] = Erased
       \/ flash'[a] \in InPlace(fw, a)

(* Also after a throw: the radio may be slower than the host. *)
Work    == result # "done" /\ Progress /\ UNCHANGED <<fw, result>>
Throw   == result = "running" /\ Progress /\ result' = "threw" /\ UNCHANGED fw
Succeed == /\ result = "running"
           /\ WellPlaced(fw) => Complete(fw, flash)
           /\ result' = "done"
           /\ UNCHANGED <<fw, flash>>
Retry   == /\ result \in {"threw", "done"}
           /\ result' = "running"
           /\ UNCHANGED <<fw, flash>>

Next == Work \/ Throw \/ Succeed \/ Retry

Spec == Init /\ [][Next]_vars
=============================================================================

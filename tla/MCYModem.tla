------------------------------ MODULE MCYModem ------------------------------
(* Small instances of YModem for TLC. *)
EXTENDS YModem

(* A line that may do anything, and one that only corrupts packets. *)
MCLines == {{"lose", "bad", "noise", "ff"}, {"bad"}}

(* Both ends built alike, and a sender on x86 with a radio on ARM. *)
MCBuilds == {{}, {"tx"}, {"tx", "rx"}}

MCUnsigned == {{}}

MCCorrupting == {{"bad"}}
=============================================================================

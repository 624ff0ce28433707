------------------------------ MODULE MCTYTDFU ------------------------------
(* Small instances of TYTDFU for TLC. *)
EXTENDS TYTDFU

(* One operation of each shape. *)
MCOperations == {RadioToString, SetTime, Erase}
=============================================================================

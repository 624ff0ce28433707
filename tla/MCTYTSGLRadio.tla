--------------------------- MODULE MCTYTSGLRadio ---------------------------
(* Small instances of TYTSGLRadio for TLC. *)
EXTENDS TYTSGLRadio

MCSizes == 0..FlashSize
=============================================================================

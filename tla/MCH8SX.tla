------------------------------- MODULE MCH8SX -------------------------------
(* Small instances of H8SX for TLC. *)
EXTENDS H8SX

MCFiles == 0..Cells

(* The commands that are acknowledged: their refusal is noticed. *)
MCAcknowledged == {Script[k] : k \in DOMAIN Script}
                    \ (Inquiries \cup {"USER_MAT_CHECKSUM"})
=============================================================================

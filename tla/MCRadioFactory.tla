--------------------------- MODULE MCRadioFactory ---------------------------
(* Small instances of RadioFactory for TLC. *)
EXTENDS RadioFactory

(* A TYT radio, a Yaesu radio, and something else with a TYT radio's maker. *)
MCDevices == {<<1155, 57105>>, <<1115, 37>>, <<1155, 1>>}
=============================================================================

------------------------------ MODULE PlainFW ------------------------------
(***************************************************************************)
(* The handlers of files that have no header: YaesuFW (src/yaesu_fw.cpp)   *)
(* and AilunceFW (src/ailunce_fw.cpp).  Both take any file.                *)
(***************************************************************************)
EXTENDS Firmware

CONSTANT
  PadSize   \* bytes that a Yaesu image is a multiple of (1 KiB in the code)

ASSUME PadAssumption == PadSize \in Nat \ {0}

YaesuNew   == Handler("Yaesu", "")
AilunceNew == Handler("Ailunce", "")

(* SupportsFirmwareFile throws for a file that cannot be opened. *)
YaesuSupportsFirmwareFile(f)   == IF f = Missing THEN {} ELSE {TRUE}
AilunceSupportsFirmwareFile(f) == IF f = Missing THEN {} ELSE {TRUE}

YaesuSupportsRadioModel(model)   == TRUE
AilunceSupportsRadioModel(model) == model = "HD1"

(* All the bytes of a file of a class with a header: the header is not     *)
(* spelled out, a byte stands for it.                                      *)
WholeFile(f) == IF f.format = "plain" THEN f.rest ELSE <<Zero>> \o f.rest

(* Read: a file that cannot be opened leaves the handler as it was.        *)
(* YaesuFW knows no ranges, AilunceFW one from address 0.                  *)
YaesuRead(h, f) ==
  IF f = Missing THEN {h}
  ELSE LET n    == Len(WholeFile(f))
           fill == (PadSize - (n % PadSize)) % PadSize
       IN  {[h EXCEPT !.data = WholeFile(f) \o [z \in 1..fill |-> Ones]]}

AilunceRead(h, f) ==
  IF f = Missing THEN {h}
  ELSE {[h EXCEPT !.data = WholeFile(f),
                  !.memory_ranges =
                     Append(@, [address |-> 0, size |-> Len(WholeFile(f))])]}

(* Write, the same in both classes: the bytes of the segments, nothing     *)
(* else.  What comes out is "plain" as long as the segments are: one that  *)
(* is a container of another class would be read by that class, but the    *)
(* segments of the model have no headers.                                  *)
PlainWritten(h) == Plain(h.data)

(* AilunceFW::Encrypt and Decrypt; those of YaesuFW do nothing. *)
AilunceApplyXOR(h) == [h EXCEPT !.data = AilunceXOR(@)]
=============================================================================

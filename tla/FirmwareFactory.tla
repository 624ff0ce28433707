-------------------------- MODULE FirmwareFactory --------------------------
(***************************************************************************)
(* FirmwareFactory (fw/fw_factory.hpp): which class handles a file or a    *)
(* model, and the virtual functions of FirmwareSupport by class.           *)
(***************************************************************************)
EXTENDS TYTFW, CSFW, TYTSGLFW, PlainFW

(* The classes in the order of AllFirmwareHandlers. *)
AllFirmwareHandlers == <<"TYT", "CS", "SGL", "Yaesu", "Ailunce">>

CreateHandler(class) ==
  CASE class = "TYT"     -> TYTNew
    [] class = "CS"      -> CSNew
    [] class = "SGL"     -> SGLNew
    [] class = "Yaesu"   -> YaesuNew
    [] class = "Ailunce" -> AilunceNew

SupportsFirmwareFile(class, f) ==
  CASE class = "TYT"     -> TYTSupportsFirmwareFile(f)
    [] class = "CS"      -> CSSupportsFirmwareFile(f)
    [] class = "SGL"     -> SGLSupportsFirmwareFile(f)
    [] class = "Yaesu"   -> YaesuSupportsFirmwareFile(f)
    [] class = "Ailunce" -> AilunceSupportsFirmwareFile(f)

SupportsRadioModel(class, model) ==
  CASE class = "TYT"     -> TYTSupportsRadioModel(model)
    [] class = "CS"      -> CSSupportsRadioModel(model)
    [] class = "SGL"     -> SGLSupportsRadioModel(model)
    [] class = "Yaesu"   -> YaesuSupportsRadioModel(model)
    [] class = "Ailunce" -> AilunceSupportsRadioModel(model)

(* Mutant: the last class that answers yes, not the first, has the file. *)
LastFileHandler(f) ==
  {CreateHandler(AllFirmwareHandlers[i]) :
     i \in {i \in DOMAIN AllFirmwareHandlers :
              /\ TRUE \in SupportsFirmwareFile(AllFirmwareHandlers[i], f)
              /\ \A j \in (i + 1)..Len(AllFirmwareHandlers) :
                   SupportsFirmwareFile(AllFirmwareHandlers[j], f) = {FALSE}}}

(* The first class that does not answer no; if it throws, the call throws. *)
GetFirmwareFileHandler(f) ==
  {CreateHandler(AllFirmwareHandlers[i]) :
     i \in {i \in DOMAIN AllFirmwareHandlers :
              /\ TRUE \in SupportsFirmwareFile(AllFirmwareHandlers[i], f)
              /\ \A j \in 1..(i - 1) :
                   SupportsFirmwareFile(AllFirmwareHandlers[j], f) = {FALSE}}}

GetFirmwareModelHandler(model) ==
  {CreateHandler(AllFirmwareHandlers[i]) :
     i \in {i \in DOMAIN AllFirmwareHandlers :
              /\ SupportsRadioModel(AllFirmwareHandlers[i], model)
              /\ \A j \in 1..(i - 1) :
                   ~SupportsRadioModel(AllFirmwareHandlers[j], model)}}

-----------------------------------------------------------------------------
SetRadioModel(h, model) ==
  CASE h.class = "TYT" -> TYTSetRadioModel(h, model)
    [] h.class = "SGL" -> SGLSetRadioModel(h, model)
    [] OTHER           -> h

Read(h, f) ==
  CASE h.class = "TYT"     -> TYTRead(h, f)
    [] h.class = "CS"      -> CSRead(h, f)
    [] h.class = "SGL"     -> SGLRead(h, f)
    [] h.class = "Yaesu"   -> YaesuRead(h, f)
    [] h.class = "Ailunce" -> AilunceRead(h, f)

Encrypt(h) ==
  CASE h.class = "TYT"     -> TYTApplyXOR(h)
    [] h.class = "CS"      -> {CSApplyXOR(h)}
    [] h.class = "SGL"     -> {SGLEncrypted(h)}
    [] h.class = "Yaesu"   -> {h}
    [] h.class = "Ailunce" -> {AilunceApplyXOR(h)}

Decrypt(h) ==
  CASE h.class = "TYT"     -> TYTApplyXOR(h)
    [] h.class = "CS"      -> {CSApplyXOR(h)}
    [] h.class = "SGL"     -> {SGLDecrypted(h)}
    [] h.class = "Yaesu"   -> {h}
    [] h.class = "Ailunce" -> {AilunceApplyXOR(h)}

(* What Write puts into a file that it could open. *)
Written(h) ==
  CASE h.class = "TYT" -> TYTWritten(h)
    [] h.class = "CS"  -> CSWritten(h)
    [] h.class = "SGL" -> SGLWritten(h)
    [] OTHER           -> PlainWritten(h)
=============================================================================

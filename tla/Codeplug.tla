------------------------------ MODULE Codeplug ------------------------------
(***************************************************************************)
(* Codeplugs: CodeplugFactory and RDT (include/radio_tool/codeplug,        *)
(* src/rdt.cpp).  An RDT file is a record of the fields of RDTHeader that  *)
(* the code looks at and "body", what lies at each offset after the        *)
(* header: a timestamp of seven BCD bytes, or nothing in a file too short. *)
(***************************************************************************)
EXTENDS Bytes

NoFile == [format |-> "missing"]

(* RadioConfigs, and the offset of other radios. *)
RadioConfigs ==
  [radio \in {"DM-1701", "2017", "DR780"} |->
     [timestamp |-> 8193, general |-> 8256]]

DefaultConfig == [timestamp |-> 8193, general |-> 8256]

ConfigOf(radio) ==
  IF radio \in DOMAIN RadioConfigs THEN RadioConfigs[radio] ELSE DefaultConfig

GetTimestampOffset(header) == ConfigOf(header.radio).timestamp

GetGeneralOffset(header) == ConfigOf(header.radio).general

(* RDTHeader::Read of a file that is no codeplug finds other texts, and of *)
(* one that is too short zeros.                                            *)
RDTHeader(f) ==
  IF f.format = "rdt" THEN f.header ELSE [magic |-> "", target |-> "", radio |-> ""]

Validate(header) == header.magic = "DfuSe" /\ header.target = "Target"

RDTSupportsCodeplug(f) == f # NoFile /\ Validate(RDTHeader(f))

(* RDT::Read: the bytes of the timestamp are read into a buffer on the     *)
(* stack, which a file that ends before them leaves as it was.             *)
RDTRead(f) ==
  IF f = NoFile THEN {}
  ELSE LET at == GetTimestampOffset(RDTHeader(f))
       IN  IF f.format = "rdt" /\ at \in DOMAIN f.body
           THEN {ParseBCDTimestamp(f.body[at])}
           ELSE {"any time"}

(* GetCodeplugHandler: a null pointer if no class takes the file. *)
GetCodeplugHandler(f) == IF RDTSupportsCodeplug(f) THEN "RDT" ELSE "nullptr"
=============================================================================

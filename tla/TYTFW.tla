------------------------------- MODULE TYTFW -------------------------------
(***************************************************************************)
(* TYT firmware files: src/tyt_fw.cpp, include/radio_tool/fw/tyt_fw.hpp.   *)
(***************************************************************************)
EXTENDS Firmware

CONSTANT
  MaxRegions   \* regions that fit into the header (0x80 / 8 in the code)

TYTRadioConfig(model, fw_model, c_magic, cipher) ==
  [radio_model |-> model, firmware_model |-> fw_model,
   counter_magic |-> c_magic, cipher |-> cipher]

(* tyt::config::All, with the values of tyt::magic *)
TYTConfigs ==
  <<TYTRadioConfig("MD2017", "MD-9600", <<2, 25, 12>>, uv3x0),
    TYTRadioConfig("MD2017 GPS", "MD-9600", <<2, 24, 12>>, uv3x0),
    TYTRadioConfig("MD2017", "MD-9600", <<1, 25>>, uv3x0),
    TYTRadioConfig("MD2017 GPS", "MD-9600", <<1, 24>>, uv3x0),
    TYTRadioConfig("MD9600", "MD-9600", <<1, 20>>, md9600),
    TYTRadioConfig("UV3X0 GPS", "MD-9600", <<2, 22, 12>>, uv3x0),
    TYTRadioConfig("UV3X0", "MD-9600", <<2, 23, 12>>, uv3x0),
    TYTRadioConfig("DM1701", "DM1701", <<1, 15>>, dm1701),
    TYTRadioConfig("MD390", "JST51", <<1, 16>>, md380),
    TYTRadioConfig("MD380", "JST51", <<1, 13>>, md380),
    TYTRadioConfig("MD446", "JST51", <<1, 13>>, md380),
    TYTRadioConfig("MD280", "JST51", <<1, 27>>, md380)>>

(* The first entries of the table that have a property: one, or none. *)
FirstOf(S) == {i \in S : \A j \in S : i <= j}

ConfigsOfModel(model) ==
  FirstOf({i \in DOMAIN TYTConfigs : TYTConfigs[i].radio_model = model})

ConfigsOfMagic(cm) ==
  FirstOf({i \in DOMAIN TYTConfigs : TYTConfigs[i].counter_magic = cm})

(* Create *)
TYTNew == Handler("TYT", [counterMagic |-> <<>>, firmware_model |-> "",
                          radio_model |-> ""])

TYTSupportsRadioModel(model) == ConfigsOfModel(model) # {}

TYTSetRadioModel(h, model) ==
  IF ConfigsOfModel(model) = {} THEN h
  ELSE LET c == TYTConfigs[CHOOSE i \in ConfigsOfModel(model) : TRUE]
       IN  [h EXCEPT !.info = [counterMagic |-> c.counter_magic,
                               radio_model |-> c.radio_model,
                               firmware_model |-> c.firmware_model]]

-----------------------------------------------------------------------------
(* The first bytes of the header's counter_magic, which is filled up with  *)
(* counting bytes.                                                         *)
CounterBytes(cm) == [x \in 1..4 |-> IF x <= Len(cm) THEN cm[x] ELSE x - 1]

(* The end of the file, 256 bytes that no reader looks at: one byte here. *)
Footer == <<Ones>>

(* Write ends for a table of regions that fits its place; a longer one is  *)
(* padded for ever, the number of bytes to pad being below zero.           *)
TYTWriteEnds(h) == Len(h.memory_ranges) <= MaxRegions

(* Mutant: the last region is not counted. *)
TYTWrittenUncounted(h) ==
  [format        |-> "tyt",
   radio         |-> h.info.firmware_model,
   counter_magic |-> CounterBytes(h.info.counterMagic),
   n_regions     |-> Len(h.memory_ranges) - 1,
   regions       |-> h.memory_ranges,
   rest          |-> h.data \o Footer]

TYTWritten(h) ==
  [format        |-> "tyt",
   radio         |-> h.info.firmware_model,
   counter_magic |-> CounterBytes(h.info.counterMagic),
   n_regions     |-> Len(h.memory_ranges),
   regions       |-> h.memory_ranges,
   rest          |-> h.data \o Footer]

(* ReadHeader: a count of 0xffffffff, here -1, stands for one region. *)
Regions(f) == IF f.n_regions = -1 THEN 1 ELSE f.n_regions

(* CheckHeader does not throw. *)
TYTHeaderGood(f) ==
  /\ f.format = "tyt"
  /\ f.counter_magic[1] <= 3
  /\ \E i \in DOMAIN TYTConfigs : IsPrefix(TYTConfigs[i].counter_magic, f.counter_magic)
  /\ Regions(f) <= MaxRegions

(* SupportsFirmwareFile throws for a file that cannot be opened. *)
TYTSupportsFirmwareFile(f) == IF f = Missing THEN {} ELSE {TYTHeaderGood(f)}

(* A region that the table does not have is read as zeros. *)
RegionAt(f, n) ==
  IF n \in DOMAIN f.regions THEN f.regions[n] ELSE [address |-> 0, size |-> 0]

(* What Read puts into the handler. *)
TYTFilled(h, f) ==
  LET cm     == SubSeq(f.counter_magic, 1, 1 + f.counter_magic[1])
      config == TYTConfigs[CHOOSE i \in ConfigsOfMagic(cm) : TRUE]
      ranges == [n \in 1..Regions(f) |-> RegionAt(f, n)]
  IN  [h EXCEPT
         !.info = [counterMagic |-> cm, firmware_model |-> f.radio,
                   radio_model |-> config.radio_model],
         !.memory_ranges = ranges,
         !.data = ReadBytes(f.rest, RangeOffset(ranges, Len(ranges) + 1))]

(* Read: a file that cannot be opened leaves the handler as it was. *)
TYTRead(h, f) ==
  IF f = Missing THEN {h}
  ELSE IF ~TYTHeaderGood(f) THEN {}
  ELSE IF ConfigsOfMagic(SubSeq(f.counter_magic, 1, 1 + f.counter_magic[1])) = {} THEN {}
  ELSE {TYTFilled(h, f)}

(* Encrypt and Decrypt: throw without a model. *)
TYTApplyXOR(h) ==
  {[h EXCEPT !.data = ApplyXOR(@, TYTConfigs[i].cipher, 0)] :
     i \in ConfigsOfMagic(h.info.counterMagic)}
=============================================================================

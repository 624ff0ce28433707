------------------------------ MODULE TYTSGLFW ------------------------------
(***************************************************************************)
(* SGL firmware files: src/tyt_fw_sgl.cpp, fw/tyt_fw_sgl.hpp.              *)
(*                                                                         *)
(* A header is kept as SGLHeader has it; where its two encrypted parts lie *)
(* in the file, and their keys, are abstracted from.  The rest of a file   *)
(* starts at 0x400; the binary, binary_offset bytes further on.            *)
(***************************************************************************)
EXTENDS Firmware

SGLHeader(len, group, model, offset) ==
  [sgl_version |-> 1, length |-> len, radio_group |-> group,
   radio_model |-> model, binary_offset |-> offset]

TYTSGLRadioConfig(model, header, cipher, xor_offset) ==
  [radio_model |-> model, header |-> header, cipher |-> cipher,
   xor_offset |-> xor_offset]

(* tyt::config::sgl::All *)
SGLConfigs ==
  <<TYTSGLRadioConfig("GD77", SGLHeader(0, "SG-MD-760", "MD-760", 0), sgl, 2055),
    TYTSGLRadioConfig("GD77S", SGLHeader(0, "SG-MD-730", "MD-730", 0), sgl, 10894),
    TYTSGLRadioConfig("BF5R", SGLHeader(0, "BF-5R", "BF-5R", 0), sgl, 12398),
    TYTSGLRadioConfig("DM1801", SGLHeader(0, "BF-DMR", "1801", 0), sgl, 11388)>>

NoConfig == [radio_model |-> "none"]

SGLNew == Handler("SGL", NoConfig)

SGLConfigsOfModel(model) ==
  {i \in DOMAIN SGLConfigs : SGLConfigs[i].radio_model = model}

SGLConfigsOfGroup(group) ==
  {i \in DOMAIN SGLConfigs : SGLConfigs[i].header.radio_group = group}

SGLSupportsRadioModel(model) == SGLConfigsOfModel(model) # {}

(* AsNew: the length of the new binary and fresh secrets; the offset       *)
(* comes from an engine that is never seeded, 0x44 in the usual library.   *)
AsNewOffset == 68

AsNew(header, binary_len) ==
  [header EXCEPT !.length = binary_len, !.binary_offset = AsNewOffset]

(* SetRadioModel makes the header for the data there is at that time. *)
SGLSetRadioModel(h, model) ==
  IF SGLConfigsOfModel(model) = {} THEN h
  ELSE LET c == SGLConfigs[CHOOSE i \in SGLConfigsOfModel(model) : TRUE]
       IN  [h EXCEPT !.info =
              TYTSGLRadioConfig(c.radio_model, AsNew(c.header, Len(h.data)),
                                c.cipher, c.xor_offset)]

-----------------------------------------------------------------------------
(* The version is read as a number that goes on into the next byte, the    *)
(* binary offset, if that happens to be the code of a digit.               *)
VersionGood(header) ==
  header.sgl_version = 1 /\ header.binary_offset \notin 48..57

(* ReadHeader does not throw. *)
SGLHeaderGood(f) ==
  /\ f.format = "sgl"
  /\ VersionGood(f.header)
  /\ f.header.binary_offset <= 128

(* What ReadHeader throws is caught. *)
SGLSupportsFirmwareFile(f) == {SGLHeaderGood(f) /\ f.header.length # 0}

Binary(f) == SubSeq(f.rest, f.header.binary_offset + 1, Len(f.rest))

SGLRead(h, f) ==
  IF ~SGLHeaderGood(f) THEN {}
  ELSE {[h EXCEPT
           !.info = TYTSGLRadioConfig(SGLConfigs[i].radio_model, f.header,
                      SGLConfigs[i].cipher, SGLConfigs[i].xor_offset),
           !.data = ReadBytes(Binary(f), f.header.length),
           !.memory_ranges = Append(@, [address |-> 0, size |-> f.header.length])] :
          i \in SGLConfigsOfGroup(f.header.radio_group)}

(* Write looks at the length before it opens the file. *)
SGLLengthGood(h) == h.info # NoConfig /\ h.info.header.length = Len(h.data)

Serialize(header) ==
  [format |-> "sgl", header |-> header,
   rest   |-> [z \in 1..header.binary_offset |-> Zero]]

SGLWritten(h) == [Serialize(h.info.header) EXCEPT !.rest = @ \o h.data]

(* Encrypt pads data that is shorter than the header says. *)
SGLPadded(h) ==
  [z \in DOMAIN h.data \cup 1..h.info.header.length |->
     IF z <= Len(h.data) THEN h.data[z] ELSE Ones]

SGLEncrypted(h) ==
  [h EXCEPT !.data = SGLEncrypt(SGLPadded(h), h.info.cipher, h.info.xor_offset)]

SGLDecrypted(h) ==
  [h EXCEPT !.data = SGLDecrypt(@, h.info.cipher, h.info.xor_offset)]
=============================================================================

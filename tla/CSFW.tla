-------------------------------- MODULE CSFW --------------------------------
(***************************************************************************)
(* Connect Systems firmware files: src/cs_fw.cpp, fw/cs_fw.hpp.            *)
(*                                                                         *)
(* imageHeaderSize is 0x80 in every file here, as UpdateHeader and the     *)
(* radio's maker set it.  The rest of a file is the image and two bytes of *)
(* checksum.                                                               *)
(***************************************************************************)
EXTENDS Firmware

(* CS800D_header: the fields that UpdateHeader sets and Read uses. *)
NoHeader == [baseaddr_offset |-> 0, imagesize |-> 0, version |-> 0]

HeaderSize == 128

CSNew == Handler("CS", [header |-> NoHeader, checksum |-> <<Zero, Zero>>])

CSSupportsRadioModel(model) == model = "CS800"

ChecksumSize == 2

(* "test file size is correct" *)
CSSizeGood(f) ==
  /\ f.format = "cs"
  /\ f.header.imagesize # 0
  /\ f.header.imagesize + ChecksumSize = Len(f.rest)

CSSupportsFirmwareFile(f) == {CSSizeGood(f)}

(* The sum of the four bytes of a number. *)
WordTotal(n) ==
  (n % 256) + ((n \div 256) % 256) + ((n \div 65536) % 256) + n \div 16777216

HeaderTotal(header) ==
  WordTotal(header.baseaddr_offset) + WordTotal(header.imagesize)
    + WordTotal(HeaderSize) + WordTotal(header.version)

(* MakeChecksum: the header and the image without its cipher. *)
MakeChecksum(header, image) ==
  CSChecksum(HeaderTotal(header) + Total(ApplyXOR(image, cs800_0, 0)))

(* The checksum in the file is XORed with the key of its place. *)
XORedChecksum(header, checksum) == ApplyXOR(checksum, cs800_0, header.imagesize)

CSImage(f) == SubSeq(f.rest, 1, f.header.imagesize)

CSStoredChecksum(f) ==
  XORedChecksum(f.header, SubSeq(f.rest, f.header.imagesize + 1,
                                 f.header.imagesize + ChecksumSize))

CSRead(h, f) ==
  IF ~CSSizeGood(f) THEN {}
  ELSE IF CSStoredChecksum(f) # MakeChecksum(f.header, CSImage(f)) THEN {}
  ELSE {[h EXCEPT !.info = [header |-> f.header, checksum |-> CSStoredChecksum(f)],
                  !.data = CSImage(f),
                  !.memory_ranges =
                     Append(@, [address |-> f.header.baseaddr_offset,
                                size |-> f.header.imagesize])]}

(* Write: UpdateHeader takes exactly one segment, and looks only after the *)
(* file has been opened.                                                   *)
CSOneSegment(h) == Len(h.memory_ranges) = 1

CSUpdateHeader(h) ==
  [baseaddr_offset |-> h.memory_ranges[1].address,
   imagesize |-> Len(h.data), version |-> 1]

CSWritten(h) ==
  LET header == CSUpdateHeader(h)
  IN  [format |-> "cs", header |-> header,
       rest |-> h.data \o XORedChecksum(header, MakeChecksum(header, h.data))]

(* Encrypt and Decrypt *)
CSApplyXOR(h) == [h EXCEPT !.data = ApplyXOR(@, cs800_0, 0)]
=============================================================================

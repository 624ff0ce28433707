---------------------------- MODULE RadioToolInv ----------------------------
(***************************************************************************)
(* The inductive invariant of RadioTool: what a handler holds at each      *)
(* place of main, and what the one container may be between two runs.      *)
(***************************************************************************)
EXTENDS RadioTool

(* An entry of memory_ranges. *)
Region == [address : Nat, size : Nat]

(* A segment with its bytes. *)
Segment == [address : Nat, data : Seq(Byte)]

(* What memory_ranges is for these segments. *)
RangesOf(segs) ==
  [i \in DOMAIN segs |-> [address |-> segs[i].address, size |-> Len(segs[i].data)]]

(* Data and ranges of a handler that hold these segments, one after the    *)
(* other.                                                                  *)
Holds(data, ranges, segs) ==
  /\ data \in Seq(Byte)
  /\ segs \in Seq(Segment)
  /\ ranges = RangesOf(segs)
  /\ Len(data) = RangeOffset(ranges, Len(ranges) + 1)
  /\ \A i \in DOMAIN segs : \A z \in 1..Len(segs[i].data) :
       data[RangeOffset(ranges, i) + z] = segs[i].data[z]

(* The same of data that are still, or again, encrypted. *)
HoldsXORed(data, key, ranges, segs) ==
  data \in Seq(Byte) /\ Holds(ApplyXOR(data, key, 0), ranges, segs)

KeyOf(class, model) == IF class = "TYT" THEN Config(model).cipher ELSE cs800_0

-----------------------------------------------------------------------------
(* The containers that there can be; a file that is cut off or damaged is  *)
(* one of them too.                                                        *)
TYTFile(f) ==
  /\ f.format = "tyt"
  /\ f = [format |-> "tyt", radio |-> f.radio, counter_magic |-> f.counter_magic,
          n_regions |-> f.n_regions, regions |-> f.regions, rest |-> f.rest]
  /\ f.n_regions \in Nat /\ f.regions \in Seq(Region)
  /\ f.rest \in Seq(Byte)

CSHeader == [baseaddr_offset : Nat, imagesize : Nat, version : Nat]

CSFile(f) ==
  /\ f.format = "cs"
  /\ f = [format |-> "cs", header |-> f.header, rest |-> f.rest]
  /\ f.header \in CSHeader
  /\ f.rest \in Seq(Byte)

SGLFile(f) ==
  /\ f.format = "sgl"
  /\ f = [format |-> "sgl", header |-> f.header, rest |-> f.rest]
  /\ f.header.length \in Nat
  /\ f.rest \in Seq(Byte)

PlainFile(f) ==
  /\ f.format = "plain"
  /\ f = [format |-> "plain", rest |-> f.rest]
  /\ f.rest \in Seq(Byte)

Container(f) == TYTFile(f) \/ CSFile(f) \/ SGLFile(f) \/ PlainFile(f)

(* CSRead takes the file. *)
CSReadable(f) ==
  CSSizeGood(f) /\ CSStoredChecksum(f) = MakeChecksum(f.header, CSImage(f))

(* A Connect Systems file whose checksum is right; it may be empty. *)
Genuine(f) ==
  /\ CSFile(f)
  /\ f.header.imagesize + ChecksumSize = Len(f.rest)
  /\ CSStoredChecksum(f) = MakeChecksum(f.header, CSImage(f))

-----------------------------------------------------------------------------
(* The segments that the command line gives, the first n of them. *)
GivenSegments(o, n) ==
  [i \in 1..n |-> [address |-> o.segments[i].address,
                   data    |-> Files[o.segments[i].file]]]

AllGiven(o) == GivenSegments(o, Len(o.segments))

(* A handler that was made for a model, before and after its data are      *)
(* encrypted.                                                              *)
HandlerShape(h) ==
  h = [class |-> h.class, data |-> h.data, memory_ranges |-> h.memory_ranges,
       info |-> h.info]

NewSGLInfo(info) ==
  /\ info # NoConfig
  /\ info.header.length = 0
  /\ info.header.binary_offset = AsNewOffset

MadeFor(h, model) ==
  /\ HandlerShape(h)
  /\ h.class \in {"TYT", "CS", "SGL", "Yaesu"}
  /\ h.class = "TYT" => /\ TYTSupportsRadioModel(model)
                        /\ h.info.counterMagic = Config(model).counter_magic
  /\ h.class = "SGL" => /\ NewSGLInfo(h.info)
                        /\ h.info.cipher = sgl /\ h.info.xor_offset \in Nat

Sealed(h, model, segs) ==
  /\ MadeFor(h, model)
  /\ h.data \in Seq(Byte) /\ segs \in Seq(Segment)
  /\ h.memory_ranges = RangesOf(segs)
  /\ Len(h.data) = RangeOffset(h.memory_ranges, Len(h.memory_ranges) + 1)
  /\ h.class \in {"TYT", "CS"} =>
       HoldsXORed(h.data, KeyOf(h.class, model), h.memory_ranges, segs)

(* What WriteContent leaves, by class. *)
TYTMade(m) ==
  LET ranges == RangesOf(m.segments)
  IN  /\ TYTSupportsRadioModel(m.radio)
      /\ TYTFile(m.file)
      /\ m.file.counter_magic = CounterBytes(Config(m.radio).counter_magic)
      /\ m.file.n_regions = Len(m.segments) /\ Len(m.segments) <= MaxRegions
      /\ m.file.regions = ranges
      /\ HoldsXORed(ReadBytes(m.file.rest, RangeOffset(ranges, Len(ranges) + 1)),
                    KeyOf("TYT", m.radio), ranges, m.segments)

CSMade(m) ==
  /\ Genuine(m.file)
  /\ RangesOf(m.segments) = <<[address |-> m.file.header.baseaddr_offset,
                               size |-> m.file.header.imagesize]>>
  /\ HoldsXORed(CSImage(m.file), KeyOf("CS", m.radio), RangesOf(m.segments), m.segments)

(* The header of an SGL file has length 0, so it is not written but for no *)
(* data at all.                                                            *)
SGLMade(m) ==
  SGLFile(m.file) /\ \A i \in DOMAIN m.segments : m.segments[i].data = <<>>

MadeGood(m) ==
  \/ m = NotMade
  \/ /\ m = [class |-> m.class, file |-> m.file, radio |-> m.radio,
             segments |-> m.segments]
     /\ m.segments \in Seq(Segment)
     /\ \/ m.class = "TYT" /\ TYTMade(m)
        \/ m.class = "CS" /\ CSMade(m)
        \/ m.class = "SGL" /\ SGLMade(m)
        \/ m.class = "Yaesu" /\ PlainFile(m.file)

-----------------------------------------------------------------------------
(* The places in main that belong to a command. *)
Wrapping == {"modelhandler", "append", "encrypt", "open", "write", "padding"}
Unwrapping == {"decrypt", "segments"}

CommandFits ==
  /\ pc \in Wrapping => command = "wrap"
  /\ pc \in {"filehandler", "read"} => command \in {"fw-info", "unwrap"}
  /\ pc \in Unwrapping => command = "unwrap"
  /\ pc \in {"codeplug", "list", "device", "operate", "flash"} =>
       command \in {"codeplug-info", "list", "device"}

(* The container, and what is known of the last one that was wrapped: a    *)
(* file that CSRead takes is that one, as it was written.                  *)
FilesGood ==
  /\ packed = Missing \/ Container(packed)
  /\ MadeGood(made)
  /\ CSReadable(packed) => made.class = "CS" /\ packed = made.file

(* Nothing is left over from the run before. *)
OutputsFit ==
  /\ pc \notin {"segments", "exited"} => unwrapped = NoOutput
  /\ pc # "exited" => sent = <<>>

(* A wrap holds the segments it has been through, then all of them, then   *)
(* all of them encrypted with the key of the model.                        *)
WrapFits ==
  /\ pc = "append" =>
       /\ k \in 1..(Len(opt.segments) + 1)
       /\ MadeFor(fw, opt.radio)
       /\ Holds(fw.data, fw.memory_ranges, GivenSegments(opt, k - 1))
  /\ pc = "encrypt" =>
       /\ MadeFor(fw, opt.radio)
       /\ Holds(fw.data, fw.memory_ranges, AllGiven(opt))
  /\ pc \in {"open", "write"} => Sealed(fw, opt.radio, AllGiven(opt))
  /\ pc = "write" /\ fw.class = "SGL" => SGLLengthGood(fw)

(* What is read from an intact container are the segments, encrypted; then *)
(* decrypted; and the last one at each address is the one unwrapped.       *)
Readers == {"TYT", "CS", "SGL", "Yaesu", "Ailunce"}

HoldsIntact(h) ==
  made.class \in {"TYT", "CS"} =>
    HoldsXORed(h.data, KeyOf(made.class, made.radio), h.memory_ranges, made.segments)

LastOf(u, segs, n) ==
  /\ u = [a \in {segs[i].address : i \in 1..n} |-> u[a]]
  /\ \A a \in {segs[i].address : i \in 1..n} :
       \E i \in 1..n : /\ segs[i].address = a
                       /\ u[a] = segs[i].data
                       /\ \A j \in (i + 1)..n : segs[j].address # a

UnwrapFits ==
  /\ pc = "read" => /\ fw.class \in Readers /\ fw = CreateHandler(fw.class)
                    /\ Intact => fw.class = made.class
  /\ pc = "decrypt" =>
       /\ HandlerShape(fw) /\ fw.class \in Readers
       /\ fw.class \in {"TYT", "CS", "SGL"} =>
            DOMAIN fw.data = 1..Len(fw.data) /\ Len(fw.data) \in Nat
       /\ Intact => HoldsIntact(fw)
  /\ pc = "segments" /\ Intact /\ made.class \in {"TYT", "CS"} =>
       /\ Holds(fw.data, fw.memory_ranges, made.segments)
       /\ k \in 1..(Len(made.segments) + 1)
       /\ LastOf(unwrapped, made.segments, k - 1)

(* At every place of main the handler and the container are what main has  *)
(* made of the segments so far: together with this the properties of       *)
(* RadioTool are inductive.                                                *)
ToolInv ==
  /\ TypeOK
  /\ CommandFits /\ FilesGood /\ OutputsFit /\ WrapFits /\ UnwrapFits
  /\ CSReadsOnlyGenuine /\ ReadByItsMaker
  /\ UnwrapGivesBack /\ FlashGivesWrapped
=============================================================================

----------------------------- MODULE RadioTool -----------------------------
(***************************************************************************)
(* main of src/radio_tool.cpp: the commands on firmware files, one run of  *)
(* the tool after the other, and how a file gets from the command line     *)
(* through the firmware classes to a radio.  What happens on the way from  *)
(* there is modelled by the modules of the radios; here a radio gets the   *)
(* segments, or the transfer fails, or it never returns: there is no       *)
(* fairness, so the step that stands for it need not be taken.             *)
(***************************************************************************)
EXTENDS FirmwareFactory

CP == INSTANCE Codeplug

CONSTANTS
  Invocations,   \* command lines: the options given, the model, the segments
  Files,         \* the files that segments are taken from
  Codeplugs,     \* the files for --codeplug-info
  Drivers        \* the radios that OpenDevice may find

(* The text of a segment is an address, or what is none and then below 0,  *)
(* and the name of a file.                                                 *)
ASSUME RadioToolAssumption ==
  /\ \A f \in DOMAIN Files : Files[f] \in Seq(Byte)
  /\ \A i \in Invocations : i.segments \in Seq([address : Int, file : STRING])

VARIABLES
  pc,          \* where main is
  opt,         \* the command line of this run
  fw,          \* the firmware handler
  k,           \* the segment that a loop is at
  radio,       \* the radio that is open
  unwrapped,   \* by address, what this run has unwrapped
  sent,        \* the segments this run has sent to the radio
  status,      \* how the run ended
  packed,      \* the container: --out of a wrap, --in of everything else
  made         \* history: the last container wrapped, and from what

vars == <<pc, opt, fw, k, radio, unwrapped, sent, status, packed, made>>
files == <<packed, made>>
outputs == <<unwrapped, sent>>

NoHandler == [class |-> "none", data |-> <<>>]
NoOutput == [a \in {} |-> <<>>]
NotMade == [class |-> "none", file |-> Missing]

Inside == {"parse", "modelhandler", "append", "encrypt", "open", "write", "padding",
           "filehandler", "read", "decrypt", "segments", "codeplug", "list",
           "device", "operate", "flash"}

(* Options of main; --list-radios is asked for but was never added. *)
Registered ==
  {"help", "list", "device", "in", "out", "flash", "program", "info", "get-status",
   "get-time", "set-time", "dump-reg", "reboot", "dump-bootloader", "fw-info",
   "wrap", "unwrap", "codeplug-info", "segment", "radio"}

(* The order in which main looks for commands. *)
CommandOrder ==
  <<"help", "list-radios", "fw-info", "codeplug-info", "wrap", "unwrap", "list">>

CommandOf(given) ==
  IF given = {} THEN "help"
  ELSE LET found == FirstOf({i \in DOMAIN CommandOrder : CommandOrder[i] \in given})
       IN  IF found = {} THEN "device" ELSE CommandOrder[CHOOSE i \in found : TRUE]

command == CommandOf(opt.given)

(* GetOptionOrErr *)
Needed(c) ==
  CASE c \in {"fw-info", "codeplug-info"} -> {"in"}
    [] c = "unwrap" -> {"in", "out"}
    [] c = "wrap"   -> {"out", "radio", "segment"}
    [] c = "device" -> {"device"}
    [] OTHER        -> {}

FirstStep(c) ==
  CASE c \in {"fw-info", "unwrap"} -> "filehandler"
    [] c = "wrap"          -> "modelhandler"
    [] c = "codeplug-info" -> "codeplug"
    [] OTHER               -> c

Init ==
  /\ pc = "exited" /\ status = "ok"
  /\ opt \in {i \in Invocations : i.given = {}}
  /\ fw = NoHandler /\ k = 0 /\ radio = "none"
  /\ unwrapped = NoOutput /\ sent = <<>>
  /\ packed = Missing /\ made = NotMade

-----------------------------------------------------------------------------
(* exit, and the handlers of exceptions at the end of main. *)
Exit(s) ==
  /\ pc' = "exited" /\ status' = s
  /\ fw' = NoHandler /\ k' = 0
  /\ UNCHANGED <<opt, radio>>

GoTo(where) == pc' = where /\ UNCHANGED <<opt, status>>

Start ==
  /\ pc = "exited"
  /\ pc' = "parse" /\ opt' \in Invocations
  /\ status' = "running"
  /\ radio' = "none" /\ unwrapped' = NoOutput /\ sent' = <<>>
  /\ UNCHANGED <<fw, k, files>>

ParseOptions ==
  /\ pc = "parse"
  /\ UNCHANGED <<outputs, files>>
  /\ IF ~(opt.given \subseteq Registered) THEN Exit("error")
     ELSE IF command = "help" THEN Exit("ok")
     ELSE IF ~(Needed(command) \subseteq opt.given) THEN Exit("error")
     ELSE GoTo(FirstStep(command)) /\ UNCHANGED <<fw, k, radio>>

-----------------------------------------------------------------------------
(* --wrap *)

ChooseModelHandler ==
  /\ pc = "modelhandler"
  /\ \E h \in GetFirmwareModelHandler(opt.radio) : fw' = SetRadioModel(h, opt.radio)
  /\ k' = 1
  /\ GoTo("append")
  /\ UNCHANGED <<radio, outputs, files>>

(* A segment is text in which stoi may find no address and which may name  *)
(* a file that is not there.                                               *)
SegmentGood(s) == s.address >= 0 /\ s.file \in DOMAIN Files

AddSegment ==
  /\ pc = "append" /\ k <= Len(opt.segments)
  /\ UNCHANGED <<outputs, files>>
  /\ LET s == opt.segments[k]
     IN  IF SegmentGood(s)
         THEN /\ fw' = AppendSegment(fw, s.address, Files[s.file])
              /\ k' = k + 1
              /\ GoTo("append")
              /\ UNCHANGED radio
         ELSE Exit("error")

AllAdded ==
  /\ pc = "append" /\ k > Len(opt.segments)
  /\ GoTo("encrypt")
  /\ UNCHANGED <<fw, k, radio, outputs, files>>

(* A model was set: Encrypt does not throw. *)
EncryptAll ==
  /\ pc = "encrypt"
  /\ fw' \in Encrypt(fw)
  /\ GoTo("open")
  /\ UNCHANGED <<k, radio, outputs, files>>

(* Write, up to the test whether the file is open.  A file that cannot be  *)
(* opened is no error.                                                     *)
OpenOutput ==
  /\ pc = "open"
  /\ UNCHANGED outputs
  /\ \/ /\ fw.class = "SGL" /\ ~SGLLengthGood(fw)
        /\ Exit("error")
        /\ UNCHANGED files
     \/ /\ fw.class = "SGL" => SGLLengthGood(fw)
        /\ Exit("ok")
        /\ UNCHANGED files
     \/ /\ fw.class = "SGL" => SGLLengthGood(fw)
        /\ packed' = EmptyFile
        /\ made' = NotMade
        /\ GoTo("write")
        /\ UNCHANGED <<fw, k, radio>>

(* A TYT file cut off in its table of regions, or before their number: the *)
(* header is found, and what is missing is read as zeros.                  *)
CutTables(f) ==
  {[f EXCEPT !.regions = SubSeq(@, 1, n), !.rest = <<>>] : n \in 0..(Len(f.regions) - 1)}
    \cup {[f EXCEPT !.n_regions = 0, !.regions = <<>>, !.rest = <<>>]}

(* The beginnings of a file, what is on the disk when the tool is killed:  *)
(* nothing; a part of a header in which no class finds its own; a TYT file *)
(* without all its regions; or some of what follows the header.            *)
Beginnings(f) ==
  {EmptyFile}
    \cup (IF f.format = "plain" THEN {} ELSE {Plain(<<Zero>>)})
    \cup (IF f.format = "tyt" THEN CutTables(f) ELSE {})
    \cup {[f EXCEPT !.rest = SubSeq(@, 1, n)] : n \in 0..(Len(f.rest) - 1)}

(* Write, the rest. *)
WriteContent ==
  /\ pc = "write"
  /\ UNCHANGED outputs
  /\ \/ /\ fw.class = "CS" /\ ~CSOneSegment(fw)
        /\ Exit("error")
        /\ UNCHANGED <<packed, made>>
     \/ /\ fw.class = "TYT" /\ ~TYTWriteEnds(fw)
        /\ packed' = [TYTWritten(fw) EXCEPT !.rest = <<>>]
        /\ GoTo("padding")
        /\ UNCHANGED <<fw, k, radio, made>>
     \/ /\ fw.class = "CS" => CSOneSegment(fw)
        /\ fw.class = "TYT" => TYTWriteEnds(fw)
        /\ packed' = Written(fw)
        /\ made' = [class |-> fw.class, file |-> Written(fw), radio |-> opt.radio,
                    segments |-> [i \in DOMAIN opt.segments |->
                       [address |-> opt.segments[i].address,
                        data    |-> Files[opt.segments[i].file]]]]
        /\ Exit("ok")

-----------------------------------------------------------------------------
(* --unwrap and --fw-info; a radio reads its file the same way. *)

ChooseFileHandler ==
  /\ pc = "filehandler"
  /\ UNCHANGED <<outputs, files>>
  /\ \/ /\ fw' \in GetFirmwareFileHandler(packed)
        /\ GoTo("read")
        /\ UNCHANGED <<k, radio>>
     \/ GetFirmwareFileHandler(packed) = {} /\ Exit("error")

(* The file is opened again. *)
ReadFile ==
  /\ pc = "read"
  /\ UNCHANGED <<outputs, files>>
  /\ \/ /\ fw' \in Read(fw, packed) /\ command = "unwrap"
        /\ GoTo("decrypt")
        /\ UNCHANGED <<k, radio>>
     \/ Read(fw, packed) # {} /\ command = "fw-info" /\ Exit("ok")
     \/ Read(fw, packed) = {} /\ Exit("error")

(* There is no cipher if the file went away before Read. *)
DecryptAll ==
  /\ pc = "decrypt"
  /\ UNCHANGED <<outputs, files>>
  /\ \/ /\ fw' \in Decrypt(fw)
        /\ k' = 1
        /\ GoTo("segments")
        /\ UNCHANGED radio
     \/ Decrypt(fw) = {} /\ Exit("error")

(* The name of an output file is made from the address alone. *)
UnwrapSegment ==
  /\ pc = "segments" /\ k <= Len(fw.memory_ranges)
  /\ UNCHANGED <<sent, files>>
  /\ LET rn == GetDataSegments(fw)[k]
     IN  \/ /\ unwrapped' = [a \in DOMAIN unwrapped \cup {rn.address} |->
                               IF a = rn.address THEN rn.data ELSE unwrapped[a]]
            /\ k' = k + 1
            /\ GoTo("segments")
            /\ UNCHANGED <<fw, radio>>
         \/ Exit("error") /\ UNCHANGED unwrapped

AllUnwrapped ==
  /\ pc = "segments" /\ k > Len(fw.memory_ranges)
  /\ Exit("ok")
  /\ UNCHANGED <<outputs, files>>

(* --codeplug-info: the null pointer is not tested.  The file is opened    *)
(* again, and may have gone.                                               *)
CodeplugInfo ==
  /\ pc = "codeplug"
  /\ UNCHANGED <<outputs, files>>
  /\ \E f \in Codeplugs, again \in Codeplugs :
       IF CP!GetCodeplugHandler(f) = "nullptr" THEN Exit("crash")
       ELSE IF CP!RDTRead(again) = {} THEN Exit("error")
       ELSE Exit("ok")

-----------------------------------------------------------------------------
(* Devices *)

(* Both talk to USB devices, as do --info and a flash, and wait for them:  *)
(* see above for calls that never return.                                  *)
ListDevices ==
  /\ pc = "list"
  /\ Exit("ok") \/ Exit("error")
  /\ UNCHANGED <<outputs, files>>

OpenDevice ==
  /\ pc = "device"
  /\ UNCHANGED <<outputs, files>>
  /\ \/ /\ radio' \in Drivers
        /\ GoTo("operate")
        /\ UNCHANGED <<fw, k>>
     \/ Exit("error")

(* What --info prints: of these classes a radio is asked what it is, which *)
(* may fail; of the others the text is fixed.                              *)
AsksRadio == radio \in {"TYT", "Yaesu"}

(* No option but these does anything: nothing calls tytCommands. *)
Operate ==
  /\ pc = "operate"
  /\ UNCHANGED <<outputs, files>>
  /\ \/ "info" \in opt.given /\ Exit("ok")
     \/ "info" \in opt.given /\ AsksRadio /\ Exit("error")
     \/ /\ "info" \notin opt.given /\ {"flash", "in"} \subseteq opt.given
        /\ GoTo("flash") /\ UNCHANGED <<fw, k, radio>>
     \/ /\ "info" \notin opt.given /\ "flash" \in opt.given /\ "in" \notin opt.given
        /\ Exit("error")
     \/ opt.given \cap {"info", "flash"} = {} /\ Exit("ok")

(* WriteFirmware of each radio makes a handler of its own class and reads; *)
(* AilunceRadio then encrypts, and takes the first segment even if there   *)
(* is none.                                                                *)
Prepared(h) == IF h.class = "Ailunce" THEN AilunceApplyXOR(h) ELSE h

ToSend(h) ==
  IF h.class = "Yaesu" THEN <<[address |-> 0, data |-> h.data]>>
  ELSE GetDataSegments(h)

WriteFirmware ==   \* if its transfers return
  /\ pc = "flash"
  /\ UNCHANGED <<unwrapped, files>>
  /\ \/ Read(CreateHandler(radio), packed) = {} /\ Exit("error") /\ UNCHANGED sent
     \/ \E h \in Read(CreateHandler(radio), packed) :
          IF radio = "Ailunce" /\ ToSend(h) = <<>>
          THEN Exit("crash") /\ UNCHANGED sent
          ELSE /\ sent' = ToSend(Prepared(h))
               /\ Exit("ok")
     \/ /\ Read(CreateHandler(radio), packed) # {}   \* a transfer fails; the
        /\ \/ Exit("error")                          \* handshake of SGL throws
           \/ radio = "SGL" /\ Exit("crash")         \* what main does not catch
        /\ UNCHANGED sent

-----------------------------------------------------------------------------
(* The user stops the tool; of a file that is being written there is a     *)
(* beginning.                                                              *)
Kill ==
  /\ pc \in Inside
  /\ Exit("killed")
  /\ UNCHANGED <<outputs, made>>
  /\ IF pc = "write" /\ (fw.class = "CS" => CSOneSegment(fw))
     THEN packed' \in Beginnings(Written(fw))
     ELSE UNCHANGED packed

(* What happens to a container that nobody writes: it is cut off, a bit of *)
(* it changes, or it is removed, once.                                     *)
Change ==
  /\ pc # "write" /\ pc # "padding"
  /\ packed = made.file /\ packed # Missing
  /\ \/ packed' = Missing
     \/ packed' \in Beginnings(packed)
     \/ \E z \in DOMAIN packed.rest, b \in 3..7 :
          packed' = [packed EXCEPT !.rest[z] = Xor(@, {b})]
  /\ UNCHANGED <<pc, opt, fw, k, radio, outputs, status, made>>

Step ==
  \/ ParseOptions \/ ChooseModelHandler \/ AddSegment \/ AllAdded \/ EncryptAll
  \/ OpenOutput \/ WriteContent
  \/ ChooseFileHandler \/ ReadFile \/ DecryptAll \/ UnwrapSegment \/ AllUnwrapped
  \/ CodeplugInfo \/ ListDevices \/ OpenDevice \/ Operate \/ WriteFirmware

Next == Start \/ Step \/ Kill \/ Change

(* No fairness: a transfer may never return (dfu.cpp:160, h8sx.cpp:263,    *)
(* fymodem.c:502), and the header of a wrap may be padded for ever, which  *)
(* is why nothing but Kill leads out of "padding".                         *)
Spec == Init /\ [][Next]_vars

-----------------------------------------------------------------------------
(* The variables hold what main may hold; a handler of a class with ranges *)
(* has as much data as its ranges say, however it came by them.            *)
TypeOK ==
  /\ pc \in Inside \cup {"exited"}
  /\ status \in {"ok", "error", "crash", "killed", "running"}
  /\ (status = "running") = (pc # "exited")
  /\ opt \in Invocations
  /\ radio \in Drivers \cup {"none"}
  /\ k \in Nat
  /\ fw.class \in {"TYT", "CS", "SGL"} =>
       Len(fw.data) = RangeOffset(fw.memory_ranges, 1 + Len(fw.memory_ranges))

(* The container is what the last wrap wrote, which was not nothing. *)
Intact ==
  /\ made # NotMade /\ packed = made.file
  /\ \E i \in DOMAIN made.segments : made.segments[i].data # <<>>

Config(model) == TYTConfigs[CHOOSE i \in ConfigsOfModel(model) : TRUE]

LastWith(address) ==
  CHOOSE i \in DOMAIN made.segments :
    /\ made.segments[i].address = address
    /\ \A j \in (i + 1)..Len(made.segments) : made.segments[j].address # address

(* How many bytes were wrapped before segment i. *)
Before(i) == SumFirst([j \in DOMAIN made.segments |-> Len(made.segments[j].data)], i - 1)

(* An unwrap of what was wrapped gives back the segments, at each address  *)
(* the last one given for it: over two runs of the tool, two handlers and  *)
(* the file between them.  (SGL's wrap fails, Yaesu's has no segments.)    *)
UnwrapGivesBack ==
  pc = "exited" /\ status = "ok" /\ command = "unwrap" /\ Intact
    /\ made.class \in {"TYT", "CS"} =>
      unwrapped = [a \in {made.segments[i].address : i \in DOMAIN made.segments} |->
                     made.segments[LastWith(a)].data]

(* What the factory finds for an intact container is the class that wrote  *)
(* its header, with a model that has the cipher of the one it was wrapped  *)
(* for.  (Not for a wrap without a header, of Yaesu's class: it is the     *)
(* bytes of the segments, and belongs to whoever finds a header in them.)  *)
ReadByItsMaker ==
  pc = "decrypt" /\ Intact /\ made.class \in {"TYT", "CS"} =>
    /\ fw.class = made.class
    /\ made.class = "TYT" => fw.info.counterMagic = Config(made.radio).counter_magic

(* A TYT radio that is flashed with an intact container gets the segments  *)
(* that were wrapped, in order and encrypted with the key of the model,    *)
(* which goes on from one segment to the next: WriteFirmware, which does   *)
(* not look at the model, leaves that to it.                               *)
FlashGivesWrapped ==
  pc = "exited" /\ status = "ok" /\ sent # <<>> /\ Intact
    /\ radio = "TYT" /\ made.class = "TYT" =>
      /\ Len(sent) = Len(made.segments)
      /\ \A i \in DOMAIN sent :
           /\ sent[i].address = made.segments[i].address
           /\ ApplyXOR(sent[i].data, Config(made.radio).cipher, Before(i))
                = made.segments[i].data

(* Only what a wrap wrote to its end is unwrapped as a CS file: not what a *)
(* killed or failed wrap left, not a file cut off or with a bit changed.   *)
(* (The checksum is a fifth of a sum: a change below 5 may escape it.  And *)
(* a segment that is a CS file itself, wrapped without a header, is not a  *)
(* case of the model, see PlainWritten.)                                   *)
CSReadsOnlyGenuine ==
  pc = "decrypt" /\ fw.class = "CS" =>
    /\ made # NotMade /\ made.class = "CS"
    /\ fw.data = CSImage(made.file)
    /\ fw.memory_ranges[1].address = made.segments[1].address

(* README.md, columns of firmware: wrapping is marked for these models.    *)
(* With all options, segments that are there and an output file, the wrap  *)
(* for a marked model does not fail.                                       *)
MarkedForWrap ==
  {"MD2017", "MD9600", "MD390", "MD380", "MD446", "MD280", "DM1701", "DM1801",
   "BF5R", "CS800", "GD77"}

WrapsAsMarked ==
  pc = "exited" /\ opt.given = {"wrap", "out", "radio", "segment"}
    /\ opt.radio \in MarkedForWrap /\ Len(opt.segments) = 1
    /\ SegmentGood(opt.segments[1]) => status # "error"

=============================================================================

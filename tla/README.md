# Verification of radio_tool in TLA+

radio_tool is a command line tool that flashes firmware into hand-held radios,
reads and sets a few things in them, and packs and unpacks firmware files. The
modules here model both sides: how it talks to each kind of radio, and what
becomes of a firmware from the files it is wrapped from to the bytes a radio is
sent. TLC checks them on small instances. TLAPS proves for every instance what
the models promise of each of the four transports and the updates over them, of
the list of radios and the USB thread, and of firmware files on their way from a
wrap to an unwrap or a radio. All of the runs' properties that do not say that
something ends are proved.

What can go wrong in such a tool is seldom in one function. It is in the
agreement of two sides that cannot see each other: the host that counts and the
radio that has a pointer, a sender and a receiver on a noisy line, the run that
wraps a file and the run that flashes it, a thread and the destructor that must
end it. A mistake there costs the owner a radio.

Paths below are relative to the repository.

## 1. Inventory

### Parts and how they interact

`main` (`src/radio_tool.cpp`) parses the options. Commands on files go to a
firmware class, which `FirmwareFactory` finds by asking each class in turn about
the file or the model. For a command that needs a radio it makes a
`RadioFactory`, which asks `USBRadioFactory` and `SerialRadioFactory` for
devices, numbers them, and opens one by its index. The result is a
`RadioOperations`: `TYTRadio`, `TYTSGLRadio`, `YaesuRadio` or `AilunceRadio`.
Each reads a firmware file through its own class, whatever the factory would say
of the file, and writes it over its own transport:

    TYTRadio     -> TYTFW      -> TYTDFU -> DFU           -> libusb control transfers
    TYTSGLRadio  -> TYTSGLFW   -> TYTHID -> HID           -> libusb interrupt transfers
    YaesuRadio   -> YaesuFW    -> H8SX                    -> libusb bulk transfers
    AilunceRadio -> AilunceFW  -> YModemDevice -> fymodem -> serial port

Everything is a synchronous call on the main thread. An exception ends the
operation, `main` prints it and exits; nothing is retried and nothing is saved,
so the retry is the user, who runs the tool again on a radio, or with a file,
left as it was. The one other thread is the USB events thread of
`USBRadioFactory`, alive only while devices are listed.

| Component | State | Operations | Hard behaviour | Correct when |
|---|---|---|---|---|
| TYT flashing (`tyt_radio.cpp`, `util/flash.hpp`) | address, `b_offset`, block number; in the radio: address pointer and flash | upgrade mode, erase pass, write pass for each segment | any step may throw, and its command take effect later; the user starts again; offsets of host and radio must agree without ever being exchanged | bytes only at their own address, over erased flash; only the firmware's sectors touched; "Done!" only for a complete firmware |
| DFU transport (`dfu.cpp`) | none in the host; the radio's DFU state | Download, Upload, GetState, GetStatus, Abort, InitDownload, InitUpload, SetAddress, Erase | transfers lost at any point, slow radio, loops that wait for a state | a command is executed once, in order, and a call that returns means that it was |
| TYT commands (`tyt_dfu.cpp`) | the register selected in the radio | ReadRegister, IdentifyDevice, GetTime, SetTime, Reboot, SendTYTCommand | operations of several calls | a register read is the one asked for; the time is only sent to a radio in its mode |
| YModem and Ailunce (`fymodem.c`, `ymodem_device.cpp`, `ailunce_radio.cpp`) | the port; block numbers, error counts, the buffer | open, set up, start the upgrade, send, receive | lost and damaged packets and answers, timeouts, block numbers that wrap, a size sent as digits, a last packet that is padded | what is stored is a beginning of the file; success means all of it; both ends finish |
| H8SX (`h8sx.cpp`, `yaesu_radio.cpp`) | place in the dialogue, chunk, one reused buffer | Init, InquireDevice, InitDownload, Download | answers of several parts, refusals, transfers without a time limit, a dialogue broken off by the run before | answers belong to the commands; chunks in place; an update that ends well left a good image |
| TYT HID / SGL (`tyt_hid.cpp`, `tyt_sgl_radio.cpp`) | address, checksum block | handshake, transfers, checksums | an answer that comes late stays on the line for the next run | host and radio in step; each checksum over what was sent since the last |
| Radio factories (`radio_factory.cpp`, `usb_radio_factory.cpp`, `serial_radio_factory.cpp`) | libusb context, events thread, list of devices | construct, enumerate, list, open, destroy | thread against destructor; exceptions halfway; devices and cables that come and go between list and open, and between two runs | context outlives its users; the index opens what it was printed for; the run ends |
| Firmware classes (`tyt_fw.cpp`, `cs_fw.cpp`, `tyt_fw_sgl.cpp`, `yaesu_fw.cpp`, `ailunce_fw.cpp`, `fw.hpp`) | data, ranges, header or configuration | SetRadioModel, AppendSegment, Encrypt, Decrypt, Read, Write, SupportsFirmwareFile, SupportsRadioModel | key offsets over several segments, lengths kept in two places, checks before and after a file is truncated | what is unwrapped, or flashed, is what was wrapped; a damaged file is refused where there is a checksum |
| Firmware factory (`fw_factory.hpp`) | none | GetFirmwareFileHandler, GetFirmwareModelHandler | the first class that says yes; a class that takes everything; a file opened twice | the class and the cipher that read a container are those that wrote it |
| Command line (`radio_tool.cpp`) | one run's options; between runs, the files | wrap, unwrap, fw-info, codeplug-info, list, info, flash | killed at any point; errors after output was opened; commands in a fixed order of priority | a run that ends well did what it was told; what a run that did not leaves behind is not taken for its work |
| Codeplugs (`rdt.cpp`, `codeplug/`) | header, timestamp | Read, GetCodeplugHandler | a short file; no class for a file | a time that was written is read |
| Utilities (`util.hpp`) | none | XOR, BCD, checksums | boundaries | the reference definitions |

The hazards, each at its line and with the properties that cover it, are listed
in `PROJECT.json`.

## 2. Modules

| Module | Models | Role |
|---|---|---|
| `FlashUtil` | `util/flash.hpp` | operators on flash maps, addresses that wrap at `AddrSpace` |
| `FirmwareLayout` | `fw/fw.hpp` | segments over a map; what a byte of flash holds, what *well placed* and *complete* mean |
| `FlashUpdate` | - | abstract: what an update promises the owner |
| `TYTRadio` | `tyt_radio.cpp` | state machine; implements `FlashUpdate` |
| `TYTOverChannel` | `tyt_radio.cpp` | the host of `TYTRadio`, the channel of `CommandChannel` and a radio that takes its time; implements `TYTRadio` |
| `CommandChannel` | - | abstract: what callers of `Download` rely on |
| `DFU` | `dfu.cpp` | state machine of host and radio; implements `CommandChannel` |
| `TYTDFU` | `tyt_dfu.cpp` | the operations, as sequences of `DFU` calls; extends `DFU` |
| `YModem` | `fymodem.c`, `ymodem_device.cpp`, `ailunce_radio.cpp` | sender, receiver and the line between them |
| `H8SX` | `h8sx.cpp`, `yaesu_radio.cpp` | the dialogue with the Renesas boot program |
| `TYTSGLRadio` | `tyt_sgl_radio.cpp`, `tyt_hid.cpp`, `hid.cpp` | handshake, transfers and checksums |
| `RadioFactory` | `radio_factory.cpp`, `usb_radio_factory.cpp`, `serial_radio_factory.cpp` | two threads, devices, two runs of the tool |
| `Bytes` | `util.hpp` | a byte as the set of its bits; XOR, the CS checksum, BCD timestamps |
| `Cipher` | `fw/cipher/`, the `ApplyXOR`s of the classes | tables and the three ways to use them |
| `Firmware` | `fw/fw.hpp` | files and handlers, segments and their data |
| `TYTFW`, `CSFW`, `TYTSGLFW`, `PlainFW` | the classes of firmware | reading, checking, writing, encrypting; `PlainFW` is Yaesu and Ailunce |
| `FirmwareFactory` | `fw/fw_factory.hpp` | the order of the classes, virtual functions by class |
| `Codeplug` | `rdt.cpp`, `codeplug/` | reading an RDT file |
| `RadioTool` | `radio_tool.cpp` | `main`, run after run, over files that may be killed half way, cut off or changed |
| `RadioToolInv` | - | the inductive invariant of `RadioTool`, which the run `tool` checks and `RadioToolProofs` proves |
| `TYTRadioProofs`, `TYTOverChannelProofs`, `DFUProofs`, `YModemProofs`, `H8SXProofs`, `TYTSGLRadioProofs`, `RadioFactoryProofs`, `RadioToolProofs` | - | the theorems |
| `MC...` | - | constants of the TLC runs |

How they build on each other:

    DFU => CommandChannel,  TYTOverChannel (on CommandChannel) => TYTRadio => FlashUpdate
    Bytes <- Cipher <- Firmware <- TYTFW, CSFW, TYTSGLFW, PlainFW <- FirmwareFactory <- RadioTool <- RadioToolInv

How state and actions correspond:

* **TYTRadio.** One action per command to the radio, because each may throw:
  `SendFirmwareUpgrade`, `EraseSector`, `SetAddress`, `WriteBlock`, and
  `EraseEnd`, `ChunkEnd`, `SegmentEnd` where the loops end. `addr`, `bOffset`,
  `wValue` and `seg` are the code's loop variables. The loop of
  `AlignedContiguousMemoryOp` is unrolled with the operators of `FlashUtil`,
  its callback being the body of the action. `ptr` and `flash` are the radio's.
  A byte of flash holds where it came from (segment and offset) rather than a
  value. `...Throws` is the exception in each step, `Rerun` the user who tries
  again. `late` is what a command whose call threw may still do to the flash,
  in part or in full, until the radio takes another command. A block that leaves
  the radio's memory is never accepted by the radio.
* **TYTOverChannel.** `Call` sends a command with the numbers the code puts into
  it, `Executes` and `Fails` are the radio's, `Return` and `Throw` end the call
  whether or not the radio is finished; it may be switched off. The refinement
  shows the effect of a call when it returns; `before` remembers the memory at
  its beginning.
* **DFU.** One action per control transfer. `calls` is what the operation still
  has to call. A transfer may be lost, or its answer may be, at each step; the
  radio executes after the first GETSTATUS, in its own time. The constants say
  how a radio takes an ABORT when busy or in its error state.
* **YModem.** `OpenPort`, `SetInterfaceAttribs`, `StartUpgrade`, `Flush` and
  `Discard` are what happens before the first packet. Then each action reads one
  token and does all that the code does up to its next read. The receiver that
  answers the tool is the radio's, which is not in the repository; it is modelled
  by the repository's own `fymodem_receive`. A read that times out yields
  `"timeout"`, the 0 that `__ym_getchar` returns; `early` counts, for each end and
  for the sender's exchange about block 0 by itself, how often one came although
  the other end was still at work. `PastTheEnd` is the last, short packet, for which
  `ym_send_packet` reads on behind the data. `__ym_getchar` returns a `char`, and
  `signed` says which of the two programs was built with a signed one: a sender
  then takes 0xFF for -1 (`MinusOne`), and a receiver takes each byte from 0x80 on
  for the end of the stream, so that it breaks off in the numbers of every packet
  (`ReceiveCut`) and accepts none; without it `ReceivePacket` reads the packet to its end.
* **H8SX.** `Script` is the order of commands of the three functions; `Send` and
  `ReadReply`/`ReadChecksum` run it, `Last` is where it ends for `--info`.
  `InitDevice` is `H8SX::Init`. `buf0` is `buf[0]`, which an empty answer leaves
  as it was.
* **TYTSGLRadio.** The same form: `Steps`, `Send`, `ReadAnswer`. `since` is what
  the radio has received since the last checksum, `answers` what is on the line,
  which outlives a run of the tool.
* **RadioFactory.** The main thread from the constructor of `USBRadioFactory` to
  `OpenDevice`, the events thread with a step for each of its two reads of
  `usb_ctx`, and the destructor in three steps. A device is its vendor and
  product; `RadioSupports` are those of the drivers, `ListRadio` and `ListPort`
  the bodies of the two enumerations with their counters. `shown` is the list a
  run printed, and `moved` the places that changed since that run began. The race on `usb_ctx`,
  which no synchronisation orders, is a choice: the call gets the pointer of the
  check, or the one that is there now.
* **RadioTool.** One action per step of `main` between two accesses to a file or
  a radio. A file is a record of its format, its header's fields and the bytes
  behind the header; an operator that reads a file returns the set of results,
  empty where the code throws. `packed` is the one container, `made` what the
  last wrap put there. `Kill` stops the tool anywhere and leaves a beginning of
  what it was writing (`Beginnings`: nothing, a header cut off, a table of regions
  cut off and read as zeros, or some of the body); `Change` cuts off, damages or
  removes the container. A call that talks to a radio is one step, which gets
  through or throws; as `Spec` has no fairness, it may also never be taken, as
  when a transfer never returns.
  `Exit("crash")` is undefined behaviour or an exception nobody catches.

Definitions headed "Mutants" are wrong on purpose: plausible slips, each one
substituted for the definition of which it is a variant in order to see that a
property notices. No run uses them.

## 3. Runs

Only `tool` checks for deadlock, its user being able to start the tool again. The
other runs do not (`CHECK_DEADLOCK FALSE`): the operations end and the tool exits.
What must not stop is stated as a liveness property there.

| Run | Instance | Shows |
|---|---|---|
| `tyt` | three sectors of sizes 2, 2, 4 in 16 addresses; transfers of 2; no segment, each of 91 single segments, each pair of 24; two updates, broken off anywhere, with late effects | the inductive invariant; bytes in place, nothing programmed over, no other sector touched; an update of a well placed firmware that ends well is complete; `TYTRadio` implements `FlashUpdate`; every update ends |
| `tyt_channel` | three sectors of 3; transfers of 2; segments in a sector, over two, past the memory, pairs apart, together and overlapping; two updates | `TYTOverChannel` implements `TYTRadio` |
| `tyt_shared` | two segments that meet in one sector | *violated*: "done" means that the firmware is there |
| `dfu_ops` | all operations, three in a row, radios of every kind | implements `CommandChannel`; the right register is read; SetTime; a call that never returns is with a radio that stays in its error state |
| `ymodem` | files of 16 and 14 bytes in blocks of 4, numbers modulo 3, sizes modulo 64; both ends with a signed `char`, neither, or only the sender; up to 4 faults, an early timeout of each kind, three buffers, two lines | order, the sender at most one block ahead, a length means a file; over a line that only corrupts a few packets both ends finish, a transfer called sent brought the file or was refused for its padding, and one called failed had a reason, which may be a receiver that can read no packet |
| `ymodem_sent` | 12 bytes, packets that are corrupted | *violated*: success means delivery |
| `h8sx` | files of 0 to 3 chunks, transfer errors, refusals of all acknowledged commands, three runs that flash or only identify | chunks in place over erased flash, a good end means the image, every run ends |
| `h8sx_cell` | a cell that stores something else | *violated*: damage is noticed |
| `sgl` | sizes 0 to 9, transfers of 2, checksum blocks of 4, four updates, late answers | in step after the handshake, each checksum covers its block, the image in place; every update ends, and well if nothing fails |
| `usb_factory` | 2 places, a TYT radio, a Yaesu radio and another device, 2 serial ports, 2 runs of the tool, 1 change of devices | the context outlives the thread; an index is a place in the list and opens what it was printed for; a driver gets a foreign radio or a null handle only if that place changed meanwhile; the destructor's join ends |
| `tool` | 15 wraps for every class, segments in and out of order, doubled, empty, missing and too many; all other commands with and without their options; four codeplugs; all radios; any number of runs | the inductive invariant `ToolInv`, `TypeOK` with it; unwrapping gives back what was wrapped; a container with a header is read by the class and the cipher that made it; a TYT radio is sent what was wrapped for it; no unfinished or damaged CS file is unwrapped |
| `tool_wrap` | the same | *violated*: models marked for wrapping can be wrapped |

**Why the bounds are enough.** The sizes are chosen so that each relation the
code distinguishes occurs: transfers that do and do not divide a sector, a
segment and a checksum block (2 against 2, 3, 4); segments that are empty, inside
a sector, across two and all, touching, overlapping, leaving the map, wrapping
around the address space; a block number that wraps during the transfer (4
blocks modulo 3); a file that fills its last packet and one that does not; one
fault at each place and a few in a row, as many as the receiver's limit of errors
where the limit matters; a timeout that comes too early in each phase; a second run on what the first left, and a third where
what the first two left meets. The four updates of `sgl` are the most for which its
properties hold (section 4). Keys are two to four bytes, of another
length than the segments, so that each segment meets the key at another offset;
`MaxRegions` is 2 for the 16 of a TYT header, so that a wrap of three has one too
many. The runs of `tool` are not bounded: its state is finite. To what section 5
proves the bounds do not matter, but for the four updates of SGL: it holds for all
flash maps, files, block sizes and keys, and any number of faults, devices and runs.

**Fairness.** All liveness properties assume weak fairness only. The host is one
thread that runs on, and its transfers have time limits (DFU, HID) or the other
side answers (H8SX). The radio of `DFU` finishes or fails what it began. There is
no fairness of errors: no property holds because a link is assumed to fail in the
end. In `TYTRadio` the only exception with fairness is the radio's refusal of a
block outside its memory. In `YModem` both ends are processes whose reads time
out. In `RadioFactory` both threads are scheduled, and
`libusb_handle_events_timeout` returns, its timeout being 100 microseconds.
`RadioTool` has no fairness and no liveness property: a call that talks to a radio
may never return, and the modules of the radios say when that is.

## 4. Where the code does not do what it says

Shown by the runs marked *violated*; `PROJECT.json` has the lines.

* `TYTRadio::WriteFirmware` erases segment by segment. If two segments share a
  sector, the second erase wipes the end of the first, and the tool says "Done!".
* The YModem sender reports success after the receiver cancelled.
* H8SX compares the sums of the flash in a condition that asks for four errors at
  once, so damage passes. (`bin_sum` adds negated one-byte checksums and would not
  match a sum of bytes either; the condition hides it.)
* SGL firmware cannot be wrapped: the header is made for a length of 0 before the
  segments are appended, and `Write` refuses it.

Met while modelling, and to be seen by changing a constant of a run or by stating
the property:

* `AlignedContiguousMemoryOp` stops at unmapped memory without an error, so the
  rest of a segment is not written, and the tool says "Done!". `DoneMeansFlashed`
  therefore asks for a well placed firmware; with a segment that ends behind the
  map `DoneMeansFlashedAlways` fails.
* The segments of a TYT file are never padded (`TYTFW::Create` takes the alignment
  0), so two segments of any size may share a sector, as above.
* A firmware file that cannot be opened is no error for TYT and Yaesu: the TYT
  radio is put into its upgrade mode, the Yaesu radio is erased, and the tool says
  "Done!". For an Ailunce radio it takes the first of no segments (`"crash"` in
  `WriteFirmware`).
* A wrap of more than 16 segments for a TYT radio pads its header until the disk is
  full, the subtraction at `tyt_fw.cpp:94` being unsigned: the place `"padding"`
  of `main`, which only `Kill` leaves. Up to 16 it ends (`TYTWriteEnds`).
* The YModem sender repeats a packet for ever when the receiver has left: a timeout
  is 0, the code looks for -1. It sends whole packets of 1024 bytes and so reads
  behind the end of a file that does not fill its last.
* The YModem receiver refuses a file exactly as long as its buffer if that is no
  multiple of 1K, since the padding is counted, and the sender reports it as sent.
  `Delivered` names this way to end.
* Where `char` is signed, as on x86, `fymodem_receive` accepts no packet at all: the
  0xFF in block 0 is below 0. `Delivered` lets such a transfer fail, which the sender
  does report. Where `char` is not signed, as on ARM, a sender never takes 0xFF for
  -1, and the `< 0` tests of the receiver never hold.
* If the 'C' behind the ACK of block 0 is late or lost, the sender takes up block 0
  again, which the receiver, already at block 1, refuses with a NAK, and so on for
  ever: without `early["block0"] = 0`, `Delivered` fails.
* A DFU status answer without data is read as whatever was in the buffer:
  with `ShortReplies = TRUE`, `KeepsChannel` fails.
* The CLRSTATUS request of DFU is never sent, so a radio that ignores ABORT in its
  error state keeps `InitDownload` in its loop: `EveryCallEnds` names this case.
* H8SX waits without limit for the checksum byte of an answer that is an error and
  has none: with an inquiry among `Refusals`, `DialogueEnds` fails. It takes an empty
  answer for the one before: with `"empty"` among `Faults`, `DoneMeansImage` fails.
* An answer that comes late is never taken off the line of an SGL radio: every
  further run reads the answers of the commands before its own, and the handshake
  refuses them, until the radio is switched off. But each run that times out
  leaves one more. Four that each time out one command later leave all the answers
  of a handshake, and a fifth takes them for its own: with `MaxRuns = 5`, `InStep`
  fails. With 13 a whole update can be acknowledged by answers to others, and
  `ImageArrives` fails. Up to four runs both are proved (section 5).
* The handshake of SGL throws pointers, which `main` does not catch, so the tool is
  aborted.
* The events thread may hand libusb a null context, which depends on libusb's
  version whether it survives (action `Crash`).
* `YaesuFW` takes every file and every model and is asked before `AilunceFW`, which
  the factory therefore never returns: a mistyped model, or the HD1 that README.md
  marks for wrapping, gets a plain copy of the segments.
* Two segments at one address unwrap into one output file: `UnwrapGivesBack` asks
  for the last of them. A file of the MD446 reads back as one of the MD380, with
  the same cipher.
* A TYT or SGL file that was cut off is filled up with zeros; only CS files have a
  checksum, and it is a fifth of the sum, so changes below 5 may escape it.
* `CSFW::Write` empties the output before it finds that there is more than one
  segment. What is left is then taken for a Yaesu file.
* `--codeplug-info` on what is no codeplug uses a null pointer; the timestamp of a
  codeplug that is too short is what the stack held.
* `--list-radios` is asked for and documented but not registered as an option, and
  `tytCommands` is never called: `--get-time` and its like do nothing, and exit
  well.
* An SGL header whose binary offset is the code of a digit is misread
  (`VersionGood`): the version is parsed as text that runs into it. Files that the
  tool would write have the offset 0x44.

## 5. Proofs

### TYT flashing

`TYTRadioProofs` proves for every flash map, transfer size and set of firmware
files, with any number of updates broken off anywhere:

| Theorem | States |
|---|---|
| `Invariance` | `Spec => []IInv` |
| `Types` | `Spec => []TypeOK` |
| `InPlaceAlways` | a byte of the firmware in the flash is at its own address |
| `NothingGarbled` | nothing is programmed that was not erased |
| `FootprintKept` | sectors the firmware does not reach keep what they held |
| `BlocksInBounds` | the iterators into a segment's data stay inside it; no run checks this one |
| `DoneIsFlashed` | an update of a well placed firmware that ends well is complete |
| `PromiseKept` | `Spec` implements `FlashUpdate` |

Assumptions: `MapAssumption` (sectors of positive size, ascending, no gaps, below
the end of the address space - true of `STM32F40X` and of what `MakeSimpleLayout`
builds), `FirmwareAssumption` (addresses and sizes are `uint32_t`),
`RadioAssumption` (a positive transfer size). TLC evaluates them in the runs.

The argument. None of the properties is inductive: that a byte lands in its place
follows only if the radio's pointer, the address and the offset agree when the
block is sent. `IInv` adds four parts. `Position` ties `addr`, `bOffset` and
`ptr` together. `Prepared` says what the erase pass has done: all before `addr`
is erased, and in the write pass the whole span holds nothing but erased bytes or
the segment's own, so no block meets anything else - for that, an update that is
started anew begins with the erase pass. `Written` says that segments already
written stay so, which needs that the firmware is well placed. `LateSafe` says of
a command whose call threw that all it may still do is erase, or put in place,
bytes of the firmware's sectors, and that none is left by the time the first
sector is erased. Each action has a lemma (`EraseSectorSafe`, `WriteBlockSafe`,
...), with the facts about a block in `BlockFacts` and those about sectors at the
beginning of the module (a chunk ends inside its sector, sectors do not overlap, no
gap between mapped addresses). `PromiseKept` maps each step: erases and blocks to
`Work`, exceptions to `Throw`, the end to `Succeed`, the rest to a stutter.

### The same over the channel

`TYTOverChannelProofs` proves `UpdateOverChannel`: `TYTOverChannel!Spec` implements
`TYTRadio!Spec`. With it what is proved of `TYTRadio`, where a command is one
step, is true of an update whose commands travel, take time and may outlive the
call that sent them. The mapping shows a call's effect when it ends, so between
`Call` and `Return` or `Throw` the flash `TYTRadio` sees is the one of `before`,
and what remains of a command whose call threw is `late`.

The invariant `ChannelInv` says what makes this right. `AtWork`: the radio has the
command of the call that waits, or of one that threw, and no other. `PointerKept`:
a block goes behind the pointer of the last SetAddress that returned, unless the
radio lost power, and then no block arrives. `Begun` and `Finished`: during a call
the memory differs from `before` in part of what the command is about, and once
the command is executed - without which the call does not return - in all of it.
`NothingElse`: only the upgrade command, the first of an update, can meet a
command of the run before. That it has no bytes of its own is why it can. A
block's number and length are shown to be those of `TYTRadio` in `BlockCommand`,
with the one counting argument: a block is accepted if as many of its bytes are
mapped as it has, so all of them are. `TypeCorrect` follows from the same
invariant: no command adds or loses an address of the flash.

### DFU, the channel itself

`DFUProofs`, for any set of operations, any number of them, and every way a radio
may take an ABORT:

| Theorem | States | If |
|---|---|---|
| `TypeCorrect` | the host is at a transfer that the call it is in is made of | |
| `ImplementsChannel` | `Spec` implements `CommandChannel`: a `Download` that returns was executed, once and in order | `ShortReplies = FALSE` |
| `ReadsWhatItAskedFor` | an operation that returns has read the register it asked for | the same, and the operations are those of `TYTDFU` |
| `TimestampFollowsSetRTC` | a timestamp only goes to a radio whose last command was SetRTC | the same |

`ImplementsChannel` is what `UpdateOverChannel` assumes of the transport, so the
promise to the owner is proved down to single control transfers, for radios whose
status answers have the bytes that USB DFU prescribes. That condition is needed:
of an answer cut short the code takes a status from memory it never wrote (section
4), and `KeepsChannel` is false. The condition on the operations is needed because
`DFU` alone would let a caller read before it has selected anything.

`Channelled` is the invariant. `Numbered`: commands are numbered as the radio gets
them, and only those are executed. `AtWork`: while the radio is in the states
between a download and its end, it works on the last command and has not executed
it. `Executing`, of a host that waits for the status: the radio still works on the
command asked for, or has executed just this, or is in its error state. A host that
finds "idle" in the status therefore knows. Over several calls `InOperation` adds
`Running` (in what is left of an operation, each Upload and timestamp follows a
Download), `Selected` (when an Upload comes, the register is the one asked for) and
`Preceded` (when a timestamp comes, the Download before it was executed).

### YModem

`YModemProofs`, for files, buffers and blocks of every size, block numbers that
wrap at any modulus from 2 on, any limit of errors, either signedness of `char` at
each end, and a line that loses, damages and delays as much as it likes: `KeepsOrder` (`StoredInOrder`: each block is stored
once, in its place), `KeepsInTouch` (`NeverAhead`: the sender never takes the ACK of
one packet for that of the next), `LengthIsOfTheFile` (`LengthMeansFile`) and
`TypeCorrect`.

That block numbers modulo 2 suffice is the point, and nothing in one end shows it.
The argument counts stages of the session from its first packet to its last:
`Stage` is the receiver's, `Rank` that of a packet on the line, `LastRank` and
`Counted` what the sender has sent and seen acknowledged. `OnLine` says that
every packet on the line is for the receiver's stage or for the one before, in the
order of sending, so a number that fits is the number of the block. `InTouch` keeps
the sender within one stage of the receiver, and `OneAck` allows one ACK at most on
the line for what the sender has not counted: two would let it skip a block.
`Storage` ties the stage to what has been stored.

### H8SX

`H8SXProofs`, for every set of files, size of the flash, number of runs, and choice
of commands that the radio refuses:

| Theorem | States | If |
|---|---|---|
| `TypeCorrect` | one command and two answers at most are on the line | |
| `ChunksInPlace` | nothing is programmed over what the session has not erased, each chunk goes to the place of its number (`ProgramsErased`) | no cell is bad |
| `EndsWithTheImage` | an update that ends well leaves exactly the image (`DoneMeansImage`) | no cell is bad, no answer is empty |

Both conditions are those under which the code can keep the promise: it does not
notice a bad cell (run `h8sx_cell`), nor an answer without data (section 4). That
`ChunksInPlace` stands with empty answers shows how far they reach: a refused
command may be taken for an acknowledged one, but no chunk gets ahead of the
erasing or into another's place.

`DialogueInv` says that host and radio are at the same place of one script.
`CommandLine` and `AnswerLine` account for all that may be on the line: the errors
of two of the three reads of a checksum byte are ignored, so a byte may stay there,
which only meets commands that want an "ack". `RadioPlace`: an
"ack" on the line means that the radio took the command of this step, and it is
never ahead of the host. `ErasedAhead` and `InPlace`: the flash of a radio in its
programming mode is erased from the next chunk on, and holds the chunks before it or
gaps. `ImageInv` then shows, without empty answers, that there are no gaps.

### SGL

`TYTSGLRadioProofs`, for every image, flash, size of transfers and of checksum
blocks that is a multiple of it:

| Theorem | States | If |
|---|---|---|
| `TypeCorrect` | addresses and checksum blocks stay in the image; there is no more on the line than there were runs | |
| `PastHandshakeInStep` | a run past its handshake has all earlier answers behind it (`InStep`) | `MaxRuns <= 4` |
| `ChecksumsCoverTheirBlock` | a checksum is over what was sent since the last (`SumCovers`) | the same |
| `EndsWithTheImage` | an update that ends well leaves exactly the image (`ImageArrives`) | the same |

The bound is that of the code: with five runs TLC refutes `InStep`. `Host` is the
arithmetic of addresses and blocks, `Queues` what is on the line. The rest is about
the handshake. `Lag` counts the answers that are late; `OwnCommands` says which of
what is on the line belongs to this run. With one late answer, or three, the
handshake meets a word it does not expect. Two are the hard case, since the
commands "ok" and "flash program" both expect an "A": `TwoLate` shows that the radio
would have had to acknowledge an "ok" in a place where, by `LastGood`, it must
refuse it. `Together` is what remains: after the handshake nothing is late, and host
and radio walk through the image side by side.

### Firmware files

`RadioToolProofs` proves of `RadioTool` and the classes of firmware, for all tables
of keys, files of segments, command lines (any number of segments, at any
addresses, of any length), any number of runs of the tool, killed anywhere, and a
container that may be cut off, changed or removed at any time:

| Theorem | States |
|---|---|
| `Invariance` | `Spec => []ToolInv` |
| `ToolTypes` | `TypeOK`: also, that a handler has as much data as its ranges say |
| `WrapUnwrap` | `UnwrapGivesBack`: unwrapping an intact TYT or CS container gives back the segments |
| `WrapFlash` | `FlashGivesWrapped`: a TYT radio is sent what was wrapped, in order, encrypted with the key of the model |
| `MakerReads` | `ReadByItsMaker`: an intact TYT or CS container is read by the class that wrote it, with the magic of its model |
| `ReadsOnlyGenuine` | `CSReadsOnlyGenuine`: a CS file that is unwrapped is one that was wrapped, whole and undamaged |

Assumptions: `TablesAssumption` (a table has bytes, and some), `RadioToolAssumption`
(what the text of a segment is parsed into, and that files consist of bytes) and
`PadAssumption`. Nothing is assumed of `MaxRegions`.

The argument. None of the five properties is inductive: that an unwrap gives back
the segments depends on the run before, which is over. `RadioToolInv` says in `ToolInv`
what is known at each place of `main`:

* `WrapFits`: a wrap holds (`Holds`: data and ranges, one segment behind the other)
  the segments it has been through, then all of them, then all of them encrypted
  with the key of the model (`Sealed`).
* `FilesGood`: the container is a record of one of the four formats, and `made`
  describes a container as `WriteContent` leaves it (`MadeGood`: its header is that
  of the segments, its body decrypts to them). A file that `CSRead` would take is
  the one that was wrapped last. This is what a kill in the middle of a write, a
  cut or a changed bit must not break.
* `UnwrapFits`: of an intact container, what was read decrypts to the segments, what
  is decrypted holds them, and what has been unwrapped is the last of the first
  `k - 1` segments for each address (`LastOf`).
* `CommandFits` and `OutputsFit`: which command is at which place, and that nothing
  is left of the run before.

Each action has a lemma (`AddSegmentKeeps`, `WriteContentKeeps`, ...). They rest on
lemmas about what an operator does to a handler or a file, of which these carry the
weight:

* `HoldsOneMore` and `HeldSegments`: `AppendSegment` puts a segment behind the others,
  and `GetDataSegments` finds each again.
* `EncryptSeals` and `DecryptGivesBack`; with `EncryptedSegments`, which says that a
  segment of encrypted data is encrypted with the key from the segment's place on.
  They use `ApplyXORTwice`.
* `MagicReadBack`, `MagicRow` and `ModelRow`: the magic in the header is found in the
  table again, and the first row that has it has the cipher of the model, since the
  second byte of a magic tells the cipher (`CipherOf`).
* `MakerFound` and `MadeIsRead`: no class that is asked before the maker takes its
  file, and Read gets what Write put there. `ReadTyped` says what is left to say of
  a container of which nothing is known.
* `BeginningOf`, `CutTable` and the theorem `DamageIsSeen`: of a CS file that was written, no
  beginning and no copy with a changed bit of weight 8 or more, be it in the image or
  in the checksum, is taken by Read. One bit changes the sum of the decrypted bytes
  by its weight (`SumDiffers`), and sums that differ by 8 to 128 differ in their
  fifth modulo 65536 (`ChecksumTells`).

`SumFirst`, with which `RangeOffset` and the checksum add up, is a recursive
function. That it adds up (`SumSteps`) needs induction. The library's theorems for
that take an operator as a parameter and cannot be used, but induction on a *set* of
numbers can be stated without: `NatSetInduction` says that a set that contains 0,
and with each number the next, is `Nat`. It follows from the pigeonhole theorem: up
to a missing number, adding 1 would map the set one-to-one into a smaller part of
itself.

Theorems without a state machine: `ApplyXORTwice` (a second XOR with the repeating
key undoes the first: the TYT and CS ciphers), `SGLRoundTrip` (rotation and XOR
against XOR and rotation), `AilunceWordTwice` (the same for the words of an Ailunce
file, but for two) and `AilunceLastTwice` (for the last, short word it is not so),
and `TimestampRoundTrip` (a BCD timestamp reads as the time it was made of). They
take any key; of the tables in the code the model only says that they are bytes, and
some.

### The list of radios, and the thread

`RadioFactoryProofs` proves, for every number of places, ports, runs and changes
of devices:

| Theorem | States | Rests on |
|---|---|---|
| `ContextOutlivesThread` | the events thread never uses a freed context | `ThreadHasContext`: the context lives as long as there is a thread, since the destructor joins before it frees |
| `IndicesArePlaces` | the index printed for a radio is its place in the list it is opened from | `FullInv`: the counters of the two enumerations and the radios found so far, through every way out of a listing |
| `DriversFit` | a driver is given a foreign radio or a null handle only if the place of its radio changed after the run began | `FullInv`, which with `FoundInPlace` says of each radio found that it is still at its place, unless that place changed |
| `IndexOpensWhatWasShown` | the index of a printed list opens what it was printed for, if since the run that printed it nothing was plugged and the same radios refuse to open | `ShownInv`: both listings are then in the order of the places and ports (`ScanInOrder`, `PortsInOrder`), and there is one list of which that is true (`AsPlugged`) |
| `TypeCorrect` | indices, ports, and what is asked for and opened keep their bounds | `Amounts`, with `FullInv` |

The proof of `IndexOpensWhatWasShown` found the model wrong before it found the
code right. `moved` began anew with each list that was printed, so a device that
changed while the list was made was forgotten, and with a third run the theorem was
false. It now counts from the beginning of the run that prints.

### Only model-checked

All liveness, and ENABLED, which are out of the prover's reach: `Terminates` of
`TYTRadio`, `EveryCallEnds` of `DFU`, `Delivered` of `YModem`, `DialogueEnds` of
`H8SX`, `UpdateEnds` of `TYTSGLRadio` and `EveryRunEnds` of `RadioFactory`.
The other properties of the runs are all proved, where section 5 names no condition
for every value of the constants. What the proofs cannot show is that the cases they
speak of occur: that an unwrap ends well, a radio is flashed, a damaged file reaches
`CSRead`. The runs do, in which every action is taken and every property has a
mutant of the code that breaks it.

## 6. Not modelled

* The option parser `cxxopts.hpp`, which is third-party: `RadioTool` begins with
  its result.
* The bytes of the cipher tables, most of the repository's lines. The model and
  the theorems take any table.
* The BSD, Fletcher and Internet checksums and the `IsCompatible` of the classes,
  which nothing calls. `PrintHex` and all else that is printed, but for the index of a
  radio.
* The asynchronous transfers of `TYTHID` (`OnTransfer`, `WaitForReply`), which
  nothing calls; were they used, they would wait for events on a context that no
  thread handles.
* `tytCommands`, which `main` never calls, as such; the commands of `TYTDFU`
  behind it are modelled.
* The general settings of a codeplug, a layout that nothing reads.
* CRCs, checksum bytes and the bytes of messages inside the transports: a packet
  is damaged or it is not, and a damaged one is noticed. The text in which a
  segment is given on the command line, and other formats, but where a length of
  text decides (the size in a YModem header, the version in an SGL file).
* A wrap without a header (Yaesu's class) of a segment that is itself a TYT, CS or SGL
  file: the result would be read by the class of the inner file. The model writes a
  file in which no class finds a header, and `ReadByItsMaker` and
  `CSReadsOnlyGenuine` leave the other out by their comments. For the same reason a
  header cut off in its fixed part is a file without one, and a bit that
  changes is one of the body.
* How each platform lists serial ports: the model has a sequence of ports.

## 7. Plan

Done, in the order of what an error costs: TYT flashing with its proofs, DFU,
YModem, H8SX, SGL, factories; then the composition of TYT flashing with the
channel, and the side of the files; then the proofs of all transports, and of
`RadioTool` and the classes of firmware. What is left:

1. `RadioTool` ends where a radio is given its segments, and the modules of the
   radios begin with any firmware. A module that has both would say of a TYT radio's
   flash, as `FlashUpdate` does, that it holds what was wrapped.
2. SGL and Ailunce: `FlashGivesWrapped` speaks of TYT alone. An SGL container cannot be
   made by the tool, and an Ailunce one is never made by its own class, so a
   statement would have to begin with the maker's files.

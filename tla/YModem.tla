------------------------------- MODULE YModem -------------------------------
(***************************************************************************)
(* AilunceRadio::WriteFirmware and the YModem transfer of src/fymodem.c:   *)
(* fymodem_send, the sender that YModemDevice::Write runs, and             *)
(* fymodem_receive, the receiver that YModemDevice::Read runs, at the two  *)
(* ends of a serial line.                                                  *)
(*                                                                         *)
(* The line carries packets and EOT one way and single characters back.    *)
(* It may lose or corrupt either.  A side reads "timeout" (the 0 that      *)
(* __ym_getchar returns) when nothing is there to read: because the other  *)
(* side waits too, or has ended, or - early - although it still runs.      *)
(* Each step reads one token and does all the code does up to the next     *)
(* read.                                                                   *)
(*                                                                         *)
(* __ym_getchar returns a char, and whether that is signed is the choice   *)
(* of the compiler: signed on x86, unsigned on ARM.  The two ends are two  *)
(* programs, each built in its own way.                                    *)
(***************************************************************************)
EXTENDS Integers, Sequences

LOCAL SX == INSTANCE SequencesExt

CONSTANTS
  Sizes,      \* lengths of files in bytes
  RxLens,     \* lengths of the receiver's buffers
  BlockSize,  \* YM_PACKET_1K_SIZE
  U32,        \* 2^32, where the sum of the digits of a size wraps
  SeqMod,     \* 256: block numbers are one byte on the line
  MaxErrors,  \* YM_PACKET_ERROR_MAX_NBR
  Builds,     \* sets of ends, "tx" and "rx", whose char is signed
  Lines,      \* lines, by what they may do: sets of "lose", "bad", "noise", "ff"
  MaxFaults,  \* bound: how often it does
  MaxEarly    \* bound: how often each may time out although the other runs

VARIABLES
  s,       \* sender: what it waits for an answer to, or how it ended
  blk,     \* sender: block_nbr
  crcNak,  \* sender: crc_nak
  r,       \* receiver: "off", "receiving", or how it ended
  rxed,    \* receiver: packets_rxed
  errs,    \* receiver: nbr_errors
  got,     \* receiver: the packets stored in rxdata
  toR,     \* line to the receiver
  toS,     \* line to the sender
  size,    \* the length of the file, txsize
  rxlen,   \* the length of the receiver's buffer
  signed,  \* the ends whose char is signed
  line,    \* what this line may do to a packet or an answer
  faults,  \* how often the line damaged something
  early    \* how often a side timed out early, the sender in two phases

senderVars   == <<s, blk, crcNak>>
receiverVars == <<r, rxed, errs, got>>
lineVars     == <<toR, toS>>
setup == <<size, rxlen, signed, line>>
vars == <<senderVars, receiverVars, lineVars, setup, faults, early>>

ASSUME YModemAssumption ==
  /\ Sizes \subseteq Nat \ {0} /\ RxLens \subseteq Nat /\ MaxErrors \in Nat \ {0}
  /\ BlockSize \in Nat \ {0} /\ U32 \in Nat \ {0}
  /\ SeqMod \in Nat \ {0, 1}
  /\ Builds \subseteq SUBSET {"tx", "rx"}
  /\ Lines \subseteq SUBSET {"lose", "bad", "noise", "ff"}
  /\ MaxFaults \in Nat /\ MaxEarly \in Nat

(* The size of a file goes over the line in decimal. *)
WriteU32(val) ==
  LET digits[n \in Nat] == IF n < 10 THEN <<n>>
                           ELSE Append(digits[n \div 10], n % 10)
  IN  digits[val]

ReadU32(digits) == SX!FoldLeft(LAMBDA res, c : (10 * res + c) % U32, 0, digits)

(***************************************************************************)
(* Packets: block 0 with a name and a size, the empty block 0 that ends it *)
(* all, and blocks of the file.  The last of these carries what follows    *)
(* the file in memory up to BlockSize.                                     *)
(***************************************************************************)
Packet(n) ==
  [kind |-> "packet", seq |-> n % SeqMod, body |-> n, name |-> "", asc |-> <<>>]

NamePacket == [Packet(0) EXCEPT !.name = "firmware", !.asc = WriteU32(size)]

NullPacket == Packet(0)

Token(k) == [kind |-> k, seq |-> 0, body |-> 0, name |-> "", asc |-> <<>>]

(* A packet whose number and complement, or whose CRC, do not match. *)
Bad == Token("bad")

Blocks == (size + BlockSize - 1) \div BlockSize

(* The file is announced with a size that the buffer holds. *)
Fits(t) == ReadU32(t.asc) <= rxlen

SenderEnded   == s \in {"sent", "failed", "unopened", "crashed"}
ReceiverEnded == r \in {"done", "zero"}

(* What one side sends is lost on a side that no longer reads. *)
PutR(ts) == toR' = IF ReceiverEnded THEN toR ELSE toR \o ts

-----------------------------------------------------------------------------
(* Mutants: definitions below as a plausible slip would have them. *)
MoreButLast(n)     == n < Blocks
AckedByRequest(c)  == c \in {"ack", "C"}
ExpectedAnyNumber(n) == TRUE
TooManyByOne(e)    == e > MaxErrors
AskNothing         == UNCHANGED toS

-----------------------------------------------------------------------------
(* A timeout: early unless there is nothing to wait for. *)
TimesOut(side, idle) ==
  \/ idle /\ UNCHANGED early
  \/ ~idle /\ early[side] < MaxEarly /\ early' = [early EXCEPT ![side] = @ + 1]

(* The phases of the sender: the exchange about block 0, and the rest. *)
Phase == IF s \in {"name", "nameC"} THEN "block0" ELSE "data"

(* A read of a side: a token that has come, or a timeout. *)
SenderReads(c) ==
  \/ /\ toS # <<>>
     /\ c = Head(toS)
     /\ toS' = Tail(toS)
     /\ UNCHANGED early
  \/ /\ toS = <<>>
     /\ c = "timeout"
     /\ UNCHANGED toS
     /\ TimesOut(Phase, (toR = <<>> /\ r # "off") \/ ReceiverEnded)

(* The character 0xFF: -1, which the code looks for, if char is signed, *)
(* and 255 if it is not.                                                *)
MinusOne(c) == c = "ff" /\ "tx" \in signed

NotSending == {"closed", "opened", "set", "start", "discard"}

ReceiverReads(t) ==
  \/ /\ toR # <<>>
     /\ t = Head(toR)
     /\ toR' = Tail(toR)
     /\ UNCHANGED early
  \/ /\ toR = <<>>
     /\ t = Token("timeout")
     /\ UNCHANGED toR
     /\ TimesOut("receiver", (toS = <<>> /\ s \notin NotSending) \/ SenderEnded)

-----------------------------------------------------------------------------
Init ==
  /\ s = "closed" /\ blk = 0 /\ crcNak = TRUE
  /\ r = "off" /\ rxed = 0 /\ errs = 0 /\ got = <<>>
  /\ toR = <<>> /\ toS = <<>>
  /\ size \in Sizes /\ rxlen \in RxLens /\ signed \in Builds /\ line \in Lines
  /\ faults = 0 /\ early = [side \in {"block0", "data", "receiver"} |-> 0]

(* The constructor of YModemDevice, when the radio is opened by its index. *)
OpenPort ==
  /\ s = "closed"
  /\ s' \in {"opened", "unopened"}
  /\ UNCHANGED <<blk, crcNak, receiverVars, lineVars, faults, early>>

(* WriteFirmware has read and encrypted the file, and sets up the line. *)
SetInterfaceAttribs ==
  /\ s = "opened"
  /\ s' \in {"set", "unopened"}
  /\ UNCHANGED <<blk, crcNak, receiverVars, lineVars, faults, early>>

(* "1" starts the upgrade in the radio.  Nobody looks whether it was sent, *)
(* and the radio's boot program, not fymodem_receive, reads it.            *)
StartUpgrade ==
  /\ s = "set"
  /\ s' = "start"
  /\ UNCHANGED <<blk, crcNak, receiverVars, lineVars, faults, early>>

(* fymodem_send: flush what has come, after a cool off delay ... *)
Flush ==
  /\ s = "start"
  /\ s' = "discard"
  /\ toS' = <<>>
  /\ UNCHANGED <<blk, crcNak, receiverVars, toR, faults, early>>

(* ... and read one character away, "just for balance". *)
Discard ==
  /\ s = "discard"
  /\ \/ toS # <<>> /\ toS' = Tail(toS)
     \/ toS = <<>> /\ UNCHANGED toS
  /\ s' = "name"
  /\ PutR(<<NamePacket>>)
  /\ UNCHANGED <<blk, crcNak, receiverVars, faults, early>>

(* The answer to block 0: ACK, a first 'C', a NAK after that, or an error. *)
NameAnswered ==
  /\ s = "name"
  /\ \E c \in {"ack", "nak", "C", "can", "noise", "ff", "timeout"} :
       /\ SenderReads(c)
       /\ \/ /\ c = "ack"
             /\ s' = "nameC" /\ UNCHANGED <<crcNak, toR>>
          \/ /\ c = "C" /\ crcNak
             /\ crcNak' = FALSE
             /\ PutR(<<NamePacket>>)
             /\ UNCHANGED s
          \/ /\ c = "nak" /\ ~crcNak
             /\ PutR(<<NamePacket>>)
             /\ UNCHANGED <<s, crcNak>>
          \/ /\ c # "ack" /\ ~(c = "C" /\ crcNak) /\ ~(c = "nak" /\ ~crcNak)
             /\ PutR(<<Token("can")>>)
             /\ s' = "failed" /\ UNCHANGED crcNak
  /\ UNCHANGED <<blk, receiverVars, faults>>

(* EOT at once if the file is empty, else its next block. *)
More(n) == n <= Blocks

(* ym_send_packet always sends BlockSize bytes: for the last packet of a   *)
(* file it may read on past the end of the data into no memory at all.     *)
PastTheEnd(n) == n * BlockSize > size

SendBlockOrEot(n) ==
  \/ /\ More(n)
     /\ PutR(<<Packet(n)>>)
     /\ s' = "data" /\ blk' = n
  \/ /\ More(n) /\ PastTheEnd(n)
     /\ s' = "crashed" /\ UNCHANGED <<blk, toR>>
  \/ /\ ~More(n)
     /\ PutR(<<Token("eot")>>)
     /\ s' = "eot" /\ UNCHANGED blk

(* After the ACK a 'C' starts the data; anything else, block 0 again. *)
DataRequested ==
  /\ s = "nameC"
  /\ \E c \in {"ack", "nak", "C", "can", "noise", "ff", "timeout"} :
       /\ SenderReads(c)
       /\ \/ c = "C" /\ SendBlockOrEot(1)
          \/ /\ c # "C"
             /\ PutR(<<NamePacket>>)
             /\ s' = "name" /\ UNCHANGED blk
  /\ UNCHANGED <<crcNak, receiverVars, faults>>

(***************************************************************************)
(* ym_send_data_packets.  It returns nothing: fymodem_send takes every way *)
(* out of it for success.                                                  *)
(***************************************************************************)
Acked(c) == c = "ack"

BlockAnswered ==
  /\ s = "data"
  /\ \E c \in {"ack", "nak", "C", "can", "noise", "ff", "timeout"} :
       /\ SenderReads(c)
       /\ \/ Acked(c) /\ SendBlockOrEot(blk + 1)
          \/ (c = "can" \/ MinusOne(c)) /\ s' = "sent" /\ UNCHANGED <<blk, toR>>
          \/ /\ ~Acked(c) /\ c # "can" /\ ~MinusOne(c)
             /\ PutR(<<Packet(blk)>>)
             /\ UNCHANGED <<s, blk>>
  /\ UNCHANGED <<crcNak, receiverVars, faults>>

EotAnswered ==
  /\ s = "eot"
  /\ \E c \in {"ack", "nak", "C", "can", "noise", "ff", "timeout"} :
       /\ SenderReads(c)
       /\ \/ c = "ack" /\ s' = "eotC" /\ UNCHANGED toR
          \/ MinusOne(c) /\ s' = "sent" /\ UNCHANGED toR
          \/ c # "ack" /\ ~MinusOne(c) /\ PutR(<<Token("eot")>>) /\ UNCHANGED s
  /\ UNCHANGED <<blk, crcNak, receiverVars, faults>>

NextFileRequested ==
  /\ s = "eotC"
  /\ \E c \in {"ack", "nak", "C", "can", "noise", "ff", "timeout"} :
       /\ SenderReads(c)
       /\ \/ c = "C" /\ PutR(<<NullPacket>>) /\ s' = "null"
          \/ c # "C" /\ s' = "sent" /\ UNCHANGED toR
  /\ UNCHANGED <<blk, crcNak, receiverVars, faults>>

NullAnswered ==
  /\ s = "null"
  /\ \E c \in {"ack", "nak", "C", "can", "noise", "ff", "timeout"} :
       /\ SenderReads(c)
       /\ \/ (c = "ack" \/ MinusOne(c)) /\ s' = "sent" /\ UNCHANGED toR
          \/ c # "ack" /\ ~MinusOne(c) /\ PutR(<<NullPacket>>) /\ UNCHANGED s
  /\ UNCHANGED <<blk, crcNak, receiverVars, faults>>

Sender == OpenPort \/ SetInterfaceAttribs \/ StartUpgrade \/ Flush \/ Discard \/ NameAnswered \/ DataRequested \/ BlockAnswered
            \/ EotAnswered \/ NextFileRequested \/ NullAnswered

-----------------------------------------------------------------------------
(* What the receiver answers; lost on a sender that no longer reads. *)
Answer(cs) == IF SenderEnded THEN UNCHANGED toS ELSE toS' = toS \o cs

StartReceiving ==
  /\ r = "off"
  /\ r' = "receiving"
  /\ Answer(<<"C">>)
  /\ UNCHANGED <<senderVars, rxed, errs, got, toR, faults, early>>

(* rx_err_handler *)
GiveUp == Answer(<<"can">>) /\ r' = "zero" /\ UNCHANGED <<rxed, got>>

(* rxptr is at the packet after the rxed - 1 stored since block 0. *)
Stored(body) ==
  [n \in DOMAIN got \cup {rxed} |-> IF n = rxed THEN body ELSE got[n]]

(* The end of the packet, not of the file, is compared with the buffer's.  *)
Overflow == rxed * BlockSize > rxlen

(* A good packet of the number expected. *)
AcceptPacket(t) ==
  \/ /\ rxed = 0 /\ t # NullPacket
     /\ \/ ~Fits(t) /\ GiveUp
        \/ /\ Fits(t)
           /\ Answer(<<"ack", "C">>)
           /\ rxed' = 1 /\ UNCHANGED <<r, got>>
  \/ /\ rxed = 0 /\ t = NullPacket
     /\ Answer(<<"ack">>)
     /\ r' = "done" /\ UNCHANGED <<rxed, got>>
  \/ /\ rxed > 0
     /\ \/ Overflow /\ GiveUp
        \/ /\ ~Overflow
           /\ Answer(<<"ack">>)
           /\ got' = Stored(t.body)
           /\ rxed' = rxed + 1 /\ UNCHANGED r

Expected(n) == n = rxed % SeqMod

(* ym_rx_packet reads a packet to its end: with a char that is not signed. *)
ReceivePacket ==
  /\ r = "receiving" /\ "rx" \notin signed
  /\ toR # <<>> /\ Head(toR).kind = "packet"
  /\ ReceiverReads(Head(toR))
  /\ \/ Expected(Head(toR).seq) /\ AcceptPacket(Head(toR))
     \/ /\ ~Expected(Head(toR).seq)
        /\ Answer(<<"nak">>) /\ UNCHANGED <<r, rxed, got>>
  /\ errs' = 0
  /\ UNCHANGED <<senderVars, faults>>

(* End of the file: the receiver asks for the next one, and counts its     *)
(* packets, and moves rxptr, from 0; rxdata keeps what it holds.           *)
ReceiveEot ==
  /\ r = "receiving"
  /\ ReceiverReads(Token("eot"))
  /\ Answer(<<"ack", "C">>)
  /\ rxed' = 0 /\ errs' = 0
  /\ UNCHANGED <<r, got, senderVars, faults>>

(* A corrupt packet; the count of them starts with the file's data. *)
TooMany(e) == e >= MaxErrors
AskAgain == Answer(<<"C">>)

PacketError ==
  /\ errs' = IF rxed > 0 THEN errs + 1 ELSE errs
  /\ \/ rxed > 0 /\ TooMany(errs') /\ GiveUp
     \/ ~(rxed > 0 /\ TooMany(errs')) /\ AskAgain /\ UNCHANGED <<r, rxed, got>>

ReceiveBad ==
  /\ r = "receiving"
  /\ ReceiverReads(Bad)
  /\ PacketError
  /\ UNCHANGED <<senderVars, faults>>

(***************************************************************************)
(* With a signed char every byte from 0x80 on is below 0, which is taken   *)
(* for the end of the stream.  Either the number of a block or its         *)
(* complement is such a byte, in block 0 the 0xFF: the packet is an error, *)
(* and the rest of it is read as further first characters.  Of block 0     *)
(* that is a name or a row of zeros, an abort.  As no packet is ever       *)
(* acknowledged, no block of the file is sent.  A first character that was *)
(* corrupted may be such a byte too.                                       *)
(***************************************************************************)
ReceiveCut ==
  /\ r = "receiving" /\ "rx" \in signed
  /\ toR # <<>> /\ Head(toR).kind \in {"packet", "bad", "noise"}
  /\ toR' = <<Token("rest")>> \o Tail(toR)
  /\ PacketError
  /\ UNCHANGED <<senderVars, faults, early>>

(* Two CANs - and, the code being what it is, a timeout or any other first *)
(* character: taken for an abort by the sender, and answered with an ACK.  *)
ReceiveAbort ==
  /\ r = "receiving"
  /\ \E k \in {"can", "noise", "rest", "timeout"} : ReceiverReads(Token(k))
  /\ Answer(<<"ack">>)
  /\ errs' = 0
  /\ r' = "zero"
  /\ UNCHANGED <<rxed, got, senderVars, faults>>

Receiver == StartReceiving \/ ReceivePacket \/ ReceiveEot \/ ReceiveBad \/ ReceiveCut
              \/ ReceiveAbort

-----------------------------------------------------------------------------
(* The line loses, or corrupts, what is about to be read. *)
DamagePacket ==
  /\ toR # <<>>
  /\ \/ "lose" \in line /\ toR' = Tail(toR)
     \/ "bad" \in line /\ toR' = <<Bad>> \o Tail(toR)
     \/ "noise" \in line /\ toR' = <<Token("noise")>> \o Tail(toR)
  /\ UNCHANGED toS

DamageAnswer ==
  /\ toS # <<>>
  /\ \/ "lose" \in line /\ toS' = Tail(toS)
     \/ \E c \in line \cap {"noise", "ff"} : toS' = <<c>> \o Tail(toS)
  /\ UNCHANGED toR

Line ==
  /\ faults < MaxFaults
  /\ faults' = faults + 1
  /\ DamagePacket \/ DamageAnswer
  /\ UNCHANGED <<senderVars, receiverVars, early>>

Next == (Sender \/ Receiver \/ Line) /\ UNCHANGED setup

Spec == Init /\ [][Next]_vars

(* Each end is a process that runs on; its reads time out. *)
FairSpec == Spec /\ WF_vars(Sender /\ UNCHANGED setup)
                 /\ WF_vars(Receiver /\ UNCHANGED setup)
-----------------------------------------------------------------------------
File == [n \in 1..Blocks |-> n]

TypeOK ==
  /\ s \in NotSending \cup {"name", "nameC", "data", "eot", "eotC", "null",
                            "sent", "failed", "unopened", "crashed"}
  /\ blk \in 0..Blocks /\ crcNak \in BOOLEAN
  /\ r \in {"off", "receiving", "done", "zero"}
  /\ rxed \in 0..(Blocks + 1) /\ errs \in 0..MaxErrors
  /\ got \in Seq(1..Blocks)

(***************************************************************************)
(* What the receiver stored is always the beginning of the file: no block  *)
(* twice, none skipped, none in the place of another, whatever was lost,   *)
(* sent again or answered twice, and although block numbers wrap around.   *)
(***************************************************************************)
StoredInOrder == got = [n \in 1..Len(got) |-> n]

(***************************************************************************)
(* While the receiver listens, the sender is at most one block ahead of    *)
(* what it stored: every ACK the sender counts is for a block of its own,  *)
(* although an ACK names no block.                                         *)
(***************************************************************************)
NeverAhead ==
  /\ r = "receiving" /\ s = "data" => Len(got) >= blk - 1
  /\ r = "receiving" /\ s = "eot" => Len(got) >= Blocks

(***************************************************************************)
(* The receiver returns a length only for a file that came in full,        *)
(* although it never compares what came with the length announced.         *)
(***************************************************************************)
LengthMeansFile == r = "done" => got = File

(* The buffer holds what is announced; it holds the padded packets too. *)
HoldsFile    == size <= rxlen
HoldsPackets == Blocks * BlockSize <= rxlen

(***************************************************************************)
(* Over a line that only corrupts packets, fewer than the receiver puts up *)
(* with, and although the sender may time out and repeat packets of the    *)
(* file while their answers are on the way, both ends finish in one of     *)
(* these ways.  A transfer that is called sent brought the whole file,     *)
(* and the receiver knows if nothing went wrong; or, if the padding of the *)
(* last packet does not fit, it was refused.  A transfer fails before the  *)
(* file has begun: because the file is too long, a block 0 was corrupted,  *)
(* or the receiver was built with a signed char and can read none.  The    *)
(* sender crashes on a last, short packet only.  (Left out: early timeouts *)
(* of the receiver, which aborts, and in the exchange about block 0, which *)
(* is then repeated for ever.)                                             *)
(***************************************************************************)
Delivered ==
  [](/\ line \subseteq {"bad"} /\ faults < MaxErrors
     /\ early["block0"] = 0 /\ early["receiver"] = 0)
    => <>(/\ ReceiverEnded
          /\ \/ s = "unopened"
             \/ /\ s = "failed" /\ got = <<>>
                /\ faults > 0 \/ ~HoldsFile \/ "rx" \in signed
             \/ s = "crashed" /\ HoldsFile /\ size % BlockSize # 0
             \/ /\ s = "sent" /\ HoldsPackets /\ got = File
                /\ r = "done" \/ faults > 0 \/ early["data"] > 0
             \/ s = "sent" /\ HoldsFile /\ ~HoldsPackets /\ r = "zero")

(* fymodem_send calls a transfer a "success" only if the file came. *)
SentMeansReceived == s = "sent" => got = File
=============================================================================

-------------------------- MODULE TYTSGLRadioProofs --------------------------
(***************************************************************************)
(* The update of a radio of the SGL family, for every length of image,     *)
(* size of transfers and of checksum blocks, and flash: the arithmetic of  *)
(* addresses and checksums keeps its ranges however often the update is    *)
(* started; and with up to four runs - three late answers - one that is    *)
(* past the handshake is in step with the radio, and one that ends well    *)
(* has put the image in place.                                             *)
(***************************************************************************)
EXTENDS TYTSGLRadio, SequenceTheorems, TLAPS

Running == pc \in {"send", "reply"}

Answers == {"UPDATE", "key", "A", "other", ""}

Orders == [k : 1..12, from : Nat, to : Nat]

(* The host: how far it is in the image, and in the block of a checksum. *)
Host ==
  /\ size \in Sizes /\ pc \in {"send", "reply", "done", "threw"} /\ step \in 1..12
  /\ address \in 0..size /\ checksumBlock \in 0..size
  /\ step < 11 => address = 0 /\ checksumBlock = 0
  /\ Running /\ step = 11 =>
       /\ address < size /\ address % TransferSize = 0
       /\ ChecksumBlockSize * checksumBlock <= address
       /\ address < ChecksumBlockSize * (checksumBlock + 1)
  /\ Running /\ step = 12 =>
       /\ ChecksumBlockSize * checksumBlock < address
       /\ address <= ChecksumBlockSize * (checksumBlock + 1)
       /\ address = size \/ address = ChecksumBlockSize * (checksumBlock + 1)

(* The radio, and what is on the way: at most one answer more than there   *)
(* were runs before this one.                                              *)
Queues ==
  /\ cmds \in Seq(Orders) /\ answers \in Seq(Answers) /\ runs \in 1..MaxRuns
  /\ Len(cmds) + Len(answers) <= runs - (IF pc \in {"reply", "threw"} THEN 0 ELSE 1)
  /\ pc = "reply" => Len(cmds) + Len(answers) >= 1
  /\ taken \in 0..12 /\ since \subseteq 0..(FlashSize - 1)
  /\ flash \in [0..(FlashSize - 1) -> Wrong..(FlashSize - 1)]

(* The answers that earlier runs have left, or will. *)
Lag == Len(cmds) + Len(answers) - (IF pc = "reply" THEN 1 ELSE 0)

(* The command of this run that the j-th of all that is on its way answers *)
(* or is; none if that is less than 1.                                     *)
Own(j) == step - 1 - Lag + j

OwnCommands ==
  Running /\ step <= 4 =>
    /\ \A j \in 1..Len(answers) :
         Own(j) >= 1 => answers[j] \in {Answer(Own(j)), "other", ""}
    /\ \A j \in 1..Len(cmds) :
         Own(Len(answers) + j) >= 1 => cmds[j].k = Own(Len(answers) + j)

(* The radio's last answer tells what it took last. *)
LastGood ==
  answers # <<>> /\ answers[Len(answers)] = "A" => taken >= 2

(***************************************************************************)
(* Two answers late.  The second of them, at place 3 - step, must be an OK *)
(* for the run to go on.  Then the radio has left the first command behind *)
(* it, and if it refuses this run's "download", as it must for the run to  *)
(* go on further, it refuses "ok" too.                                     *)
(***************************************************************************)
OkAt(p) == Len(answers) >= p /\ answers[p] = "A"

OkRefused(p) ==
  /\ Len(answers) = p => taken >= 2
  /\ Len(answers) = p + 1 /\ answers[p + 1] # "UPDATE" => taken >= 2
  /\ Len(answers) >= p + 2 /\ answers[p + 1] # "UPDATE" => answers[p + 2] # "A"

TwoLate ==
  Running /\ Lag = 2 =>
    /\ step \in {1, 2} /\ OkAt(3 - step) => OkRefused(3 - step)
    /\ step = 3 => OkRefused(0)
    /\ step = 4 => /\ answers = <<>> => taken >= 2
                   /\ answers # <<>> => answers[1] # "A"

(* The image up to address b, and nothing after it. *)
Image(b) == [a \in 0..(FlashSize - 1) |-> IF a < b THEN a ELSE Erased]

(* The radio as the command of this step finds it, and leaves it. *)
Ready ==
  /\ step >= 5 => taken >= step - 1
  /\ step \in 9..12 => flash = Image(address)
  /\ step \in 11..12 => since = ChecksumBlockSize * checksumBlock .. (address - 1)

Obeyed ==
  /\ taken = step
  /\ step \in 8..12 => flash = Image(IF step = 11 THEN address + Length ELSE address)
  /\ step = 11 => since = ChecksumBlockSize * checksumBlock .. (address + Length - 1)
  /\ step \in {10, 12} => since = {}

Together ==
  /\ Running /\ step >= 5 => Lag = 0
  /\ pc = "done" => Lag = 0 /\ flash = Image(size) /\ since = {}
  /\ pc = "send" /\ Lag = 0 => Ready
  /\ pc = "reply" /\ Lag = 0 =>
       \/ cmds = <<Command>> /\ answers = <<>> /\ Ready
       \/ cmds = <<>> /\ \E v \in Answers : answers = <<v>> /\ (v = "A" => Obeyed)

RangesInv == Host /\ Queues

StepInv == RangesInv /\ OwnCommands /\ LastGood /\ TwoLate /\ Together
-----------------------------------------------------------------------------
(* The steps by number. *)
LEMMA StepNumbers ==
  /\ DOMAIN Steps = 1..12 /\ Len(Steps) = 12
  /\ At("flashProgram") = 4 /\ At("program") = 10 /\ At("data") = 11 /\ At("end") = 12
  /\ \A k \in 1..12 :
       /\ Steps[k] = "download" <=> k = 1
       /\ Steps[k] = "key" <=> k = 3
       /\ Steps[k] = "flashErase" <=> k = 8
       /\ Steps[k] = "program" <=> k = 10
       /\ Steps[k] = "data" <=> k = 11
       /\ Steps[k] = "end" <=> k = 12
<1>1. DOMAIN Steps = 1..12 /\ Len(Steps) = 12
  BY DEF Steps
<1>2. \A k \in 1..12 :
       /\ Steps[k] = "download" <=> k = 1
       /\ Steps[k] = "key" <=> k = 3
       /\ Steps[k] = "flashProgram" <=> k = 4
       /\ Steps[k] = "flashErase" <=> k = 8
       /\ Steps[k] = "program" <=> k = 10
       /\ Steps[k] = "data" <=> k = 11
       /\ Steps[k] = "end" <=> k = 12
  <2> TAKE k \in 1..12
  <2>1. \/ k = 1 \/ k = 2 \/ k = 3 \/ k = 4 \/ k = 5 \/ k = 6 \/ k = 7 \/ k = 8
        \/ k = 9 \/ k = 10 \/ k = 11 \/ k = 12
    OBVIOUS
  <2> QED
    BY <2>1 DEF Steps
<1>3. At("flashProgram") = 4
  BY <1>1, <1>2 DEF At
<1>4. At("program") = 10
  BY <1>1, <1>2 DEF At
<1>5. At("data") = 11
  BY <1>1, <1>2 DEF At
<1>6. At("end") = 12
  BY <1>1, <1>2 DEF At
<1> QED
  BY <1>1, <1>2, <1>3, <1>4, <1>5, <1>6

LEMMA OneMore ==
  ASSUME NEW S, NEW q \in Seq(S), NEW x \in S
  PROVE  /\ Append(q, x) \in Seq(S) /\ Len(Append(q, x)) = Len(q) + 1 /\ Len(q) \in Nat
         /\ \A j \in 1..Len(q) : Append(q, x)[j] = q[j]
         /\ Append(q, x)[Len(q) + 1] = x
         /\ Append(q, x) # <<>>
         /\ q = <<>> => Append(q, x) = <<x>>
<1>1. /\ Append(q, x) \in Seq(S) /\ Len(Append(q, x)) = Len(q) + 1 /\ Len(q) \in Nat
      /\ \A j \in 1..Len(q) : Append(q, x)[j] = q[j]
      /\ Append(q, x)[Len(q) + 1] = x
  BY AppendProperties, LenProperties
<1>2. Append(q, x) # <<>>
  <2>1. Len(Append(q, x)) # 0
    BY <1>1
  <2> QED
    BY <1>1, <2>1, EmptySeq
<1>3. q = <<>> => Append(q, x) = <<x>>
  OBVIOUS
<1> QED
  BY <1>1, <1>2, <1>3

LEMMA OneLess ==
  ASSUME NEW S, NEW q \in Seq(S), q # <<>>
  PROVE  /\ Tail(q) \in Seq(S) /\ Len(Tail(q)) = Len(q) - 1
         /\ Len(q) \in Nat /\ Len(q) >= 1
         /\ \A j \in 1..Len(Tail(q)) : Tail(q)[j] = q[j + 1]
         /\ Head(q) = q[1] /\ Head(q) \in S
         /\ Len(q) = 1 => Tail(q) = <<>>
<1>1. Len(q) \in Nat /\ Len(q) >= 1
  BY EmptySeq
<1>2. /\ Tail(q) \in Seq(S) /\ Len(Tail(q)) = Len(q) - 1 /\ Head(q) \in S
      /\ \A j \in 1..Len(Tail(q)) : Tail(q)[j] = q[j + 1]
  BY HeadTailProperties
<1>3. Head(q) = q[1]
  OBVIOUS
<1>4. ASSUME Len(q) = 1 PROVE Tail(q) = <<>>
  <2>1. Len(Tail(q)) = 0
    BY <1>2, <1>4
  <2> QED
    BY <1>2, <2>1, EmptySeq
<1> QED
  BY <1>1, <1>2, <1>3, <1>4
-----------------------------------------------------------------------------
(* Addresses, and the blocks under one checksum. *)
LEMMA Quotients ==
  ASSUME NEW a \in Nat, NEW b \in Nat \ {0}
  PROVE  /\ a \div b \in Nat /\ a % b \in 0..(b - 1)
         /\ a = b * (a \div b) + (a % b)
  OBVIOUS

(* A product below another, of the same factor. *)
LEMMA Cancel ==
  ASSUME NEW t \in Nat \ {0}, NEW x \in Int, NEW y \in Int, t * x < t * y
  PROVE  x < y /\ t * x + t <= t * y
<1>1. ASSUME x >= y PROVE FALSE
  <2>1. PICK d \in Nat : x = y + d
    <3>1. x - y \in Nat /\ x = y + (x - y)
      BY <1>1
    <3> QED
      BY <3>1
  <2>2. t * x = t * y + t * d
    BY <2>1
  <2>3. t * d \in Nat
    OBVIOUS
  <2>4. t * x \in Int /\ t * y \in Int
    OBVIOUS
  <2> QED
    BY <2>2, <2>3, <2>4
<1>2. PICK e \in Nat : y = x + 1 + e
  <2>1. y - x - 1 \in Nat /\ y = x + 1 + (y - x - 1)
    BY <1>1
  <2> QED
    BY <2>1
<1>3. t * y = t * x + t + t * e
  BY <1>2
<1>4. t * e \in Nat /\ t * x \in Int /\ t * y \in Int
  OBVIOUS
<1> QED
  BY <1>1, <1>3, <1>4

LEMMA MultipleHasNoRest ==
  ASSUME NEW c \in Nat \ {0}, NEW k \in Nat
  PROVE  c * k \in Nat /\ (c * k) % c = 0
<1> DEFINE a == c * k
           q == a \div c
           m == a % c
<1>1. a \in Nat
  OBVIOUS
<1>2. q \in Nat /\ m \in 0..(c - 1) /\ a = c * q + m
  BY <1>1, Quotients
<1> HIDE DEF q, m
<1>3. ASSUME m # 0 PROVE FALSE
  <2>1. c * q < c * k
    <3>1. c * q \in Nat
      BY <1>2
    <3> QED
      BY <1>1, <1>2, <1>3, <3>1
  <2>2. c * q + c <= c * k
    BY <1>2, <2>1, Cancel
  <2>3. c * q \in Nat
    BY <1>2
  <2> QED
    BY <1>1, <1>2, <2>2, <2>3
<1>4. m = 0
  BY <1>3
<1> QED
  BY <1>1, <1>4 DEF m

(* A multiple strictly between two neighbouring multiples, or at the upper. *)
LEMMA NextMultiple ==
  ASSUME NEW c \in Nat \ {0}, NEW b \in Nat, NEW a \in Nat,
         c * b < a, a <= c * (b + 1)
  PROVE  a % c = 0 <=> a = c * (b + 1)
<1> DEFINE q == a \div c
<1>1. ASSUME a % c = 0 PROVE a = c * (b + 1)
  <2>1. q \in Nat /\ a = c * q
    <3>1. q \in Nat /\ a % c \in 0..(c - 1) /\ a = c * q + (a % c)
      BY Quotients
    <3>2. c * q \in Nat
      BY <3>1
    <3> QED
      BY <1>1, <3>1, <3>2
  <2> HIDE DEF q
  <2>2. b < q
    BY <2>1, Cancel
  <2>3. ASSUME b + 1 < q PROVE FALSE
    <3>1. PICK d \in Nat \ {0} : q = b + 1 + d
      <4>1. q - (b + 1) \in Nat \ {0} /\ q = b + 1 + (q - (b + 1))
        BY <2>1, <2>3
      <4> QED
        BY <4>1
    <3>2. c * q = c * (b + 1) + c * d
      BY <3>1
    <3>3. c * d \in Nat \ {0} /\ c * (b + 1) \in Nat
      OBVIOUS
    <3> QED
      BY <2>1, <3>2, <3>3
  <2>4. q = b + 1
    BY <2>1, <2>2, <2>3
  <2> QED
    BY <2>1, <2>4
<1>2. ASSUME a = c * (b + 1) PROVE a % c = 0
  BY <1>2, MultipleHasNoRest
<1> QED
  BY <1>1, <1>2

(* What is a multiple of the block is one of the transfer. *)
LEMMA MultipleOfMultiple ==
  ASSUME NEW t \in Nat \ {0}, NEW c \in Nat \ {0}, c % t = 0, NEW k \in Nat
  PROVE  (c * k) % t = 0
<1> DEFINE m == c \div t
<1>1. m \in Nat /\ c = t * m
  <2>1. m \in Nat /\ c % t \in 0..(t - 1) /\ c = t * m + (c % t)
    BY Quotients
  <2>2. t * m \in Nat
    BY <2>1
  <2> QED
    BY <2>1, <2>2
<1> HIDE DEF m
<1>2. c * k = t * (m * k) /\ m * k \in Nat
  BY <1>1
<1> QED
  BY <1>2, MultipleHasNoRest

(* One transfer more from a place in a block stays in the block. *)
LEMMA TransferFits ==
  ASSUME NEW t \in Nat \ {0}, NEW c \in Nat \ {0}, c % t = 0,
         NEW a \in Nat, a % t = 0, NEW b \in Nat, a < c * (b + 1)
  PROVE  a + t <= c * (b + 1) /\ (a + t) % t = 0
<1> DEFINE m == c \div t
           q == a \div t
<1>1. m \in Nat /\ c = t * m /\ q \in Nat /\ a = t * q
  <2>1. m \in Nat /\ c % t \in 0..(t - 1) /\ c = t * m + (c % t)
    BY Quotients
  <2>2. q \in Nat /\ a % t \in 0..(t - 1) /\ a = t * q + (a % t)
    BY Quotients
  <2>3. t * m \in Nat /\ t * q \in Nat
    BY <2>1, <2>2
  <2> QED
    BY <2>1, <2>2, <2>3
<1> HIDE DEF m, q
<1>2. c * (b + 1) = t * (m * (b + 1)) /\ m * (b + 1) \in Nat
  BY <1>1
<1>3. t * q < t * (m * (b + 1))
  BY <1>1, <1>2
<1>4. t * q + t <= t * (m * (b + 1))
  BY <1>1, <1>2, <1>3, Cancel
<1>5. a + t = t * (q + 1) /\ q + 1 \in Nat
  BY <1>1
<1> QED
  BY <1>1, <1>2, <1>4, <1>5, MultipleHasNoRest
-----------------------------------------------------------------------------
LEMMA Sizings ==
  ASSUME Host
  PROVE  /\ TransferSize \in Nat \ {0} /\ ChecksumBlockSize \in Nat \ {0}
         /\ ChecksumBlockSize % TransferSize = 0 /\ FlashSize \in Nat
         /\ size \in Nat /\ size <= FlashSize /\ address \in Nat /\ address <= size
         /\ checksumBlock \in Nat /\ step \in 1..12
         /\ ChecksumBlockSize * checksumBlock \in Nat
         /\ ChecksumBlockSize * (checksumBlock + 1) \in Nat
<1>1. /\ size \in Sizes /\ address \in 0..size /\ checksumBlock \in 0..size
      /\ step \in 1..12
  BY DEF Host
<1>2. size \in Nat /\ size <= FlashSize /\ FlashSize \in Nat
  BY <1>1, SGLAssumption
<1>3. /\ TransferSize \in Nat \ {0} /\ ChecksumBlockSize \in Nat \ {0}
      /\ ChecksumBlockSize % TransferSize = 0
  BY SGLAssumption
<1> QED
  BY <1>1, <1>2, <1>3

LEMMA LengthFacts ==
  ASSUME Host, Running, step = 11
  PROVE  /\ Length \in Nat \ {0} /\ address + Length \in Nat
         /\ address + Length <= size
         /\ ChecksumBlockSize * checksumBlock <= address
         /\ ChecksumBlockSize * checksumBlock < address + Length
         /\ address + Length <= ChecksumBlockSize * (checksumBlock + 1)
         /\ address + Length < size => (address + Length) % TransferSize = 0
<1>1. /\ TransferSize \in Nat \ {0} /\ ChecksumBlockSize \in Nat \ {0}
      /\ ChecksumBlockSize % TransferSize = 0
      /\ size \in Nat /\ address \in Nat /\ checksumBlock \in Nat
      /\ ChecksumBlockSize * checksumBlock \in Nat
      /\ ChecksumBlockSize * (checksumBlock + 1) \in Nat
  BY Sizings
<1>2. /\ address < size /\ address % TransferSize = 0
      /\ ChecksumBlockSize * checksumBlock <= address
      /\ address < ChecksumBlockSize * (checksumBlock + 1)
  BY DEF Host
<1>3. /\ address + TransferSize <= ChecksumBlockSize * (checksumBlock + 1)
      /\ (address + TransferSize) % TransferSize = 0
  BY <1>1, <1>2, TransferFits
<1>4. \/ Length = TransferSize /\ TransferSize < size - address
      \/ Length = size - address /\ size - address <= TransferSize
  BY <1>1, <1>2 DEF Length, Lower
<1> QED
  BY <1>1, <1>2, <1>3, <1>4

(* A checksum is due just at the end of a block, and of the image. *)
LEMMA AfterTransfer ==
  ASSUME Host, Running, step = 11
  PROVE  LET a == address + Length IN
         /\ SumDue(a) => a = size \/ a = ChecksumBlockSize * (checksumBlock + 1)
         /\ ~SumDue(a) => /\ a < size /\ a % TransferSize = 0
                          /\ a < ChecksumBlockSize * (checksumBlock + 1)
<1> DEFINE a == address + Length
<1>1. /\ ChecksumBlockSize \in Nat \ {0} /\ size \in Nat /\ checksumBlock \in Nat
      /\ ChecksumBlockSize * (checksumBlock + 1) \in Nat
  BY Sizings
<1>2. /\ a \in Nat /\ a <= size
      /\ ChecksumBlockSize * checksumBlock < a
      /\ a <= ChecksumBlockSize * (checksumBlock + 1)
      /\ a < size => a % TransferSize = 0
  BY LengthFacts
<1> HIDE DEF a
<1>3. a % ChecksumBlockSize = 0 <=> a = ChecksumBlockSize * (checksumBlock + 1)
  BY <1>1, <1>2, NextMultiple
<1>4. SumDue(a) => a = size \/ a = ChecksumBlockSize * (checksumBlock + 1)
  BY <1>3 DEF SumDue
<1>5. ~SumDue(a) => /\ a < size /\ a % TransferSize = 0
                    /\ a < ChecksumBlockSize * (checksumBlock + 1)
  BY <1>1, <1>2, <1>3 DEF SumDue
<1> QED
  BY <1>4, <1>5 DEF a

LEMMA CommandFacts ==
  ASSUME Host, Running
  PROVE  /\ Command \in Orders /\ Command.k = step
         /\ step = 11 => Command.from = address /\ Command.to = address + Length
         /\ step \notin {11, 12} => Command.to = 0
<1>1. /\ step \in 1..12 /\ address \in Nat
      /\ ChecksumBlockSize * checksumBlock \in Nat
      /\ Steps[step] = "data" <=> step = 11
      /\ Steps[step] = "end" <=> step = 12
  BY Sizings, StepNumbers
<1>2. CASE step = 11
  <2>1. address + Length \in Nat
    BY <1>2, LengthFacts
  <2>2. RangeOf(step) = [from |-> address, to |-> address + Length]
    BY <1>1, <1>2 DEF RangeOf
  <2> QED
    BY <1>1, <1>2, <2>1, <2>2 DEF Command, Orders
<1>3. CASE step = 12
  <2>1. RangeOf(step) = [from |-> ChecksumBlockSize * checksumBlock, to |-> address]
    BY <1>1, <1>3 DEF RangeOf, SumRange
  <2> QED
    BY <1>1, <1>3, <2>1 DEF Command, Orders
<1>4. CASE step \notin {11, 12}
  <2>1. RangeOf(step) = [from |-> 0, to |-> 0]
    BY <1>1, <1>4 DEF RangeOf
  <2> QED
    BY <1>1, <1>4, <2>1 DEF Command, Orders
<1> QED
  BY <1>2, <1>3, <1>4

LEMMA SendHost ==
  ASSUME Host, Send
  PROVE  Host'
  BY DEF Host, Send, Running

(* The four ways on after an answer that was expected. *)
LEMMA HandshakenHost ==
  ASSUME Host, pc = "reply", UNCHANGED size, Handshaken
  PROVE  Host' /\ step < 10 /\ step' = step + 1 /\ pc' = "send"
<1>1. step < 10 /\ step \in 1..12 /\ step' = step + 1 /\ pc' = "send"
  BY StepNumbers DEF Handshaken, Host
<1> QED
  BY <1>1 DEF Host, Running, Handshaken

LEMMA ProgrammingHost ==
  ASSUME Host, pc = "reply", UNCHANGED size, Programming
  PROVE  /\ Host' /\ step = 10 /\ UNCHANGED <<address, checksumBlock>> /\ address = 0
         /\ \/ step' = 11 /\ pc' = "send"
            \/ step' = 10 /\ pc' = "done" /\ size = 0
<1>1. step = 10 /\ UNCHANGED <<address, checksumBlock>>
  BY StepNumbers DEF Programming, Host
<1>2. address = 0 /\ checksumBlock = 0
  BY <1>1 DEF Host
<1>3. size \in Nat /\ TransferSize \in Nat \ {0} /\ ChecksumBlockSize \in Nat \ {0}
  BY Sizings
<1>4. \/ step' = 11 /\ pc' = "send" /\ 0 < size
      \/ step' = 10 /\ pc' = "done" /\ size = 0
  BY <1>1, <1>3, StepNumbers DEF Programming, NextTransfer, More
<1>5. /\ ChecksumBlockSize * 0 = 0 /\ ChecksumBlockSize * (0 + 1) = ChecksumBlockSize
      /\ 0 % TransferSize = 0
  BY <1>3
<1>6. Host'
  BY <1>1, <1>2, <1>3, <1>4, <1>5 DEF Host, Running
<1> QED
  BY <1>1, <1>2, <1>4, <1>6

LEMMA TransferredHost ==
  ASSUME Host, pc = "reply", UNCHANGED size, Transferred
  PROVE  /\ Host' /\ step = 11 /\ pc' = "send" /\ step' \in {11, 12}
         /\ address' = address + Length /\ UNCHANGED checksumBlock
<1>1. step = 11 /\ address' = address + Length /\ UNCHANGED checksumBlock /\ Running
  BY StepNumbers DEF Transferred, Host, Running
<1>2. /\ size \in Nat /\ size \in Sizes /\ checksumBlock \in 0..size
      /\ ChecksumBlockSize * checksumBlock \in Nat
  BY Sizings DEF Host
<1>3. /\ address' \in Nat /\ address' <= size
      /\ ChecksumBlockSize * checksumBlock < address'
      /\ address' <= ChecksumBlockSize * (checksumBlock + 1)
  BY <1>1, LengthFacts
<1>4. CASE SumDue(address')
  <2>1. step' = 12 /\ pc' = "send"
    BY <1>1, <1>4, StepNumbers DEF Transferred
  <2>2. address' = size \/ address' = ChecksumBlockSize * (checksumBlock + 1)
    BY <1>1, <1>4, AfterTransfer
  <2> QED
    BY <1>1, <1>2, <1>3, <2>1, <2>2 DEF Host, Running
<1>5. CASE ~SumDue(address')
  <2>1. /\ address' < size /\ address' % TransferSize = 0
        /\ address' < ChecksumBlockSize * (checksumBlock + 1)
    BY <1>1, <1>5, AfterTransfer
  <2>2. step' = 11 /\ pc' = "send"
    BY <1>1, <1>5, <2>1, StepNumbers DEF Transferred, NextTransfer, More
  <2>3. ChecksumBlockSize * checksumBlock <= address'
    BY <1>2, <1>3
  <2> QED
    BY <1>1, <1>2, <1>3, <2>1, <2>2, <2>3 DEF Host, Running
<1> QED
  BY <1>4, <1>5

LEMMA SummedHost ==
  ASSUME Host, pc = "reply", UNCHANGED size, Summed
  PROVE  /\ Host' /\ step = 12 /\ checksumBlock' = checksumBlock + 1 /\ UNCHANGED address
         /\ \/ /\ step' = 11 /\ pc' = "send"
               /\ address = ChecksumBlockSize * (checksumBlock + 1)
            \/ step' = 12 /\ pc' = "done" /\ address = size
<1>1. step = 12 /\ checksumBlock' = checksumBlock + 1 /\ UNCHANGED address /\ Running
  BY StepNumbers DEF Summed, Host, Running
<1>2. /\ size \in Nat /\ size \in Sizes /\ checksumBlock \in Nat /\ address \in Nat
      /\ address <= size
      /\ ChecksumBlockSize \in Nat \ {0} /\ TransferSize \in Nat \ {0}
      /\ ChecksumBlockSize % TransferSize = 0
      /\ ChecksumBlockSize * checksumBlock \in Nat
  BY Sizings DEF Host
<1>3. /\ ChecksumBlockSize * checksumBlock < address
      /\ address = size \/ address = ChecksumBlockSize * (checksumBlock + 1)
  BY <1>1 DEF Host
<1>4. checksumBlock + 1 \in 0..size
  <2>1. checksumBlock <= ChecksumBlockSize * checksumBlock
    <3>1. PICK d \in Nat : ChecksumBlockSize = 1 + d
      <4>1. ChecksumBlockSize - 1 \in Nat /\ ChecksumBlockSize = 1 + (ChecksumBlockSize - 1)
        BY <1>2
      <4> QED
        BY <4>1
    <3>2. ChecksumBlockSize * checksumBlock = checksumBlock + d * checksumBlock
      BY <1>2, <3>1
    <3>3. d * checksumBlock \in Nat
      BY <1>2
    <3> QED
      BY <1>2, <3>2, <3>3
  <2> QED
    BY <1>2, <1>3, <2>1
<1>5. CASE address < size
  <2>1. step' = 11 /\ pc' = "send"
    BY <1>1, <1>5, StepNumbers DEF Summed, NextTransfer, More
  <2>2. address = ChecksumBlockSize * (checksumBlock + 1)
    BY <1>2, <1>3, <1>5
  <2>3. address % TransferSize = 0
    <3>1. checksumBlock + 1 \in Nat
      BY <1>2
    <3>2. (ChecksumBlockSize * (checksumBlock + 1)) % TransferSize = 0
      BY <1>2, <3>1, MultipleOfMultiple
    <3> QED
      BY <2>2, <3>2
  <2>4. address < ChecksumBlockSize * (checksumBlock + 1 + 1)
    <3>1. ChecksumBlockSize * (checksumBlock + 1 + 1)
            = ChecksumBlockSize * (checksumBlock + 1) + ChecksumBlockSize
      BY <1>2
    <3> QED
      BY <1>2, <2>2, <3>1
  <2>5. Host'
    BY <1>1, <1>2, <1>4, <1>5, <2>1, <2>2, <2>3, <2>4 DEF Host, Running
  <2> QED
    BY <1>1, <2>1, <2>2, <2>5
<1>6. CASE ~(address < size)
  <2>1. step' = 12 /\ pc' = "done" /\ address = size
    BY <1>1, <1>2, <1>6, StepNumbers DEF Summed, NextTransfer, More
  <2>2. Host'
    BY <1>1, <1>2, <1>4, <2>1 DEF Host, Running
  <2> QED
    BY <1>1, <2>1, <2>2
<1> QED
  BY <1>5, <1>6
-----------------------------------------------------------------------------
(* The radio takes a command, or does not. *)
LEMMA FlashAfterFacts ==
  ASSUME NEW c \in Orders
  PROVE  /\ c.k = 8 => FlashAfter(c) = [a \in DOMAIN flash |-> Erased]
         /\ c.k = 11 => FlashAfter(c) =
              [a \in DOMAIN flash |->
                 IF a \notin Bytes(c) THEN flash[a]
                 ELSE IF a < size /\ flash[a] = Erased THEN a ELSE Wrong]
         /\ c.k \notin {8, 11} => FlashAfter(c) = flash
<1>1. /\ c.k \in 1..12
      /\ Steps[c.k] = "flashErase" <=> c.k = 8
      /\ Steps[c.k] = "data" <=> c.k = 11
  BY StepNumbers DEF Orders
<1>2. CASE c.k = 8
  <2>1. Steps[c.k] = "flashErase" /\ ~(Steps[c.k] = "data") /\ 8 # 11
    BY <1>1, <1>2
  <2>2. FlashAfter(c) = [a \in DOMAIN flash |-> Erased]
    BY <2>1, Zenon DEF FlashAfter
  <2> QED
    BY <1>2, <2>2
<1>3. CASE c.k = 11
  <2>1. Steps[c.k] = "data" /\ ~(Steps[c.k] = "flashErase")
    BY <1>1, <1>3
  <2>2. FlashAfter(c) =
              [a \in DOMAIN flash |->
                 IF a \notin Bytes(c) THEN flash[a]
                 ELSE IF a < size /\ flash[a] = Erased THEN a ELSE Wrong]
    BY <2>1, Zenon DEF FlashAfter
  <2> QED
    BY <1>3, <2>2
<1>4. CASE c.k \notin {8, 11}
  <2>1. ~(Steps[c.k] = "data") /\ ~(Steps[c.k] = "flashErase")
    BY <1>1, <1>4
  <2>2. FlashAfter(c) = flash
    BY <2>1, Zenon DEF FlashAfter
  <2> QED
    BY <1>4, <2>2
<1> QED
  BY <1>2, <1>3, <1>4

LEMMA Taken ==
  ASSUME Host, Queues, RadioTakes
  PROVE  LET c == Head(cmds) IN
         /\ cmds # <<>> /\ c \in Orders /\ c = cmds[1] /\ c.k \in 1..12
         /\ taken' = c.k /\ cmds' = Tail(cmds) /\ answers' = Append(answers, Answer(c.k))
         /\ Answer(c.k) \in Answers /\ (Answer(c.k) = "A" => c.k >= 2)
         /\ c.k \notin {1, 3} => Answer(c.k) = "A"
         /\ c.k = 1 => Answer(c.k) = "UPDATE"
         /\ c.k = 2 => taken = 1
         /\ flash' = FlashAfter(c)
         /\ since' = IF c.k = 11 THEN since \cup Bytes(c) ELSE {}
         /\ c.k = 11 => Bytes(c) \subseteq 0..(FlashSize - 1)
         /\ UNCHANGED hostVars /\ UNCHANGED runs
<1> DEFINE c == Head(cmds)
<1>1. cmds # <<>> /\ Accepts(c) /\ cmds \in Seq(Orders) /\ taken \in 0..12
  BY DEF RadioTakes, Queues
<1>2. c \in Orders /\ c = cmds[1]
  BY <1>1, OneLess
<1>3. /\ taken' = c.k /\ cmds' = Tail(cmds) /\ answers' = Append(answers, Answer(c.k))
      /\ flash' = FlashAfter(c) /\ UNCHANGED hostVars /\ UNCHANGED runs
      /\ since' = IF Steps[c.k] = "data" THEN since \cup Bytes(c) ELSE {}
  BY DEF RadioTakes
<1> HIDE DEF c
<1>4. /\ c.k \in 1..12
      /\ Steps[c.k] = "download" <=> c.k = 1
      /\ Steps[c.k] = "key" <=> c.k = 3
      /\ Steps[c.k] = "data" <=> c.k = 11
      /\ Steps[c.k] = "end" <=> c.k = 12
  BY <1>2, StepNumbers DEF Orders
<1>5. /\ Answer(c.k) \in Answers
      /\ c.k = 1 => Answer(c.k) = "UPDATE"
      /\ c.k = 3 => Answer(c.k) = "key"
      /\ c.k \notin {1, 3} => Answer(c.k) = "A"
  BY <1>4 DEF Answer, Answers
<1>6. c.k = 2 => taken = 1
  BY <1>1, <1>4 DEF Accepts
<1>7. c.k = 11 => Bytes(c) \subseteq 0..(FlashSize - 1)
  <2>1. DOMAIN flash = 0..(FlashSize - 1)
    BY DEF Queues
  <2>2. At("data") = 11
    BY StepNumbers
  <2> QED
    BY <1>1, <1>4, <2>1, <2>2 DEF Accepts
<1> QED
  BY <1>1, <1>2, <1>3, <1>4, <1>5, <1>6, <1>7 DEF c

LEMMA NotTaken ==
  ASSUME Queues, RadioRefuses
  PROVE  /\ cmds # <<>> /\ cmds' = Tail(cmds) /\ UNCHANGED <<hostVars, radioVars, runs>>
         /\ \E v \in {"other", ""} : v \in Answers /\ answers' = Append(answers, v)
  BY DEF RadioRefuses, Answers

(* Either way an answer takes the place of a command. *)
LEMMA OneAnswer ==
  ASSUME Host, Queues, Radio
  PROVE  /\ cmds # <<>> /\ Head(cmds) \in Orders /\ Head(cmds) = cmds[1]
         /\ cmds' = Tail(cmds) /\ cmds' \in Seq(Orders)
         /\ Len(cmds) \in Nat /\ Len(cmds) >= 1 /\ Len(cmds') = Len(cmds) - 1
         /\ \A j \in 1..Len(cmds') : cmds'[j] = cmds[j + 1]
         /\ answers' \in Seq(Answers) /\ Len(answers) \in Nat
         /\ Len(answers') = Len(answers) + 1 /\ answers' # <<>>
         /\ \A j \in 1..Len(answers) : answers'[j] = answers[j]
         /\ answers'[Len(answers) + 1] \in {Answer(Head(cmds).k), "other", ""}
         /\ UNCHANGED <<size, pc, step, address, checksumBlock, runs>>
<1>1. cmds \in Seq(Orders) /\ answers \in Seq(Answers)
  BY DEF Queues
<1>2. /\ cmds # <<>> /\ cmds' = Tail(cmds)
      /\ UNCHANGED hostVars /\ UNCHANGED runs
      /\ \E v \in Answers : /\ answers' = Append(answers, v)
                            /\ v \in {Answer(Head(cmds).k), "other", ""}
  BY Taken, NotTaken DEF Radio
<1>3. PICK v \in Answers : /\ answers' = Append(answers, v)
                           /\ v \in {Answer(Head(cmds).k), "other", ""}
  BY <1>2
<1>4. /\ answers' \in Seq(Answers) /\ Len(answers) \in Nat
      /\ Len(answers') = Len(answers) + 1 /\ answers' # <<>>
      /\ \A j \in 1..Len(answers) : answers'[j] = answers[j]
      /\ answers'[Len(answers) + 1] = v
  <2>1. answers' = Append(answers, v) /\ answers \in Seq(Answers)
    BY <1>1, <1>3
  <2>2. Append(answers, v) # <<>>
    BY <2>1, OneMore
  <2>3. \A j \in 1..Len(answers) : Append(answers, v)[j] = answers[j]
    BY <2>1, AppendProperties
  <2>4. /\ Append(answers, v) \in Seq(Answers) /\ Len(answers) \in Nat
        /\ Len(Append(answers, v)) = Len(answers) + 1
        /\ Append(answers, v)[Len(answers) + 1] = v
    BY <2>1, OneMore
  <2> QED
    BY <2>1, <2>2, <2>3, <2>4
<1>5. /\ Head(cmds) \in Orders /\ Head(cmds) = cmds[1]
      /\ cmds' \in Seq(Orders) /\ Len(cmds) \in Nat /\ Len(cmds) >= 1
      /\ Len(cmds') = Len(cmds) - 1
      /\ \A j \in 1..Len(cmds') : cmds'[j] = cmds[j + 1]
  BY <1>1, <1>2, OneLess
<1> QED
  BY <1>2, <1>3, <1>4, <1>5 DEF hostVars

LEMMA RadioRanges ==
  ASSUME RangesInv, Radio
  PROVE  RangesInv'
<1>1. Host /\ Queues /\ FlashSize \in Nat
  BY Sizings DEF RangesInv
<1>2. /\ cmds' \in Seq(Orders) /\ answers' \in Seq(Answers)
      /\ Len(cmds) \in Nat /\ Len(answers) \in Nat
      /\ Len(cmds') = Len(cmds) - 1 /\ Len(answers') = Len(answers) + 1
      /\ UNCHANGED <<size, pc, step, address, checksumBlock, runs>>
  BY <1>1, OneAnswer
<1>3. Host'
  BY <1>1, <1>2 DEF Host, Running
<1>4. /\ taken' \in 0..12 /\ since' \subseteq 0..(FlashSize - 1)
      /\ flash' \in [0..(FlashSize - 1) -> Wrong..(FlashSize - 1)]
  <2>1. CASE RadioRefuses
    BY <1>1, <2>1, NotTaken DEF Queues, radioVars
  <2>2. CASE RadioTakes
    <3> DEFINE c == Head(cmds)
    <3>1. /\ c \in Orders /\ c.k \in 1..12 /\ taken' = c.k /\ flash' = FlashAfter(c)
          /\ since' = IF c.k = 11 THEN since \cup Bytes(c) ELSE {}
          /\ c.k = 11 => Bytes(c) \subseteq 0..(FlashSize - 1)
      BY <1>1, <2>2, Taken
    <3> HIDE DEF c
    <3>2. flash \in [0..(FlashSize - 1) -> Wrong..(FlashSize - 1)]
      BY <1>1 DEF Queues
    <3>3. FlashAfter(c) \in [0..(FlashSize - 1) -> Wrong..(FlashSize - 1)]
      <4>1. CASE c.k = 8
        <5>1. Erased \in Wrong..(FlashSize - 1)
          BY <1>1 DEF Erased, Wrong
        <5> QED
          BY <3>1, <3>2, <4>1, <5>1, FlashAfterFacts
      <4>2. CASE c.k = 11
        <5>1. Wrong \in Wrong..(FlashSize - 1)
              /\ \A a \in 0..(FlashSize - 1) : a \in Wrong..(FlashSize - 1)
          BY <1>1 DEF Wrong
        <5>2. DOMAIN flash = 0..(FlashSize - 1)
          BY <3>2
        <5>3. FlashAfter(c) =
              [a \in 0..(FlashSize - 1) |->
                 IF a \notin Bytes(c) THEN flash[a]
                 ELSE IF a < size /\ flash[a] = Erased THEN a ELSE Wrong]
          BY <3>1, <4>2, <5>2, FlashAfterFacts
        <5> QED
          BY <3>2, <5>1, <5>3
      <4>3. CASE c.k \notin {8, 11}
        BY <3>1, <3>2, <4>3, FlashAfterFacts
      <4> QED
        BY <4>1, <4>2, <4>3
    <3>4. since' \subseteq 0..(FlashSize - 1)
      BY <1>1, <3>1 DEF Queues
    <3> QED
      BY <3>1, <3>3, <3>4
  <2> QED
    BY <2>1, <2>2 DEF Radio
<1>5. Queues'
  BY <1>1, <1>2, <1>4 DEF Queues
<1> QED
  BY <1>3, <1>5 DEF RangesInv
-----------------------------------------------------------------------------
(* The host sends a command, and reads an answer. *)
LEMMA Sent ==
  ASSUME Host, Queues, Running, cmds' = Append(cmds, Command)
  PROVE  /\ cmds' \in Seq(Orders) /\ Len(cmds) \in Nat /\ Len(cmds') = Len(cmds) + 1
         /\ \A j \in 1..Len(cmds) : cmds'[j] = cmds[j]
         /\ cmds'[Len(cmds) + 1] = Command /\ Command.k = step
         /\ cmds = <<>> => cmds' = <<Command>>
<1>1. cmds \in Seq(Orders) /\ Command \in Orders /\ Command.k = step
  BY CommandFacts DEF Queues
<1>2. PICK c \in Orders : c = Command
  BY <1>1
<1>3. cmds' = Append(cmds, c)
  BY <1>2
<1>4. /\ Append(cmds, c) \in Seq(Orders) /\ Len(cmds) \in Nat
      /\ Len(Append(cmds, c)) = Len(cmds) + 1
      /\ Append(cmds, c)[Len(cmds) + 1] = c
      /\ cmds = <<>> => Append(cmds, c) = <<c>>
  BY <1>1, OneMore
<1>5. \A j \in 1..Len(cmds) : Append(cmds, c)[j] = cmds[j]
  BY <1>1, AppendProperties
<1> QED
  BY <1>1, <1>2, <1>3, <1>4, <1>5

LEMMA AnswerGone ==
  ASSUME Queues, answers # <<>>, answers' = Tail(answers)
  PROVE  /\ answers' \in Seq(Answers) /\ Len(answers) \in Nat /\ Len(answers) >= 1
         /\ Len(answers') = Len(answers) - 1 /\ Head(answers) = answers[1]
         /\ Head(answers) \in Answers
         /\ \A j \in 1..Len(answers') : answers'[j] = answers[j + 1]
         /\ Len(answers) = 1 => answers' = <<>>
<1>1. answers \in Seq(Answers)
  BY DEF Queues
<1> QED
  BY <1>1, OneLess

LEMMA ReadHost ==
  ASSUME Host, ReadAnswer
  PROVE  Host' /\ pc' # "reply"
<1>1. pc = "reply" /\ UNCHANGED size
  BY DEF ReadAnswer
<1>2. CASE Handshaken \/ Programming \/ Transferred \/ Summed
  BY <1>1, <1>2, HandshakenHost, ProgrammingHost, TransferredHost, SummedHost
<1>3. CASE pc' = "threw" /\ UNCHANGED <<step, address, checksumBlock>>
  BY <1>1, <1>3 DEF Host, Running
<1> QED
  BY <1>2, <1>3 DEF ReadAnswer

LEMMA HostRanges ==
  ASSUME RangesInv, WriteFirmware \/ TransferFails \/ Rerun
  PROVE  RangesInv'
<1>1. /\ Host /\ Queues /\ cmds \in Seq(Orders) /\ answers \in Seq(Answers)
      /\ Len(cmds) \in Nat /\ Len(answers) \in Nat
      /\ size \in Nat /\ MaxRuns \in Nat \ {0} /\ runs \in 1..MaxRuns
  BY Sizings, LenProperties, SGLAssumption DEF RangesInv, Queues
<1>2. CASE Send
  <2>1. /\ pc = "send" /\ pc' = "reply" /\ cmds' = Append(cmds, Command)
        /\ UNCHANGED <<answers, runs, taken, since, flash>>
    BY <1>2 DEF Send, radioVars
  <2>2. cmds' \in Seq(Orders) /\ Len(cmds') = Len(cmds) + 1
    BY <1>1, <2>1, Sent DEF Running
  <2>3. Queues'
    BY <1>1, <2>1, <2>2 DEF Queues
  <2> QED
    BY <1>1, <1>2, <2>3, SendHost DEF RangesInv
<1>3. CASE ReadAnswer
  <2>1. /\ pc = "reply" /\ answers # <<>> /\ answers' = Tail(answers)
        /\ UNCHANGED <<cmds, runs, taken, since, flash>>
    BY <1>3 DEF ReadAnswer, radioVars
  <2>2. answers' \in Seq(Answers) /\ Len(answers') = Len(answers) - 1
    BY <1>1, <2>1, AnswerGone
  <2>3. Host' /\ pc' # "reply"
    BY <1>1, <1>3, ReadHost
  <2>4. Queues'
    BY <1>1, <2>1, <2>2, <2>3 DEF Queues
  <2> QED
    BY <2>3, <2>4 DEF RangesInv
<1>4. CASE TransferFails
  <2>1. /\ Running /\ pc' = "threw"
        /\ UNCHANGED <<size, step, address, checksumBlock>>
        /\ UNCHANGED <<answers, runs, taken, since, flash>>
        /\ cmds' = cmds \/ (pc = "send" /\ cmds' = Append(cmds, Command))
    BY <1>4 DEF TransferFails, radioVars, Running
  <2>2. /\ cmds' \in Seq(Orders)
        /\ Len(cmds') = Len(cmds) \/ (pc = "send" /\ Len(cmds') = Len(cmds) + 1)
    BY <1>1, <2>1, Sent
  <2>3. Queues'
    BY <1>1, <2>1, <2>2 DEF Queues, Running
  <2>4. Host'
    BY <1>1, <2>1 DEF Host, Running
  <2> QED
    BY <2>3, <2>4 DEF RangesInv
<1>5. CASE Rerun
  <2>1. /\ pc \in {"done", "threw"} /\ runs < MaxRuns /\ runs' = runs + 1
        /\ pc' = "send" /\ step' = 1 /\ address' = 0 /\ checksumBlock' = 0
        /\ UNCHANGED <<size, flash>>
        /\ \/ UNCHANGED <<taken, since, cmds, answers>>
           \/ taken' = 0 /\ since' = {} /\ cmds' = <<>> /\ answers' = <<>>
    BY <1>5 DEF Rerun
  <2>2. Host'
    BY <1>1, <2>1 DEF Host, Running
  <2>3. CASE UNCHANGED <<taken, since, cmds, answers>>
    BY <1>1, <2>1, <2>2, <2>3 DEF Queues, RangesInv
  <2>4. CASE taken' = 0 /\ since' = {} /\ cmds' = <<>> /\ answers' = <<>>
    <3>1. /\ cmds' \in Seq(Orders) /\ answers' \in Seq(Answers)
          /\ Len(cmds') = 0 /\ Len(answers') = 0
      BY <2>4
    <3> QED
      BY <1>1, <2>1, <2>2, <2>4, <3>1 DEF Queues, RangesInv
  <2> QED
    BY <2>1, <2>3, <2>4
<1> QED
  BY <1>2, <1>3, <1>4, <1>5 DEF WriteFirmware

LEMMA InitRanges ==
  ASSUME Init
  PROVE  RangesInv
<1>1. /\ size \in Sizes /\ size \in Nat /\ FlashSize \in Nat /\ MaxRuns \in Nat \ {0}
  BY SGLAssumption DEF Init
<1>2. Host
  BY <1>1 DEF Init, Host, Running
<1>3. /\ <<>> \in Seq(Orders) /\ <<>> \in Seq(Answers) /\ Len(<<>>) = 0
  OBVIOUS
<1>4. flash \in [0..(FlashSize - 1) -> Wrong..(FlashSize - 1)]
  <2>1. Old \in Wrong..(FlashSize - 1)
    BY <1>1 DEF Old, Wrong
  <2> QED
    BY <2>1 DEF Init
<1>5. Queues
  BY <1>1, <1>3, <1>4 DEF Init, Queues
<1> QED
  BY <1>2, <1>5 DEF RangesInv

LEMMA RangesInvariant == Spec => []RangesInv
<1>1. Init => RangesInv
  BY InitRanges
<1>2. RangesInv /\ [Next]_vars => RangesInv'
  <2>1. ASSUME RangesInv, UNCHANGED vars PROVE RangesInv'
    BY <2>1 DEF RangesInv, Host, Queues, Running, vars, hostVars, radioVars
  <2> QED
    BY <2>1, RadioRanges, HostRanges DEF Next
<1> QED
  BY <1>1, <1>2, PTL DEF Spec
-----------------------------------------------------------------------------
(* In step, or not: one lemma for each kind of step. *)
LEMMA Counts ==
  ASSUME RangesInv
  PROVE  /\ Host /\ Queues
         /\ cmds \in Seq(Orders) /\ answers \in Seq(Answers)
         /\ Len(cmds) \in Nat /\ Len(answers) \in Nat /\ Lag \in Nat
         /\ step \in 1..12
         /\ Lag <= runs - 1 \/ pc = "threw"
         /\ runs \in 1..MaxRuns /\ MaxRuns \in Nat /\ taken \in 0..12
         /\ Len(cmds) = 0 => cmds = <<>>
         /\ Len(answers) = 0 <=> answers = <<>>
<1>1. /\ Host /\ Queues /\ cmds \in Seq(Orders) /\ answers \in Seq(Answers)
      /\ MaxRuns \in Nat /\ runs \in 1..MaxRuns /\ step \in 1..12 /\ taken \in 0..12
  BY Sizings, SGLAssumption DEF RangesInv, Queues
<1>2. Len(cmds) \in Nat /\ Len(answers) \in Nat
  BY <1>1, LenProperties
<1>3. Lag \in Nat /\ (Lag <= runs - 1 \/ pc = "threw")
  BY <1>1, <1>2 DEF Queues, Lag, Host
<1>4. (Len(cmds) = 0 => cmds = <<>>) /\ (Len(answers) = 0 <=> answers = <<>>)
  BY <1>1, EmptySeq
<1> QED
  BY <1>1, <1>2, <1>3, <1>4

LEMMA SendKeeps ==
  ASSUME StepInv, Send
  PROVE  StepInv'
<1>1. /\ RangesInv /\ Host /\ Queues /\ OwnCommands /\ LastGood /\ TwoLate /\ Together
      /\ Len(cmds) \in Nat /\ Len(answers) \in Nat
      /\ Len(cmds) = 0 => cmds = <<>>
      /\ Len(answers) = 0 => answers = <<>>
      /\ step \in 1..12
  BY Counts DEF StepInv
<1>2. /\ pc = "send" /\ pc' = "reply" /\ cmds' = Append(cmds, Command)
      /\ UNCHANGED <<size, step, address, checksumBlock, taken, flash, since, answers, runs>>
  BY DEF Send, radioVars
<1>3. /\ Len(cmds') = Len(cmds) + 1 /\ \A j \in 1..Len(cmds) : cmds'[j] = cmds[j]
      /\ cmds'[Len(cmds) + 1].k = step
      /\ cmds = <<>> => cmds' = <<Command>>
  BY <1>1, <1>2, Sent DEF Running
<1>4. RangesInv'
  BY <1>1, HostRanges DEF WriteFirmware
<1>5. Lag' = Lag /\ Lag = Len(cmds) + Len(answers)
  BY <1>1, <1>2, <1>3 DEF Lag
<1>6. OwnCommands'
  <2>1. ASSUME step <= 4
        PROVE  /\ \A j \in 1..Len(answers) :
                    Own(j) >= 1 => answers[j] \in {Answer(Own(j)), "other", ""}
               /\ \A j \in 1..Len(cmds) :
                    Own(Len(answers) + j) >= 1 => cmds[j].k = Own(Len(answers) + j)
    BY <1>1, <1>2, <2>1 DEF OwnCommands, Running
  <2>2. ASSUME step <= 4, NEW j \in 1..Len(cmds'), step - 1 - Lag + (Len(answers) + j) >= 1
        PROVE  cmds'[j].k = step - 1 - Lag + (Len(answers) + j)
    <3>1. CASE j \in 1..Len(cmds)
      BY <1>3, <2>1, <2>2, <3>1 DEF Own
    <3>2. CASE j = Len(cmds) + 1
      BY <1>1, <1>3, <1>5, <3>2
    <3> QED
      BY <1>1, <1>3, <3>1, <3>2
  <2> QED
    BY <1>2, <1>5, <2>1, <2>2 DEF OwnCommands, Own
<1>7. TwoLate' /\ LastGood'
  BY <1>1, <1>2, <1>5 DEF TwoLate, LastGood, OkRefused, OkAt, Running
<1>8. Together'
  <2>1. step >= 5 => Lag = 0
    BY <1>1, <1>2 DEF Together, Running
  <2>2. ASSUME Lag = 0
        PROVE  cmds' = <<Command'>> /\ answers' = <<>> /\ Ready'
    <3>1. cmds = <<>> /\ answers = <<>> /\ Ready
      BY <1>1, <1>2, <1>5, <2>2 DEF Together
    <3>2. Command' = Command
      BY <1>2 DEF Command, RangeOf, Length, SumRange
    <3>3. Ready'
      BY <1>2, <3>1 DEF Ready, Image
    <3> QED
      BY <1>2, <1>3, <3>1, <3>2, <3>3
  <2> QED
    BY <1>2, <1>5, <2>1, <2>2 DEF Together
<1> QED
  BY <1>4, <1>6, <1>7, <1>8 DEF StepInv

LEMMA FailKeeps ==
  ASSUME StepInv, TransferFails
  PROVE  StepInv'
<1>1. RangesInv'
  BY HostRanges DEF StepInv
<1>2. pc' = "threw" /\ UNCHANGED <<answers, taken>>
  BY DEF TransferFails, radioVars
<1>3. LastGood'
  BY <1>2 DEF StepInv, LastGood
<1> QED
  BY <1>1, <1>2, <1>3 DEF StepInv, OwnCommands, TwoLate, Together, Running

LEMMA RerunKeeps ==
  ASSUME StepInv, Rerun
  PROVE  StepInv'
<1>1. RangesInv' /\ RangesInv /\ LastGood
  BY HostRanges DEF StepInv
<1>2. /\ pc' = "send" /\ step' = 1
      /\ \/ UNCHANGED <<taken, cmds, answers>>
         \/ taken' = 0 /\ cmds' = <<>> /\ answers' = <<>>
  BY DEF Rerun
<1>3. /\ Len(cmds') \in Nat /\ Len(answers') \in Nat
      /\ Lag' = Len(cmds') + Len(answers')
  <2>1. Len(cmds) \in Nat /\ Len(answers) \in Nat
    BY <1>1, Counts
  <2>2. Len(<<>>) = 0
    OBVIOUS
  <2>3. Len(cmds') \in Nat /\ Len(answers') \in Nat
    BY <1>2, <2>1, <2>2
  <2> QED
    BY <1>2, <2>3 DEF Lag
<1>4. LastGood'
  BY <1>1, <1>2 DEF LastGood
<1>5. OwnCommands'
  <2>1. /\ \A j \in 1..Len(answers') : ~(step' - 1 - Lag' + j >= 1)
        /\ \A j \in 1..Len(cmds') : ~(step' - 1 - Lag' + (Len(answers') + j) >= 1)
    BY <1>2, <1>3
  <2> QED
    BY <2>1 DEF OwnCommands, Own
<1>6. TwoLate'
  <2>1. Lag' = 2 /\ Len(answers') >= 2 => Len(answers') = 2
    <3>1. \A m, n \in Nat : m + n = 2 /\ n >= 2 => n = 2
      OBVIOUS
    <3>2. Len(cmds') + Len(answers') = 2 /\ Len(answers') >= 2 => Len(answers') = 2
      BY <1>3, <3>1
    <3> QED
      BY <1>3, <3>2
  <2>2. ASSUME Lag' = 2, Len(answers') >= 2, answers'[2] = "A"
        PROVE  /\ Len(answers') = 2 /\ taken' >= 2
               /\ ~(Len(answers') = 3) /\ ~(Len(answers') >= 4)
    <3>1. Len(answers') = 2
      BY <2>1, <2>2
    <3>2. answers' # <<>>
      BY <3>1
    <3>3. taken' >= 2
      BY <1>4, <2>2, <3>1, <3>2 DEF LastGood
    <3> QED
      BY <3>1, <3>3
  <2> QED
    BY <1>2, <2>2 DEF TwoLate, OkRefused, OkAt
<1>7. Together'
  BY <1>2 DEF Together, Ready, Running
<1> QED
  BY <1>1, <1>4, <1>5, <1>6, <1>7 DEF StepInv

(* Whether the radio has refused "ok" is settled when it answers it. *)
LEMMA RadioOnOk ==
  ASSUME Host, Queues, Radio, NEW p \in Nat, NEW n \in Nat, n = Len(answers),
         n >= p => OkRefused(p) /\ Head(cmds).k = n + 1 - p,
         n + 1 = p => taken' >= 2
  PROVE  OkRefused(p)'
<1>1. /\ Len(answers') = n + 1 /\ answers \in Seq(Answers)
      /\ \A j \in 1..n : answers'[j] = answers[j]
  BY OneAnswer DEF Queues
<1>2. CASE n + 1 < p
  BY <1>1, <1>2 DEF OkRefused
<1>3. CASE n + 1 = p
  BY <1>1, <1>3 DEF OkRefused
<1>4. CASE n = p
  <2>1. taken >= 2 /\ Head(cmds).k = 1
    BY <1>4 DEF OkRefused
  <2>2. answers'[n + 1] = "UPDATE" \/ taken' >= 2
    <3>1. CASE RadioTakes
      <4>1. PICK v \in Answers : v = "UPDATE" /\ answers' = Append(answers, v)
        BY <2>1, <3>1, Taken
      <4>2. answers'[n + 1] = v
        BY <1>1, <4>1, AppendProperties
      <4> QED
        BY <4>1, <4>2
    <3>2. CASE RadioRefuses
      BY <2>1, <3>2, NotTaken DEF radioVars
    <3> QED
      BY <3>1, <3>2 DEF Radio
  <2> QED
    BY <1>1, <1>4, <2>2 DEF OkRefused
<1>5. CASE n = p + 1
  <2>1. Head(cmds).k = 2 /\ answers'[p + 1] = answers[p + 1]
    BY <1>1, <1>5
  <2>2. ASSUME answers[p + 1] # "UPDATE" PROVE answers'[p + 2] # "A"
    <3>1. taken >= 2
      BY <1>5, <2>2 DEF OkRefused
    <3>2. RadioRefuses
      BY <2>1, <3>1, Taken DEF Radio
    <3>3. PICK v \in Answers : v # "A" /\ answers' = Append(answers, v)
      BY <3>2, NotTaken
    <3>4. answers'[n + 1] = v
      BY <1>1, <3>3, AppendProperties
    <3>5. n + 1 = p + 2
      BY <1>5
    <3> QED
      BY <3>3, <3>4, <3>5, Zenon
  <2> QED
    BY <1>1, <1>5, <2>1, <2>2 DEF OkRefused
<1>6. CASE n >= p + 2
  <2>1. answers'[p + 1] = answers[p + 1] /\ answers'[p + 2] = answers[p + 2]
    BY <1>1, <1>6
  <2> QED
    BY <1>1, <1>6, <2>1 DEF OkRefused
<1> QED
  BY <1>2, <1>3, <1>4, <1>5, <1>6

(* What the radio does with the only command on its way. *)
LEMMA RadioObeys ==
  ASSUME Host, Queues, pc = "reply", RadioTakes, Head(cmds) = Command, Ready
  PROVE  Obeyed'
<1> DEFINE c == Head(cmds)
<1>1. /\ taken' = c.k /\ c \in Orders /\ c.k = step
      /\ flash' = FlashAfter(c)
      /\ since' = IF c.k = 11 THEN since \cup Bytes(c) ELSE {}
      /\ UNCHANGED <<size, step, address, checksumBlock>>
      /\ step = 11 => c.from = address /\ c.to = address + Length
  BY Taken, CommandFacts DEF Running, hostVars
<1>2. /\ step \in 1..12 /\ size \in Nat /\ address \in Nat /\ FlashSize \in Nat
      /\ DOMAIN flash = 0..(FlashSize - 1)
      /\ step < 11 => address = 0
      /\ ChecksumBlockSize * checksumBlock \in Nat
  BY Sizings DEF Host, Queues
<1> HIDE DEF c
<1>3. step = 8 => flash' = Image(address)
  <2> SUFFICES ASSUME step = 8 PROVE flash' = Image(address)
    OBVIOUS
  <2>1. flash' = [a \in 0..(FlashSize - 1) |-> Erased]
    BY <1>1, <1>2, FlashAfterFacts
  <2>2. \A a \in 0..(FlashSize - 1) : ~(a < address)
    BY <1>2
  <2> QED
    BY <2>1, <2>2 DEF Image
<1>4. step \in {9, 10, 12} => flash' = Image(address)
  BY <1>1, <1>2, FlashAfterFacts DEF Ready
<1>5. step = 11 => /\ flash' = Image(address + Length)
                   /\ since' = ChecksumBlockSize * checksumBlock .. (address + Length - 1)
  <2> SUFFICES ASSUME step = 11
               PROVE  /\ flash' = Image(address + Length)
                      /\ since' = ChecksumBlockSize * checksumBlock .. (address + Length - 1)
    OBVIOUS
  <2>1. /\ Length \in Nat \ {0} /\ address + Length <= size
        /\ ChecksumBlockSize * checksumBlock <= address
    BY LengthFacts DEF Running
  <2>2. Bytes(c) = address..(address + Length - 1)
    <3>1. c.from = address /\ c.to = address + Length
      BY <1>1
    <3>2. (address + Length) - 1 = address + Length - 1
      BY <1>2, <2>1
    <3> QED
      BY <3>1, <3>2, Zenon DEF Bytes
  <2>3. flash = Image(address) /\ since = ChecksumBlockSize * checksumBlock .. (address - 1)
    BY DEF Ready
  <2>4. flash' = [a \in 0..(FlashSize - 1) |->
                   IF a \notin Bytes(c) THEN flash[a]
                   ELSE IF a < size /\ flash[a] = Erased THEN a ELSE Wrong]
    BY <1>1, <1>2, FlashAfterFacts
  <2>5. ASSUME NEW a \in 0..(FlashSize - 1)
        PROVE  flash'[a] = IF a < address + Length THEN a ELSE Erased
    <3>1. flash[a] = IF a < address THEN a ELSE Erased
      BY <2>3 DEF Image
    <3>2. flash'[a] = IF a \notin Bytes(c) THEN flash[a]
                      ELSE IF a < size /\ flash[a] = Erased THEN a ELSE Wrong
      BY <2>4
    <3>3. a \in Bytes(c) <=> address <= a /\ a < address + Length
      BY <1>2, <2>1, <2>2
    <3> QED
      BY <1>2, <2>1, <3>1, <3>2, <3>3
  <2>6. flash' = Image(address + Length)
    BY <2>4, <2>5 DEF Image
  <2>7. since' = (ChecksumBlockSize * checksumBlock .. (address - 1))
                   \cup (address..(address + Length - 1))
    BY <1>1, <2>2, <2>3
  <2>8. since' = ChecksumBlockSize * checksumBlock .. (address + Length - 1)
    BY <1>2, <2>1, <2>7
  <2> QED
    BY <2>6, <2>8
<1>6. Length' = Length
  BY <1>1 DEF Length
<1>7. step \in {10, 12} => since' = {}
  BY <1>1
<1> QED
  BY <1>1, <1>2, <1>3, <1>4, <1>5, <1>6, <1>7 DEF Obeyed, Image

(* What an answer of the radio tells of it. *)
LEMMA Told ==
  ASSUME Host, Queues, Radio
  PROVE  \E v \in Answers : /\ answers' = Append(answers, v)
                            /\ answers'[Len(answers) + 1] = v
                            /\ v = "A" => taken' >= 2 /\ RadioTakes
<1>1. answers \in Seq(Answers)
  BY DEF Queues
<1>2. CASE RadioTakes
  <2>1. PICK v \in Answers : answers' = Append(answers, v) /\ (v = "A" => taken' >= 2)
    BY <1>2, Taken
  <2>2. answers'[Len(answers) + 1] = v
    BY <1>1, <2>1, AppendProperties
  <2> QED
    BY <1>2, <2>1, <2>2
<1>3. CASE RadioRefuses
  <2>1. PICK v \in Answers : answers' = Append(answers, v) /\ v # "A"
    BY <1>3, NotTaken
  <2>2. answers'[Len(answers) + 1] = v
    BY <1>1, <2>1, AppendProperties
  <2> QED
    BY <2>1, <2>2
<1> QED
  BY <1>2, <1>3 DEF Radio

LEMMA RadioKeepsOwn ==
  ASSUME RangesInv, OwnCommands, Radio
  PROVE  /\ OwnCommands'
         /\ Running /\ step <= 4 /\ step + Len(answers) - Lag >= 1 =>
              Head(cmds).k = step + Len(answers) - Lag
<1> DEFINE n == Len(answers)
<1>1. Host /\ Queues /\ n \in Nat /\ Lag \in Nat /\ step \in 1..12
  BY Counts
<1>2. /\ cmds # <<>> /\ Head(cmds) = cmds[1] /\ Len(cmds) \in Nat /\ Len(cmds) >= 1
      /\ Len(cmds') = Len(cmds) - 1
      /\ \A j \in 1..Len(cmds') : cmds'[j] = cmds[j + 1]
      /\ Len(answers') = n + 1 /\ \A j \in 1..n : answers'[j] = answers[j]
      /\ UNCHANGED <<pc, step>>
  BY <1>1, OneAnswer
<1>3. answers'[n + 1] \in {Answer(Head(cmds).k), "other", ""}
  BY <1>1, OneAnswer
<1>4. Lag' = Lag
  <2>1. Len(cmds') + Len(answers') = Len(cmds) + n
    BY <1>1, <1>2
  <2> QED
    BY <1>2, <2>1 DEF Lag
<1> HIDE DEF n
<1>5. ASSUME Running, step <= 4
      PROVE  /\ \A j \in 1..n : step - 1 - Lag + j >= 1 =>
                  answers[j] \in {Answer(step - 1 - Lag + j), "other", ""}
             /\ \A j \in 1..Len(cmds) : step - 1 - Lag + (n + j) >= 1 =>
                  cmds[j].k = step - 1 - Lag + (n + j)
  BY <1>5 DEF OwnCommands, Own, n
<1>6. ASSUME Running, step <= 4, step + n - Lag >= 1 PROVE Head(cmds).k = step + n - Lag
  <2>1. 1 \in 1..Len(cmds) /\ step - 1 - Lag + (n + 1) = step + n - Lag
    BY <1>1, <1>2
  <2> QED
    BY <1>2, <1>5, <1>6, <2>1
<1>7. ASSUME Running, step <= 4, NEW j \in 1..(n + 1), step - 1 - Lag + j >= 1
      PROVE  answers'[j] \in {Answer(step - 1 - Lag + j), "other", ""}
  <2>1. CASE j \in 1..n
    BY <1>2, <1>5, <1>7, <2>1
  <2>2. CASE j = n + 1
    <3>1. step - 1 - Lag + j = step + n - Lag
      BY <1>1, <2>2
    <3>2. Head(cmds).k = step - 1 - Lag + j
      BY <1>1, <1>6, <1>7, <3>1
    <3> QED
      BY <1>3, <2>2, <3>2, Zenon
  <2>3. j \in 1..n \/ j = n + 1
    BY <1>1
  <2> QED
    BY <2>1, <2>2, <2>3, Zenon
<1>8. ASSUME Running, step <= 4, NEW j \in 1..Len(cmds'), step - 1 - Lag + (n + 1 + j) >= 1
      PROVE  cmds'[j].k = step - 1 - Lag + (n + 1 + j)
  <2>1. j + 1 \in 1..Len(cmds) /\ n + 1 + j = n + (j + 1)
    BY <1>1, <1>2
  <2> QED
    BY <1>2, <1>5, <1>8, <2>1
<1>9. OwnCommands'
  BY <1>2, <1>4, <1>7, <1>8 DEF OwnCommands, Own, Running
<1> QED
  BY <1>6, <1>9 DEF n

LEMMA RadioKeeps ==
  ASSUME StepInv, Radio
  PROVE  StepInv'
<1> DEFINE n == Len(answers)
<1>1. /\ RangesInv /\ OwnCommands /\ LastGood /\ TwoLate /\ Together
      /\ Host /\ Queues /\ n \in Nat /\ Len(cmds) \in Nat /\ Lag \in Nat
      /\ step \in 1..12
      /\ n = 0 <=> answers = <<>>
  BY Counts DEF StepInv
<1>2. /\ cmds # <<>> /\ Len(cmds) >= 1
      /\ Len(cmds') = Len(cmds) - 1 /\ cmds' \in Seq(Orders)
      /\ Len(answers') = n + 1 /\ answers' # <<>>
      /\ \A j \in 1..n : answers'[j] = answers[j]
      /\ UNCHANGED <<size, pc, step, address, checksumBlock, runs>>
  BY <1>1, OneAnswer
<1>3. PICK v \in Answers : /\ answers' = Append(answers, v)
                           /\ answers'[n + 1] = v
                           /\ v = "A" => taken' >= 2 /\ RadioTakes
  BY <1>1, Told
<1>a. v = "A" => taken' >= 2
  BY <1>3, Zenon
<1>b. v = "A" => RadioTakes
  BY <1>3, Zenon
<1>c. answers'[n + 1] = v
  BY <1>3, Zenon
<1>4. RangesInv'
  BY <1>1, RadioRanges
<1>5. /\ OwnCommands'
      /\ Running /\ step <= 4 /\ step + n - Lag >= 1 => Head(cmds).k = step + n - Lag
  BY <1>1, RadioKeepsOwn
<1>6. Lag' = Lag
  <2>1. Len(cmds') + Len(answers') = Len(cmds) + n
    BY <1>1, <1>2
  <2> QED
    BY <1>2, <2>1 DEF Lag
<1> HIDE DEF n
<1>7. LastGood'
  <2>1. answers'[Len(answers')] = v
    BY <1>2, <1>c, Zenon
  <2> QED
    BY <1>a, <2>1, Zenon DEF LastGood
<1>8. ASSUME Running, Lag = 2, NEW p \in Nat, step + p = 3,
             p = 0 \/ OkAt(p)', p = 0 \/ OkAt(p) => OkRefused(p)
      PROVE  OkRefused(p)'
  <2>1. ASSUME n >= p PROVE OkRefused(p) /\ Head(cmds).k = n + 1 - p
    <3>1. p = 0 \/ OkAt(p)
      <4>1. ASSUME p # 0 PROVE OkAt(p)
        <5>1. p \in 1..n
          BY <1>1, <2>1, <4>1
        <5>2. answers'[p] = "A"
          BY <1>8, <4>1 DEF OkAt
        <5> QED
          BY <1>2, <2>1, <5>1, <5>2 DEF OkAt, n
      <4> QED
        BY <4>1
    <3>2. step <= 4 /\ step + n - Lag >= 1 /\ step + n - Lag = n + 1 - p
      BY <1>1, <1>8, <2>1
    <3> QED
      BY <1>5, <1>8, <3>1, <3>2
  <2>2. ASSUME n + 1 = p PROVE taken' >= 2
    <3>1. p # 0
      BY <1>1, <2>2
    <3>2. v = "A"
      BY <1>c, <1>8, <2>2, <3>1, Zenon DEF OkAt
    <3> QED
      BY <1>a, <3>2, Zenon
  <2> QED
    BY <1>1, <2>1, <2>2, RadioOnOk DEF n
<1>9. TwoLate'
  <2> SUFFICES ASSUME Running, Lag = 2
               PROVE  /\ step \in {1, 2} /\ OkAt(3 - step)' => OkRefused(3 - step)'
                      /\ step = 3 => OkRefused(0)'
                      /\ step = 4 => answers'[1] # "A"
    BY <1>2, <1>6 DEF TwoLate, OkAt, OkRefused, Running
  <2>1. ASSUME step = 1, OkAt(2)' PROVE OkRefused(2)'
    BY <1>1, <1>8, <2>1 DEF TwoLate
  <2>2. ASSUME step = 2, OkAt(1)' PROVE OkRefused(1)'
    BY <1>1, <1>8, <2>2 DEF TwoLate
  <2>3. ASSUME step = 3 PROVE OkRefused(0)'
    BY <1>1, <1>8, <2>3 DEF TwoLate
  <2>4. ASSUME step = 4 PROVE answers'[1] # "A"
    <3>1. CASE n = 0
      <4>1. taken >= 2
        BY <1>1, <2>4, <3>1 DEF TwoLate
      <4>2. Head(cmds).k = 2
        BY <1>5, <2>4, <3>1
      <4>3. ~RadioTakes
        BY <1>1, <4>1, <4>2, Taken
      <4>4. v # "A"
        BY <1>b, <4>3, Zenon
      <4>5. n + 1 = 1
        BY <3>1
      <4> QED
        BY <1>c, <4>4, <4>5, Zenon
    <3>2. CASE n # 0
      <4>1. 1 \in 1..n /\ answers # <<>>
        BY <1>1, <3>2
      <4> QED
        BY <1>1, <1>2, <2>4, <4>1 DEF TwoLate
    <3> QED
      BY <3>1, <3>2
  <2>5. /\ step = 1 /\ OkAt(3 - step)' => OkRefused(3 - step)'
        /\ step = 2 /\ OkAt(3 - step)' => OkRefused(3 - step)'
    <3>1. 3 - 1 = 2 /\ 3 - 2 = 1 /\ step' = step
      BY <1>2
    <3> QED
      BY <2>1, <2>2, <3>1, Zenon DEF OkAt, OkRefused
  <2> QED
    BY <2>3, <2>4, <2>5
<1>10. Together'
  <2>1. pc = "done" => FALSE
    BY <1>1, <1>2 DEF Together, Lag, n
  <2>2. pc = "send" /\ Lag = 0 => FALSE
    BY <1>1, <1>2 DEF Lag, n
  <2>3. ASSUME pc = "reply", Lag = 0
        PROVE  /\ cmds' = <<>>
               /\ answers' = <<v>> /\ (v = "A" => Obeyed')
    <3>1. cmds = <<Command>> /\ answers = <<>> /\ Ready
      BY <1>1, <1>2, <2>3 DEF Together
    <3>2. Len(cmds) = 1 /\ Head(cmds) = Command
      BY <3>1
    <3>3. cmds' = <<>>
      BY <1>2, <3>2, EmptySeq
    <3>4. answers' = <<v>>
      <4>1. answers' = Append(answers, v)
        BY <1>3, Zenon
      <4>2. \A q : q = <<>> => Append(q, v) = <<v>>
        OBVIOUS
      <4> QED
        BY <3>1, <4>1, <4>2, Zenon
    <3>5. v = "A" => Obeyed'
      <4>1. RadioTakes => Obeyed'
        BY <1>1, <2>3, <3>1, <3>2, RadioObeys
      <4> QED
        BY <1>b, <4>1, Zenon
    <3> QED
      BY <3>3, <3>4, <3>5
  <2> QED
    BY <1>1, <1>2, <1>6, <2>1, <2>2, <2>3 DEF Together, Running
<1> QED
  BY <1>4, <1>5, <1>7, <1>9, <1>10 DEF StepInv

(* Only an OK lets a run go on, but at the steps that may be answered      *)
(* without data.                                                           *)
LEMMA Passed ==
  ASSUME step \in 1..12, NEW v, Expected(v)
  PROVE  (step \notin {1, 3} => v = "A") /\ (step = 3 => v # "UPDATE")
<1>1. (Steps[step] = "download" <=> step = 1) /\ (Steps[step] = "key" <=> step = 3)
  BY StepNumbers
<1> QED
  BY <1>1 DEF Expected

(* After the radio did as it was told, and said so, the next command finds *)
(* it ready, or the update is done.                                        *)
LEMMA WentOn ==
  ASSUME Host, pc = "reply", step >= 4, Obeyed, UNCHANGED <<size, taken, flash, since>>,
         Handshaken \/ Programming \/ Transferred \/ Summed
  PROVE  /\ step' >= 5 /\ pc' # "reply"
         /\ pc' = "send" => Ready'
         /\ pc' = "done" => flash' = Image(size)' /\ since' = {}
<1>1. /\ step \in 1..12 /\ taken = step
      /\ size \in Nat /\ address \in Nat /\ checksumBlock \in Nat
      /\ ChecksumBlockSize \in Nat \ {0}
      /\ ChecksumBlockSize * checksumBlock \in Nat
      /\ ChecksumBlockSize * (checksumBlock + 1) \in Nat
      /\ step \in 8..12 => flash = Image(IF step = 11 THEN address + Length ELSE address)
      /\ step = 11 => since = ChecksumBlockSize * checksumBlock .. (address + Length - 1)
      /\ step \in {10, 12} => since = {}
  BY Sizings DEF Obeyed
<1>2. CASE Handshaken
  <2>1. /\ step < 10 /\ step' = step + 1 /\ pc' = "send" /\ UNCHANGED address
    BY <1>2, HandshakenHost DEF Handshaken
  <2> QED
    BY <1>1, <2>1 DEF Ready, Image
<1>3. CASE Programming
  <2>1. /\ step = 10 /\ UNCHANGED <<address, checksumBlock>> /\ address = 0
        /\ \/ step' = 11 /\ pc' = "send"
           \/ step' = 10 /\ pc' = "done" /\ size = 0
    BY <1>3, ProgrammingHost
  <2>2. checksumBlock = 0 /\ ChecksumBlockSize * 0 = 0
    BY <1>1, <2>1 DEF Host
  <2>3. flash = Image(0) /\ since = {} /\ ChecksumBlockSize * 0 .. (0 - 1) = {}
    BY <1>1, <2>1, <2>2
  <2>4. CASE step' = 11 /\ pc' = "send"
    <3>1. since' = ChecksumBlockSize * checksumBlock' .. (address' - 1)
      BY <2>1, <2>2, <2>3
    <3> QED
      BY <1>1, <2>1, <2>3, <2>4, <3>1 DEF Ready, Image
  <2>5. CASE step' = 10 /\ pc' = "done" /\ size = 0
    BY <2>3, <2>5 DEF Image
  <2> QED
    BY <2>1, <2>4, <2>5
<1>4. CASE Transferred
  <2>1. /\ step = 11 /\ pc' = "send" /\ step' \in {11, 12}
        /\ address' = address + Length /\ UNCHANGED checksumBlock
    BY <1>4, TransferredHost
  <2>2. /\ Length \in Nat \ {0} /\ address + Length \in Nat
    BY <2>1, LengthFacts DEF Running
  <2>3. (address + Length) - 1 = address + Length - 1
    BY <1>1, <2>2
  <2>4. since' = ChecksumBlockSize * checksumBlock' .. (address' - 1)
    BY <1>1, <2>1, <2>3
  <2>5. flash' = Image(address)'
    BY <1>1, <2>1 DEF Image
  <2>6. step' >= 5 /\ taken' >= step' - 1
    <3>1. taken' = 11 /\ (step' = 11 \/ step' = 12)
      BY <1>1, <2>1
    <3> QED
      BY <3>1
  <2>7. Ready'
    BY <2>4, <2>5, <2>6 DEF Ready
  <2> QED
    BY <2>1, <2>6, <2>7
<1>5. CASE Summed
  <2>1. /\ step = 12 /\ checksumBlock' = checksumBlock + 1 /\ UNCHANGED address
        /\ \/ /\ step' = 11 /\ pc' = "send"
              /\ address = ChecksumBlockSize * (checksumBlock + 1)
           \/ step' = 12 /\ pc' = "done" /\ address = size
    BY <1>5, SummedHost
  <2>2. flash = Image(address) /\ since = {}
    BY <1>1, <2>1
  <2>3. CASE step' = 11 /\ pc' = "send" /\ address = ChecksumBlockSize * (checksumBlock + 1)
    <3>1. ChecksumBlockSize * (checksumBlock + 1) .. (address - 1) = {}
      BY <1>1, <2>3
    <3>2. since' = ChecksumBlockSize * checksumBlock' .. (address' - 1)
      BY <2>1, <2>2, <3>1
    <3> QED
      BY <1>1, <2>1, <2>2, <2>3, <3>2 DEF Ready, Image
  <2>4. CASE step' = 12 /\ pc' = "done" /\ address = size
    BY <2>2, <2>4 DEF Image
  <2> QED
    BY <2>1, <2>3, <2>4
<1> QED
  BY <1>2, <1>3, <1>4, <1>5

(* One answer read: what is said of the others stands, one place nearer. *)
LEMMA Nearer ==
  ASSUME Queues, answers # <<>>, answers' = Tail(answers), UNCHANGED taken,
         NEW p \in Nat, OkRefused(p + 1)
  PROVE  OkRefused(p)'
<1> DEFINE n == Len(answers)
<1>1. /\ n \in Nat /\ n >= 1 /\ Len(answers') = n - 1
      /\ \A j \in 1..(n - 1) : answers'[j] = answers[j + 1]
  BY AnswerGone
<1> HIDE DEF n
<1>2. /\ n = p + 1 => taken >= 2
      /\ n = (p + 1) + 1 /\ answers[(p + 1) + 1] # "UPDATE" => taken >= 2
      /\ n >= (p + 1) + 2 /\ answers[(p + 1) + 1] # "UPDATE" => answers[(p + 1) + 2] # "A"
  BY DEF OkRefused, n
<1>3. n - 1 = p => taken' >= 2
  BY <1>1, <1>2
<1>4. ASSUME n - 1 = p + 1, answers'[p + 1] # "UPDATE" PROVE taken' >= 2
  <2>1. n = (p + 1) + 1 /\ p + 1 \in 1..(n - 1)
    BY <1>1, <1>4
  <2> QED
    BY <1>1, <1>2, <1>4, <2>1
<1>5. ASSUME n - 1 >= p + 2, answers'[p + 1] # "UPDATE" PROVE answers'[p + 2] # "A"
  <2>1. /\ n >= (p + 1) + 2 /\ p + 1 \in 1..(n - 1) /\ p + 2 \in 1..(n - 1)
        /\ (p + 1) + 2 = (p + 2) + 1
    BY <1>1, <1>5
  <2> QED
    BY <1>1, <1>2, <1>5, <2>1
<1> QED
  BY <1>1, <1>3, <1>4, <1>5, Zenon DEF OkRefused

(* In the handshake. *)
LEMMA HandshakeKeeps ==
  ASSUME Host, Queues, OwnCommands, TwoLate, pc = "reply", step <= 3, Lag \in Nat,
         answers # <<>>, answers' = Tail(answers), Expected(Head(answers)),
         pc' = "send", step' = step + 1, Lag' = Lag, UNCHANGED <<cmds, taken>>
  PROVE  OwnCommands' /\ TwoLate'
<1> DEFINE n == Len(answers)
<1>1. /\ n \in Nat /\ n >= 1 /\ Len(answers') = n - 1 /\ Head(answers) = answers[1]
      /\ \A j \in 1..(n - 1) : answers'[j] = answers[j + 1]
      /\ step \in 1..12
  BY AnswerGone DEF Host
<1>2. n = 1 => answers' = <<>>
  BY AnswerGone
<1>3. (step = 2 => answers[1] = "A") /\ (step = 3 => answers[1] # "UPDATE")
  BY <1>1, Passed
<1> HIDE DEF n
<1>4. OwnCommands'
  <2>1. /\ \A j \in 1..n : step - 1 - Lag + j >= 1 =>
             answers[j] \in {Answer(step - 1 - Lag + j), "other", ""}
        /\ \A j \in 1..Len(cmds) : step - 1 - Lag + (n + j) >= 1 =>
             cmds[j].k = step - 1 - Lag + (n + j)
    <3>1. Running /\ step <= 4
      BY <1>1 DEF Running
    <3> QED
      BY <3>1, Zenon DEF OwnCommands, Own, n
  <2>2. ASSUME NEW j \in 1..(n - 1), step' - 1 - Lag' + j >= 1
        PROVE  answers'[j] \in {Answer(step' - 1 - Lag' + j), "other", ""}
    <3>1. j + 1 \in 1..n /\ step' - 1 - Lag' + j = step - 1 - Lag + (j + 1)
      BY <1>1
    <3>2. answers'[j] = answers[j + 1]
      BY <1>1
    <3>3. step - 1 - Lag + (j + 1) >= 1
      BY <2>2, <3>1
    <3> QED
      BY <2>1, <3>1, <3>2, <3>3, Zenon
  <2>3. ASSUME NEW j \in 1..Len(cmds'), step' - 1 - Lag' + (n - 1 + j) >= 1
        PROVE  cmds'[j].k = step' - 1 - Lag' + (n - 1 + j)
    <3>1. j \in Nat /\ step' - 1 - Lag' + (n - 1 + j) = step - 1 - Lag + (n + j)
      BY <1>1
    <3> QED
      BY <2>1, <2>3, <3>1
  <2> QED
    BY <1>1, <2>2, <2>3, Zenon DEF OwnCommands, Own
<1>5. TwoLate'
  <2> SUFFICES ASSUME Lag = 2 PROVE TwoLate'
    BY DEF TwoLate
  <2>1. CASE step = 1
    <3>1. ASSUME OkAt(1)' PROVE OkRefused(1)'
      <4>1. n - 1 >= 1 /\ answers'[1] = "A"
        BY <1>1, <3>1 DEF OkAt
      <4>2. n >= 2 /\ 1 \in 1..(n - 1) /\ 1 + 1 = 2
        BY <1>1, <4>1
      <4>3. OkAt(2)
        BY <1>1, <4>1, <4>2, Zenon DEF OkAt, n
      <4>4. OkRefused(1 + 1)
        BY <2>1, <4>3 DEF TwoLate, Running
      <4> QED
        BY <4>4, Nearer
    <3>2. step' = 2 /\ 3 - step' = 1
      BY <2>1
    <3>3. step' # 3 /\ step' # 4
      BY <3>2
    <3> QED
      BY <3>1, <3>2, <3>3, Zenon DEF TwoLate, OkAt, OkRefused
  <2>2. CASE step = 2
    <3>1. OkAt(1)
      BY <1>1, <1>3, <2>2 DEF OkAt, n
    <3>2. OkRefused(0 + 1)
      BY <2>2, <3>1 DEF TwoLate, Running
    <3>3. OkRefused(0)'
      BY <3>2, Nearer
    <3>4. step' = 3
      BY <2>2
    <3> QED
      BY <3>3, <3>4 DEF TwoLate
  <2>3. CASE step = 3
    <3>1. OkRefused(0)
      BY <2>3 DEF TwoLate, Running
    <3>2. /\ n = 1 => taken >= 2
          /\ n >= 2 => answers[2] # "A"
      BY <1>1, <1>3, <2>3, <3>1 DEF OkRefused, n
    <3>3. answers' = <<>> => taken' >= 2
      <4>1. answers' = <<>> => n - 1 = 0
        BY <1>1
      <4> QED
        BY <1>1, <3>2, <4>1
    <3>4. answers' # <<>> => answers'[1] # "A"
      <4>1. n # 1 => 1 \in 1..(n - 1) /\ 1 + 1 = 2 /\ n >= 2
        BY <1>1
      <4> QED
        BY <1>1, <1>2, <3>2, <4>1, Zenon
    <3>5. step' = 4
      BY <2>3
    <3> QED
      BY <3>3, <3>4, <3>5 DEF TwoLate
  <2> QED
    BY <1>1, <2>1, <2>2, <2>3
<1> QED
  BY <1>4, <1>5

(* At the end of the handshake, or past it: an OK means that nothing is    *)
(* late.  One or three answers late, what comes here is an answer to "key" *)
(* or "download"; two late, it is one to "ok", which was refused.          *)
LEMMA NothingLate ==
  ASSUME Host, Queues, OwnCommands, TwoLate, Together, pc = "reply", step >= 4,
         Lag \in 0..3, answers # <<>>, answers[1] = "A"
  PROVE  Lag = 0
<1>1. Len(answers) \in Nat /\ Len(answers) >= 1 /\ step \in 1..12
  BY EmptySeq DEF Host, Queues
<1>2. CASE step >= 5
  BY <1>2 DEF Together, Running
<1>3. CASE step = 4
  <2>1. 1 \in 1..Len(answers)
    BY <1>1
  <2>2. step - 1 - Lag + 1 >= 1 => answers[1] \in {Answer(step - 1 - Lag + 1), "other", ""}
    <3>1. Running /\ step <= 4
      BY <1>3 DEF Running
    <3> QED
      BY <2>1, <3>1, Zenon DEF OwnCommands, Own
  <2>3. Answer(3) = "key" /\ Answer(1) = "UPDATE"
    BY StepNumbers DEF Answer
  <2>4. ASSUME Lag = 1 PROVE FALSE
    <3>1. step - 1 - Lag + 1 = 3
      BY <1>3, <2>4
    <3>2. answers[1] \in {Answer(3), "other", ""}
      BY <2>2, <3>1
    <3> QED
      BY <2>3, <3>2
  <2>5. ASSUME Lag = 3 PROVE FALSE
    <3>1. step - 1 - Lag + 1 = 1
      BY <1>3, <2>5
    <3>2. answers[1] \in {Answer(1), "other", ""}
      BY <2>2, <3>1
    <3> QED
      BY <2>3, <3>2
  <2>6. ASSUME Lag = 2 PROVE FALSE
    BY <1>3, <2>6, Zenon DEF TwoLate, Running
  <2> QED
    BY <2>4, <2>5, <2>6
<1> QED
  BY <1>1, <1>2, <1>3

LEMMA ReadKeeps ==
  ASSUME StepInv, ReadAnswer, MaxRuns <= 4
  PROVE  StepInv'
<1> DEFINE n == Len(answers)
<1>1. /\ RangesInv /\ OwnCommands /\ LastGood /\ TwoLate /\ Together /\ Host /\ Queues
      /\ n \in Nat /\ Len(cmds) \in Nat /\ Lag \in Nat /\ step \in 1..12
      /\ Lag <= runs - 1 \/ pc = "threw"
      /\ runs \in 1..MaxRuns /\ MaxRuns \in Nat
  BY Counts DEF StepInv
<1>2. /\ pc = "reply" /\ answers # <<>> /\ answers' = Tail(answers)
      /\ UNCHANGED <<size, taken, flash, since, cmds, runs>>
  BY DEF ReadAnswer, radioVars
<1>3. /\ n >= 1 /\ Len(answers') = n - 1 /\ Head(answers) = answers[1]
      /\ \A j \in 1..(n - 1) : answers'[j] = answers[j + 1]
      /\ n = 1 => answers' = <<>>
      /\ answers' \in Seq(Answers)
  BY <1>1, <1>2, AnswerGone
<1>4. RangesInv' /\ pc' # "reply"
  BY <1>1, HostRanges, ReadHost DEF WriteFirmware
<1>5. Lag' = Lag /\ Lag \in 0..3
  <2>1. Lag = Len(cmds) + n - 1 /\ Lag' = Len(cmds) + (n - 1) - 0
    BY <1>2, <1>3, <1>4 DEF Lag
  <2>2. Lag <= runs - 1
    BY <1>1, <1>2
  <2> QED
    BY <1>1, <2>1, <2>2
<1> HIDE DEF n
<1>6. LastGood'
  <2>1. ASSUME answers' # <<>>, answers'[n - 1] = "A" PROVE taken' >= 2
    <3>1. n - 1 \in 1..(n - 1) /\ n - 1 + 1 = n
      BY <1>1, <1>3, <2>1
    <3>2. answers[n] = "A"
      BY <1>3, <2>1, <3>1
    <3> QED
      BY <1>1, <1>2, <3>2 DEF LastGood, n
  <2> QED
    BY <1>3, <2>1, Zenon DEF LastGood
<1>7. CASE pc' = "threw"
  BY <1>4, <1>6, <1>7 DEF StepInv, OwnCommands, TwoLate, Together, Running
<1>8. CASE Expected(Head(answers)) /\ (Handshaken \/ Programming \/ Transferred \/ Summed)
  <2>1. CASE step <= 3
    <3>1. pc' = "send" /\ step' = step + 1
      <4>1. step # 10 /\ step # 11 /\ step # 12
        BY <1>1, <2>1
      <4>2. Handshaken
        BY <1>1, <1>2, <1>8, <4>1, ProgrammingHost, TransferredHost, SummedHost
      <4> QED
        BY <4>2 DEF Handshaken
    <3>2. OwnCommands' /\ TwoLate'
      BY <1>1, <1>2, <1>5, <1>8, <2>1, <3>1, HandshakeKeeps
    <3>3. ~(step' >= 5)
      BY <1>1, <2>1, <3>1
    <3>4. Together'
      BY <3>1, <3>3 DEF Together, Ready
    <3> QED
      BY <1>4, <1>6, <3>2, <3>4 DEF StepInv
  <2>2. CASE step >= 4
    <3>1. answers[1] = "A"
      <4>1. step \notin {1, 3}
        BY <1>1, <2>2
      <4> QED
        BY <1>1, <1>3, <1>8, <4>1, Passed
    <3>2. Lag = 0
      BY <1>1, <1>2, <1>5, <2>2, <3>1, NothingLate
    <3>3. cmds = <<>> /\ \E v \in Answers : answers = <<v>> /\ (v = "A" => Obeyed)
      BY <1>1, <1>2, <3>2 DEF Together
    <3>4. Obeyed
      BY <3>1, <3>3
    <3>5. /\ step' >= 5 /\ pc' # "reply"
          /\ pc' = "send" => Ready'
          /\ pc' = "done" => flash' = Image(size)' /\ since' = {}
      BY <1>1, <1>2, <1>8, <2>2, <3>4, WentOn
    <3>6. Together'
      BY <1>5, <3>2, <3>5 DEF Together, Image
    <3>7. step' \in 1..12
      BY <1>4 DEF RangesInv, Host
    <3>8. OwnCommands' /\ TwoLate'
      <4>1. ~(step' <= 4) /\ Lag' # 2
        BY <1>5, <3>2, <3>5, <3>7
      <4> QED
        BY <4>1, Zenon DEF OwnCommands, TwoLate
    <3> QED
      BY <1>4, <1>6, <3>6, <3>8 DEF StepInv
  <2> QED
    BY <1>1, <2>1, <2>2
<1> QED
  BY <1>7, <1>8 DEF ReadAnswer
-----------------------------------------------------------------------------
(* However often the update is started and whatever gets lost, the host    *)
(* keeps to the image and the radio to its flash, and no more is on the    *)
(* way than there were runs.                                               *)
THEOREM TypeCorrect == Spec => []TypeOK
<1>1. RangesInv => TypeOK
  <2> SUFFICES ASSUME RangesInv PROVE TypeOK
    OBVIOUS
  <2>1. /\ Host /\ Queues /\ Len(cmds) \in Nat /\ Len(answers) \in Nat
        /\ runs \in 1..MaxRuns /\ MaxRuns \in Nat
        /\ DOMAIN Steps = 1..12 /\ Len(Steps) = 12
    BY Counts, StepNumbers
  <2>2. Len(cmds) <= MaxRuns /\ Len(answers) <= MaxRuns
    BY <2>1 DEF Queues
  <2>3. DOMAIN flash = 0..(FlashSize - 1)
    BY <2>1 DEF Queues
  <2> QED
    BY <2>1, <2>2, <2>3 DEF TypeOK, Host, Queues
<1> QED
  BY <1>1, RangesInvariant, PTL

LEMMA StepInvariant ==
  ASSUME MaxRuns <= 4
  PROVE  Spec => []StepInv
<1>1. Init => StepInv
  <2> SUFFICES ASSUME Init PROVE StepInv
    OBVIOUS
  <2>1. RangesInv
    BY InitRanges
  <2>2. /\ pc = "send" /\ step = 1 /\ cmds = <<>> /\ answers = <<>> /\ Lag = 0
    BY DEF Init, Lag
  <2>3. OwnCommands /\ LastGood /\ TwoLate /\ Together
    BY <2>2 DEF OwnCommands, LastGood, TwoLate, Together, Ready, Running
  <2> QED
    BY <2>1, <2>3 DEF StepInv
<1>2. StepInv /\ [Next]_vars => StepInv'
  <2>1. ASSUME StepInv, UNCHANGED vars PROVE StepInv'
    <3>1. UNCHANGED <<size, pc, step, address, checksumBlock, taken, flash, since,
                     cmds, answers, runs>>
      BY <2>1 DEF vars, hostVars, radioVars
    <3>2. RangesInv'
      BY <2>1, <3>1 DEF StepInv, RangesInv, Host, Queues, Running
    <3>3. (OwnCommands /\ LastGood /\ TwoLate)'
      BY <2>1, <3>1 DEF StepInv, OwnCommands, LastGood, TwoLate, OkAt, OkRefused, Own, Lag,
                        Running
    <3>4. Together'
      BY <2>1, <3>1 DEF StepInv, Together, Ready, Obeyed, Image, Command, RangeOf, SumRange,
                        Length, Lag, Running
    <3> QED
      BY <3>2, <3>3, <3>4 DEF StepInv
  <2> QED
    BY <2>1, SendKeeps, ReadKeeps, FailKeeps, RerunKeeps, RadioKeeps DEF Next, WriteFirmware
<1> QED
  BY <1>1, <1>2, PTL DEF Spec

(* With no more than three late answers a run is past the handshake only   *)
(* in step with the radio.                                                 *)
THEOREM PastHandshakeInStep ==
  ASSUME MaxRuns <= 4
  PROVE  Spec => []InStep
<1>1. StepInv => InStep
  <2> SUFFICES ASSUME StepInv, pc = "send", step > At("flashProgram")
               PROVE  taken >= step - 1 /\ cmds = <<>> /\ answers = <<>>
    BY DEF InStep
  <2>1. /\ Together /\ Len(cmds) \in Nat /\ Len(answers) \in Nat /\ step \in 1..12
        /\ Len(cmds) = 0 => cmds = <<>>
        /\ Len(answers) = 0 => answers = <<>>
    BY Counts DEF StepInv
  <2>2. step >= 5
    BY <2>1, StepNumbers
  <2>3. Lag = 0 /\ Ready
    BY <2>1, <2>2 DEF Together, Running
  <2> QED
    BY <2>1, <2>2, <2>3 DEF Lag, Ready
<1>2. Spec => []StepInv
  BY StepInvariant
<1> QED
  BY <1>1, <1>2, PTL

(* And each checksum it sends is over just what the radio has written      *)
(* since the one before.                                                   *)
THEOREM ChecksumsCoverTheirBlock ==
  ASSUME MaxRuns <= 4
  PROVE  Spec => []SumCovers
<1>1. StepInv => SumCovers
  <2> SUFFICES ASSUME StepInv, pc = "send", Steps[step] = "end"
               PROVE  since = SumRange.from..(SumRange.to - 1)
    BY DEF SumCovers
  <2>1. Together /\ step = 12
    <3>1. step \in 1..12 /\ Together
      BY Counts DEF StepInv
    <3> QED
      BY <3>1, StepNumbers
  <2>2. since = ChecksumBlockSize * checksumBlock .. (address - 1)
    BY <2>1 DEF Together, Ready, Running
  <2> QED
    BY <2>2 DEF SumRange
<1>2. Spec => []StepInv
  BY StepInvariant
<1> QED
  BY <1>1, <1>2, PTL

(* An update that ends well has put every byte of the image at its         *)
(* address, left the rest erased, and had the sum of all of it checked.    *)
THEOREM EndsWithTheImage ==
  ASSUME MaxRuns <= 4
  PROVE  Spec => []ImageArrives
<1>1. StepInv => ImageArrives
  <2> SUFFICES ASSUME StepInv, pc = "done"
               PROVE  /\ \A a \in DOMAIN flash : flash[a] = IF a < size THEN a ELSE Erased
                      /\ since = {}
    BY DEF ImageArrives
  <2>1. flash = Image(size) /\ since = {}
    BY DEF StepInv, Together
  <2> QED
    BY <2>1 DEF Image
<1>2. Spec => []StepInv
  BY StepInvariant
<1> QED
  BY <1>1, <1>2, PTL
=============================================================================

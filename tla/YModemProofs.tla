---------------------------- MODULE YModemProofs ----------------------------
(***************************************************************************)
(* The transfer of src/fymodem.c keeps the file in order and complete for  *)
(* every size, buffer and block size, block numbers that wrap around at    *)
(* any SeqMod from 2 on, ends whose char is signed or not, and a line that *)
(* damages as much as it likes: the bounds on faults and early timeouts    *)
(* may have any value.                                                     *)
(***************************************************************************)
EXTENDS YModem, SequenceTheorems, TLAPS

(* The receiver still reads what comes, or is about to. *)
Listening == r \in {"off", "receiving"}

(***************************************************************************)
(* How far the receiver is, in packets of the whole session: block 0, the  *)
(* blocks of the file, EOT.  After an EOT it counts from 0 again; that it  *)
(* holds a file tells this 0 from the first.                               *)
(***************************************************************************)
Stage == IF rxed = 0 /\ got # <<>> THEN Blocks + 2 ELSE rxed

(* The stage of the receiver that a packet on the line is for. *)
Proper(t) == t.kind \in {"packet", "eot"}

Rank(t) == IF t.kind = "eot" THEN Blocks + 1
           ELSE IF t = NullPacket THEN Blocks + 2 ELSE t.body

(* The last the sender has sent. *)
LastRank == IF s \in NotSending THEN -1
            ELSE IF s \in {"name", "nameC"} THEN 0
            ELSE IF s = "data" THEN blk
            ELSE IF s \in {"eot", "eotC"} THEN Blocks + 1 ELSE Blocks + 2

(* The stage the sender has seen acknowledged. *)
Counted == IF s \in NotSending \cup {"name"} THEN 0
           ELSE IF s = "nameC" THEN 1
           ELSE IF s = "data" THEN blk
           ELSE IF s = "eot" THEN Blocks + 1 ELSE Blocks + 2

Tokens == {NamePacket, NullPacket} \cup {Packet(n) : n \in 1..Blocks}
            \cup {Token(k) : k \in {"bad", "noise", "rest", "can", "eot"}}

Characters == {"ack", "nak", "C", "can", "noise", "ff"}

Types ==
  /\ s \in NotSending \cup {"name", "nameC", "data", "eot", "eotC", "null",
                            "sent", "failed", "unopened", "crashed"}
  /\ blk \in 0..Blocks /\ (s = "data" => blk >= 1) /\ crcNak \in BOOLEAN
  /\ r \in {"off", "receiving", "done", "zero"}
  /\ rxed \in 0..(Blocks + 1) /\ errs \in 0..MaxErrors
  /\ r \in {"off", "receiving"} => errs < MaxErrors
  /\ size \in Sizes
  /\ toR \in Seq(Tokens)
  /\ toS \in Seq(Characters)

(* What is stored is the beginning of the file, up to the stage. *)
Storage ==
  /\ got \in Seq(1..Blocks) /\ StoredInOrder /\ Len(got) <= Blocks
  /\ Listening /\ rxed > 0 => Len(got) = rxed - 1
  /\ Listening /\ rxed = 0 => got = <<>> \/ got = File
  /\ r = "off" => rxed = 0 /\ got = <<>> /\ toS = <<>>
  /\ r = "done" => got = File

(* Tokens for stage k, or for the one before; in order; none beyond n. *)
Fitting(q, k) == \A i \in 1..Len(q) : Proper(q[i]) => Rank(q[i]) \in {k - 1, k}

Sorted(q) ==
  \A i, j \in 1..Len(q) :
    i < j /\ Proper(q[i]) /\ Proper(q[j]) => Rank(q[i]) <= Rank(q[j])

Bounded(q, n) == \A i \in 1..Len(q) : Proper(q[i]) => Rank(q[i]) <= n

(* What is on its way to the receiver is what it expects, or what it has   *)
(* just had, in the order in which it was sent.                            *)
OnLine ==
  Listening =>
    /\ Fitting(toR, Stage) /\ Sorted(toR)
    /\ ~SenderEnded => Bounded(toR, LastRank)

(* The sender is at the receiver's stage or the one before. *)
InTouch ==
  Listening /\ ~SenderEnded =>
    /\ Stage \in {Counted, Counted + 1}
    /\ s \in NotSending \cup {"nameC"} => Stage = Counted

NoAck(q) == \A i \in 1..Len(q) : q[i] # "ack"

SingleAck(q) == \A i, j \in 1..Len(q) : q[i] = "ack" /\ q[j] = "ack" => i = j

(* An ACK is on its way only for a stage that the sender has not counted. *)
OneAck ==
  Listening /\ ~SenderEnded /\ Stage <= Blocks + 1 =>
    /\ Stage = Counted => NoAck(toS)
    /\ SingleAck(toS)

TransferInv == Types /\ Storage /\ OnLine /\ InTouch /\ OneAck
-----------------------------------------------------------------------------
LEMMA Quotients ==
  ASSUME NEW a \in Nat, NEW b \in Nat \ {0}
  PROVE  /\ a \div b \in Nat /\ a % b \in 0..(b - 1)
         /\ a = b * (a \div b) + (a % b)
  OBVIOUS

LEMMA QuotientPositive ==
  ASSUME NEW a \in Nat, NEW b \in Nat \ {0}, a >= b
  PROVE  a \div b >= 1
<1> DEFINE q == a \div b
           m == a % b
<1>1. q \in Nat /\ m \in 0..(b - 1) /\ a = b * q + m
  BY Quotients
<1> HIDE DEF q, m
<1>2. ASSUME q = 0 PROVE FALSE
  <2>1. b * q = 0
    BY <1>2
  <2> QED
    BY <1>1, <2>1
<1>3. q >= 1
  BY <1>1, <1>2
<1> QED
  BY <1>3 DEF q

LEMMA BlocksPositive ==
  ASSUME size \in Sizes
  PROVE  Blocks \in Nat /\ Blocks >= 1
<1>1. size \in Nat /\ size >= 1 /\ BlockSize \in Nat \ {0}
  BY YModemAssumption
<1>2. size + BlockSize - 1 \in Nat /\ size + BlockSize - 1 >= BlockSize
  BY <1>1
<1> QED
  BY <1>1, <1>2, Quotients, QuotientPositive DEF Blocks

(* Neighbours have different numbers on the line. *)
LEMMA Neighbours ==
  ASSUME NEW k \in Nat, k >= 1
  PROVE  /\ k % SeqMod # (k - 1) % SeqMod
         /\ 0 % SeqMod = 0
<1>1. SeqMod \in Nat \ {0} /\ SeqMod >= 2
  BY YModemAssumption
<1> DEFINE p == k \div SeqMod
           q == (k - 1) \div SeqMod
           m == k % SeqMod
           n == (k - 1) % SeqMod
<1>2. /\ p \in Nat /\ q \in Nat /\ m \in Nat /\ n \in Nat
      /\ k = SeqMod * p + m /\ k - 1 = SeqMod * q + n
  <2>1. p \in Nat /\ m \in Nat /\ k = SeqMod * p + m
    BY <1>1, Quotients
  <2>2. k - 1 \in Nat
    OBVIOUS
  <2>3. q \in Nat /\ n \in Nat /\ k - 1 = SeqMod * q + n
    BY <1>1, <2>2, Quotients
  <2> QED
    BY <2>1, <2>3
<1> HIDE DEF p, q, m, n
<1>3. ASSUME m = n PROVE FALSE
  <2>1. SeqMod * p = SeqMod * q + 1
    BY <1>1, <1>2, <1>3
  <2>2. SeqMod * (p - q) = 1
    BY <1>1, <1>2, <2>1
  <2>3. PICK d \in Int : d = p - q
    BY <1>2
  <2>4. SeqMod * d = 1
    BY <2>2, <2>3
  <2>5. d >= 1
    <3>1. ASSUME d <= 0 PROVE FALSE
      <4>1. SeqMod * d <= 0
        BY <1>1, <2>3, <3>1
      <4> QED
        BY <2>4, <4>1
    <3> QED
      BY <2>3, <3>1
  <2>6. SeqMod * d >= SeqMod
    BY <1>1, <2>3, <2>5
  <2> QED
    BY <1>1, <2>4, <2>6
<1>4. 0 % SeqMod = 0
  BY <1>1
<1> QED
  BY <1>3, <1>4 DEF m, n

(* The tokens the two sides send, and what they are for. *)
LEMMA TokenFacts ==
  /\ NamePacket # NullPacket
  /\ NamePacket.kind = "packet" /\ NamePacket.seq = 0 % SeqMod /\ NamePacket.body = 0
  /\ NullPacket.kind = "packet" /\ NullPacket.seq = 0 % SeqMod /\ NullPacket.body = 0
  /\ \A n \in 1..Blocks : /\ Packet(n).kind = "packet" /\ Packet(n).seq = n % SeqMod
                          /\ Packet(n).body = n /\ Packet(n) # NullPacket
  /\ \A k : Token(k).kind = k
<1>1. NamePacket # NullPacket
  <2>1. NamePacket.name = "firmware" /\ NullPacket.name = ""
    BY DEF NamePacket, NullPacket, Packet
  <2> QED
    BY <2>1
<1>2. \A n \in 1..Blocks : Packet(n) # NullPacket
  <2> TAKE n \in 1..Blocks
  <2>1. Packet(n).body = n /\ NullPacket.body = 0
    BY DEF NullPacket, Packet
  <2> QED
    BY <2>1
<1> QED
  BY <1>1, <1>2 DEF NamePacket, NullPacket, Packet, Token

LEMMA Ranks ==
  /\ Rank(NamePacket) = 0 /\ Rank(NullPacket) = Blocks + 2
  /\ Rank(Token("eot")) = Blocks + 1
  /\ \A n \in 1..Blocks : Rank(Packet(n)) = n
  BY TokenFacts DEF Rank

(* A packet on the line, by its rank. *)
LEMMA PacketForms ==
  ASSUME NEW t \in Tokens, t.kind = "packet"
  PROVE  \/ t = NamePacket \/ t = NullPacket
         \/ \E n \in 1..Blocks : t = Packet(n)
  BY TokenFacts DEF Tokens

LEMMA EotForm ==
  ASSUME NEW t \in Tokens, t.kind = "eot"
  PROVE  t = Token("eot")
  BY TokenFacts DEF Tokens

LEMMA RankInt ==
  ASSUME NEW t \in Tokens, Proper(t), Blocks \in Nat
  PROVE  Rank(t) \in Nat
<1>1. CASE t.kind = "packet"
  BY <1>1, PacketForms, Ranks
<1>2. CASE t.kind = "eot"
  BY <1>2, EotForm, Ranks
<1> QED
  BY <1>1, <1>2 DEF Proper
-----------------------------------------------------------------------------
(* What reading and writing does to the lines. *)
LEMMA OneMore ==
  ASSUME NEW S, NEW q \in Seq(S), NEW x \in S
  PROVE  /\ q \o <<x>> \in Seq(S) /\ Len(q \o <<x>>) = Len(q) + 1 /\ Len(q) \in Nat
         /\ \A i \in 1..Len(q) : (q \o <<x>>)[i] = q[i]
         /\ (q \o <<x>>)[Len(q) + 1] = x
<1>1. Append(q, x) = q \o <<x>>
  BY AppendIsConcat
<1> QED
  BY <1>1, AppendProperties, LenProperties

LEMMA OneLess ==
  ASSUME NEW S, NEW q \in Seq(S), q # <<>>
  PROVE  /\ Tail(q) \in Seq(S) /\ Len(Tail(q)) = Len(q) - 1
         /\ Len(q) \in Nat /\ Len(q) >= 1
         /\ \A i \in 1..Len(Tail(q)) : Tail(q)[i] = q[i + 1]
         /\ Head(q) = q[1] /\ Head(q) \in S
<1>1. Len(q) \in Nat /\ Len(q) >= 1
  BY EmptySeq
<1>2. /\ Tail(q) \in Seq(S) /\ Len(Tail(q)) = Len(q) - 1 /\ Head(q) \in S
      /\ \A i \in 1..Len(Tail(q)) : Tail(q)[i] = q[i + 1]
  BY HeadTailProperties
<1>3. Head(q) = q[1]
  OBVIOUS
<1> QED
  BY <1>1, <1>2, <1>3

LEMMA OtherHead ==
  ASSUME NEW S, NEW q \in Seq(S), q # <<>>, NEW x \in S
  PROVE  /\ <<x>> \o Tail(q) \in Seq(S) /\ Len(<<x>> \o Tail(q)) = Len(q)
         /\ Len(q) \in Nat
         /\ (<<x>> \o Tail(q))[1] = x
         /\ \A i \in 2..Len(q) : (<<x>> \o Tail(q))[i] = q[i]
<1>1. /\ Tail(q) \in Seq(S) /\ Len(Tail(q)) = Len(q) - 1
      /\ Len(q) \in Nat /\ Len(q) >= 1
      /\ \A i \in 1..Len(Tail(q)) : Tail(q)[i] = q[i + 1]
  BY OneLess
<1>2. <<x>> \in Seq(S) /\ Len(<<x>>) = 1 /\ <<x>>[1] = x
  OBVIOUS
<1>3. /\ <<x>> \o Tail(q) \in Seq(S)
      /\ Len(<<x>> \o Tail(q)) = Len(<<x>>) + Len(Tail(q))
      /\ \A i \in 1..(Len(<<x>>) + Len(Tail(q))) :
           (<<x>> \o Tail(q))[i] = IF i <= Len(<<x>>) THEN <<x>>[i] ELSE Tail(q)[i - Len(<<x>>)]
  BY <1>1, <1>2, ConcatProperties
<1> QED
  BY <1>1, <1>2, <1>3

LEMMA Sending ==
  ASSUME NEW q \in Seq(Tokens), NEW t \in Tokens, Blocks \in Nat,
         NEW k \in Int, NEW m \in Int, NEW n \in Int, m <= n
  PROVE  /\ q \o <<t>> \in Seq(Tokens)
         /\ Fitting(q, k) /\ (Proper(t) => Rank(t) \in {k - 1, k}) => Fitting(q \o <<t>>, k)
         /\ Sorted(q) /\ Bounded(q, m) /\ (Proper(t) => m <= Rank(t)) => Sorted(q \o <<t>>)
         /\ Bounded(q, m) /\ (Proper(t) => Rank(t) <= n) => Bounded(q \o <<t>>, n)
<1> DEFINE p == q \o <<t>>
<1>1. /\ p \in Seq(Tokens) /\ Len(p) = Len(q) + 1 /\ Len(q) \in Nat
      /\ \A i \in 1..Len(q) : p[i] = q[i]
      /\ p[Len(q) + 1] = t
  BY OneMore
<1>2. \A i \in 1..Len(q) : Proper(q[i]) => Rank(q[i]) \in Nat
  BY RankInt, ElementOfSeq
<1>3. Proper(t) => Rank(t) \in Nat
  BY RankInt
<1> HIDE DEF p
<1>4. \A i \in 1..Len(p) : i \in 1..Len(q) \/ i = Len(q) + 1
  BY <1>1
<1>5. Fitting(q, k) /\ (Proper(t) => Rank(t) \in {k - 1, k}) => Fitting(p, k)
  BY <1>1, <1>4 DEF Fitting
<1>6. Bounded(q, m) /\ (Proper(t) => Rank(t) <= n) => Bounded(p, n)
  BY <1>1, <1>2, <1>3, <1>4 DEF Bounded
<1>7. ASSUME Sorted(q), Bounded(q, m), Proper(t) => m <= Rank(t) PROVE Sorted(p)
  <2> SUFFICES ASSUME NEW i \in 1..Len(p), NEW j \in 1..Len(p), i < j,
                      Proper(p[i]), Proper(p[j])
               PROVE  Rank(p[i]) <= Rank(p[j])
    BY DEF Sorted
  <2>1. i \in 1..Len(q) /\ p[i] = q[i]
    BY <1>1
  <2>2. CASE j \in 1..Len(q)
    BY <1>1, <1>7, <2>1, <2>2 DEF Sorted
  <2>3. CASE j = Len(q) + 1
    BY <1>1, <1>2, <1>3, <1>7, <2>1, <2>3 DEF Bounded
  <2> QED
    BY <1>4, <2>2, <2>3
<1> QED
  BY <1>1, <1>5, <1>6, <1>7 DEF p

LEMMA Reading ==
  ASSUME NEW q \in Seq(Tokens), q # <<>>, Blocks \in Nat, NEW k \in Int, NEW m \in Int
  PROVE  /\ Tail(q) \in Seq(Tokens) /\ Head(q) \in Tokens
         /\ Fitting(q, k) => Fitting(Tail(q), k)
         /\ Fitting(q, k) /\ Proper(Head(q)) => Rank(Head(q)) \in {k - 1, k}
         /\ Fitting(q, k) /\ Sorted(q) /\ Proper(Head(q)) /\ Rank(Head(q)) = k
              => Fitting(Tail(q), k + 1)
         /\ Sorted(q) => Sorted(Tail(q))
         /\ Bounded(q, m) => Bounded(Tail(q), m)
         /\ Bounded(q, m) /\ Proper(Head(q)) => Rank(Head(q)) <= m
<1> DEFINE p == Tail(q)
<1>1. /\ p \in Seq(Tokens) /\ Len(p) = Len(q) - 1
      /\ Len(q) \in Nat /\ Len(q) >= 1
      /\ \A i \in 1..Len(p) : p[i] = q[i + 1]
      /\ Head(q) = q[1] /\ Head(q) \in Tokens
  BY OneLess
<1>2. \A i \in 1..Len(q) : Proper(q[i]) => Rank(q[i]) \in Nat
  BY RankInt, ElementOfSeq
<1> HIDE DEF p
<1>3. \A i \in 1..Len(p) : i + 1 \in 1..Len(q) /\ i + 1 > 1
  BY <1>1
<1>4. Fitting(q, k) => Fitting(p, k)
  BY <1>1, <1>3 DEF Fitting
<1>5. Fitting(q, k) /\ Proper(Head(q)) => Rank(Head(q)) \in {k - 1, k}
  BY <1>1 DEF Fitting
<1>6. ASSUME Fitting(q, k), Sorted(q), Proper(Head(q)), Rank(Head(q)) = k
      PROVE  Fitting(p, k + 1)
  <2> SUFFICES ASSUME NEW i \in 1..Len(p), Proper(p[i])
               PROVE  Rank(p[i]) \in {k + 1 - 1, k + 1}
    BY DEF Fitting
  <2>1. i + 1 \in 1..Len(q) /\ 1 < i + 1 /\ p[i] = q[i + 1] /\ 1 \in 1..Len(q)
    BY <1>1, <1>3
  <2>2. Rank(q[1]) <= Rank(q[i + 1])
    BY <1>1, <1>6, <2>1 DEF Sorted
  <2>3. Rank(q[i + 1]) \in {k - 1, k} /\ Rank(q[1]) = k
    BY <1>1, <1>6, <2>1 DEF Fitting
  <2> QED
    BY <2>1, <2>2, <2>3
<1>7. ASSUME Sorted(q) PROVE Sorted(p)
  <2> SUFFICES ASSUME NEW i \in 1..Len(p), NEW j \in 1..Len(p), i < j,
                      Proper(p[i]), Proper(p[j])
               PROVE  Rank(p[i]) <= Rank(p[j])
    BY DEF Sorted
  <2>1. i + 1 \in 1..Len(q) /\ j + 1 \in 1..Len(q) /\ i + 1 < j + 1
        /\ p[i] = q[i + 1] /\ p[j] = q[j + 1]
    BY <1>1, <1>3
  <2> QED
    BY <1>7, <2>1 DEF Sorted
<1>8. Bounded(q, m) => Bounded(p, m)
  BY <1>1, <1>3 DEF Bounded
<1>9. Bounded(q, m) /\ Proper(Head(q)) => Rank(Head(q)) <= m
  BY <1>1 DEF Bounded
<1> QED
  BY <1>1, <1>4, <1>5, <1>6, <1>7, <1>8, <1>9 DEF p

LEMMA Damaging ==
  ASSUME NEW q \in Seq(Tokens), q # <<>>, NEW t \in Tokens, ~Proper(t),
         NEW k \in Int, NEW m \in Int
  PROVE  /\ <<t>> \o Tail(q) \in Seq(Tokens)
         /\ Fitting(q, k) => Fitting(<<t>> \o Tail(q), k)
         /\ Sorted(q) => Sorted(<<t>> \o Tail(q))
         /\ Bounded(q, m) => Bounded(<<t>> \o Tail(q), m)
<1> DEFINE p == <<t>> \o Tail(q)
<1>1. /\ p \in Seq(Tokens) /\ Len(p) = Len(q) /\ Len(q) \in Nat
      /\ p[1] = t /\ \A i \in 2..Len(q) : p[i] = q[i]
  BY OtherHead
<1> HIDE DEF p
<1>2. \A i \in 1..Len(p) : Proper(p[i]) => i \in 1..Len(q) /\ p[i] = q[i]
  <2> SUFFICES ASSUME NEW i \in 1..Len(p), Proper(p[i]) PROVE i \in 2..Len(q)
    BY <1>1
  <2> QED
    BY <1>1
<1>3. Fitting(q, k) => Fitting(p, k)
  BY <1>2 DEF Fitting
<1>4. Sorted(q) => Sorted(p)
  BY <1>2 DEF Sorted
<1>5. Bounded(q, m) => Bounded(p, m)
  BY <1>2 DEF Bounded
<1> QED
  BY <1>1, <1>3, <1>4, <1>5 DEF p

(* Answers read, lost, damaged and given. *)
LEMMA AnswerRead ==
  ASSUME NEW q \in Seq(Characters), q # <<>>
  PROVE  /\ Tail(q) \in Seq(Characters)
         /\ NoAck(q) => NoAck(Tail(q)) /\ Head(q) # "ack"
         /\ SingleAck(q) => SingleAck(Tail(q))
         /\ SingleAck(q) /\ Head(q) = "ack" => NoAck(Tail(q))
<1> DEFINE p == Tail(q)
<1>1. /\ p \in Seq(Characters) /\ Len(p) = Len(q) - 1
      /\ Len(q) \in Nat /\ Len(q) >= 1
      /\ \A i \in 1..Len(p) : p[i] = q[i + 1]
      /\ Head(q) = q[1]
  BY OneLess
<1> HIDE DEF p
<1>2. \A i \in 1..Len(p) : i + 1 \in 1..Len(q) /\ i + 1 # 1
  BY <1>1
<1>3. NoAck(q) => NoAck(p) /\ Head(q) # "ack"
  BY <1>1, <1>2 DEF NoAck
<1>4. ASSUME SingleAck(q) PROVE SingleAck(p)
  <2> SUFFICES ASSUME NEW i \in 1..Len(p), NEW j \in 1..Len(p),
                      p[i] = "ack", p[j] = "ack"
               PROVE  i = j
    BY DEF SingleAck
  <2>1. i + 1 = j + 1
    BY <1>1, <1>2, <1>4 DEF SingleAck
  <2> QED
    BY <2>1
<1>5. ASSUME SingleAck(q), Head(q) = "ack" PROVE NoAck(p)
  BY <1>1, <1>2, <1>5 DEF SingleAck, NoAck
<1> QED
  BY <1>1, <1>3, <1>4, <1>5 DEF p

LEMMA AnswerDamaged ==
  ASSUME NEW q \in Seq(Characters), q # <<>>, NEW c \in Characters, c # "ack"
  PROVE  /\ <<c>> \o Tail(q) \in Seq(Characters)
         /\ NoAck(q) => NoAck(<<c>> \o Tail(q))
         /\ SingleAck(q) => SingleAck(<<c>> \o Tail(q))
<1> DEFINE p == <<c>> \o Tail(q)
<1>1. /\ p \in Seq(Characters) /\ Len(p) = Len(q) /\ Len(q) \in Nat
      /\ p[1] = c /\ \A i \in 2..Len(q) : p[i] = q[i]
  BY OtherHead
<1> HIDE DEF p
<1>2. \A i \in 1..Len(p) : p[i] = "ack" => i \in 1..Len(q) /\ q[i] = "ack"
  <2> SUFFICES ASSUME NEW i \in 1..Len(p), p[i] = "ack" PROVE i \in 2..Len(q)
    BY <1>1
  <2> QED
    BY <1>1
<1> QED
  BY <1>1, <1>2 DEF p, NoAck, SingleAck

LEMMA AnswerGiven ==
  ASSUME NEW q \in Seq(Characters), NEW c \in Characters
  PROVE  /\ q \o <<c>> \in Seq(Characters)
         /\ NoAck(q) /\ c # "ack" => NoAck(q \o <<c>>)
         /\ SingleAck(q) /\ c # "ack" => SingleAck(q \o <<c>>)
         /\ NoAck(q) => SingleAck(q \o <<c>>)
<1> DEFINE p == q \o <<c>>
<1>1. /\ p \in Seq(Characters) /\ Len(p) = Len(q) + 1 /\ Len(q) \in Nat
      /\ \A i \in 1..Len(q) : p[i] = q[i]
      /\ p[Len(q) + 1] = c
  BY OneMore
<1> HIDE DEF p
<1>2. \A i \in 1..Len(p) : i \in 1..Len(q) \/ i = Len(q) + 1
  BY <1>1
<1>3. NoAck(q) /\ c # "ack" => NoAck(p)
  BY <1>1, <1>2 DEF NoAck
<1>4. SingleAck(q) /\ c # "ack" => SingleAck(p)
  BY <1>1, <1>2 DEF SingleAck
<1>5. NoAck(q) => SingleAck(p)
  BY <1>1, <1>2 DEF SingleAck, NoAck
<1> QED
  BY <1>1, <1>3, <1>4, <1>5 DEF p

LEMMA TwoAnswersGiven ==
  ASSUME NEW q \in Seq(Characters)
  PROVE  /\ q \o <<"ack", "C">> \in Seq(Characters)
         /\ NoAck(q) => SingleAck(q \o <<"ack", "C">>)
<1> DEFINE p == q \o <<"ack">>
<1>0. "ack" \in Characters /\ "C" \in Characters
  BY DEF Characters
<1>1. p \in Seq(Characters) /\ (NoAck(q) => SingleAck(p))
  BY <1>0, AnswerGiven
<1>2. p \o <<"C">> \in Seq(Characters) /\ (SingleAck(p) => SingleAck(p \o <<"C">>))
  BY <1>0, <1>1, AnswerGiven
<1>3. p \o <<"C">> = q \o <<"ack", "C">>
  <2>1. <<"ack">> \in Seq(Characters) /\ <<"C">> \in Seq(Characters)
    BY <1>0
  <2>2. p \o <<"C">> = q \o (<<"ack">> \o <<"C">>)
    BY <2>1, ConcatAssociative
  <2> QED
    BY <2>2
<1> QED
  BY <1>1, <1>2, <1>3
-----------------------------------------------------------------------------
LEMMA Places ==
  ASSUME Types
  PROVE  /\ Blocks \in Nat /\ Blocks >= 1
         /\ Stage \in 0..(Blocks + 2) /\ LastRank \in Int /\ Counted \in Nat
<1>1. Blocks \in Nat /\ Blocks >= 1
  BY BlocksPositive DEF Types
<1> QED
  BY <1>1 DEF Types, Stage, LastRank, Counted

LEMMA TokensOnLine ==
  /\ NamePacket \in Tokens /\ NullPacket \in Tokens
  /\ \A n \in 1..Blocks : Packet(n) \in Tokens
  /\ \A k \in {"bad", "noise", "rest", "can", "eot"} : Token(k) \in Tokens
  /\ Bad \in Tokens
  /\ \A k \in {"bad", "noise", "rest", "can"} : ~Proper(Token(k))
  /\ ~Proper(Bad)
  BY TokenFacts DEF Tokens, Bad, Proper

(* The length of the file never changes, so the line may be looked at as before. *)
LEMMA LineNext ==
  ASSUME UNCHANGED size,
         Listening' =>
           /\ Fitting(toR', Stage') /\ Sorted(toR')
           /\ ~SenderEnded' => Bounded(toR', LastRank')
  PROVE  OnLine'
<1>1. Blocks' = Blocks
  BY DEF Blocks
<1> QED
  BY <1>1 DEF OnLine, Fitting, Sorted, Bounded, Rank, Proper

LEMMA SetupKeeps ==
  ASSUME UNCHANGED setup
  PROVE  UNCHANGED <<size, Blocks, Tokens, File>>
  BY DEF setup, Blocks, Tokens, NamePacket, File

LEMMA StageKeeps ==
  ASSUME UNCHANGED receiverVars, UNCHANGED setup
  PROVE  UNCHANGED <<Stage, Listening, ReceiverEnded>>
  BY SetupKeeps DEF receiverVars, Stage, Listening, ReceiverEnded

LEMMA SenderSilent ==
  ASSUME TransferInv, ~SenderEnded, UNCHANGED <<receiverVars, setup>>, UNCHANGED toR,
         ~SenderEnded' => LastRank' \in Int /\ LastRank <= LastRank'
  PROVE  OnLine' /\ toR' \in Seq(Tokens)
<1>1. Types /\ OnLine
  BY DEF TransferInv
<1>2. UNCHANGED <<size, Stage, Listening>>
  BY SetupKeeps, StageKeeps
<1>3. Bounded(toR, LastRank) /\ ~SenderEnded' => Bounded(toR, LastRank')
  <2>1. \A i \in 1..Len(toR) : Proper(toR[i]) => Rank(toR[i]) \in Nat
    BY <1>1, Places, RankInt, ElementOfSeq DEF Types
  <2> QED
    BY <1>1, <2>1, Places DEF Bounded
<1> QED
  BY <1>1, <1>2, <1>3, LineNext DEF OnLine, Types

LEMMA SenderSends ==
  ASSUME TransferInv, ~SenderEnded, UNCHANGED <<receiverVars, setup>>,
         NEW t \in Tokens, PutR(<<t>>),
         Listening /\ Proper(t) =>
           /\ Rank(t) \in {Stage - 1, Stage} /\ LastRank <= Rank(t)
           /\ ~SenderEnded' => Rank(t) <= LastRank',
         ~SenderEnded' => LastRank' \in Int /\ LastRank <= LastRank'
  PROVE  OnLine' /\ toR' \in Seq(Tokens)
<1>1. Types /\ OnLine
  BY DEF TransferInv
<1>2. UNCHANGED <<size, Stage, Listening>>
  BY SetupKeeps, StageKeeps
<1>3. toR \in Seq(Tokens) /\ Blocks \in Nat /\ Stage \in Int /\ LastRank \in Int
  BY <1>1, Places DEF Types
<1>4. toR' \in Seq(Tokens)
  BY <1>3, OneMore DEF PutR
<1>5. ASSUME Listening
      PROVE  /\ Fitting(toR', Stage) /\ Sorted(toR')
             /\ ~SenderEnded' => Bounded(toR', LastRank')
  <2>1. toR' = toR \o <<t>>
    BY <1>5 DEF PutR, Listening, ReceiverEnded, TransferInv, Types
  <2>2. Fitting(toR, Stage) /\ Sorted(toR) /\ Bounded(toR, LastRank)
    BY <1>1, <1>5 DEF OnLine
  <2>3. Fitting(toR', Stage) /\ Sorted(toR')
    <3>1. LastRank <= LastRank
      BY <1>3
    <3> QED
      BY <1>3, <1>5, <2>1, <2>2, <3>1, Sending
  <2>4. ASSUME ~SenderEnded' PROVE Bounded(toR', LastRank')
    BY <1>3, <1>5, <2>1, <2>2, <2>4, Sending
  <2> QED
    BY <2>3, <2>4
<1> QED
  BY <1>2, <1>4, <1>5, LineNext

LEMMA SenderReadsFacts ==
  ASSUME Types, NEW c, SenderReads(c)
  PROVE  /\ toS' \in Seq(Characters)
         /\ toS = <<>> => toS' = <<>>
         /\ NoAck(toS) => NoAck(toS') /\ c # "ack"
         /\ SingleAck(toS) => SingleAck(toS')
         /\ SingleAck(toS) /\ c = "ack" => NoAck(toS')
<1>1. CASE toS # <<>> /\ c = Head(toS) /\ toS' = Tail(toS)
  BY <1>1, AnswerRead DEF Types
<1>2. CASE toS = <<>> /\ c = "timeout" /\ UNCHANGED toS
  BY <1>2 DEF Types
<1> QED
  BY <1>1, <1>2 DEF SenderReads

LEMMA SenderKeepsStorage ==
  ASSUME TransferInv, UNCHANGED <<receiverVars, setup>>, toS = <<>> => toS' = <<>>
  PROVE  Storage'
  BY SetupKeeps, StageKeeps DEF TransferInv, Storage, StoredInOrder, receiverVars

SenderTypes ==
  /\ s \in NotSending \cup {"name", "nameC", "data", "eot", "eotC", "null",
                            "sent", "failed", "unopened", "crashed"}
  /\ blk \in 0..Blocks /\ (s = "data" => blk >= 1) /\ crcNak \in BOOLEAN
  /\ toS \in Seq(Characters)

LEMMA SenderKeepsTypes ==
  ASSUME TransferInv, UNCHANGED <<receiverVars, setup>>, SenderTypes',
         toR' \in Seq(Tokens)
  PROVE  Types'
  BY SetupKeeps DEF TransferInv, Types, receiverVars, SenderTypes, setup

(* What a step of the sender must do for the invariant, beside the line's. *)
LEMMA SenderMoves ==
  ASSUME TransferInv, UNCHANGED <<receiverVars, setup>>,
         SenderTypes', toR' \in Seq(Tokens), OnLine', toS = <<>> => toS' = <<>>,
         Listening /\ ~SenderEnded' =>
           /\ Stage \in {Counted', Counted' + 1}
           /\ s' \in NotSending \cup {"nameC"} => Stage = Counted'
           /\ Stage <= Blocks + 1 => SingleAck(toS') /\ (Stage = Counted' => NoAck(toS'))
  PROVE  TransferInv'
<1>1. Types' /\ Storage'
  BY SenderKeepsStorage, SenderKeepsTypes
<1>2. UNCHANGED <<Stage, Listening, Blocks>>
  BY SetupKeeps, StageKeeps
<1>3. InTouch' /\ OneAck'
  BY <1>2 DEF InTouch, OneAck
<1> QED
  BY <1>1, <1>3 DEF TransferInv

(* The sender goes on with block n, or with EOT after the last. *)
LEMMA SendsBlockOrEot ==
  ASSUME TransferInv, UNCHANGED <<receiverVars, setup, crcNak>>,
         NEW n, \/ s = "nameC" /\ n = 1
                \/ s = "data" /\ n = blk + 1,
         SendBlockOrEot(n),
         toS' \in Seq(Characters), toS = <<>> => toS' = <<>>,
         Listening => Stage = n /\ NoAck(toS')
  PROVE  TransferInv'
<1>1. /\ Types /\ Blocks \in Nat /\ Blocks >= 1 /\ blk \in 0..Blocks
      /\ n \in 1..(Blocks + 1) /\ ~SenderEnded /\ UNCHANGED Blocks
      /\ LastRank = n - 1
  BY Places, SetupKeeps DEF TransferInv, Types, SenderEnded, LastRank, NotSending
<1>2. NoAck(toS') => SingleAck(toS')
  BY DEF NoAck, SingleAck
<1>3. CASE More(n) /\ PutR(<<Packet(n)>>) /\ s' = "data" /\ blk' = n
  <2>1. n \in 1..Blocks /\ Packet(n) \in Tokens /\ Rank(Packet(n)) = n
    BY <1>1, <1>3, TokensOnLine, Ranks DEF More
  <2>2. LastRank' = n /\ Counted' = n
    BY <1>3 DEF LastRank, Counted, NotSending
  <2>3. OnLine' /\ toR' \in Seq(Tokens)
    BY <1>1, <1>3, <2>1, <2>2, SenderSends
  <2>4. SenderTypes'
    BY <1>1, <1>3, <2>1, <2>3 DEF SenderTypes, TransferInv, Types
  <2> QED
    BY <1>2, <1>3, <2>2, <2>3, <2>4, SenderMoves DEF NotSending
<1>4. CASE s' = "crashed" /\ UNCHANGED <<blk, toR>>
  <2>1. SenderEnded'
    BY <1>4 DEF SenderEnded
  <2>2. OnLine' /\ toR' \in Seq(Tokens)
    BY <1>1, <1>4, <2>1, SenderSilent
  <2>3. SenderTypes'
    BY <1>1, <1>4, <2>2 DEF SenderTypes, TransferInv, Types
  <2> QED
    BY <2>1, <2>2, <2>3, SenderMoves
<1>5. CASE ~More(n) /\ PutR(<<Token("eot")>>) /\ s' = "eot" /\ UNCHANGED blk
  <2>1. n = Blocks + 1 /\ Token("eot") \in Tokens /\ Rank(Token("eot")) = n
    BY <1>1, <1>5, TokensOnLine, Ranks DEF More
  <2>2. LastRank' = n /\ Counted' = n
    BY <1>1, <1>5, <2>1 DEF LastRank, Counted, NotSending
  <2>3. OnLine' /\ toR' \in Seq(Tokens)
    BY <1>1, <1>5, <2>1, <2>2, SenderSends
  <2>4. SenderTypes'
    BY <1>1, <1>5, <2>3 DEF SenderTypes, TransferInv, Types
  <2> QED
    BY <1>2, <1>5, <2>2, <2>3, <2>4, SenderMoves DEF NotSending
<1> QED
  BY <1>3, <1>4, <1>5 DEF SendBlockOrEot

(* The sender stays at its stage, and sends what it has sent before. *)
LEMMA SendsAgain ==
  ASSUME TransferInv, ~SenderEnded, UNCHANGED <<receiverVars, setup, blk>>,
         NEW c, SenderReads(c), crcNak' \in BOOLEAN,
         NEW t \in Tokens, PutR(<<t>>),
         \/ s = "name" /\ s' = "name" /\ t = NamePacket
         \/ s = "nameC" /\ s' = "name" /\ t = NamePacket
         \/ s = "data" /\ s' = "data" /\ t = Packet(blk)
         \/ s = "eot" /\ s' = "eot" /\ t = Token("eot")
         \/ s = "null" /\ s' = "null" /\ t = NullPacket
  PROVE  TransferInv'
<1>1. /\ Types /\ Blocks \in Nat /\ Blocks >= 1 /\ UNCHANGED Blocks
      /\ Stage \in 0..(Blocks + 2) /\ blk \in 0..Blocks
      /\ s = "data" => blk \in 1..Blocks
  BY Places, SetupKeeps DEF TransferInv, Types
<1>2. Rank(t) = LastRank /\ LastRank' = LastRank /\ LastRank \in Int
  BY <1>1, Ranks DEF LastRank, NotSending
<1>3. ~SenderEnded' /\ (Counted' = Counted \/ (Counted = 1 /\ Counted' = 0 /\ s = "nameC"))
  BY <1>1 DEF SenderEnded, Counted, NotSending
<1>4. ASSUME Listening
      PROVE  /\ Stage \in {Counted, Counted + 1} /\ (s = "nameC" => Stage = 1)
             /\ Stage <= Blocks + 1 =>
                  SingleAck(toS) /\ (Stage = Counted => NoAck(toS))
  BY <1>4 DEF TransferInv, InTouch, OneAck, Counted, NotSending
<1>5. Listening => Rank(t) \in {Stage - 1, Stage}
  BY <1>1, <1>2, <1>4 DEF LastRank, Counted, NotSending
<1>6. OnLine' /\ toR' \in Seq(Tokens)
  BY <1>1, <1>2, <1>5, SenderSends
<1>7. SenderTypes'
  BY <1>1, <1>6, SenderReadsFacts DEF SenderTypes, TransferInv, Types
<1>8. ASSUME Listening
      PROVE  /\ Stage \in {Counted', Counted' + 1}
             /\ s' \in NotSending \cup {"nameC"} => Stage = Counted'
             /\ Stage <= Blocks + 1 => SingleAck(toS') /\ (Stage = Counted' => NoAck(toS'))
  BY <1>1, <1>3, <1>4, <1>8, SenderReadsFacts DEF NotSending
<1> QED
  BY <1>1, <1>6, <1>7, <1>8, SenderMoves, SenderReadsFacts

(* The sender ends, for better or worse. *)
LEMMA SenderEnds ==
  ASSUME TransferInv, ~SenderEnded, UNCHANGED <<receiverVars, setup, blk>>,
         toS' \in Seq(Characters), toS = <<>> => toS' = <<>>, crcNak' \in BOOLEAN,
         s' \in {"sent", "failed", "unopened"},
         UNCHANGED toR \/ PutR(<<Token("can")>>)
  PROVE  TransferInv'
<1>1. SenderEnded'
  BY DEF SenderEnded
<1>2. Token("can") \in Tokens /\ ~Proper(Token("can"))
  BY TokensOnLine
<1>3. OnLine' /\ toR' \in Seq(Tokens)
  BY <1>1, <1>2, SenderSilent, SenderSends
<1>4. SenderTypes'
  BY <1>3, SetupKeeps DEF SenderTypes, TransferInv, Types
<1> QED
  BY <1>1, <1>3, <1>4, SenderMoves

(* What the invariant says to a sender that has read an answer. *)
LEMMA AfterReading ==
  ASSUME TransferInv, ~SenderEnded, NEW c, SenderReads(c), UNCHANGED <<receiverVars, setup>>
  PROVE  /\ toS' \in Seq(Characters) /\ (toS = <<>> => toS' = <<>>)
         /\ Listening /\ s \in {"name", "data", "eot"} /\ c = "ack" =>
              Stage = Counted + 1 /\ (Stage <= Blocks + 1 => NoAck(toS'))
         /\ Listening /\ s = "nameC" => Stage = 1 /\ NoAck(toS')
         /\ Listening /\ s \in {"eotC", "null"} => Stage = Blocks + 2
<1>1. /\ Types /\ InTouch /\ OneAck /\ Blocks \in Nat /\ Blocks >= 1
      /\ Stage \in 0..(Blocks + 2) /\ blk \in 0..Blocks
  BY Places DEF TransferInv, Types
<1>2. /\ toS' \in Seq(Characters) /\ (toS = <<>> => toS' = <<>>)
      /\ NoAck(toS) => NoAck(toS') /\ c # "ack"
      /\ SingleAck(toS) /\ c = "ack" => NoAck(toS')
  BY <1>1, SenderReadsFacts
<1>3. ASSUME Listening, s \in {"name", "data", "eot"}, c = "ack"
      PROVE  Stage = Counted + 1 /\ (Stage <= Blocks + 1 => NoAck(toS'))
  <2>1. Stage \in {Counted, Counted + 1} /\ Counted \in 0..(Blocks + 1)
    BY <1>1, <1>3 DEF InTouch, Counted, NotSending
  <2>2. Stage # Counted
    BY <1>1, <1>2, <1>3, <2>1 DEF OneAck
  <2> QED
    BY <1>1, <1>2, <1>3, <2>1, <2>2 DEF OneAck
<1>4. ASSUME Listening, s = "nameC" PROVE Stage = 1 /\ NoAck(toS')
  BY <1>1, <1>2, <1>4 DEF InTouch, OneAck, Counted, NotSending
<1>5. ASSUME Listening, s \in {"eotC", "null"} PROVE Stage = Blocks + 2
  BY <1>1, <1>5 DEF InTouch, Counted, NotSending
<1> QED
  BY <1>2, <1>3, <1>4, <1>5

(* The sender goes on to the next stage without sending. *)
LEMMA StepsOn ==
  ASSUME TransferInv, ~SenderEnded, UNCHANGED <<receiverVars, setup, blk, crcNak>>,
         toS' \in Seq(Characters), toS = <<>> => toS' = <<>>,
         s' \in NotSending \cup {"nameC", "eotC"},
         ~SenderEnded' => LastRank' \in Int /\ LastRank <= LastRank', UNCHANGED toR,
         Listening => /\ Stage = Counted'
                      /\ Stage <= Blocks + 1 => NoAck(toS')
  PROVE  TransferInv'
<1>1. OnLine' /\ toR' \in Seq(Tokens)
  BY SenderSilent
<1>2. SenderTypes'
  BY SetupKeeps DEF SenderTypes, TransferInv, Types, NotSending
<1>3. NoAck(toS') => SingleAck(toS')
  BY DEF NoAck, SingleAck
<1> QED
  BY <1>1, <1>2, <1>3, SenderMoves

LEMMA BeforeSending ==
  ASSUME TransferInv, UNCHANGED setup, UNCHANGED receiverVars,
         OpenPort \/ SetInterfaceAttribs \/ StartUpgrade \/ Flush \/ Discard
  PROVE  TransferInv'
<1>1. /\ s \in NotSending /\ ~SenderEnded /\ UNCHANGED <<blk, crcNak>>
      /\ LastRank = -1 /\ Counted = 0
  BY DEF OpenPort, SetInterfaceAttribs, StartUpgrade, Flush, Discard, NotSending,
         SenderEnded, LastRank, Counted
<1>2. /\ Types /\ InTouch /\ OneAck /\ Blocks \in Nat /\ Blocks >= 1
      /\ crcNak \in BOOLEAN /\ toS \in Seq(Characters)
  BY Places DEF TransferInv, Types
<1>3. Listening => Stage = 0 /\ NoAck(toS)
  BY <1>1, <1>2 DEF InTouch, OneAck
<1>4. /\ toS' \in Seq(Characters) /\ (toS = <<>> => toS' = <<>>)
      /\ NoAck(toS) => NoAck(toS')
  <2>1. CASE UNCHANGED toS
    BY <1>2, <2>1
  <2>2. CASE toS' = <<>>
    BY <2>2, EmptySeq DEF NoAck
  <2>3. CASE toS # <<>> /\ toS' = Tail(toS)
    BY <1>2, <2>3, AnswerRead
  <2> QED
    BY <2>1, <2>2, <2>3 DEF OpenPort, SetInterfaceAttribs, StartUpgrade, Flush, Discard,
                            lineVars
<1>5. CASE s' = "unopened" /\ UNCHANGED toR
  BY <1>1, <1>2, <1>4, <1>5, SenderEnds
<1>6. CASE s' \in NotSending /\ UNCHANGED toR
  <2>1. LastRank' = -1 /\ Counted' = 0
    BY <1>6 DEF LastRank, Counted
  <2> QED
    BY <1>1, <1>3, <1>4, <1>6, <2>1, StepsOn
<1>7. CASE s' = "name" /\ PutR(<<NamePacket>>)
  <2>1. LastRank' = 0 /\ Counted' = 0 /\ Rank(NamePacket) = 0 /\ NamePacket \in Tokens
    BY <1>7, Ranks, TokensOnLine DEF LastRank, Counted, NotSending
  <2>2. OnLine' /\ toR' \in Seq(Tokens)
    BY <1>1, <1>3, <1>7, <2>1, SenderSends
  <2>3. SenderTypes'
    BY <1>1, <1>2, <1>4, <1>7, SetupKeeps DEF SenderTypes, TransferInv, Types
  <2>4. NoAck(toS') => SingleAck(toS')
    BY DEF NoAck, SingleAck
  <2> QED
    BY <1>3, <1>4, <1>7, <2>1, <2>2, <2>3, <2>4, SenderMoves DEF NotSending
<1> QED
  BY <1>5, <1>6, <1>7 DEF OpenPort, SetInterfaceAttribs, StartUpgrade, Flush, Discard,
                          lineVars, NotSending

LEMMA NameAnsweredKeeps ==
  ASSUME TransferInv, UNCHANGED setup, NameAnswered
  PROVE  TransferInv'
<1>1. PICK c \in {"ack", "nak", "C", "can", "noise", "ff", "timeout"} :
        /\ SenderReads(c)
        /\ \/ c = "ack" /\ s' = "nameC" /\ UNCHANGED <<crcNak, toR>>
           \/ PutR(<<NamePacket>>) /\ s' = s /\ crcNak' \in BOOLEAN
           \/ PutR(<<Token("can")>>) /\ s' = "failed" /\ UNCHANGED crcNak
  BY DEF NameAnswered, TransferInv, Types
<1>2. /\ s = "name" /\ ~SenderEnded /\ UNCHANGED <<blk, receiverVars>>
      /\ crcNak \in BOOLEAN /\ LastRank = 0 /\ Counted = 0 /\ Blocks \in Nat
  BY Places DEF NameAnswered, SenderEnded, TransferInv, Types, LastRank, Counted, NotSending
<1>3. /\ toS' \in Seq(Characters) /\ (toS = <<>> => toS' = <<>>)
      /\ Listening /\ c = "ack" => Stage = 1 /\ (Stage <= Blocks + 1 => NoAck(toS'))
  BY <1>1, <1>2, AfterReading
<1>4. CASE c = "ack" /\ s' = "nameC" /\ UNCHANGED <<crcNak, toR>>
  <2>1. LastRank' = 0 /\ Counted' = 1
    BY <1>4 DEF LastRank, Counted, NotSending
  <2> QED
    BY <1>2, <1>3, <1>4, <2>1, StepsOn
<1>5. CASE PutR(<<NamePacket>>) /\ s' = s /\ crcNak' \in BOOLEAN
  BY <1>1, <1>2, <1>5, SendsAgain, TokensOnLine
<1>6. CASE PutR(<<Token("can")>>) /\ s' = "failed" /\ UNCHANGED crcNak
  BY <1>2, <1>3, <1>6, SenderEnds
<1> QED
  BY <1>1, <1>4, <1>5, <1>6

LEMMA DataRequestedKeeps ==
  ASSUME TransferInv, UNCHANGED setup, DataRequested
  PROVE  TransferInv'
<1>1. PICK c \in {"ack", "nak", "C", "can", "noise", "ff", "timeout"} :
        /\ SenderReads(c)
        /\ \/ SendBlockOrEot(1)
           \/ PutR(<<NamePacket>>) /\ s' = "name" /\ UNCHANGED blk
  BY DEF DataRequested
<1>2. s = "nameC" /\ ~SenderEnded /\ UNCHANGED <<crcNak, receiverVars>> /\ crcNak \in BOOLEAN
  BY DEF DataRequested, SenderEnded, TransferInv, Types
<1>3. /\ toS' \in Seq(Characters) /\ (toS = <<>> => toS' = <<>>)
      /\ Listening => Stage = 1 /\ NoAck(toS')
  BY <1>1, <1>2, AfterReading
<1>4. CASE SendBlockOrEot(1)
  BY <1>2, <1>3, <1>4, SendsBlockOrEot
<1>5. CASE PutR(<<NamePacket>>) /\ s' = "name" /\ UNCHANGED blk
  BY <1>1, <1>2, <1>5, SendsAgain, TokensOnLine
<1> QED
  BY <1>1, <1>4, <1>5

LEMMA BlockAnsweredKeeps ==
  ASSUME TransferInv, UNCHANGED setup, BlockAnswered
  PROVE  TransferInv'
<1>1. PICK c \in {"ack", "nak", "C", "can", "noise", "ff", "timeout"} :
        /\ SenderReads(c)
        /\ \/ c = "ack" /\ SendBlockOrEot(blk + 1)
           \/ s' = "sent" /\ UNCHANGED <<blk, toR>>
           \/ PutR(<<Packet(blk)>>) /\ UNCHANGED <<s, blk>>
  BY DEF BlockAnswered, Acked
<1>2. /\ s = "data" /\ ~SenderEnded /\ UNCHANGED <<crcNak, receiverVars>>
      /\ crcNak \in BOOLEAN /\ blk \in 1..Blocks /\ Blocks \in Nat /\ Counted = blk
  BY Places DEF BlockAnswered, SenderEnded, TransferInv, Types, Counted, NotSending
<1>3. /\ toS' \in Seq(Characters) /\ (toS = <<>> => toS' = <<>>)
      /\ Listening /\ c = "ack" =>
           Stage = Counted + 1 /\ (Stage <= Blocks + 1 => NoAck(toS'))
  BY <1>1, <1>2, AfterReading
<1>4. CASE c = "ack" /\ SendBlockOrEot(blk + 1)
  <2>1. Listening => Stage = blk + 1 /\ NoAck(toS')
    BY <1>2, <1>3, <1>4
  <2> QED
    BY <1>2, <1>3, <1>4, <2>1, SendsBlockOrEot
<1>5. CASE s' = "sent" /\ UNCHANGED <<blk, toR>>
  BY <1>2, <1>3, <1>5, SenderEnds
<1>6. CASE PutR(<<Packet(blk)>>) /\ UNCHANGED <<s, blk>>
  BY <1>1, <1>2, <1>6, SendsAgain, TokensOnLine
<1> QED
  BY <1>1, <1>4, <1>5, <1>6

LEMMA EotAnsweredKeeps ==
  ASSUME TransferInv, UNCHANGED setup, EotAnswered
  PROVE  TransferInv'
<1>1. PICK c \in {"ack", "nak", "C", "can", "noise", "ff", "timeout"} :
        /\ SenderReads(c)
        /\ \/ c = "ack" /\ s' = "eotC" /\ UNCHANGED toR
           \/ s' = "sent" /\ UNCHANGED toR
           \/ PutR(<<Token("eot")>>) /\ UNCHANGED s
  BY DEF EotAnswered
<1>2. /\ s = "eot" /\ ~SenderEnded /\ UNCHANGED <<blk, crcNak, receiverVars>>
      /\ crcNak \in BOOLEAN /\ Blocks \in Nat /\ Counted = Blocks + 1
      /\ LastRank = Blocks + 1 /\ UNCHANGED Blocks
  BY Places, SetupKeeps
    DEF EotAnswered, SenderEnded, TransferInv, Types, Counted, LastRank, NotSending
<1>3. /\ toS' \in Seq(Characters) /\ (toS = <<>> => toS' = <<>>)
      /\ Listening /\ c = "ack" =>
           Stage = Counted + 1 /\ (Stage <= Blocks + 1 => NoAck(toS'))
  BY <1>1, <1>2, AfterReading
<1>4. CASE c = "ack" /\ s' = "eotC" /\ UNCHANGED toR
  <2>1. LastRank' = Blocks + 1 /\ Counted' = Blocks + 2
    BY <1>2, <1>4 DEF LastRank, Counted, NotSending
  <2> QED
    BY <1>2, <1>3, <1>4, <2>1, StepsOn
<1>5. CASE s' = "sent" /\ UNCHANGED toR
  BY <1>2, <1>3, <1>5, SenderEnds
<1>6. CASE PutR(<<Token("eot")>>) /\ UNCHANGED s
  BY <1>1, <1>2, <1>6, SendsAgain, TokensOnLine
<1> QED
  BY <1>1, <1>4, <1>5, <1>6

LEMMA NextFileRequestedKeeps ==
  ASSUME TransferInv, UNCHANGED setup, NextFileRequested
  PROVE  TransferInv'
<1>1. PICK c \in {"ack", "nak", "C", "can", "noise", "ff", "timeout"} :
        /\ SenderReads(c)
        /\ \/ PutR(<<NullPacket>>) /\ s' = "null"
           \/ s' = "sent" /\ UNCHANGED toR
  BY DEF NextFileRequested
<1>2. /\ s = "eotC" /\ ~SenderEnded /\ UNCHANGED <<blk, crcNak, receiverVars>>
      /\ crcNak \in BOOLEAN /\ Blocks \in Nat /\ UNCHANGED Blocks
      /\ LastRank = Blocks + 1
  BY Places, SetupKeeps
    DEF NextFileRequested, SenderEnded, TransferInv, Types, LastRank, NotSending
<1>3. /\ toS' \in Seq(Characters) /\ (toS = <<>> => toS' = <<>>)
      /\ Listening => Stage = Blocks + 2
  BY <1>1, <1>2, AfterReading
<1>4. CASE PutR(<<NullPacket>>) /\ s' = "null"
  <2>1. /\ LastRank' = Blocks + 2 /\ Counted' = Blocks + 2 /\ ~SenderEnded'
        /\ Rank(NullPacket) = Blocks + 2 /\ NullPacket \in Tokens
    BY <1>2, <1>4, Ranks, TokensOnLine DEF LastRank, Counted, NotSending, SenderEnded
  <2>2. OnLine' /\ toR' \in Seq(Tokens)
    BY <1>2, <1>3, <1>4, <2>1, SenderSends
  <2>3. SenderTypes'
    BY <1>2, <1>3, <1>4, SetupKeeps DEF SenderTypes, TransferInv, Types
  <2> QED
    BY <1>2, <1>3, <1>4, <2>1, <2>2, <2>3, SenderMoves DEF NotSending
<1>5. CASE s' = "sent" /\ UNCHANGED toR
  BY <1>2, <1>3, <1>5, SenderEnds
<1> QED
  BY <1>1, <1>4, <1>5

LEMMA NullAnsweredKeeps ==
  ASSUME TransferInv, UNCHANGED setup, NullAnswered
  PROVE  TransferInv'
<1>1. PICK c \in {"ack", "nak", "C", "can", "noise", "ff", "timeout"} :
        /\ SenderReads(c)
        /\ \/ s' = "sent" /\ UNCHANGED toR
           \/ PutR(<<NullPacket>>) /\ UNCHANGED s
  BY DEF NullAnswered
<1>2. /\ s = "null" /\ ~SenderEnded /\ UNCHANGED <<blk, crcNak, receiverVars>>
      /\ crcNak \in BOOLEAN
  BY DEF NullAnswered, SenderEnded, TransferInv, Types
<1>3. toS' \in Seq(Characters) /\ (toS = <<>> => toS' = <<>>)
  BY <1>1, <1>2, AfterReading
<1>4. CASE s' = "sent" /\ UNCHANGED toR
  BY <1>2, <1>3, <1>4, SenderEnds
<1>5. CASE PutR(<<NullPacket>>) /\ UNCHANGED s
  BY <1>1, <1>2, <1>5, SendsAgain, TokensOnLine
<1> QED
  BY <1>1, <1>4, <1>5

LEMMA SenderStep ==
  ASSUME TransferInv, UNCHANGED setup, Sender
  PROVE  TransferInv'
<1>1. CASE OpenPort \/ SetInterfaceAttribs \/ StartUpgrade \/ Flush \/ Discard
  <2>1. UNCHANGED receiverVars
    BY <1>1 DEF OpenPort, SetInterfaceAttribs, StartUpgrade, Flush, Discard
  <2> QED
    BY <1>1, <2>1, BeforeSending
<1> QED
  BY <1>1, NameAnsweredKeeps, DataRequestedKeeps, BlockAnsweredKeeps, EotAnsweredKeeps,
     NextFileRequestedKeeps, NullAnsweredKeeps DEF Sender
-----------------------------------------------------------------------------
(* Now the receiver: the sender's places do not move. *)
LEMMA SenderStays ==
  ASSUME UNCHANGED <<senderVars, setup>>
  PROVE  UNCHANGED <<LastRank, Counted, SenderEnded, size, Blocks, Tokens, File>>
<1>1. UNCHANGED <<s, blk, size, Blocks, Tokens, File>>
  BY SetupKeeps DEF senderVars
<1> QED
  BY <1>1 DEF LastRank, Counted, SenderEnded

(* What the invariant says to a receiver that reads. *)
LEMMA ReceiverReadsFacts ==
  ASSUME TransferInv, r = "receiving", NEW t, ReceiverReads(t)
  PROVE  /\ toR' \in Seq(Tokens)
         /\ Fitting(toR', Stage) /\ Sorted(toR')
         /\ ~SenderEnded => Bounded(toR', LastRank)
         /\ Proper(t) => /\ t \in Tokens
                         /\ Rank(t) \in {Stage - 1, Stage}
                         /\ ~SenderEnded => Rank(t) <= LastRank
                         /\ Rank(t) = Stage => Fitting(toR', Stage + 1)
<1>1. /\ toR \in Seq(Tokens) /\ Blocks \in Nat /\ Stage \in Int /\ LastRank \in Int
      /\ Fitting(toR, Stage) /\ Sorted(toR)
      /\ ~SenderEnded => Bounded(toR, LastRank)
  BY Places DEF TransferInv, Types, OnLine, Listening
<1>2. CASE toR # <<>> /\ t = Head(toR) /\ toR' = Tail(toR)
  <2>1. Tail(toR) \in Seq(Tokens) /\ Head(toR) \in Tokens
    BY <1>1, <1>2, Reading
  <2>2. Fitting(toR', Stage) /\ Sorted(toR')
    BY <1>1, <1>2, Reading
  <2>3. ~SenderEnded => Bounded(toR', LastRank) /\ (Proper(t) => Rank(t) <= LastRank)
    BY <1>1, <1>2, Reading
  <2>4. Proper(t) => Rank(t) \in {Stage - 1, Stage}
    BY <1>1, <1>2, Reading
  <2>5. Proper(t) /\ Rank(t) = Stage => Fitting(toR', Stage + 1)
    BY <1>1, <1>2, Reading
  <2> QED
    BY <1>2, <2>1, <2>2, <2>3, <2>4, <2>5
<1>3. CASE t = Token("timeout") /\ UNCHANGED toR
  <2>1. ~Proper(t)
    BY <1>3, TokenFacts DEF Proper
  <2> QED
    BY <1>1, <1>3, <2>1
<1> QED
  BY <1>2, <1>3 DEF ReceiverReads

(* The line to the receiver stays in order, whatever the receiver reads. *)
StaysInOrder ==
  /\ toR' \in Seq(Tokens) /\ Fitting(toR', Stage) /\ Sorted(toR')
  /\ ~SenderEnded => Bounded(toR', LastRank)

LEMMA ReadInOrder ==
  ASSUME TransferInv, r = "receiving", NEW t, ReceiverReads(t)
  PROVE  StaysInOrder
  BY ReceiverReadsFacts DEF StaysInOrder

(* A packet of which only the beginning is read. *)
LEMMA CutInOrder ==
  ASSUME TransferInv, r = "receiving",
         toR # <<>>, toR' = <<Token("rest")>> \o Tail(toR)
  PROVE  StaysInOrder
<1>1. /\ toR \in Seq(Tokens) /\ Stage \in Int /\ LastRank \in Int
      /\ Fitting(toR, Stage) /\ Sorted(toR)
      /\ ~SenderEnded => Bounded(toR, LastRank)
  BY Places DEF TransferInv, Types, OnLine, Listening
<1>2. Token("rest") \in Tokens /\ ~Proper(Token("rest"))
  BY TokensOnLine
<1> QED
  BY <1>1, <1>2, Damaging DEF StaysInOrder

(* An answer is lost on a sender that has ended, and arrives otherwise. *)
LEMMA AnswerFacts ==
  ASSUME Types, NEW c \in Characters, Answer(<<c>>)
  PROVE  /\ toS' \in Seq(Characters)
         /\ ~SenderEnded => /\ NoAck(toS) /\ c # "ack" => NoAck(toS')
                            /\ SingleAck(toS) /\ c # "ack" => SingleAck(toS')
                            /\ NoAck(toS) => SingleAck(toS')
<1>1. toS \in Seq(Characters)
  BY DEF Types
<1>2. toS' = toS \o <<c>> \/ (SenderEnded /\ toS' = toS)
  BY DEF Answer
<1> QED
  BY <1>1, <1>2, AnswerGiven

LEMMA TwoAnswersFacts ==
  ASSUME Types, Answer(<<"ack", "C">>)
  PROVE  /\ toS' \in Seq(Characters)
         /\ ~SenderEnded /\ NoAck(toS) => SingleAck(toS')
<1>1. toS \in Seq(Characters)
  BY DEF Types
<1>2. toS' = toS \o <<"ack", "C">> \/ (SenderEnded /\ toS' = toS)
  BY DEF Answer
<1> QED
  BY <1>1, <1>2, TwoAnswersGiven

ReceiverTypes ==
  /\ r \in {"off", "receiving", "done", "zero"}
  /\ rxed \in 0..(Blocks + 1) /\ errs \in 0..MaxErrors
  /\ r \in {"off", "receiving"} => errs < MaxErrors
  /\ toR \in Seq(Tokens)
  /\ toS \in Seq(Characters)

LEMMA ReceiverKeepsTypes ==
  ASSUME TransferInv, UNCHANGED <<senderVars, setup>>, ReceiverTypes'
  PROVE  Types'
<1>1. UNCHANGED <<s, blk, crcNak, size, Blocks>>
  BY SenderStays DEF senderVars
<1> QED
  BY <1>1 DEF TransferInv, Types, ReceiverTypes

(* The receiver returns: nothing is left to keep but what it stored. *)
LEMMA ReceiverEnds ==
  ASSUME TransferInv, r = "receiving", UNCHANGED <<senderVars, setup>>,
         StaysInOrder, NEW c \in Characters, Answer(<<c>>),
         r' \in {"done", "zero"}, r' = "done" => got = File,
         UNCHANGED <<rxed, got>>, errs' \in 0..MaxErrors
  PROVE  TransferInv'
<1>1. toR' \in Seq(Tokens) /\ toS' \in Seq(Characters)
  BY AnswerFacts DEF TransferInv, StaysInOrder
<1>2. ~Listening'
  BY DEF Listening
<1>3. ReceiverTypes'
  <2>1. UNCHANGED <<Blocks, Tokens>>
    BY SenderStays
  <2> QED
    BY <1>1, <2>1 DEF ReceiverTypes, TransferInv, Types
<1>4. Storage'
  <2>1. UNCHANGED <<Blocks, File>>
    BY SenderStays
  <2> QED
    BY <1>2, <2>1 DEF TransferInv, Storage, StoredInOrder, Listening
<1> QED
  BY <1>2, <1>3, <1>4, ReceiverKeepsTypes DEF TransferInv, OnLine, InTouch, OneAck

(* The receiver stays at its stage, and does not acknowledge. *)
LEMMA ReceiverStays ==
  ASSUME TransferInv, r = "receiving", UNCHANGED <<senderVars, setup>>,
         StaysInOrder, NEW c \in Characters, c # "ack", Answer(<<c>>),
         UNCHANGED <<r, rxed, got>>, errs' \in 0..(MaxErrors - 1)
  PROVE  TransferInv'
<1>1. /\ Types /\ Storage /\ InTouch /\ OneAck /\ Listening /\ MaxErrors \in Nat
      /\ UNCHANGED <<LastRank, Counted, SenderEnded, size, Blocks, Tokens, File>>
  BY SenderStays, YModemAssumption DEF TransferInv, Listening
<1>2. UNCHANGED <<Stage, Listening>>
  BY <1>1 DEF Stage, Listening
<1>3. toR' \in Seq(Tokens) /\ toS' \in Seq(Characters)
  BY <1>1, AnswerFacts DEF StaysInOrder
<1>4. OnLine'
  BY <1>1, <1>2, LineNext DEF StaysInOrder
<1>5. ReceiverTypes'
  BY <1>1, <1>3 DEF ReceiverTypes, Types
<1>6. Storage'
  BY <1>1, <1>2 DEF Storage, StoredInOrder
<1>7. InTouch'
  BY <1>1, <1>2 DEF InTouch, senderVars
<1>8. OneAck'
  BY <1>1, <1>2, AnswerFacts DEF OneAck
<1> QED
  BY <1>4, <1>5, <1>6, <1>7, <1>8, ReceiverKeepsTypes DEF TransferInv

(* The sender has sent nothing beyond what it has counted. *)
LEMMA LastCounted ==
  ASSUME Types
  PROVE  /\ LastRank <= Counted
         /\ LastRank = Counted => s \notin NotSending \cup {"nameC"}
<1>1. Blocks \in Nat /\ blk \in Nat
  BY Places DEF Types
<1> QED
  BY <1>1 DEF LastRank, Counted, NotSending

(***************************************************************************)
(* The receiver takes a token for its stage, acknowledges it and goes on   *)
(* to the next.  As the sender has sent it, the sender has counted every   *)
(* stage before: so no ACK is on its way, and this one will be the only.   *)
(***************************************************************************)
LEMMA ReceiverAdvances ==
  ASSUME TransferInv, r = "receiving", UNCHANGED <<senderVars, setup>>,
         NEW t, ReceiverReads(t), Proper(t), Rank(t) = Stage, Stage <= Blocks + 1,
         Answer(<<"ack">>) \/ Answer(<<"ack", "C">>),
         UNCHANGED r, rxed' \in 0..(Blocks + 1), errs' = 0,
         Stage' = Stage + 1, Storage'
  PROVE  TransferInv'
<1>1. /\ Types /\ InTouch /\ OneAck /\ Listening /\ MaxErrors \in Nat \ {0}
      /\ UNCHANGED <<LastRank, Counted, SenderEnded, size, Blocks, Tokens, s>>
      /\ Stage \in Nat /\ Counted \in Nat /\ LastRank \in Int /\ Blocks \in Nat
  BY SenderStays, Places, YModemAssumption DEF TransferInv, Listening, senderVars
<1>2. toR' \in Seq(Tokens) /\ toS' \in Seq(Characters)
  <2>1. "ack" \in Characters
    BY DEF Characters
  <2> QED
    BY <1>1, <2>1, ReceiverReadsFacts, AnswerFacts, TwoAnswersFacts
<1>3. OnLine'
  BY <1>1, ReceiverReadsFacts, LineNext
<1>4. ReceiverTypes'
  BY <1>1, <1>2 DEF ReceiverTypes, Types
<1>5. ASSUME ~SenderEnded
      PROVE  /\ Stage = Counted /\ s \notin NotSending \cup {"nameC"}
             /\ SingleAck(toS')
  <2>1. Stage <= LastRank
    BY <1>5, ReceiverReadsFacts
  <2>2. Stage \in {Counted, Counted + 1}
    BY <1>1, <1>5 DEF InTouch
  <2>3. Stage = Counted /\ LastRank = Counted
    BY <1>1, <2>1, <2>2, LastCounted
  <2>4. NoAck(toS)
    BY <1>1, <1>5, <2>3 DEF OneAck
  <2>5. SingleAck(toS')
    <3>1. "ack" \in Characters
      BY DEF Characters
    <3> QED
      BY <1>1, <1>5, <2>4, <3>1, AnswerFacts, TwoAnswersFacts
  <2> QED
    BY <1>1, <2>3, <2>5, LastCounted
<1>6. InTouch' /\ OneAck'
  BY <1>1, <1>5 DEF InTouch, OneAck
<1> QED
  BY <1>3, <1>4, <1>6, ReceiverKeepsTypes DEF TransferInv

LEMMA StartReceivingKeeps ==
  ASSUME TransferInv, UNCHANGED setup, StartReceiving
  PROVE  TransferInv'
<1>1. /\ Types /\ Storage /\ OnLine /\ InTouch /\ OneAck /\ Blocks \in Nat /\ Blocks >= 1
      /\ r = "off" /\ r' = "receiving" /\ Answer(<<"C">>) /\ "C" \in Characters
      /\ UNCHANGED <<senderVars, rxed, errs, got, toR>>
  BY Places DEF TransferInv, StartReceiving, Characters
<1>2. /\ UNCHANGED <<LastRank, Counted, SenderEnded, size, Blocks, Tokens, File, s>>
      /\ Stage' = Stage /\ Listening /\ Listening' /\ Stage = 0
  BY <1>1, SenderStays DEF Stage, Listening, Storage, senderVars
<1>3. /\ toS' \in Seq(Characters) /\ NoAck(toS)
      /\ ~SenderEnded => NoAck(toS') /\ SingleAck(toS')
  <2>1. NoAck(toS)
    BY <1>1, EmptySeq DEF Storage, NoAck
  <2>2. "C" # "ack"
    OBVIOUS
  <2> QED
    BY <1>1, <2>1, <2>2, AnswerFacts
<1>4. ReceiverTypes'
  BY <1>1, <1>2, <1>3 DEF ReceiverTypes, Types
<1>5. OnLine'
  BY <1>1, <1>2, LineNext DEF OnLine
<1>6. Storage'
  <2>1. /\ r' # "off" /\ r' # "done" /\ rxed' = 0 /\ got' = <<>>
        /\ got' \in Seq(1..Blocks') /\ StoredInOrder' /\ Len(got') <= Blocks'
    BY <1>1, <1>2 DEF Storage, StoredInOrder
  <2> QED
    BY <2>1 DEF Storage
<1>7. InTouch' /\ OneAck'
  BY <1>1, <1>2, <1>3 DEF InTouch, OneAck
<1> QED
  BY <1>1, <1>4, <1>5, <1>6, <1>7, ReceiverKeepsTypes DEF TransferInv

(* A packet of the number expected is of the stage expected: the one that  *)
(* may come again instead has its neighbour's number, however few numbers  *)
(* there are.                                                              *)
LEMMA ExpectedIsNext ==
  ASSUME TransferInv, r = "receiving", NEW t, ReceiverReads(t),
         t.kind = "packet", Expected(t.seq)
  PROVE  /\ Rank(t) = Stage
         /\ rxed > 0 => rxed \in 1..Blocks /\ t = Packet(rxed)
         /\ rxed = 0 /\ t # NullPacket => got = <<>>
         /\ t = NullPacket => got = File
<1>1. /\ Types /\ Storage /\ Listening /\ Blocks \in Nat /\ Blocks >= 1
      /\ rxed \in 0..(Blocks + 1) /\ Proper(t) /\ t.seq = rxed % SeqMod
  BY Places DEF TransferInv, Types, Listening, Proper, Expected
<1>2. t \in Tokens /\ Rank(t) \in {Stage - 1, Stage}
  BY <1>1, ReceiverReadsFacts
<1>3. \/ t = NamePacket /\ Rank(t) = 0 /\ t.seq = 0 % SeqMod
      \/ t = NullPacket /\ Rank(t) = Blocks + 2 /\ t.seq = 0 % SeqMod
      \/ \E n \in 1..Blocks : t = Packet(n) /\ Rank(t) = n /\ t.seq = n % SeqMod
  BY <1>2, PacketForms, Ranks, TokenFacts
<1>4. CASE rxed > 0
  <2>1. Stage = rxed
    BY <1>4 DEF Stage
  <2>2. rxed % SeqMod # (rxed - 1) % SeqMod
    BY <1>1, <1>4, Neighbours
  <2>3. CASE t = NamePacket /\ Rank(t) = 0 /\ t.seq = 0 % SeqMod
    <3>1. rxed = 1
      BY <1>1, <1>2, <1>4, <2>1, <2>3
    <3> QED
      BY <1>1, <2>2, <2>3, <3>1
  <2>4. CASE t = NullPacket /\ Rank(t) = Blocks + 2
    BY <1>1, <1>2, <2>1, <2>4
  <2>5. CASE \E n \in 1..Blocks : t = Packet(n) /\ Rank(t) = n /\ t.seq = n % SeqMod
    <3>1. PICK n \in 1..Blocks : t = Packet(n) /\ Rank(t) = n /\ t.seq = n % SeqMod
      BY <2>5
    <3>2. n \in {rxed - 1, rxed} /\ n # rxed - 1
      BY <1>1, <1>2, <2>1, <2>2, <3>1
    <3>3. n = rxed
      BY <3>2
    <3>4. t # NullPacket
      BY <3>1, TokenFacts
    <3> QED
      BY <1>4, <2>1, <3>1, <3>3, <3>4
  <2> QED
    BY <1>3, <2>3, <2>4, <2>5
<1>5. CASE rxed = 0
  <2>1. \/ Stage = 0 /\ got = <<>>
        \/ Stage = Blocks + 2 /\ got = File
    BY <1>1, <1>5 DEF Stage, Storage
  <2>2. CASE t = NullPacket /\ Rank(t) = Blocks + 2
    BY <1>1, <1>2, <1>5, <2>1, <2>2
  <2>3. CASE t = NamePacket /\ Rank(t) = 0
    BY <1>1, <1>2, <1>5, <2>1, <2>3, TokenFacts
  <2>4. CASE \E n \in 1..Blocks : t = Packet(n) /\ Rank(t) = n
    BY <1>1, <1>2, <2>1, <2>4
  <2> QED
    BY <1>3, <2>2, <2>3, <2>4
<1> QED
  BY <1>1, <1>4, <1>5

LEMMA FileFacts ==
  ASSUME Blocks \in Nat, Blocks >= 1
  PROVE  /\ File \in Seq(1..Blocks) /\ Len(File) = Blocks /\ File # <<>>
         /\ \A q \in Seq(1..Blocks) :
              Len(q) = Blocks /\ q = [n \in 1..Len(q) |-> n] => q = File
<1>1. File \in Seq(1..Blocks) /\ Len(File) = Blocks
  BY DEF File
<1>2. File # <<>>
  BY <1>1, EmptySeq
<1> QED
  BY <1>1, <1>2 DEF File

(* The block stored next to what is stored in order. *)
LEMMA StoredNext ==
  ASSUME Blocks \in Nat, got \in Seq(1..Blocks), StoredInOrder,
         rxed \in 1..Blocks, Len(got) = rxed - 1
  PROVE  /\ Stored(rxed) = [n \in 1..rxed |-> n]
         /\ Stored(rxed) \in Seq(1..Blocks) /\ Len(Stored(rxed)) = rxed
<1>1. DOMAIN got = 1..(rxed - 1) /\ \A n \in 1..(rxed - 1) : got[n] = n
  BY DEF StoredInOrder
<1>2. DOMAIN got \cup {rxed} = 1..rxed
  BY <1>1
<1>3. Stored(rxed) = [n \in 1..rxed |-> n]
  BY <1>1, <1>2 DEF Stored
<1> QED
  BY <1>3

LEMMA ReceivePacketKeeps ==
  ASSUME TransferInv, UNCHANGED setup, ReceivePacket
  PROVE  TransferInv'
<1> DEFINE t == Head(toR)
<1>1. /\ r = "receiving" /\ t.kind = "packet" /\ ReceiverReads(t) /\ Proper(t)
      /\ errs' = 0 /\ UNCHANGED <<senderVars, setup>>
      /\ \/ Expected(t.seq) /\ AcceptPacket(t)
         \/ Answer(<<"nak">>) /\ UNCHANGED <<r, rxed, got>>
  BY DEF ReceivePacket, Proper
<1>2. /\ Types /\ Storage /\ Listening /\ Blocks \in Nat /\ Blocks >= 1
      /\ rxed \in 0..(Blocks + 1) /\ MaxErrors \in Nat \ {0}
      /\ UNCHANGED <<Blocks, File>>
      /\ {"ack", "nak", "can"} \subseteq Characters
  BY <1>1, Places, SenderStays, YModemAssumption
    DEF TransferInv, Types, Listening, Characters
<1> HIDE DEF t
<1>3. CASE Answer(<<"nak">>) /\ UNCHANGED <<r, rxed, got>>
  BY <1>1, <1>2, <1>3, ReadInOrder, ReceiverStays
<1>4. CASE Expected(t.seq) /\ AcceptPacket(t)
  <2>1. /\ Rank(t) = Stage
        /\ rxed > 0 => rxed \in 1..Blocks /\ t = Packet(rxed)
        /\ rxed = 0 /\ t # NullPacket => got = <<>>
        /\ t = NullPacket => got = File
    BY <1>1, <1>4, ExpectedIsNext
  <2>2. CASE GiveUp
    BY <1>1, <1>2, <2>2, ReadInOrder, ReceiverEnds DEF GiveUp
  <2>3. CASE /\ rxed = 0 /\ t # NullPacket
             /\ Answer(<<"ack", "C">>) /\ rxed' = 1 /\ UNCHANGED <<r, got>>
    <3>1. got = <<>> /\ got' = <<>> /\ Stage = 0 /\ Stage' = 1 /\ Len(got) = 0
      BY <2>1, <2>3, EmptySeq DEF Stage
    <3>2. Storage'
      BY <1>1, <1>2, <2>3, <3>1 DEF Storage, StoredInOrder
    <3> QED
      BY <1>1, <1>2, <2>1, <2>3, <3>1, <3>2, ReceiverAdvances
  <2>4. CASE /\ t = NullPacket
             /\ Answer(<<"ack">>) /\ r' = "done" /\ UNCHANGED <<rxed, got>>
    BY <1>1, <1>2, <2>1, <2>4, ReadInOrder, ReceiverEnds
  <2>5. CASE /\ rxed > 0 /\ Answer(<<"ack">>)
             /\ got' = Stored(t.body) /\ rxed' = rxed + 1 /\ UNCHANGED r
    <3>1. rxed \in 1..Blocks /\ t.body = rxed
      BY <2>1, <2>5, TokenFacts
    <3>2. Len(got) = rxed - 1 /\ got \in Seq(1..Blocks) /\ StoredInOrder
      BY <1>2, <2>5 DEF Storage
    <3>3. /\ got' = [n \in 1..rxed |-> n]
          /\ got' \in Seq(1..Blocks) /\ Len(got') = rxed
      BY <1>2, <2>5, <3>1, <3>2, StoredNext
    <3>4. Stage = rxed /\ Stage' = rxed + 1 /\ rxed' \in 0..(Blocks + 1)
      BY <2>5, <3>1, <1>2 DEF Stage
    <3>5. Storage'
      <4>1. r' = "receiving" /\ rxed' = rxed + 1 /\ rxed' > 0
        BY <1>1, <2>5, <3>1
      <4> QED
        BY <1>2, <3>1, <3>3, <4>1 DEF Storage, StoredInOrder
    <3> QED
      BY <1>1, <1>2, <2>1, <2>5, <3>1, <3>4, <3>5, ReceiverAdvances
  <2> QED
    BY <1>4, <2>2, <2>3, <2>4, <2>5 DEF AcceptPacket
<1> QED
  BY <1>1, <1>3, <1>4

LEMMA ReceiveEotKeeps ==
  ASSUME TransferInv, UNCHANGED setup, ReceiveEot
  PROVE  TransferInv'
<1> DEFINE t == Token("eot")
<1>1. /\ r = "receiving" /\ r' = "receiving" /\ ReceiverReads(t) /\ Proper(t)
      /\ errs' = 0 /\ rxed' = 0 /\ got' = got /\ Answer(<<"ack", "C">>)
      /\ UNCHANGED <<senderVars, setup>>
  BY TokenFacts DEF ReceiveEot, Proper
<1>2. /\ Types /\ Storage /\ InTouch /\ Listening /\ Listening' /\ Blocks \in Nat /\ Blocks >= 1
      /\ rxed \in 0..(Blocks + 1) /\ MaxErrors \in Nat \ {0} /\ Stage \in 0..(Blocks + 2)
      /\ UNCHANGED <<LastRank, Counted, SenderEnded, size, s, Blocks, Tokens, File>>
      /\ Rank(t) = Blocks + 1
  BY <1>1, Places, SenderStays, YModemAssumption, Ranks
    DEF TransferInv, Types, Listening, senderVars
<1> HIDE DEF t
<1>3. Rank(t) \in {Stage - 1, Stage}
  BY <1>1, ReceiverReadsFacts
<1>4. got = File /\ Stage' = Blocks + 2
  <2>1. CASE rxed > 0
    <3>1. rxed = Blocks + 1
      BY <1>2, <1>3, <2>1 DEF Stage
    <3>2. Len(got) = Blocks /\ got \in Seq(1..Blocks) /\ got = [n \in 1..Len(got) |-> n]
      BY <1>2, <2>1, <3>1 DEF Storage, StoredInOrder
    <3>3. got = File /\ File # <<>>
      BY <1>2, <3>2, FileFacts
    <3> QED
      BY <1>1, <1>2, <3>3 DEF Stage
  <2>2. CASE rxed = 0
    <3>1. Stage # 0
      BY <1>2, <1>3
    <3>2. got # <<>> /\ got = File
      BY <1>2, <2>2, <3>1 DEF Stage, Storage
    <3> QED
      BY <1>1, <1>2, <3>2 DEF Stage
  <2> QED
    BY <1>2, <2>1, <2>2
<1>5. Storage'
  <2>1. /\ got' = File' /\ got' \in Seq(1..Blocks') /\ StoredInOrder' /\ Len(got') <= Blocks'
    BY <1>1, <1>2, <1>4 DEF Storage, StoredInOrder
  <2> QED
    BY <1>1, <2>1 DEF Storage
<1>6. CASE Stage = Blocks + 1
  <2>1. Stage' = Stage + 1 /\ Rank(t) = Stage /\ rxed' \in 0..(Blocks + 1)
    BY <1>1, <1>2, <1>4, <1>6
  <2> QED
    BY <1>1, <1>2, <1>5, <1>6, <2>1, ReceiverAdvances
<1>7. CASE Stage = Blocks + 2
  <2>1. toR' \in Seq(Tokens) /\ toS' \in Seq(Characters)
    BY <1>1, <1>2, ReceiverReadsFacts, TwoAnswersFacts
  <2>2. OnLine'
    BY <1>1, <1>2, <1>4, <1>7, ReceiverReadsFacts, LineNext
  <2>3. Types'
    <3>1. ReceiverTypes'
      BY <1>1, <1>2, <2>1 DEF ReceiverTypes
    <3> QED
      BY <1>1, <3>1, ReceiverKeepsTypes
  <2>4. InTouch'
    BY <1>2, <1>4, <1>7 DEF InTouch
  <2>5. OneAck'
    BY <1>2, <1>4 DEF OneAck
  <2> QED
    BY <1>5, <2>2, <2>3, <2>4, <2>5 DEF TransferInv
<1> QED
  BY <1>2, <1>3, <1>6, <1>7

LEMMA PacketErrorKeeps ==
  ASSUME TransferInv, r = "receiving", StaysInOrder, PacketError,
         UNCHANGED <<senderVars, setup>>
  PROVE  TransferInv'
<1>1. /\ errs' = IF rxed > 0 THEN errs + 1 ELSE errs
      /\ \/ GiveUp
         \/ ~(rxed > 0 /\ errs' >= MaxErrors) /\ Answer(<<"C">>) /\ UNCHANGED <<r, rxed, got>>
  BY DEF PacketError, TooMany, AskAgain
<1>2. /\ "C" \in Characters /\ "can" \in Characters /\ MaxErrors \in Nat
      /\ errs \in 0..(MaxErrors - 1) /\ rxed \in Nat
  BY Places, YModemAssumption DEF TransferInv, Types, Characters
<1>3. CASE GiveUp
  <2>1. errs' \in 0..MaxErrors
    BY <1>1, <1>2
  <2> QED
    BY <1>1, <1>2, <1>3, <2>1, ReceiverEnds DEF GiveUp
<1>4. CASE ~(rxed > 0 /\ errs' >= MaxErrors) /\ Answer(<<"C">>) /\ UNCHANGED <<r, rxed, got>>
  <2>1. errs' \in 0..(MaxErrors - 1)
    BY <1>1, <1>2, <1>4
  <2> QED
    BY <1>1, <1>2, <1>4, <2>1, ReceiverStays
<1> QED
  BY <1>1, <1>3, <1>4

LEMMA ReceiveBadKeeps ==
  ASSUME TransferInv, UNCHANGED setup, ReceiveBad
  PROVE  TransferInv'
  BY ReadInOrder, PacketErrorKeeps DEF ReceiveBad

LEMMA ReceiveCutKeeps ==
  ASSUME TransferInv, UNCHANGED setup, ReceiveCut
  PROVE  TransferInv'
  BY CutInOrder, PacketErrorKeeps DEF ReceiveCut

LEMMA ReceiveAbortKeeps ==
  ASSUME TransferInv, UNCHANGED setup, ReceiveAbort
  PROVE  TransferInv'
<1>1. PICK k \in {"can", "noise", "rest", "timeout"} : ReceiverReads(Token(k))
  BY DEF ReceiveAbort
<1>2. /\ r = "receiving" /\ r' = "zero" /\ UNCHANGED <<senderVars, setup, rxed, got>>
      /\ Answer(<<"ack">>) /\ errs' \in 0..MaxErrors /\ "ack" \in Characters
  BY YModemAssumption DEF ReceiveAbort, Characters
<1> QED
  BY <1>1, <1>2, ReadInOrder, ReceiverEnds

LEMMA ReceiverStep ==
  ASSUME TransferInv, UNCHANGED setup, Receiver
  PROVE  TransferInv'
  BY StartReceivingKeeps, ReceivePacketKeeps, ReceiveEotKeeps, ReceiveBadKeeps,
     ReceiveCutKeeps, ReceiveAbortKeeps DEF Receiver

LEMMA LineStep ==
  ASSUME TransferInv, UNCHANGED setup, Line
  PROVE  TransferInv'
<1>1. /\ Types /\ Storage /\ OnLine /\ InTouch /\ OneAck
      /\ Blocks \in Nat /\ Stage \in Int /\ LastRank \in Int
      /\ UNCHANGED <<senderVars, receiverVars, setup>>
      /\ UNCHANGED <<s, blk, crcNak, r, rxed, errs, got, size>>
  BY Places DEF Line, TransferInv, senderVars, receiverVars, setup
<1>2. /\ UNCHANGED <<LastRank, Counted, SenderEnded, Blocks, Tokens, File>>
      /\ UNCHANGED <<Stage, Listening>>
  BY <1>1, SenderStays, StageKeeps
<1>3. CASE DamagePacket
  <2>1. /\ toR # <<>> /\ toR \in Seq(Tokens) /\ UNCHANGED toS
        /\ \/ toR' = Tail(toR)
           \/ \E t \in {Bad, Token("noise")} : toR' = <<t>> \o Tail(toR)
    BY <1>1, <1>3 DEF DamagePacket, Types
  <2>2. /\ toR' \in Seq(Tokens)
        /\ Fitting(toR, Stage) => Fitting(toR', Stage)
        /\ Sorted(toR) => Sorted(toR')
        /\ Bounded(toR, LastRank) => Bounded(toR', LastRank)
    <3>1. CASE toR' = Tail(toR)
      BY <1>1, <2>1, <3>1, Reading
    <3>2. CASE \E t \in {Bad, Token("noise")} : toR' = <<t>> \o Tail(toR)
      <4>1. PICK t \in {Bad, Token("noise")} : toR' = <<t>> \o Tail(toR)
        BY <3>2
      <4>2. t \in Tokens /\ ~Proper(t)
        BY TokensOnLine
      <4> QED
        BY <1>1, <2>1, <4>1, <4>2, Damaging
    <3> QED
      BY <2>1, <3>1, <3>2
  <2>3. Types'
    BY <1>1, <1>2, <2>1, <2>2 DEF Types
  <2>4. OnLine'
    BY <1>1, <1>2, <2>2, LineNext DEF OnLine
  <2>5. Storage' /\ InTouch' /\ OneAck'
    BY <1>1, <1>2, <2>1 DEF Storage, StoredInOrder, InTouch, OneAck
  <2> QED
    BY <2>3, <2>4, <2>5 DEF TransferInv
<1>4. CASE DamageAnswer
  <2>1. /\ toS # <<>> /\ toS \in Seq(Characters) /\ UNCHANGED toR
        /\ \/ toS' = Tail(toS)
           \/ \E c \in {"noise", "ff"} : toS' = <<c>> \o Tail(toS)
    BY <1>1, <1>4 DEF DamageAnswer, Types
  <2>2. /\ toS' \in Seq(Characters)
        /\ NoAck(toS) => NoAck(toS')
        /\ SingleAck(toS) => SingleAck(toS')
    <3>1. CASE toS' = Tail(toS)
      BY <2>1, <3>1, AnswerRead
    <3>2. CASE \E c \in {"noise", "ff"} : toS' = <<c>> \o Tail(toS)
      <4>1. PICK c \in {"noise", "ff"} : toS' = <<c>> \o Tail(toS)
        BY <3>2
      <4>2. c \in Characters /\ c # "ack"
        BY DEF Characters
      <4> QED
        BY <2>1, <4>1, <4>2, AnswerDamaged
    <3> QED
      BY <2>1, <3>1, <3>2
  <2>3. Types'
    BY <1>1, <1>2, <2>1, <2>2 DEF Types
  <2>4. OnLine'
    BY <1>1, <1>2, <2>1, LineNext DEF OnLine
  <2>5. Storage'
    <3>1. r = "off" => toS' = <<>>
      BY <1>1, <2>1 DEF Storage
    <3> QED
      BY <1>1, <1>2, <3>1 DEF Storage, StoredInOrder
  <2>6. InTouch' /\ OneAck'
    BY <1>1, <1>2, <2>2 DEF InTouch, OneAck
  <2> QED
    BY <2>3, <2>4, <2>5, <2>6 DEF TransferInv
<1> QED
  BY <1>3, <1>4 DEF Line

LEMMA TransferInit == Init => TransferInv
<1> SUFFICES ASSUME Init PROVE TransferInv
  OBVIOUS
<1>1. size \in Sizes /\ Blocks \in Nat /\ Blocks >= 1
  BY BlocksPositive DEF Init
<1>2. /\ <<>> \in Seq(1..Blocks) /\ <<>> \in Seq(Tokens) /\ <<>> \in Seq(Characters)
      /\ Len(<<>>) = 0
  OBVIOUS
<1>3. Types
  BY <1>1, <1>2, YModemAssumption DEF Init, Types, NotSending
<1>4. Storage
  BY <1>1, <1>2 DEF Init, Storage, StoredInOrder, Listening
<1>5. Stage = 0 /\ Counted = 0
  BY DEF Init, Stage, Counted, NotSending
<1>6. OnLine
  BY <1>2 DEF Init, OnLine, Fitting, Sorted, Bounded
<1>7. InTouch /\ OneAck
  BY <1>2, <1>5 DEF Init, InTouch, OneAck, NoAck, SingleAck
<1> QED
  BY <1>3, <1>4, <1>6, <1>7 DEF TransferInv

LEMMA TransferStutter ==
  ASSUME TransferInv, UNCHANGED vars
  PROVE  TransferInv'
<1>1. /\ UNCHANGED <<senderVars, receiverVars, setup>>
      /\ UNCHANGED <<s, blk, crcNak, r, rxed, errs, got, toR, toS, size>>
  BY DEF vars, senderVars, receiverVars, lineVars, setup
<1>2. /\ UNCHANGED <<LastRank, Counted, SenderEnded, Blocks, Tokens, File>>
      /\ UNCHANGED <<Stage, Listening>>
  BY <1>1, SenderStays, StageKeeps
<1>3. Types' /\ Storage' /\ InTouch' /\ OneAck'
  BY <1>1, <1>2 DEF TransferInv, Types, Storage, StoredInOrder, InTouch, OneAck
<1>4. OnLine'
  BY <1>1, <1>2, LineNext DEF OnLine, TransferInv
<1> QED
  BY <1>3, <1>4 DEF TransferInv

LEMMA TransferInvariant == Spec => []TransferInv
<1>1. Init => TransferInv
  BY TransferInit
<1>2. TransferInv /\ [Next]_vars => TransferInv'
  BY SenderStep, ReceiverStep, LineStep, TransferStutter DEF Next
<1> QED
  BY <1>1, <1>2, PTL DEF Spec

LEMMA InvariantNeverAhead == TransferInv => NeverAhead
<1> SUFFICES ASSUME TransferInv, r = "receiving" PROVE NeverAhead
  BY DEF NeverAhead
<1>1. /\ Blocks \in Nat /\ Blocks >= 1 /\ rxed \in 0..(Blocks + 1) /\ blk \in 0..Blocks
      /\ s = "data" => blk >= 1
      /\ rxed > 0 => Len(got) = rxed - 1
      /\ rxed = 0 => got = <<>> \/ got = File
      /\ Listening
  BY Places DEF TransferInv, Types, Storage, Listening
<1>2. Len(File) = Blocks
  BY <1>1, FileFacts
<1>3. s = "data" => Stage \in {blk, blk + 1}
  BY <1>1 DEF TransferInv, InTouch, SenderEnded, Counted, NotSending
<1>4. s = "eot" => Stage \in {Blocks + 1, Blocks + 2}
  BY <1>1 DEF TransferInv, InTouch, SenderEnded, Counted, NotSending
<1>5. CASE rxed > 0
  <2>1. Stage = rxed
    BY <1>5 DEF Stage
  <2> QED
    BY <1>1, <1>3, <1>4, <1>5, <2>1 DEF NeverAhead
<1>6. CASE rxed = 0 /\ got = File
  BY <1>1, <1>2, <1>6 DEF NeverAhead
<1>7. CASE rxed = 0 /\ got = <<>>
  <2>1. Stage = 0
    BY <1>7 DEF Stage
  <2> QED
    BY <1>1, <1>3, <1>4, <2>1 DEF NeverAhead
<1> QED
  BY <1>1, <1>5, <1>6, <1>7
-----------------------------------------------------------------------------
(***************************************************************************)
(* The variables of both ends keep their ranges: among them, the receiver  *)
(* never counts more than the blocks of the file and block 0, and never    *)
(* more errors than it puts up with.                                       *)
(***************************************************************************)
THEOREM TypeCorrect == Spec => []TypeOK
<1>1. TransferInv => TypeOK
  BY DEF TransferInv, Types, Storage, TypeOK
<1> QED
  BY <1>1, TransferInvariant, PTL

(***************************************************************************)
(* fymodem_receive stores each block once, in its place and none before    *)
(* the one it follows (fymodem.c:326-398), for any length of file, however *)
(* often the numbers of the blocks wrap around, and whatever the line      *)
(* loses, corrupts or delays.                                              *)
(***************************************************************************)
THEOREM KeepsOrder == Spec => []StoredInOrder
<1>1. TransferInv => StoredInOrder
  BY DEF TransferInv, Storage
<1> QED
  BY <1>1, TransferInvariant, PTL

(***************************************************************************)
(* An ACK names no block, yet fymodem_send never takes the ACK for one     *)
(* block for that of another: as long as the receiver listens it has       *)
(* stored all the sender counts (fymodem.c:496-552).                       *)
(***************************************************************************)
THEOREM KeepsInTouch == Spec => []NeverAhead
<1> QED
  BY InvariantNeverAhead, TransferInvariant, PTL

(***************************************************************************)
(* fymodem_receive returns a length only for a complete file, although it  *)
(* compares nothing with the length announced (fymodem.c:316-325).         *)
(***************************************************************************)
THEOREM LengthIsOfTheFile == Spec => []LengthMeansFile
<1>1. TransferInv => LengthMeansFile
  BY DEF TransferInv, Storage, LengthMeansFile
<1> QED
  BY <1>1, TransferInvariant, PTL
=============================================================================

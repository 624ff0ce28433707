-------------------------- MODULE RadioToolProofs --------------------------
(***************************************************************************)
(* Proofs about firmware files and the commands on them: the ciphers and   *)
(* the coded times first, then what the classes of firmware do to segments *)
(* and files, and last that every step of RadioTool keeps ToolInv.         *)
(***************************************************************************)
EXTENDS RadioToolInv, FiniteSetTheorems, FunctionTheorems, SequenceTheorems, TLAPS

(* Xor with the same bits twice changes nothing. *)
LEMMA XorTwice ==
  ASSUME NEW a, NEW b
  PROVE  Xor(Xor(a, b), b) = a
  BY DEF Xor

LEMMA XorByte ==
  ASSUME NEW a \in Byte, NEW b \in Byte
  PROVE  Xor(a, b) \in Byte
  BY DEF Xor, Byte

(* The byte of the key for position z. *)
LEMMA KeyByte ==
  ASSUME NEW key \in Seq(Byte), Len(key) > 0, NEW n \in Nat
  PROVE  1 + (n % Len(key)) \in DOMAIN key /\ key[1 + (n % Len(key))] \in Byte
<1>1. n % Len(key) \in 0..(Len(key) - 1)
  OBVIOUS
<1>2. 1 + (n % Len(key)) \in 1..Len(key)
  BY <1>1
<1> QED
  BY <1>2

LEMMA ApplyXORBytes ==
  ASSUME NEW data \in Seq(Byte), NEW key \in Seq(Byte), Len(key) > 0,
         NEW offset \in Nat
  PROVE  ApplyXOR(data, key, offset) \in Seq(Byte)
<1>1. DOMAIN data = 1..Len(data) /\ Len(data) \in Nat
  OBVIOUS
<1>2. ASSUME NEW z \in 1..Len(data)
      PROVE  Xor(data[z], key[1 + ((offset + (z - 1)) % Len(key))]) \in Byte
  <2>1. offset + (z - 1) \in Nat
    OBVIOUS
  <2>2. key[1 + ((offset + (z - 1)) % Len(key))] \in Byte
    BY <2>1, KeyByte
  <2> QED
    BY <2>2, XorByte
<1>3. ApplyXOR(data, key, offset) \in [1..Len(data) -> Byte]
  BY <1>1, <1>2 DEF ApplyXOR
<1> QED
  BY <1>1, <1>3

(***************************************************************************)
(* What TYTFW and CSFW rely on: Decrypt after Encrypt, both ApplyXOR, is   *)
(* the identity, whatever the key, its length and the offset.              *)
(***************************************************************************)
THEOREM ApplyXORTwice ==
  ASSUME NEW data \in Seq(Byte), NEW key \in Seq(Byte), NEW offset \in Nat
  PROVE  ApplyXOR(ApplyXOR(data, key, offset), key, offset) = data
<1>1. data = [z \in DOMAIN data |-> data[z]]
  OBVIOUS
<1>2. ASSUME NEW z \in DOMAIN data
      PROVE  ApplyXOR(ApplyXOR(data, key, offset), key, offset)[z] = data[z]
  BY XorTwice DEF ApplyXOR
<1> QED
  BY <1>1, <1>2 DEF ApplyXOR

LEMMA RotateComplement ==
  ASSUME NEW b \in Byte
  PROVE  Bits \ RotateLeft3(Bits \ RotateRight3(b)) = b
<1>1. ASSUME NEW j \in 0..7
      PROVE  j \in Bits \ RotateLeft3(Bits \ RotateRight3(b)) <=> j \in b
  <2>1. CASE j >= 3
    BY <2>1, j - 3 \in 0..4 DEF RotateRight3, RotateLeft3, Bits
  <2>2. CASE j < 3
    BY <2>2, j + 5 \in 5..7 DEF RotateRight3, RotateLeft3, Bits
  <2> QED
    BY <2>1, <2>2
<1> QED
  BY <1>1 DEF Byte, Bits

(***************************************************************************)
(* TYTSGLFW::Decrypt undoes TYTSGLFW::Encrypt (of data as long as its      *)
(* header says): the rotations, the complement and the XOR are inverted in *)
(* the right order.                                                        *)
(***************************************************************************)
THEOREM SGLRoundTrip ==
  ASSUME NEW data \in Seq(Byte), NEW key \in Seq(Byte), Len(key) > 0,
         NEW offset \in Nat
  PROVE  SGLDecrypt(SGLEncrypt(data, key, offset), key, offset) = data
<1> DEFINE xored == ApplyXOR(data, key, offset)
           turned == [z \in DOMAIN data |-> Bits \ RotateRight3(xored[z])]
<1>1. xored \in Seq(Byte) /\ DOMAIN xored = DOMAIN data
  BY ApplyXORBytes DEF ApplyXOR
<1>2. xored = [z \in DOMAIN data |-> xored[z]]
  BY <1>1
<1>3. ASSUME NEW z \in DOMAIN data
      PROVE  Bits \ RotateLeft3(turned[z]) = xored[z]
  <2>1. xored[z] \in Byte
    BY <1>1
  <2> QED
    BY <2>1, RotateComplement
<1>4. [z \in DOMAIN turned |-> Bits \ RotateLeft3(turned[z])] = xored
  <2> HIDE DEF xored
  <2> QED
    BY <1>2, <1>3
<1>5. SGLEncrypt(data, key, offset) = turned
  BY DEF SGLEncrypt
<1>6. SGLDecrypt(turned, key, offset) = ApplyXOR(xored, key, offset)
  BY <1>4 DEF SGLDecrypt
<1> QED
  BY <1>5, <1>6, ApplyXORTwice

-----------------------------------------------------------------------------
(***************************************************************************)
(* AilunceFW::ApplyXOR serves as Encrypt and as Decrypt, but it is not its *)
(* own inverse: it is on words other than the two that it turns into 0 or  *)
(* 0xffffffff, which a second time is complemented ...                     *)
(***************************************************************************)
THEOREM AilunceWordTwice ==
  ASSUME NEW w \in SUBSET WordBits,
         w # Nibbles7, w # WordBits \ Nibbles1
  PROVE  AilunceWord(AilunceWord(w)) = w
<1>1. /\ Nibbles1 \subseteq WordBits /\ 28 \notin Nibbles1 /\ Nibbles1 # {}
      /\ Nibbles7 \subseteq WordBits /\ 28 \notin Nibbles7 /\ Nibbles7 # {}
      /\ 28 \in WordBits
  <2>1. 0 \in Nibbles1 /\ 0 \in Nibbles7
    BY DEF Nibbles1, Nibbles7
  <2> QED
    BY <2>1 DEF Nibbles1, Nibbles7, WordBits
<1>2. CASE w \in {{}, WordBits}
  BY <1>1, <1>2 DEF AilunceWord, Xor
<1>3. CASE w \notin {{}, WordBits} /\ 28 \in w
  <2>1. AilunceWord(w) = Xor(w, Nibbles1)
    BY <1>3 DEF AilunceWord
  <2>2. 28 \in Xor(w, Nibbles1) /\ Xor(w, Nibbles1) # WordBits
    BY <1>1, <1>3 DEF Xor
  <2>3. AilunceWord(Xor(w, Nibbles1)) = Xor(Xor(w, Nibbles1), Nibbles1)
    BY <2>2 DEF AilunceWord
  <2> QED
    BY <2>1, <2>3, XorTwice
<1>4. CASE w \notin {{}, WordBits} /\ 28 \notin w
  <2>1. AilunceWord(w) = Xor(w, Nibbles7)
    BY <1>4 DEF AilunceWord
  <2>2. 28 \notin Xor(w, Nibbles7) /\ Xor(w, Nibbles7) # {}
    BY <1>1, <1>4 DEF Xor
  <2>3. AilunceWord(Xor(w, Nibbles7)) = Xor(Xor(w, Nibbles7), Nibbles7)
    BY <1>1, <2>2 DEF AilunceWord
  <2> QED
    BY <2>1, <2>3, XorTwice
<1> QED
  BY <1>2, <1>3, <1>4

(***************************************************************************)
(* ... and it never is on the one to three bytes after the last word,      *)
(* unless they are 0x00 or 0xff: the choice between the two masks looks at *)
(* bit 0, which both masks change.                                         *)
(***************************************************************************)
THEOREM AilunceLastTwice ==
  ASSUME NEW b \in Byte
  PROVE  AilunceLast(AilunceLast(b)) = b <=> b \in {Zero, Ones}
<1>0. 0 \in Ones /\ 1 \in Ones
  BY DEF Ones, Bits
<1>1. CASE b \in {Zero, Ones}
  BY <1>0, <1>1 DEF AilunceLast, Xor, Zero
<1>2. CASE b \notin {Zero, Ones} /\ 0 \in b
  <2> DEFINE c == Xor(b, {0})
  <2>1. AilunceLast(b) = c
    BY <1>2 DEF AilunceLast
  <2>2. 0 \notin c /\ c # Ones /\ (1 \in c <=> 1 \in b)
    BY <1>0, <1>2 DEF Xor
  <2>3. AilunceLast(c) = Ones \/ AilunceLast(c) = Xor(c, {0, 1, 2})
    BY <2>2 DEF AilunceLast, Xor, Zero
  <2>4. AilunceLast(c) # b
    BY <1>2, <2>2, <2>3 DEF Xor
  <2> QED
    BY <1>2, <2>1, <2>4
<1>3. CASE b \notin {Zero, Ones} /\ 0 \notin b
  <2> DEFINE c == Xor(b, {0, 1, 2})
  <2>1. AilunceLast(b) = c
    BY <1>3 DEF AilunceLast
  <2>2. 0 \in c /\ c # Zero /\ (1 \in c <=> 1 \notin b)
    BY <1>0, <1>3 DEF Xor, Zero
  <2>3. AilunceLast(c) = Zero \/ AilunceLast(c) = Xor(c, {0})
    BY <2>2 DEF AilunceLast, Xor, Zero
  <2>4. AilunceLast(c) # b
    BY <1>3, <2>2, <2>3 DEF Xor
  <2> QED
    BY <1>3, <2>1, <2>4
<1> QED
  BY <1>1, <1>2, <1>3

-----------------------------------------------------------------------------
(***************************************************************************)
(* Coded times.                                                            *)
(***************************************************************************)

LEMMA Centuries ==
  ASSUME NEW y \in 0..9999
  PROVE  /\ y \div 100 \in 0..99
         /\ y - (y \div 100) * 100 \in 0..99
         /\ (y \div 100) * 100 + (y - (y \div 100) * 100) = y
  OBVIOUS

LEMMA DigitsBack ==
  ASSUME NEW x \in 0..99
  PROVE  dcb(x) \in 0..153 /\ bcd(dcb(x)) = x
  BY DEF bcd, dcb

(***************************************************************************)
(* A time that TYTDFU::SetTime sends is the time that GetTime, and the     *)
(* time stamp of a codeplug, would read: no digit is lost on the way.      *)
(***************************************************************************)
THEOREM TimestampRoundTrip ==
  ASSUME NEW t \in Times
  PROVE  ParseBCDTimestamp(MakeBCDTimestamp(t)) = t
<1> DEFINE y == t.year
<1>0. y \in 0..9999
  BY DEF Times
<1>1. /\ y \div 100 \in 0..99
      /\ y - (y \div 100) * 100 \in 0..99
      /\ (y \div 100) * 100 + (y - (y \div 100) * 100) = y
  <2> HIDE DEF y
  <2> QED
    BY <1>0, Centuries
<1>2. /\ t.mon \in 0..99 /\ t.mday \in 0..99 /\ t.hour \in 0..99
      /\ t.min \in 0..99 /\ t.sec \in 0..99
  BY DEF Times
<1>3. t = [year |-> t.year, mon |-> t.mon, mday |-> t.mday,
           hour |-> t.hour, min |-> t.min, sec |-> t.sec]
  BY DEF Times
<1> QED
  BY <1>1, <1>2, <1>3, DigitsBack, SMTT(20) DEF ParseBCDTimestamp, MakeBCDTimestamp

-----------------------------------------------------------------------------
(***************************************************************************)
(* Sums. SumFirst is a recursive function: what it is for every sequence   *)
(* needs that such a function exists, and that takes induction.            *)
(***************************************************************************)

(* Induction, as a fact about sets of numbers: a set that has a least gap  *)
(* n would be mapped one-to-one into less of itself by adding 1.           *)
LEMMA NatSetInduction ==
  ASSUME NEW S \in SUBSET Nat, 0 \in S, \A n \in S : n + 1 \in S
  PROVE  S = Nat
<1> SUFFICES ASSUME NEW n \in Nat, n \notin S PROVE FALSE
  OBVIOUS
<1> DEFINE T == S \cap (0..n)
           U == T \ {0}
           f == [m \in T |-> m + 1]
<1>1. IsFiniteSet(T) /\ 0 \in T
  <2>1. IsFiniteSet(0..n)
    BY FS_Interval
  <2>2. IsFiniteSet(T)
    BY <2>1, FS_Subset
  <2> QED
    BY <2>2
<1>2. /\ IsFiniteSet(U) /\ Cardinality(U) = Cardinality(T) - 1
      /\ Cardinality(T) \in Nat
  BY <1>1, FS_RemoveElement, FS_CardinalityType
<1>3. ASSUME NEW m \in T PROVE m + 1 \in U
  <2>1. m \in S /\ m \in Nat /\ m <= n /\ m # n
    OBVIOUS
  <2>2. m + 1 \in S /\ m + 1 \in 0..n /\ m + 1 # 0
    BY <2>1
  <2> QED
    BY <2>2
<1> HIDE DEF U
<1>4. f \in [T -> U]
  BY <1>3
<1>5. Cardinality(U) < Cardinality(T)
  BY <1>2
<1>6. \E x, y \in T : x # y /\ f[x] = f[y]
  <2> HIDE DEF T, f
  <2> QED
    BY <1>1, <1>2, <1>4, <1>5, FS_PigeonHole
<1> QED
  BY <1>6

(* The loop that adds up numbers, one step after the other. *)
LEMMA SumSteps ==
  ASSUME NEW s \in Seq(Int)
  PROVE  /\ SumFirst(s, 0) = 0
         /\ \A n \in 1..Len(s) : SumFirst(s, n) = SumFirst(s, n - 1) + s[n]
         /\ \A n \in 0..Len(s) : SumFirst(s, n) \in Int
<1> DEFINE N == Len(s)
           Sums(g, m) == /\ g \in [0..m -> Int] /\ g[0] = 0
                         /\ \A i \in 1..m : g[i] = g[i - 1] + s[i]
           S == {m \in Nat : m <= N => \E g : Sums(g, m)}
           Body(g) == [i \in 0..N |-> IF i = 0 THEN 0 ELSE g[i - 1] + s[i]]
<1>1. N \in Nat /\ \A i \in 1..N : s[i] \in Int
  OBVIOUS
<1> HIDE DEF N
<1>2. 0 \in S
  <2> DEFINE g == [i \in 0..0 |-> 0]
  <2>1. Sums(g, 0)
    OBVIOUS
  <2> HIDE DEF Sums, g
  <2> QED
    BY <2>1
<1>3. ASSUME NEW m \in S PROVE m + 1 \in S
  <2> SUFFICES ASSUME m + 1 <= N PROVE \E g : Sums(g, m + 1)
    OBVIOUS
  <2>1. m \in Nat /\ m <= N /\ m + 1 \in 1..N
    BY <1>1
  <2>2. PICK g : Sums(g, m)
    BY <2>1
  <2> DEFINE h == [i \in 0..(m + 1) |-> IF i <= m THEN g[i] ELSE g[m] + s[m + 1]]
  <2>3. g[m] \in Int /\ s[m + 1] \in Int
    BY <1>1, <2>1, <2>2
  <2>4. h \in [0..(m + 1) -> Int] /\ h[0] = 0
    BY <2>1, <2>2, <2>3
  <2>5. \A i \in 1..(m + 1) : h[i] = h[i - 1] + s[i]
    <3> SUFFICES ASSUME NEW i \in 1..(m + 1) PROVE h[i] = h[i - 1] + s[i]
      OBVIOUS
    <3>1. i - 1 \in 0..m /\ i \in 0..(m + 1) /\ (i <= m \/ i = m + 1)
      BY <2>1
    <3>2. h[i - 1] = g[i - 1]
      BY <2>1, <3>1
    <3>3. CASE i <= m
      BY <2>1, <2>2, <3>1, <3>2, <3>3
    <3>4. CASE i = m + 1
      BY <2>1, <3>1, <3>2, <3>4
    <3> QED
      BY <3>1, <3>3, <3>4
  <2>6. Sums(h, m + 1)
    BY <2>4, <2>5
  <2> QED
    BY <2>6
<1>4. S = Nat
  <2>1. S \in SUBSET Nat
    OBVIOUS
  <2> HIDE DEF S
  <2> QED
    BY <1>2, <1>3, <2>1, NatSetInduction
<1>5. PICK g : Sums(g, N)
  <2>1. N \in S
    BY <1>1, <1>4
  <2> HIDE DEF Sums
  <2>2. N <= N => \E g : Sums(g, N)
    BY <2>1
  <2>3. N <= N
    BY <1>1
  <2> QED
    BY <2>2, <2>3, Zenon
<1>6. g = Body(g)
  <2>1. ASSUME NEW i \in 0..N PROVE g[i] = IF i = 0 THEN 0 ELSE g[i - 1] + s[i]
    <3>1. i = 0 \/ i \in 1..N
      BY <1>1
    <3> QED
      BY <1>5, <3>1
  <2>2. g = [i \in 0..N |-> g[i]]
    BY <1>5
  <2> QED
    BY <2>1, <2>2
<1> DEFINE sum == CHOOSE c : c = Body(c)
<1>7. sum = Body(sum)
  <2> HIDE DEF Body
  <2> QED
    BY <1>6
<1>8. ASSUME NEW n PROVE SumFirst(s, n) = sum[n]
  BY DEF SumFirst, N
<1> HIDE DEF sum
<1>9. /\ sum[0] = 0 /\ \A i \in 1..N : sum[i] = sum[i - 1] + s[i]
  BY <1>1, <1>7
<1> DEFINE R == {m \in Nat : m <= N => sum[m] \in Int}
<1>10. R = Nat
  <2>1. R \in SUBSET Nat /\ 0 \in R
    BY <1>9
  <2>2. ASSUME NEW m \in R PROVE m + 1 \in R
    <3>1. m + 1 <= N => m + 1 \in 1..N /\ (m + 1) - 1 = m /\ m <= N
      BY <1>1
    <3> QED
      BY <1>1, <1>9, <3>1
  <2> HIDE DEF R
  <2> QED
    BY <2>1, <2>2, NatSetInduction
<1>11. \A n \in 0..N : sum[n] \in Int
  BY <1>1, <1>10
<1> QED
  BY <1>8, <1>9, <1>11 DEF N

-----------------------------------------------------------------------------
(* A sum of n numbers depends on these n alone. *)
LEMMA SumPrefix ==
  ASSUME NEW s \in Seq(Int), NEW t \in Seq(Int), NEW n \in Nat,
         n <= Len(s), n <= Len(t), \A i \in 1..n : s[i] = t[i]
  PROVE  SumFirst(s, n) = SumFirst(t, n)
<1> DEFINE S == {m \in Nat : m <= n => SumFirst(s, m) = SumFirst(t, m)}
<1>1. S \in SUBSET Nat /\ 0 \in S
  BY SumSteps
<1>2. ASSUME NEW m \in S PROVE m + 1 \in S
  <2> SUFFICES ASSUME m + 1 <= n PROVE SumFirst(s, m + 1) = SumFirst(t, m + 1)
    OBVIOUS
  <2>1. /\ m + 1 \in 1..n /\ m + 1 \in 1..Len(s) /\ m + 1 \in 1..Len(t)
        /\ (m + 1) - 1 = m /\ m <= n
    OBVIOUS
  <2>2. SumFirst(s, m) = SumFirst(t, m)
    BY <2>1
  <2>3. /\ SumFirst(s, m + 1) = SumFirst(s, m) + s[m + 1]
        /\ SumFirst(t, m + 1) = SumFirst(t, m) + t[m + 1]
    BY <2>1, SumSteps
  <2> QED
    BY <2>1, <2>2, <2>3
<1>3. S = Nat
  <2> HIDE DEF S
  <2> QED
    BY <1>1, <1>2, NatSetInduction
<1>4. n \in S
  BY <1>3
<1> QED
  BY <1>4

(* Sums of numbers that differ in one place differ by as much. *)
LEMMA SumDiffers ==
  ASSUME NEW s \in Seq(Int), NEW t \in Seq(Int), Len(t) = Len(s),
         NEW z \in 1..Len(s), \A i \in 1..Len(s) : i # z => t[i] = s[i]
  PROVE  SumFirst(t, Len(t)) = SumFirst(s, Len(s)) + (t[z] - s[z])
<1> DEFINE N == Len(s)
           A(m) == SumFirst(s, m)
           B(m) == SumFirst(t, m)
           d == t[z] - s[z]
           Gap(m) == IF m >= z THEN d ELSE 0
           S == {m \in Nat : m <= N => B(m) = A(m) + Gap(m)}
<1>1. N \in Nat /\ s[z] \in Int /\ t[z] \in Int /\ z \in 1..N /\ d \in Int
      /\ \A i \in 1..N : s[i] \in Int /\ t[i] \in Int /\ (i # z => t[i] = s[i])
  OBVIOUS
<1>2. /\ A(0) = 0 /\ B(0) = 0
      /\ \A n \in 1..N : A(n) = A(n - 1) + s[n] /\ B(n) = B(n - 1) + t[n]
      /\ \A n \in 0..N : A(n) \in Int /\ B(n) \in Int
  BY SumSteps
<1>3. t[z] = s[z] + d
  BY <1>1
<1> HIDE DEF A, B, N, d
<1>4. S \in SUBSET Nat /\ 0 \in S
  BY <1>1, <1>2
<1>5. ASSUME NEW m \in S PROVE m + 1 \in S
  <2> SUFFICES ASSUME m + 1 <= N PROVE B(m + 1) = A(m + 1) + Gap(m + 1)
    OBVIOUS
  <2>1. m + 1 \in 1..N /\ (m + 1) - 1 = m /\ m \in 0..N /\ m \in Nat
    BY <1>1
  <2>2. B(m) = A(m) + Gap(m)
    BY <2>1
  <2>3. A(m + 1) = A(m) + s[m + 1] /\ B(m + 1) = B(m) + t[m + 1]
    BY <1>2, <2>1
  <2>4. A(m) \in Int /\ B(m) \in Int
    BY <1>2, <2>1
  <2>5. CASE m + 1 = z
    <3>1. Gap(m) = 0 /\ Gap(m + 1) = d
      BY <2>1, <2>5
    <3> QED
      BY <1>1, <1>3, <2>2, <2>3, <2>4, <2>5, <3>1
  <2>6. CASE m + 1 # z
    <3>1. Gap(m) = Gap(m + 1) /\ Gap(m) \in Int
      BY <1>1, <2>1, <2>6
    <3>2. t[m + 1] = s[m + 1] /\ s[m + 1] \in Int
      BY <1>1, <2>1, <2>6
    <3> HIDE DEF Gap
    <3> QED
      BY <2>2, <2>3, <2>4, <3>1, <3>2
  <2> QED
    BY <2>5, <2>6
<1>6. S = Nat
  <2> HIDE DEF S
  <2> QED
    BY <1>4, <1>5, NatSetInduction
<1>7. B(N) = A(N) + Gap(N)
  <2>1. N \in Nat /\ N <= N
    BY <1>1
  <2>2. N \in S
    <3> HIDE DEF S
    <3> QED
      BY <1>6, <2>1
  <2> HIDE DEF Gap
  <2> QED
    BY <2>1, <2>2
<1>8. Gap(N) = d
  BY <1>1
<1> QED
  BY <1>7, <1>8 DEF A, B, N, d

(* Sums of numbers that are not below 0 grow. *)
LEMMA SumGrows ==
  ASSUME NEW s \in Seq(Nat)
  PROVE  /\ \A n \in 0..Len(s) : SumFirst(s, n) \in Nat
         /\ \A n \in 0..Len(s) : SumFirst(s, n) <= SumFirst(s, Len(s))
<1> DEFINE N == Len(s)
           A(m) == SumFirst(s, m)
           S == {m \in Nat : m <= N => A(m) \in Nat}
<1>1. N \in Nat /\ s \in Seq(Int) /\ \A i \in 1..N : s[i] \in Nat
  OBVIOUS
<1>2. /\ A(0) = 0 /\ \A n \in 1..N : A(n) = A(n - 1) + s[n]
  BY <1>1, SumSteps
<1> HIDE DEF A, N
<1>3. S = Nat
  <2>1. S \in SUBSET Nat /\ 0 \in S
    BY <1>2
  <2>2. ASSUME NEW m \in S PROVE m + 1 \in S
    <3> SUFFICES ASSUME m + 1 <= N PROVE A(m + 1) \in Nat
      OBVIOUS
    <3>1. m + 1 \in 1..N /\ (m + 1) - 1 = m /\ m <= N
      BY <1>1
    <3>2. A(m + 1) = A(m) + s[m + 1] /\ A(m) \in Nat /\ s[m + 1] \in Nat
      BY <1>1, <1>2, <3>1
    <3> QED
      BY <3>2
  <2> HIDE DEF S
  <2> QED
    BY <2>1, <2>2, NatSetInduction
<1>4. \A n \in 0..N : A(n) \in Nat
  BY <1>1, <1>3
<1> DEFINE R == {m \in Nat : m <= N => A(N - m) <= A(N)}
<1>5. R = Nat
  <2>1. R \in SUBSET Nat /\ 0 \in R
    <3>1. N - 0 = N /\ A(N) \in Nat
      BY <1>1, <1>4
    <3>2. A(N - 0) <= A(N)
      BY <3>1
    <3> QED
      BY <3>2
  <2>2. ASSUME NEW m \in R PROVE m + 1 \in R
    <3> SUFFICES ASSUME m + 1 <= N PROVE A(N - (m + 1)) <= A(N)
      OBVIOUS
    <3> DEFINE i == N - m
    <3>1. /\ i \in 1..N /\ i - 1 = N - (m + 1) /\ m <= N /\ i - 1 \in 0..N /\ i \in 0..N
          /\ N \in 0..N
      BY <1>1
    <3>2. A(i) <= A(N)
      BY <3>1
    <3> HIDE DEF i
    <3>3. A(i) = A(i - 1) + s[i] /\ s[i] \in Nat
      BY <1>1, <1>2, <3>1
    <3>4. A(i) \in Nat /\ A(i - 1) \in Nat /\ A(N) \in Nat
      BY <1>4, <3>1
    <3>5. A(i - 1) <= A(N)
      BY <3>2, <3>3, <3>4
    <3> QED
      BY <3>1, <3>5
  <2> HIDE DEF R
  <2> QED
    BY <2>1, <2>2, NatSetInduction
<1>6. ASSUME NEW n \in 0..N PROVE A(n) <= A(N)
  <2>1. N - n \in Nat /\ N - n <= N /\ N - (N - n) = n
    BY <1>1
  <2>2. N - n \in R
    BY <1>5, <2>1
  <2>3. A(N - (N - n)) <= A(N)
    BY <2>1, <2>2
  <2> QED
    BY <2>1, <2>3
<1> QED
  BY <1>4, <1>6 DEF A, N

-----------------------------------------------------------------------------
(***************************************************************************)
(* Ranges: where a segment starts in the data of a handler.                *)
(***************************************************************************)

(* The sizes of ranges, which RangeOffset adds up. *)
LEMMA RegionSizes ==
  ASSUME NEW ranges \in Seq(Region)
  PROVE  LET sizes == [j \in DOMAIN ranges |-> ranges[j].size]
         IN  /\ sizes \in Seq(Nat) /\ sizes \in Seq(Int) /\ Len(sizes) = Len(ranges)
             /\ \A j \in 1..Len(ranges) : sizes[j] = ranges[j].size /\ sizes[j] \in Nat
<1> DEFINE sizes == [j \in DOMAIN ranges |-> ranges[j].size]
<1>1. /\ DOMAIN ranges = 1..Len(ranges) /\ Len(ranges) \in Nat
      /\ \A j \in 1..Len(ranges) : ranges[j] \in Region
  OBVIOUS
<1>2. \A j \in 1..Len(ranges) : ranges[j].size \in Nat
  BY <1>1 DEF Region
<1>3. sizes \in [1..Len(ranges) -> Nat]
  BY <1>1, <1>2
<1>4. \A j \in 1..Len(ranges) : sizes[j] = ranges[j].size
  BY <1>1
<1> HIDE DEF sizes
<1>5. sizes \in Seq(Nat) /\ Len(sizes) = Len(ranges)
  BY <1>1, <1>3
<1>6. sizes \in Seq(Int)
  BY <1>5
<1> QED
  BY <1>2, <1>4, <1>5, <1>6 DEF sizes

(* Where the ranges lie in the data. *)
LEMMA Offsets ==
  ASSUME NEW ranges \in Seq(Region)
  PROVE  /\ RangeOffset(ranges, 1) = 0
         /\ \A i \in 1..(Len(ranges) + 1) : RangeOffset(ranges, i) \in Nat
         /\ \A i \in 1..Len(ranges) :
              /\ ranges[i].size \in Nat
              /\ RangeOffset(ranges, i + 1) = RangeOffset(ranges, i) + ranges[i].size
              /\ RangeOffset(ranges, i) + ranges[i].size
                   <= RangeOffset(ranges, Len(ranges) + 1)
<1> DEFINE sizes == [j \in DOMAIN ranges |-> ranges[j].size]
           n == Len(ranges)
<1>1. /\ sizes \in Seq(Nat) /\ sizes \in Seq(Int) /\ Len(sizes) = n
      /\ \A j \in 1..n : sizes[j] = ranges[j].size /\ sizes[j] \in Nat
  BY RegionSizes, Zenon
<1>2. \A i : RangeOffset(ranges, i) = SumFirst(sizes, i - 1)
  BY DEF RangeOffset
<1>3. n \in Nat
  OBVIOUS
<1> HIDE DEF sizes, n
<1> DEFINE A(m) == SumFirst(sizes, m)
<1>4. /\ A(0) = 0 /\ \A m \in 1..n : A(m) = A(m - 1) + sizes[m]
  BY <1>1, SumSteps
<1>5. \A m \in 0..n : A(m) \in Nat /\ A(m) <= A(n)
  BY <1>1, SumGrows
<1> HIDE DEF A
<1>6. \A i : RangeOffset(ranges, i) = A(i - 1)
  BY <1>2 DEF A
<1>7. RangeOffset(ranges, 1) = 0
  BY <1>4, <1>6
<1>8. ASSUME NEW i \in 1..(n + 1) PROVE RangeOffset(ranges, i) \in Nat
  <2>1. i - 1 \in 0..n
    BY <1>3
  <2> QED
    BY <1>5, <1>6, <2>1
<1>9. ASSUME NEW i \in 1..n
      PROVE  /\ ranges[i].size \in Nat
             /\ RangeOffset(ranges, i + 1) = RangeOffset(ranges, i) + ranges[i].size
             /\ RangeOffset(ranges, i) + ranges[i].size <= RangeOffset(ranges, n + 1)
  <2>1. (i + 1) - 1 = i /\ i \in 0..n /\ (n + 1) - 1 = n
    BY <1>3
  <2>2. RangeOffset(ranges, i + 1) = A(i) /\ RangeOffset(ranges, n + 1) = A(n)
        /\ RangeOffset(ranges, i) = A(i - 1)
    BY <1>6, <2>1
  <2> QED
    BY <1>1, <1>4, <1>5, <2>1, <2>2
<1> QED
  BY <1>7, <1>8, <1>9 DEF n

(* A range more leaves the others where they are. *)
LEMMA OffsetsAppend ==
  ASSUME NEW ranges \in Seq(Region), NEW r \in Region
  PROVE  /\ Append(ranges, r) \in Seq(Region)
         /\ \A i \in 1..(Len(ranges) + 1) :
              RangeOffset(Append(ranges, r), i) = RangeOffset(ranges, i)
         /\ RangeOffset(Append(ranges, r), Len(ranges) + 2)
              = RangeOffset(ranges, Len(ranges) + 1) + r.size
<1> DEFINE more == Append(ranges, r)
           n == Len(ranges)
           sizes == [j \in DOMAIN ranges |-> ranges[j].size]
           sizes2 == [j \in DOMAIN more |-> more[j].size]
<1>1. /\ more \in Seq(Region) /\ Len(more) = n + 1 /\ n \in Nat
      /\ \A j \in 1..n : more[j] = ranges[j]
      /\ more[n + 1] = r
  OBVIOUS
<1> HIDE DEF more
<1>2. /\ sizes \in Seq(Int) /\ Len(sizes) = n
      /\ \A j \in 1..n : sizes[j] = ranges[j].size
  BY RegionSizes, Zenon
<1>3. /\ sizes2 \in Seq(Int) /\ Len(sizes2) = Len(more)
      /\ \A j \in 1..Len(more) : sizes2[j] = more[j].size
  BY <1>1, RegionSizes, Zenon
<1>4. /\ \A i : RangeOffset(ranges, i) = SumFirst(sizes, i - 1)
      /\ \A i : RangeOffset(more, i) = SumFirst(sizes2, i - 1)
  BY DEF RangeOffset
<1> HIDE DEF sizes, sizes2, n
<1>5. ASSUME NEW i \in 1..(n + 1) PROVE RangeOffset(more, i) = RangeOffset(ranges, i)
  <2>1. i - 1 \in Nat /\ i - 1 <= n /\ i - 1 <= Len(sizes2)
    BY <1>1, <1>3
  <2>2. ASSUME NEW j \in 1..(i - 1) PROVE sizes2[j] = sizes[j]
    <3>1. j \in 1..n /\ j \in 1..Len(more)
      BY <1>1
    <3>2. sizes2[j] = more[j].size /\ sizes[j] = ranges[j].size /\ more[j] = ranges[j]
      BY <1>1, <1>2, <1>3, <3>1
    <3> QED
      BY <3>2
  <2>3. SumFirst(sizes2, i - 1) = SumFirst(sizes, i - 1)
    BY <1>2, <1>3, <2>1, <2>2, SumPrefix
  <2> QED
    BY <1>4, <2>3
<1>6. RangeOffset(more, n + 2) = RangeOffset(ranges, n + 1) + r.size
  <2>1. n + 1 \in 1..Len(more) /\ n + 1 \in 1..(n + 1) /\ (n + 1) + 1 = n + 2
    BY <1>1
  <2>2. RangeOffset(more, (n + 1) + 1) = RangeOffset(more, n + 1) + more[n + 1].size
    BY <1>1, <2>1, Offsets
  <2> QED
    BY <1>1, <1>5, <2>1, <2>2
<1> QED
  BY <1>1, <1>5, <1>6 DEF more, n

-----------------------------------------------------------------------------
(***************************************************************************)
(* Segments: AppendSegment and GetDataSegments.                            *)
(***************************************************************************)

LEMMA RangesOfSegments ==
  ASSUME NEW segs \in Seq(Segment)
  PROVE  /\ RangesOf(segs) \in Seq(Region)
         /\ Len(RangesOf(segs)) = Len(segs)
         /\ DOMAIN RangesOf(segs) = 1..Len(segs)
         /\ \A i \in 1..Len(segs) :
              /\ RangesOf(segs)[i] = [address |-> segs[i].address,
                                      size |-> Len(segs[i].data)]
              /\ segs[i].address \in Nat /\ segs[i].data \in Seq(Byte)
              /\ Len(segs[i].data) \in Nat
<1>1. /\ DOMAIN segs = 1..Len(segs) /\ Len(segs) \in Nat
      /\ \A i \in 1..Len(segs) : segs[i] \in Segment
  OBVIOUS
<1>2. ASSUME NEW i \in 1..Len(segs)
      PROVE  /\ segs[i].address \in Nat /\ segs[i].data \in Seq(Byte)
             /\ Len(segs[i].data) \in Nat
  <2>1. segs[i] \in Segment
    BY <1>1
  <2>2. segs[i].address \in Nat /\ segs[i].data \in Seq(Byte)
    BY <2>1 DEF Segment
  <2> QED
    BY <2>2
<1>3. \A i \in 1..Len(segs) : RangesOf(segs)[i] \in Region
  BY <1>1, <1>2 DEF RangesOf, Region
<1>4. /\ DOMAIN RangesOf(segs) = 1..Len(segs)
      /\ RangesOf(segs) = [i \in 1..Len(segs) |-> RangesOf(segs)[i]]
      /\ \A i \in 1..Len(segs) :
              RangesOf(segs)[i] = [address |-> segs[i].address,
                                   size |-> Len(segs[i].data)]
  BY <1>1 DEF RangesOf
<1>5. RangesOf(segs) \in [1..Len(segs) -> Region]
  BY <1>3, <1>4, Zenon
<1>6. RangesOf(segs) \in Seq(Region) /\ Len(RangesOf(segs)) = Len(segs)
  BY <1>1, <1>4, <1>5
<1> QED
  BY <1>2, <1>4, <1>6

(* GetDataSegments of such a handler gives the segments. *)
LEMMA HeldSegments ==
  ASSUME NEW h, NEW segs, Holds(h.data, h.memory_ranges, segs)
  PROVE  GetDataSegments(h) = segs
<1> DEFINE ranges == RangesOf(segs)
           n == Len(segs)
           d == h.data
<1>1. /\ d \in Seq(Byte) /\ segs \in Seq(Segment) /\ h.memory_ranges = ranges
      /\ Len(d) = RangeOffset(ranges, Len(ranges) + 1)
      /\ \A i \in DOMAIN segs : \A z \in 1..Len(segs[i].data) :
           d[RangeOffset(ranges, i) + z] = segs[i].data[z]
  BY Zenon DEF Holds
<1>2. /\ ranges \in Seq(Region) /\ Len(ranges) = n /\ DOMAIN ranges = 1..n
      /\ DOMAIN segs = 1..n /\ n \in Nat
      /\ \A i \in 1..n :
           /\ ranges[i].address = segs[i].address
           /\ ranges[i].size = Len(segs[i].data)
           /\ segs[i].address \in Nat /\ segs[i].data \in Seq(Byte)
           /\ Len(segs[i].data) \in Nat
  <2>1. segs \in Seq(Segment)
    BY <1>1
  <2>2. DOMAIN segs = 1..n /\ n \in Nat
    BY <2>1
  <2>3. /\ ranges \in Seq(Region) /\ Len(ranges) = n /\ DOMAIN ranges = 1..n
        /\ \A i \in 1..n :
             /\ ranges[i] = [address |-> segs[i].address, size |-> Len(segs[i].data)]
             /\ segs[i].address \in Nat /\ segs[i].data \in Seq(Byte)
             /\ Len(segs[i].data) \in Nat
    BY <2>1, RangesOfSegments, Zenon
  <2> QED
    BY <2>2, <2>3
<1> HIDE DEF ranges, n, d
<1>3. ASSUME NEW i \in 1..n
      PROVE  LET first == RangeOffset(ranges, i)
             IN  SubSeq(d, first + 1, first + ranges[i].size) = segs[i].data
  <2> DEFINE first == RangeOffset(ranges, i)
             m == ranges[i].size
             t == SubSeq(d, first + 1, first + m)
  <2>1. first \in Nat /\ m \in Nat /\ first + m <= Len(d) /\ Len(d) \in Nat
    <3>1. i \in 1..Len(ranges) /\ i \in 1..(Len(ranges) + 1)
      BY <1>2
    <3> QED
      BY <1>1, <1>2, <3>1, Offsets
  <2> HIDE DEF first, m
  <2>2. \A j \in (first + 1)..(first + m) : d[j] \in Byte
    BY <1>1, <2>1
  <2>3. /\ t \in Seq(Byte) /\ Len(t) = m
        /\ \A z \in 1..m : t[z] = d[first + z]
    <3>1. /\ t \in Seq(Byte)
          /\ Len(t) = IF first + 1 <= first + m THEN (first + m) - (first + 1) + 1 ELSE 0
          /\ \A z \in 1..((first + m) - (first + 1) + 1) :
               t[z] = d[(first + 1) + z - 1]
      BY <2>1, <2>2, SubSeqProperties
    <3> HIDE DEF t
    <3> QED
      BY <2>1, <3>1
  <2> HIDE DEF t
  <2>4. segs[i].data \in Seq(Byte) /\ Len(segs[i].data) = m
    BY <1>2 DEF m
  <2>5. \A z \in 1..m : t[z] = segs[i].data[z]
    BY <1>1, <1>2, <2>3, <2>4 DEF first
  <2>6. t = segs[i].data
    BY <2>3, <2>4, <2>5, SeqEqual
  <2> QED
    BY <2>6 DEF t, m, first
<1>4. ASSUME NEW i \in 1..n
      PROVE  segs[i] = [address |-> segs[i].address, data |-> segs[i].data]
  <2>1. segs[i] \in Segment
    BY <1>1, <1>2
  <2> QED
    BY <2>1 DEF Segment
<1>5. ASSUME NEW i \in 1..n PROVE GetDataSegments(h)[i] = segs[i]
  BY <1>1, <1>2, <1>3, <1>4 DEF GetDataSegments, d
<1>6. GetDataSegments(h) = [i \in 1..n |-> GetDataSegments(h)[i]]
  BY <1>1, <1>2 DEF GetDataSegments
<1>7. segs = [i \in 1..n |-> segs[i]]
  BY <1>1, <1>2
<1> QED
  BY <1>5, <1>6, <1>7

(* AppendSegment puts a segment behind those a handler holds.              *)
LEMMA HoldsOneMore ==
  ASSUME NEW h, NEW segs, Holds(h.data, h.memory_ranges, segs),
         h = [class |-> h.class, data |-> h.data, memory_ranges |-> h.memory_ranges,
              info |-> h.info],
         NEW a \in Nat, NEW bytes \in Seq(Byte)
  PROVE  LET more == AppendSegment(h, a, bytes)
         IN  /\ more = [class |-> h.class, data |-> more.data,
                        memory_ranges |-> more.memory_ranges, info |-> h.info]
             /\ Holds(more.data, more.memory_ranges,
                      Append(segs, [address |-> a, data |-> bytes]))
<1> DEFINE ranges == RangesOf(segs)
           n == Len(segs)
           seg == [address |-> a, data |-> bytes]
           segs2 == Append(segs, seg)
           r == [address |-> a, size |-> Len(bytes)]
           ranges2 == Append(ranges, r)
           d == h.data
           d2 == d \o bytes
           more == AppendSegment(h, a, bytes)
<1>1. /\ d \in Seq(Byte) /\ segs \in Seq(Segment) /\ h.memory_ranges = ranges
      /\ Len(d) = RangeOffset(ranges, Len(ranges) + 1)
      /\ \A i \in DOMAIN segs : \A z \in 1..Len(segs[i].data) :
           d[RangeOffset(ranges, i) + z] = segs[i].data[z]
  BY Zenon DEF Holds
<1>2. /\ ranges \in Seq(Region) /\ Len(ranges) = n /\ DOMAIN ranges = 1..n
      /\ \A i \in 1..n :
           /\ ranges[i] = [address |-> segs[i].address, size |-> Len(segs[i].data)]
           /\ segs[i].address \in Nat /\ segs[i].data \in Seq(Byte)
           /\ Len(segs[i].data) \in Nat
  BY <1>1, RangesOfSegments, Zenon
<1>3. DOMAIN segs = 1..n /\ n \in Nat
  BY <1>1
<1>4. Len(bytes) \in Nat /\ r \in Region /\ seg \in Segment
  BY DEF Region, Segment
<1>5. more = [class |-> h.class, data |-> d2, memory_ranges |-> ranges2, info |-> h.info]
  <2>1. more = [h EXCEPT !.data = d \o bytes \o <<>>,
                         !.memory_ranges =
                            Append(ranges, [address |-> a, size |-> Len(bytes) + 0])]
    BY <1>1 DEF AppendSegment, align
  <2>2. d \o bytes \o <<>> = d \o bytes /\ Len(bytes) + 0 = Len(bytes)
    BY <1>1, <1>4, ConcatEmptySeq, ConcatProperties
  <2> HIDE DEF more
  <2> QED
    BY <2>1, <2>2
<1>6. /\ d2 \in Seq(Byte) /\ Len(d2) = Len(d) + Len(bytes) /\ Len(d) \in Nat
      /\ \A i \in 1..(Len(d) + Len(bytes)) :
           d2[i] = IF i <= Len(d) THEN d[i] ELSE bytes[i - Len(d)]
  <2>1. d \in Seq(Byte)
    BY <1>1
  <2> HIDE DEF d
  <2> QED
    BY <2>1, ConcatProperties
<1>7. /\ segs2 \in Seq(Segment) /\ Len(segs2) = n + 1 /\ DOMAIN segs2 = 1..(n + 1)
      /\ \A i \in 1..n : segs2[i] = segs[i]
      /\ segs2[n + 1] = seg
  BY <1>1, <1>3, <1>4
<1>8. /\ ranges2 \in Seq(Region) /\ Len(ranges2) = n + 1 /\ DOMAIN ranges2 = 1..(n + 1)
      /\ \A i \in 1..n : ranges2[i] = ranges[i]
      /\ ranges2[n + 1] = r
  <2>1. ranges \in Seq(Region) /\ r \in Region /\ Len(ranges) = n
    BY <1>2, <1>4
  <2> HIDE DEF ranges, r, n
  <2> QED
    BY <1>3, <2>1
<1>9. /\ \A i \in 1..(n + 1) : RangeOffset(ranges2, i) = RangeOffset(ranges, i)
      /\ RangeOffset(ranges2, n + 2) = RangeOffset(ranges, n + 1) + Len(bytes)
  BY <1>2, <1>4, OffsetsAppend
<1> HIDE DEF ranges, n, seg, segs2, r, ranges2, d, d2, more
<1>10. ranges2 = RangesOf(segs2)
  <2>1. RangesOf(segs2) \in Seq(Region) /\ Len(RangesOf(segs2)) = n + 1
    BY <1>7, RangesOfSegments
  <2>2. ASSUME NEW i \in 1..(n + 1) PROVE ranges2[i] = RangesOf(segs2)[i]
    <3>1. RangesOf(segs2)[i] = [address |-> segs2[i].address,
                                size |-> Len(segs2[i].data)]
      BY <1>7 DEF RangesOf
    <3>2. CASE i \in 1..n
      BY <1>2, <1>7, <1>8, <3>1, <3>2
    <3>3. CASE i = n + 1
      BY <1>7, <1>8, <3>1, <3>3 DEF seg, r
    <3> QED
      BY <1>3, <3>2, <3>3
  <2> QED
    BY <1>8, <2>1, <2>2, SeqEqual
<1>11. Len(d2) = RangeOffset(ranges2, Len(ranges2) + 1)
  <2>1. Len(ranges2) + 1 = n + 2
    BY <1>3, <1>8
  <2>2. Len(d) = RangeOffset(ranges, n + 1)
    BY <1>1, <1>2
  <2> QED
    BY <1>6, <1>9, <2>1, <2>2
<1>12. ASSUME NEW i \in DOMAIN segs2, NEW z \in 1..Len(segs2[i].data)
       PROVE  d2[RangeOffset(ranges2, i) + z] = segs2[i].data[z]
  <2>1. i \in 1..(n + 1) /\ RangeOffset(ranges2, i) = RangeOffset(ranges, i)
    BY <1>7, <1>9
  <2>2. CASE i \in 1..n
    <3>1. segs2[i] = segs[i] /\ i \in DOMAIN segs /\ z \in 1..Len(segs[i].data)
      BY <1>3, <1>7, <2>2
    <3>2. Len(segs[i].data) \in Nat /\ ranges[i].size = Len(segs[i].data)
      BY <1>2, <2>2
    <3>3. /\ RangeOffset(ranges, i) \in Nat
          /\ RangeOffset(ranges, i) + ranges[i].size <= Len(d)
      <4>1. i \in 1..Len(ranges) /\ i \in 1..(Len(ranges) + 1)
        BY <1>2, <1>3, <2>2
      <4> QED
        BY <1>1, <1>2, <4>1, Offsets
    <3>4. d[RangeOffset(ranges, i) + z] = segs[i].data[z]
      BY <1>1, <3>1
    <3>5. /\ RangeOffset(ranges, i) + z \in 1..(Len(d) + Len(bytes))
          /\ RangeOffset(ranges, i) + z <= Len(d)
      BY <1>4, <1>6, <3>1, <3>2, <3>3
    <3>6. d2[RangeOffset(ranges, i) + z] = d[RangeOffset(ranges, i) + z]
      BY <1>6, <3>5
    <3> QED
      BY <2>1, <3>1, <3>4, <3>6
  <2>3. CASE i = n + 1
    <3>1. segs2[i].data = bytes /\ z \in 1..Len(bytes)
      BY <1>7, <2>3 DEF seg
    <3>2. RangeOffset(ranges, i) = Len(d)
      BY <1>1, <1>2, <2>3
    <3>3. Len(d) + z \in 1..(Len(d) + Len(bytes)) /\ ~(Len(d) + z <= Len(d))
          /\ (Len(d) + z) - Len(d) = z
      BY <1>4, <1>6, <3>1
    <3>4. d2[Len(d) + z] = bytes[z]
      BY <1>6, <3>3
    <3> QED
      BY <2>1, <3>1, <3>2, <3>4
  <2> QED
    BY <1>3, <2>1, <2>2, <2>3
<1>13. Holds(d2, ranges2, segs2)
  BY <1>6, <1>7, <1>10, <1>11, <1>12, Zenon DEF Holds
<1> QED
  BY <1>5, <1>13 DEF more, segs2, seg

(* A handler without segments. *)
LEMMA HoldsNothing == Holds(<<>>, <<>>, <<>>)
<1>1. <<>> \in Seq(Byte) /\ <<>> \in Seq(Segment) /\ <<>> \in Seq(Region)
      /\ Len(<<>>) = 0 /\ DOMAIN <<>> = {}
  OBVIOUS
<1>2. RangesOf(<<>>) = <<>>
  <2>1. RangesOf(<<>>) \in Seq(Region) /\ Len(RangesOf(<<>>)) = 0
    BY <1>1, RangesOfSegments
  <2> QED
    BY <2>1
<1>3. RangeOffset(<<>>, 1) = 0
  BY <1>1, Offsets
<1> QED
  BY <1>1, <1>2, <1>3 DEF Holds

-----------------------------------------------------------------------------
(***************************************************************************)
(* The tables of TYTFW: keys and counter magics.                           *)
(***************************************************************************)

(* The keys. *)
LEMMA KeyTables ==
  /\ \A n \in TableNames : Tables[n] \in Seq(Byte) /\ Len(Tables[n]) > 0
  /\ uv3x0 \in Seq(Byte) /\ Len(uv3x0) > 0
  /\ md9600 \in Seq(Byte) /\ Len(md9600) > 0
  /\ dm1701 \in Seq(Byte) /\ Len(dm1701) > 0
  /\ md380 \in Seq(Byte) /\ Len(md380) > 0
  /\ cs800_0 \in Seq(Byte) /\ Len(cs800_0) > 0
  /\ sgl \in Seq(Byte) /\ Len(sgl) > 0
<1>1. {"uv3x0", "md9600", "dm1701", "md380", "cs800_0", "sgl"} \subseteq TableNames
  BY DEF TableNames
<1>2. \A n \in TableNames : Tables[n] \in Seq(Byte) /\ Len(Tables[n]) > 0
  BY TablesAssumption
<1> QED
  BY <1>1, <1>2 DEF uv3x0, md9600, dm1701, md380, cs800_0, sgl

(* The second byte of the counter magic tells the cipher. *)
CipherOf(magic) ==
  IF magic[2] = 20 THEN md9600
  ELSE IF magic[2] = 15 THEN dm1701
  ELSE IF magic[2] \in {13, 16, 27} THEN md380
  ELSE uv3x0

LEMMA ConfigTable ==
  /\ DOMAIN TYTConfigs = 1..12
  /\ \A i \in 1..12 :
       /\ TYTConfigs[i].counter_magic \in Seq(Nat)
       /\ TYTConfigs[i].counter_magic[1] \in {1, 2}
       /\ Len(TYTConfigs[i].counter_magic) = 1 + TYTConfigs[i].counter_magic[1]
       /\ TYTConfigs[i].cipher = CipherOf(TYTConfigs[i].counter_magic)
<1>1. DOMAIN TYTConfigs = 1..12
  BY DEF TYTConfigs
<1> DEFINE Good(i) ==
       /\ TYTConfigs[i].counter_magic \in Seq(Nat)
       /\ TYTConfigs[i].counter_magic[1] \in {1, 2}
       /\ Len(TYTConfigs[i].counter_magic) = 1 + TYTConfigs[i].counter_magic[1]
       /\ TYTConfigs[i].cipher = CipherOf(TYTConfigs[i].counter_magic)
           Row(i, magic, key) ==
             TYTConfigs[i].counter_magic = magic /\ TYTConfigs[i].cipher = key
<1>2. /\ Row(1, <<2, 25, 12>>, uv3x0)
      /\ Row(2, <<2, 24, 12>>, uv3x0)
      /\ Row(3, <<1, 25>>, uv3x0)
      /\ Row(4, <<1, 24>>, uv3x0)
      /\ Row(5, <<1, 20>>, md9600)
      /\ Row(6, <<2, 22, 12>>, uv3x0)
      /\ Row(7, <<2, 23, 12>>, uv3x0)
      /\ Row(8, <<1, 15>>, dm1701)
      /\ Row(9, <<1, 16>>, md380)
      /\ Row(10, <<1, 13>>, md380)
      /\ Row(11, <<1, 13>>, md380)
      /\ Row(12, <<1, 27>>, md380)
  BY DEF TYTConfigs, TYTRadioConfig
<1>3. ASSUME NEW i, NEW b \in Nat, NEW c \in Nat, Row(i, <<2, b, c>>, CipherOf(<<2, b, c>>))
      PROVE  Good(i)
  <2>1. LET m == <<2, b, c>> IN m \in Seq(Nat) /\ m[1] = 2 /\ Len(m) = 3
    OBVIOUS
  <2> QED
    BY <1>3, <2>1
<1>4. ASSUME NEW i, NEW b \in Nat, Row(i, <<1, b>>, CipherOf(<<1, b>>))
      PROVE  Good(i)
  <2>1. LET m == <<1, b>> IN m \in Seq(Nat) /\ m[1] = 1 /\ Len(m) = 2
    OBVIOUS
  <2> QED
    BY <1>4, <2>1
<1>5. /\ \A b, c \in Nat : CipherOf(<<2, b, c>>) = CipherOf(<<1, b>>)
      /\ CipherOf(<<1, 20>>) = md9600 /\ CipherOf(<<1, 15>>) = dm1701
      /\ \A b \in {13, 16, 27} : CipherOf(<<1, b>>) = md380
      /\ \A b \in {22, 23, 24, 25} : CipherOf(<<1, b>>) = uv3x0
  BY DEF CipherOf
<1> HIDE DEF Good, Row
<1>6. /\ Good(1) /\ Good(2) /\ Good(3) /\ Good(4) /\ Good(5) /\ Good(6)
      /\ Good(7) /\ Good(8) /\ Good(9) /\ Good(10) /\ Good(11) /\ Good(12)
  BY <1>2, <1>3, <1>4, <1>5
<1>7. \A i \in 1..12 : i \in {1, 2, 3, 4, 5, 6, 7, 8, 9, 10, 11, 12}
  OBVIOUS
<1>8. \A i \in 1..12 : Good(i)
  BY <1>7, <1>6
<1> QED
  BY <1>1, <1>8 DEF Good

(* The first row for a magic, and for a model. *)
LEMMA MagicRow ==
  ASSUME NEW magic, NEW i \in ConfigsOfMagic(magic)
  PROVE  /\ i \in 1..12
         /\ TYTConfigs[i].counter_magic = magic
         /\ TYTConfigs[i].cipher = CipherOf(magic)
<1>1. i \in DOMAIN TYTConfigs /\ TYTConfigs[i].counter_magic = magic
  BY DEF ConfigsOfMagic, FirstOf
<1> QED
  BY <1>1, ConfigTable

LEMMA ModelRow ==
  ASSUME NEW model, TYTSupportsRadioModel(model)
  PROVE  LET cm == Config(model).counter_magic
         IN  /\ \E i \in 1..12 : Config(model) = TYTConfigs[i]
             /\ cm \in Seq(Nat) /\ cm[1] \in {1, 2} /\ Len(cm) = 1 + cm[1]
             /\ Config(model).cipher = CipherOf(cm)
             /\ Config(model).cipher \in Seq(Byte) /\ Len(Config(model).cipher) > 0
<1> DEFINE i == CHOOSE j \in ConfigsOfModel(model) : TRUE
<1>1. i \in ConfigsOfModel(model)
  BY DEF TYTSupportsRadioModel
<1>2. i \in 1..12 /\ Config(model) = TYTConfigs[i]
  BY <1>1, ConfigTable DEF ConfigsOfModel, FirstOf, Config
<1> HIDE DEF i
<1>3. LET cm == TYTConfigs[i].counter_magic
      IN  /\ cm \in Seq(Nat) /\ cm[1] \in {1, 2} /\ Len(cm) = 1 + cm[1]
          /\ TYTConfigs[i].cipher = CipherOf(cm)
  BY <1>2, ConfigTable
<1>4. CipherOf(TYTConfigs[i].counter_magic) \in {uv3x0, md9600, dm1701, md380}
  BY DEF CipherOf
<1> QED
  BY <1>2, <1>3, <1>4, KeyTables

(* ReadHeader finds in the file the magic that Write has put there. *)
LEMMA MagicReadBack ==
  ASSUME NEW cm \in Seq(Nat), cm[1] \in {1, 2}, Len(cm) = 1 + cm[1]
  PROVE  LET bytes == CounterBytes(cm)
         IN  /\ bytes \in Seq(Int) /\ Len(bytes) = 4
             /\ bytes[1] = cm[1]
             /\ SubSeq(bytes, 1, 1 + bytes[1]) = cm
             /\ IsPrefix(cm, bytes)
<1> DEFINE bytes == CounterBytes(cm)
           n == Len(cm)
           read == SubSeq(bytes, 1, n)
<1>1. n \in {2, 3} /\ n = 1 + cm[1] /\ cm \in Seq(Int) /\ \A x \in 1..n : cm[x] \in Int
  OBVIOUS
<1>2. /\ DOMAIN bytes = 1..4
      /\ \A x \in 1..4 : bytes[x] = IF x <= n THEN cm[x] ELSE x - 1
      /\ bytes = [x \in 1..4 |-> bytes[x]]
  BY DEF CounterBytes
<1> HIDE DEF bytes
<1>3. \A x \in 1..n : x \in 1..4 /\ bytes[x] = cm[x]
  BY <1>1, <1>2
<1>4. \A x \in 1..4 : bytes[x] \in Int
  BY <1>1, <1>2
<1>5. bytes \in Seq(Int) /\ Len(bytes) = 4
  <2>1. bytes \in [1..4 -> Int]
    BY <1>2, <1>4
  <2> QED
    BY <1>2, <2>1
<1>6. bytes[1] = cm[1]
  BY <1>1, <1>3
<1> HIDE DEF n
<1>7. read = cm
  <2>1. \A x \in 1..n : bytes[x] \in Int
    BY <1>3, <1>4
  <2>2. /\ read \in Seq(Int) /\ Len(read) = IF 1 <= n THEN n - 1 + 1 ELSE 0
        /\ \A x \in 1..(n - 1 + 1) : read[x] = bytes[1 + x - 1]
    BY <1>1, <2>1, SubSeqProperties
  <2> HIDE DEF read
  <2>3. Len(read) = n /\ Len(cm) = n
    <3>1. 1 <= n /\ n - 1 + 1 = n
      BY <1>1
    <3> QED
      BY <2>2, <3>1 DEF n
  <2>4. ASSUME NEW x \in 1..n PROVE read[x] = cm[x]
    <3>1. x \in 1..(n - 1 + 1) /\ 1 + x - 1 = x
      BY <1>1
    <3> QED
      BY <1>3, <2>2, <3>1
  <2> QED
    BY <1>1, <2>2, <2>3, <2>4, SeqEqual
<1>8. SubSeq(cm, 1, n) = cm
  BY SubSeqFull DEF n
<1>9. IsPrefix(cm, bytes)
  <2>1. Len(cm) = n /\ n <= Len(bytes)
    BY <1>1, <1>5 DEF n
  <2> QED
    BY <1>7, <1>8, <2>1 DEF IsPrefix
<1> QED
  BY <1>1, <1>5, <1>6, <1>7, <1>9 DEF bytes

-----------------------------------------------------------------------------
(***************************************************************************)
(* The checksum of a Connect Systems file.                                 *)
(***************************************************************************)

LEMMA ValueOfByte ==
  ASSUME NEW b
  PROVE  Value(b) \in 0..255 /\ Value(b) \in Nat
  BY DEF Value

(* A byte in which one bit changes. *)
LEMMA FlippedValue ==
  ASSUME NEW b \in Byte, NEW x \in 3..7
  PROVE  LET d == Value(Xor(b, {x})) - Value(b)
         IN  d \in 8..128 \/ -d \in 8..128
<1> DEFINE c == Xor(b, {x})
           d == Value(c) - Value(b)
           bit(s, j, weight) == IF j \in s THEN weight ELSE 0
<1>1. ASSUME NEW j, j # x PROVE j \in c <=> j \in b
  BY <1>1 DEF Xor
<1>2. x \in c <=> x \notin b
  BY DEF Xor
<1>3. ASSUME NEW s
      PROVE  Value(s) = bit(s, 0, 1) + bit(s, 1, 2) + bit(s, 2, 4) + bit(s, 3, 8)
                          + bit(s, 4, 16) + bit(s, 5, 32) + bit(s, 6, 64) + bit(s, 7, 128)
  BY DEF Value
<1>4. /\ \A j, w : j # x => bit(c, j, w) = bit(b, j, w)
      /\ \A s, j : \A w \in Int : bit(s, j, w) \in Int
      /\ \A w \in Int : bit(c, x, w) - bit(b, x, w) = w \/ bit(c, x, w) - bit(b, x, w) = -w
  BY <1>1, <1>2
<1> HIDE DEF c, bit
<1>5. x \in {3, 4, 5, 6, 7}
  OBVIOUS
<1>6. d \in 8..128 \/ -d \in 8..128
  <2>1. CASE x = 3
    <3>1. d = bit(c, 3, 8) - bit(b, 3, 8)
      BY <1>3, <1>4, <2>1
    <3> QED
      BY <1>4, <2>1, <3>1
  <2>2. CASE x = 4
    <3>1. d = bit(c, 4, 16) - bit(b, 4, 16)
      BY <1>3, <1>4, <2>2
    <3> QED
      BY <1>4, <2>2, <3>1
  <2>3. CASE x = 5
    <3>1. d = bit(c, 5, 32) - bit(b, 5, 32)
      BY <1>3, <1>4, <2>3
    <3> QED
      BY <1>4, <2>3, <3>1
  <2>4. CASE x = 6
    <3>1. d = bit(c, 6, 64) - bit(b, 6, 64)
      BY <1>3, <1>4, <2>4
    <3> QED
      BY <1>4, <2>4, <3>1
  <2>5. CASE x = 7
    <3>1. d = bit(c, 7, 128) - bit(b, 7, 128)
      BY <1>3, <1>4, <2>5
    <3> QED
      BY <1>4, <2>5, <3>1
  <2> QED
    BY <1>5, <2>1, <2>2, <2>3, <2>4, <2>5
<1> QED
  BY <1>6 DEF c

(* Numbers of one byte differ in a bit. *)
LEMMA ByteOfTells ==
  ASSUME NEW m \in 0..255, NEW n \in 0..255, ByteOf(m) = ByteOf(n)
  PROVE  m = n
<1> DEFINE bit(x, w) == (x \div w) % 2
<1>1. ASSUME NEW x \in 0..255
      PROVE  /\ x = bit(x, 1) + 2 * bit(x, 2) + 4 * bit(x, 4) + 8 * bit(x, 8)
                    + 16 * bit(x, 16) + 32 * bit(x, 32) + 64 * bit(x, 64)
                    + 128 * bit(x, 128)
  OBVIOUS
<1>2. /\ Weights[1] = 1 /\ Weights[2] = 2 /\ Weights[3] = 4 /\ Weights[4] = 8
      /\ Weights[5] = 16 /\ Weights[6] = 32 /\ Weights[7] = 64 /\ Weights[8] = 128
  BY DEF Weights
<1>3. ASSUME NEW x \in 0..255
      PROVE  \A j \in 0..7 : bit(x, Weights[j + 1]) = IF j \in ByteOf(x) THEN 1 ELSE 0
  <2>1. ASSUME NEW j \in 0..7 PROVE Weights[j + 1] \in Nat \ {0}
    <3>1. j \in {0, 1, 2, 3, 4, 5, 6, 7}
      OBVIOUS
    <3> QED
      BY <1>2, <3>1
  <2>2. ASSUME NEW w \in Nat \ {0} PROVE bit(x, w) = 0 \/ bit(x, w) = 1
    <3>1. x \div w \in Nat
      OBVIOUS
    <3> HIDE DEF bit
    <3>2. \A q \in Nat : q % 2 \in 0..1
      OBVIOUS
    <3> QED
      BY <3>1, <3>2 DEF bit
  <2> QED
    BY <2>1, <2>2 DEF ByteOf, Bits
<1>4. \A j \in 0..7 : bit(m, Weights[j + 1]) = bit(n, Weights[j + 1])
  BY <1>3
<1> HIDE DEF bit
<1>5. /\ bit(m, 1) = bit(n, 1) /\ bit(m, 2) = bit(n, 2) /\ bit(m, 4) = bit(n, 4)
      /\ bit(m, 8) = bit(n, 8) /\ bit(m, 16) = bit(n, 16) /\ bit(m, 32) = bit(n, 32)
      /\ bit(m, 64) = bit(n, 64) /\ bit(m, 128) = bit(n, 128)
  <2>1. /\ bit(m, Weights[0 + 1]) = bit(n, Weights[0 + 1])
        /\ bit(m, Weights[1 + 1]) = bit(n, Weights[1 + 1])
        /\ bit(m, Weights[2 + 1]) = bit(n, Weights[2 + 1])
        /\ bit(m, Weights[3 + 1]) = bit(n, Weights[3 + 1])
        /\ bit(m, Weights[4 + 1]) = bit(n, Weights[4 + 1])
        /\ bit(m, Weights[5 + 1]) = bit(n, Weights[5 + 1])
        /\ bit(m, Weights[6 + 1]) = bit(n, Weights[6 + 1])
        /\ bit(m, Weights[7 + 1]) = bit(n, Weights[7 + 1])
    BY <1>4
  <2> QED
    BY <1>2, <2>1
<1> QED
  BY <1>1, <1>5

LEMMA ByteOfByte ==
  ASSUME NEW n
  PROVE  ByteOf(n) \in Byte
  BY DEF ByteOf, Byte

(* The checksum as a number, and its two bytes. *)
Fifth(total) == (total % 65536) \div 5
High(total) == Fifth(total) \div 256
Low(total) == Fifth(total) % 256

LEMMA ChecksumBytes ==
  ASSUME NEW total \in Nat
  PROVE  /\ CSChecksum(total) = <<ByteOf(High(total)), ByteOf(Low(total))>>
         /\ High(total) \in 0..255 /\ Low(total) \in 0..255
         /\ Fifth(total) = 256 * High(total) + Low(total)
<1>1. High(total) \in 0..255 /\ Low(total) \in 0..255
  BY DEF High, Low, Fifth
<1>2. Fifth(total) = 256 * High(total) + Low(total)
  BY DEF High, Low, Fifth
<1>3. CSChecksum(total) = <<ByteOf(High(total)), ByteOf(Low(total))>>
  BY DEF CSChecksum, High, Low, Fifth
<1> QED
  BY <1>1, <1>2, <1>3

(* Two sums that differ by 5 or more differ in the checksum, if they do   *)
(* not differ by 65536.                                                    *)
LEMMA ChecksumTells ==
  ASSUME NEW s \in Nat, NEW t \in Nat, t - s \in 8..128
  PROVE  CSChecksum(s) # CSChecksum(t)
<1>1. Fifth(s) # Fifth(t)
  <2>1. PICK d \in 8..128 : t = s + d
    OBVIOUS
  <2> QED
    BY <2>1 DEF Fifth
<1>2. ASSUME CSChecksum(s) = CSChecksum(t) PROVE FALSE
  <2>1. ByteOf(High(s)) = ByteOf(High(t)) /\ ByteOf(Low(s)) = ByteOf(Low(t))
    BY <1>2, ChecksumBytes
  <2>2. High(s) = High(t) /\ Low(s) = Low(t)
    BY <2>1, ChecksumBytes, ByteOfTells
  <2> QED
    BY <1>1, <2>2, ChecksumBytes
<1> QED
  BY <1>2

LEMMA ChecksumType ==
  ASSUME NEW total \in Nat
  PROVE  CSChecksum(total) \in Seq(Byte) /\ Len(CSChecksum(total)) = 2
<1>1. \A b, c \in Byte : <<b, c>> \in Seq(Byte) /\ Len(<<b, c>>) = 2
  OBVIOUS
<1> QED
  BY <1>1, ByteOfByte DEF CSChecksum

(* The sum of bytes, and of bytes of which one is another. *)
LEMMA TotalType ==
  ASSUME NEW data \in Seq(Byte)
  PROVE  /\ Total(data) \in Nat
         /\ \A other \in Seq(Byte), z \in 1..Len(data) :
              Len(other) = Len(data) /\ (\A i \in 1..Len(data) : i # z => other[i] = data[i])
                => Total(other) = Total(data) + (Value(other[z]) - Value(data[z]))
<1> DEFINE values(d) == [z \in DOMAIN d |-> Value(d[z])]
<1>1. ASSUME NEW d \in Seq(Byte)
      PROVE  /\ values(d) \in Seq(Nat) /\ values(d) \in Seq(Int) /\ Len(values(d)) = Len(d)
             /\ \A i \in 1..Len(d) : values(d)[i] = Value(d[i])
  <2>1. DOMAIN d = 1..Len(d) /\ Len(d) \in Nat
    OBVIOUS
  <2>2. values(d) \in [1..Len(d) -> Nat]
    <3>1. ASSUME NEW z \in 1..Len(d) PROVE Value(d[z]) \in Nat
      BY ValueOfByte, Zenon
    <3> QED
      BY <2>1, <3>1
  <2>3. values(d) \in Seq(Nat) /\ Len(values(d)) = Len(d)
    BY <2>1, <2>2
  <2>4. values(d) \in Seq(Int)
    BY <2>3
  <2> QED
    BY <2>1, <2>3, <2>4
<1>2. \A d \in Seq(Byte) : Total(d) = SumFirst(values(d), Len(values(d)))
  BY <1>1 DEF Total
<1> HIDE DEF values
<1>3. Total(data) \in Nat
  <2>1. Len(values(data)) \in 0..Len(values(data))
    BY <1>1
  <2> QED
    BY <1>1, <1>2, <2>1, SumGrows
<1>4. ASSUME NEW other \in Seq(Byte), NEW z \in 1..Len(data), Len(other) = Len(data),
             \A i \in 1..Len(data) : i # z => other[i] = data[i]
      PROVE  Total(other) = Total(data) + (Value(other[z]) - Value(data[z]))
  <2>1. \A i \in 1..Len(values(data)) : i # z => values(other)[i] = values(data)[i]
    BY <1>1, <1>4
  <2>2. z \in 1..Len(values(data)) /\ Len(values(other)) = Len(values(data))
    BY <1>1, <1>4
  <2>3. SumFirst(values(other), Len(values(other)))
          = SumFirst(values(data), Len(values(data))) + (values(other)[z] - values(data)[z])
    BY <1>1, <2>1, <2>2, SumDiffers
  <2> QED
    BY <1>1, <1>2, <1>4, <2>3
<1> QED
  BY <1>3, <1>4

-----------------------------------------------------------------------------
(***************************************************************************)
(* Connect Systems files: what Write makes, Read takes, and a changed bit  *)
(* is seen.                                                                *)
(***************************************************************************)

LEMMA XORBytes ==
  ASSUME NEW data \in Seq(Byte), NEW key \in Seq(Byte), Len(key) > 0, NEW offset \in Nat
  PROVE  /\ ApplyXOR(data, key, offset) \in Seq(Byte)
         /\ Len(ApplyXOR(data, key, offset)) = Len(data)
         /\ \A z \in 1..Len(data) :
              ApplyXOR(data, key, offset)[z]
                = Xor(data[z], key[1 + ((offset + (z - 1)) % Len(key))])
<1>1. DOMAIN data = 1..Len(data) /\ Len(data) \in Nat
  OBVIOUS
<1>2. ApplyXOR(data, key, offset) \in Seq(Byte)
  BY ApplyXORBytes
<1>3. /\ DOMAIN ApplyXOR(data, key, offset) = 1..Len(data)
      /\ \A z \in 1..Len(data) :
           ApplyXOR(data, key, offset)[z]
             = Xor(data[z], key[1 + ((offset + (z - 1)) % Len(key))])
  BY <1>1, Zenon DEF ApplyXOR
<1> HIDE DEF ApplyXOR
<1>4. Len(ApplyXOR(data, key, offset)) = Len(data)
  BY <1>1, <1>2, <1>3
<1> QED
  BY <1>2, <1>3, <1>4

(* A beginning of a sequence of bytes. *)
LEMMA PartOf ==
  ASSUME NEW data \in Seq(Byte), NEW m \in Nat, NEW n \in Nat, m + n <= Len(data)
  PROVE  /\ SubSeq(data, m + 1, m + n) \in Seq(Byte)
         /\ Len(SubSeq(data, m + 1, m + n)) = n
         /\ \A z \in 1..n : SubSeq(data, m + 1, m + n)[z] = data[m + z]
<1>1. \A i \in (m + 1)..(m + n) : data[i] \in Byte
  OBVIOUS
<1> DEFINE t == SubSeq(data, m + 1, m + n)
<1>2. /\ t \in Seq(Byte)
      /\ Len(t) = IF m + 1 <= m + n THEN (m + n) - (m + 1) + 1 ELSE 0
      /\ \A z \in 1..((m + n) - (m + 1) + 1) : t[z] = data[(m + 1) + z - 1]
  BY <1>1, SubSeqProperties
<1> HIDE DEF t
<1>3. Len(t) = n
  BY <1>2
<1>4. ASSUME NEW z \in 1..n PROVE t[z] = data[m + z]
  <2>1. z \in 1..((m + n) - (m + 1) + 1) /\ (m + 1) + z - 1 = m + z
    OBVIOUS
  <2> QED
    BY <1>2, <2>1
<1> QED
  BY <1>2, <1>3, <1>4 DEF t

LEMMA WordTotalType ==
  ASSUME NEW n \in Nat
  PROVE  WordTotal(n) \in Nat
<1>1. n % 256 \in Nat /\ n \div 16777216 \in Nat
  OBVIOUS
<1>2. (n \div 256) % 256 \in Nat
  OBVIOUS
<1>3. (n \div 65536) % 256 \in Nat
  OBVIOUS
<1> QED
  BY <1>1, <1>2, <1>3 DEF WordTotal

LEMMA HeaderTotalType ==
  ASSUME NEW header \in CSHeader
  PROVE  HeaderTotal(header) \in Nat
<1>1. /\ header.baseaddr_offset \in Nat /\ header.imagesize \in Nat
      /\ header.version \in Nat /\ HeaderSize \in Nat
  BY DEF CSHeader, HeaderSize
<1>2. /\ WordTotal(header.baseaddr_offset) \in Nat /\ WordTotal(header.imagesize) \in Nat
      /\ WordTotal(HeaderSize) \in Nat /\ WordTotal(header.version) \in Nat
  BY <1>1, WordTotalType
<1> QED
  BY <1>2 DEF HeaderTotal

(* The two parts behind the header of a file whose length is right. *)
LEMMA CSParts ==
  ASSUME NEW f, CSFile(f), f.header.imagesize + ChecksumSize = Len(f.rest)
  PROVE  LET n == f.header.imagesize
             tail == SubSeq(f.rest, n + 1, n + ChecksumSize)
         IN  /\ n \in Nat
             /\ CSImage(f) \in Seq(Byte) /\ Len(CSImage(f)) = n
             /\ \A z \in 1..n : CSImage(f)[z] = f.rest[z]
             /\ tail \in Seq(Byte) /\ Len(tail) = 2
             /\ \A z \in 1..2 : tail[z] = f.rest[n + z]
             /\ CSStoredChecksum(f) = ApplyXOR(tail, cs800_0, n)
             /\ MakeChecksum(f.header, CSImage(f)) =
                  CSChecksum(HeaderTotal(f.header) + Total(ApplyXOR(CSImage(f), cs800_0, 0)))
<1> DEFINE n == f.header.imagesize
           rest == f.rest
<1>1. n \in Nat /\ rest \in Seq(Byte) /\ n + 2 = Len(rest)
  BY DEF CSFile, CSHeader, ChecksumSize
<1>2. CSImage(f) = SubSeq(rest, 1, n)
  BY DEF CSImage
<1>3. CSStoredChecksum(f) = ApplyXOR(SubSeq(rest, n + 1, n + 2), cs800_0, n)
  BY DEF CSStoredChecksum, XORedChecksum, ChecksumSize
<1>4. MakeChecksum(f.header, CSImage(f)) =
        CSChecksum(HeaderTotal(f.header) + Total(ApplyXOR(CSImage(f), cs800_0, 0)))
  BY DEF MakeChecksum
<1> HIDE DEF n, rest
<1>5. /\ SubSeq(rest, 1, n) \in Seq(Byte) /\ Len(SubSeq(rest, 1, n)) = n
      /\ \A z \in 1..n : SubSeq(rest, 1, n)[z] = rest[z]
  <2>1. 0 + n <= Len(rest) /\ 0 + 1 = 1 /\ 0 + n = n
    BY <1>1
  <2>2. /\ SubSeq(rest, 0 + 1, 0 + n) \in Seq(Byte) /\ Len(SubSeq(rest, 0 + 1, 0 + n)) = n
        /\ \A z \in 1..n : SubSeq(rest, 0 + 1, 0 + n)[z] = rest[0 + z]
    BY <1>1, <2>1, PartOf
  <2>3. \A z \in 1..n : 0 + z = z
    BY <1>1
  <2> QED
    BY <2>1, <2>2, <2>3
<1>6. /\ SubSeq(rest, n + 1, n + 2) \in Seq(Byte) /\ Len(SubSeq(rest, n + 1, n + 2)) = 2
      /\ \A z \in 1..2 : SubSeq(rest, n + 1, n + 2)[z] = rest[n + z]
  BY <1>1, PartOf
<1> QED
  BY <1>1, <1>2, <1>3, <1>4, <1>5, <1>6 DEF n, rest, ChecksumSize

LEMMA XorFlip ==
  ASSUME NEW a, NEW b, NEW c
  PROVE  Xor(Xor(a, b), c) = Xor(Xor(a, c), b)
  BY DEF Xor

LEMMA XorTells ==
  ASSUME NEW a, NEW b, NEW x
  PROVE  Xor(Xor(a, {x}), b) # Xor(a, b)
<1>1. x \in Xor(Xor(a, {x}), b) <=> x \notin Xor(a, b)
  BY DEF Xor
<1> QED
  BY <1>1

(* A bit that changes before the XOR changes after it. *)
Flipped(data, other, z, b) ==
  /\ data \in Seq(Byte) /\ other \in Seq(Byte) /\ Len(other) = Len(data)
  /\ z \in 1..Len(data)
  /\ other[z] = Xor(data[z], {b})
  /\ \A i \in 1..Len(data) : i # z => other[i] = data[i]

LEMMA XORFlips ==
  ASSUME NEW data, NEW other, NEW z, NEW b, Flipped(data, other, z, b),
         NEW key \in Seq(Byte), Len(key) > 0, NEW offset \in Nat
  PROVE  /\ Flipped(ApplyXOR(data, key, offset), ApplyXOR(other, key, offset), z, b)
         /\ ApplyXOR(other, key, offset) # ApplyXOR(data, key, offset)
<1> DEFINE of(i) == key[1 + ((offset + (i - 1)) % Len(key))]
           clear == ApplyXOR(data, key, offset)
           clear2 == ApplyXOR(other, key, offset)
<1> USE DEF Flipped
<1>1. /\ clear \in Seq(Byte) /\ Len(clear) = Len(data)
      /\ \A i \in 1..Len(data) : clear[i] = Xor(data[i], of(i))
  BY XORBytes
<1>2. /\ clear2 \in Seq(Byte) /\ Len(clear2) = Len(data)
      /\ \A i \in 1..Len(data) : clear2[i] = Xor(other[i], of(i))
  BY XORBytes
<1> HIDE DEF of, clear, clear2
<1>3. clear2[z] = Xor(Xor(data[z], {b}), of(z)) /\ clear[z] = Xor(data[z], of(z))
  BY <1>1, <1>2
<1>4. clear2[z] = Xor(clear[z], {b}) /\ clear2[z] # clear[z]
  <2>1. Xor(Xor(data[z], {b}), of(z)) = Xor(Xor(data[z], of(z)), {b})
    BY XorFlip
  <2>2. Xor(Xor(data[z], {b}), of(z)) # Xor(data[z], of(z))
    BY XorTells
  <2> QED
    BY <1>3, <2>1, <2>2
<1>5. \A i \in 1..Len(data) : i # z => clear2[i] = clear[i]
  BY <1>1, <1>2
<1> QED
  BY <1>1, <1>2, <1>4, <1>5 DEF clear, clear2

(* CSFW::Read refuses a file that was written to its end and of which a    *)
(* bit of weight 8 or more has changed, anywhere behind the header: the    *)
(* checksum in the file is then not the one of header and image            *)
(* (src/cs_fw.cpp).                                                        *)
THEOREM DamageIsSeen ==
  ASSUME NEW f, Genuine(f), NEW z \in DOMAIN f.rest, NEW b \in 3..7,
         NEW g, g = [f EXCEPT !.rest[z] = Xor(@, {b})]
  PROVE  /\ CSFile(g) /\ g.header = f.header /\ Len(g.rest) = Len(f.rest)
         /\ CSStoredChecksum(g) # MakeChecksum(g.header, CSImage(g))
<1> DEFINE n == f.header.imagesize
           image == CSImage(f)
           image2 == CSImage(g)
           tail == SubSeq(f.rest, n + 1, n + ChecksumSize)
           tail2 == SubSeq(g.rest, n + 1, n + ChecksumSize)
           clear == ApplyXOR(image, cs800_0, 0)
           clear2 == ApplyXOR(image2, cs800_0, 0)
<1>1. /\ f.rest \in Seq(Byte) /\ f.header \in CSHeader /\ n \in Nat
      /\ n + 2 = Len(f.rest) /\ z \in 1..Len(f.rest)
      /\ f = [format |-> "cs", header |-> f.header, rest |-> f.rest]
  BY DEF Genuine, CSFile, CSHeader, ChecksumSize
<1>2. Xor(f.rest[z], {b}) \in Byte
  <2>1. f.rest[z] \in Byte /\ {b} \in Byte
    BY <1>1 DEF Byte, Bits
  <2> QED
    BY <2>1, XorByte
<1>3. /\ g.rest = [f.rest EXCEPT ![z] = Xor(@, {b})]
      /\ g = [format |-> "cs", header |-> f.header, rest |-> g.rest]
      /\ g.header = f.header
  <2> DEFINE changed == [f.rest EXCEPT ![z] = Xor(@, {b})]
  <2>1. g = [f EXCEPT !.rest = changed]
    OBVIOUS
  <2>2. f = [format |-> "cs", header |-> f.header, rest |-> f.rest]
    BY <1>1
  <2> HIDE DEF changed
  <2>3. g.rest = changed /\ g.header = f.header /\ g.format = "cs"
        /\ g = [format |-> "cs", header |-> f.header, rest |-> changed]
    BY <2>1, <2>2
  <2> QED
    BY <2>3 DEF changed
<1>4. /\ g.rest \in Seq(Byte) /\ Len(g.rest) = Len(f.rest)
      /\ g.rest[z] = Xor(f.rest[z], {b})
      /\ \A i \in 1..Len(f.rest) : i # z => g.rest[i] = f.rest[i]
  BY <1>1, <1>2, <1>3
<1>5. CSFile(g)
  BY <1>1, <1>3, <1>4 DEF CSFile
<1>6. /\ image \in Seq(Byte) /\ Len(image) = n
      /\ \A i \in 1..n : image[i] = f.rest[i]
      /\ tail \in Seq(Byte) /\ Len(tail) = 2
      /\ \A i \in 1..2 : tail[i] = f.rest[n + i]
      /\ CSStoredChecksum(f) = ApplyXOR(tail, cs800_0, n)
      /\ MakeChecksum(f.header, CSImage(f)) =
           CSChecksum(HeaderTotal(f.header) + Total(clear))
      /\ CSStoredChecksum(f) = MakeChecksum(f.header, CSImage(f))
  BY CSParts, Zenon DEF Genuine
<1>7. /\ image2 \in Seq(Byte) /\ Len(image2) = n
      /\ \A i \in 1..n : image2[i] = g.rest[i]
      /\ tail2 \in Seq(Byte) /\ Len(tail2) = 2
      /\ \A i \in 1..2 : tail2[i] = g.rest[n + i]
      /\ CSStoredChecksum(g) = ApplyXOR(tail2, cs800_0, n)
      /\ MakeChecksum(g.header, CSImage(g)) =
           CSChecksum(HeaderTotal(f.header) + Total(clear2))
  <2>1. g.header.imagesize + ChecksumSize = Len(g.rest) /\ g.header = f.header
    BY <1>3, <1>4 DEF Genuine
  <2> QED
    BY <1>5, <2>1, CSParts
<1>8. cs800_0 \in Seq(Byte) /\ Len(cs800_0) > 0 /\ 0 \in Nat /\ HeaderTotal(f.header) \in Nat
  BY <1>1, KeyTables, HeaderTotalType
<1> HIDE DEF n, image, image2, tail, tail2
<1>9. ASSUME z \in 1..n
      PROVE  CSStoredChecksum(g) # MakeChecksum(g.header, CSImage(g))
  <2>1. tail2 = tail
    <3>1. \A i \in 1..2 : n + i \in 1..Len(f.rest) /\ n + i # z
      BY <1>1, <1>9
    <3>2. \A i \in 1..2 : tail2[i] = tail[i]
      BY <1>4, <1>6, <1>7, <3>1
    <3> QED
      BY <1>6, <1>7, <3>2, SeqEqual
  <2>2. z \in 1..Len(f.rest) /\ image2[z] = g.rest[z] /\ image[z] = f.rest[z]
    BY <1>1, <1>6, <1>7, <1>9
  <2>3. image2[z] = Xor(image[z], {b})
    BY <1>4, <2>2, Zenon
  <2>4. \A i \in 1..n : i # z => image2[i] = image[i]
    <3>1. \A i \in 1..n : i \in 1..Len(f.rest)
      BY <1>1
    <3> QED
      BY <1>4, <1>6, <1>7, <3>1
  <2>5. /\ clear \in Seq(Byte) /\ Len(clear) = n
        /\ clear2 \in Seq(Byte) /\ Len(clear2) = n
    BY <1>6, <1>7, <1>8, XORBytes
  <2>6. Flipped(clear, clear2, z, b)
    <3>1. Flipped(image, image2, z, b)
      BY <1>6, <1>7, <1>9, <2>3, <2>4 DEF Flipped
    <3> QED
      BY <1>8, <3>1, XORFlips
  <2> HIDE DEF clear, clear2
  <2>7. /\ Total(clear) \in Nat /\ Total(clear2) \in Nat
        /\ Total(clear2) = Total(clear) + (Value(clear2[z]) - Value(clear[z]))
    <3>1. z \in 1..Len(clear) /\ Len(clear2) = Len(clear)
          /\ \A i \in 1..Len(clear) : i # z => clear2[i] = clear[i]
      BY <2>6 DEF Flipped
    <3> QED
      BY <2>5, <3>1, TotalType
  <2>8. PICK d \in Int : /\ d = Value(clear2[z]) - Value(clear[z])
                         /\ d \in 8..128 \/ -d \in 8..128
    <3>1. clear[z] \in Byte
      BY <1>9, <2>5
    <3>2. LET d == Value(clear2[z]) - Value(clear[z]) IN d \in 8..128 \/ -d \in 8..128
      BY <2>6, <3>1, FlippedValue DEF Flipped
    <3>3. Value(clear2[z]) \in Nat /\ Value(clear[z]) \in Nat
      BY ValueOfByte
    <3>4. Value(clear2[z]) - Value(clear[z]) \in Int
      BY <3>3
    <3> QED
      BY <3>2, <3>4
  <2> DEFINE s == HeaderTotal(f.header) + Total(clear)
             t == HeaderTotal(f.header) + Total(clear2)
  <2>9. s \in Nat /\ t \in Nat /\ (t - s \in 8..128 \/ s - t \in 8..128)
    <3>1. PICK u \in Nat, u2 \in Nat, h \in Nat :
            /\ u = Total(clear) /\ u2 = Total(clear2) /\ h = HeaderTotal(f.header)
      BY <1>8, <2>7
    <3>2. u2 = u + d
      BY <2>7, <2>8, <3>1
    <3>3. s = h + u /\ t = h + u2
      BY <3>1
    <3> HIDE DEF s, t
    <3> QED
      BY <2>8, <3>2, <3>3
  <2>10. CSChecksum(s) # CSChecksum(t)
    <3> HIDE DEF s, t
    <3> QED
      BY <2>9, ChecksumTells
  <2> QED
    BY <1>6, <1>7, <2>1, <2>10
<1>10. ASSUME z \notin 1..n
       PROVE  CSStoredChecksum(g) # MakeChecksum(g.header, CSImage(g))
  <2>1. image2 = image
    <3>1. \A i \in 1..n : i \in 1..Len(f.rest) /\ i # z
      BY <1>1, <1>10
    <3>2. \A i \in 1..n : image2[i] = image[i]
      BY <1>4, <1>6, <1>7, <3>1
    <3> QED
      BY <1>6, <1>7, <3>2, SeqEqual
  <2>2. PICK i \in 1..2 : z = n + i
    <3>1. z - n \in 1..2 /\ z = n + (z - n)
      BY <1>1, <1>10
    <3> QED
      BY <3>1
  <2>3. tail2[i] = Xor(tail[i], {b})
    BY <1>4, <1>6, <1>7, <2>2
  <2>4. i \in 1..Len(tail) /\ \A j \in 1..Len(tail) : j # i => tail2[j] = tail[j]
    <3>1. \A j \in 1..2 : n + j \in 1..Len(f.rest) /\ (j # i => n + j # z)
      BY <1>1, <2>2
    <3> QED
      BY <1>4, <1>6, <1>7, <3>1
  <2>5. Flipped(tail, tail2, i, b)
    BY <1>6, <1>7, <2>3, <2>4 DEF Flipped
  <2>6. ApplyXOR(tail2, cs800_0, n) # ApplyXOR(tail, cs800_0, n)
    BY <1>1, <1>8, <2>5, XORFlips
  <2> QED
    BY <1>6, <1>7, <2>1, <2>6
<1> QED
  BY <1>3, <1>4, <1>5, <1>9, <1>10

(* The file of a handler with one segment is genuine and holds its data. *)
LEMMA CSReadBack ==
  ASSUME NEW h, h.data \in Seq(Byte), h.memory_ranges \in Seq(Region),
         CSOneSegment(h)
  PROVE  LET f == CSWritten(h)
         IN  /\ Genuine(f)
             /\ CSImage(f) = h.data
             /\ f.header.imagesize = Len(h.data)
             /\ f.header.baseaddr_offset = h.memory_ranges[1].address
<1> DEFINE header == CSUpdateHeader(h)
           n == Len(h.data)
           sum == MakeChecksum(header, h.data)
           total == HeaderTotal(header) + Total(ApplyXOR(h.data, cs800_0, 0))
           tail == XORedChecksum(header, sum)
           f == CSWritten(h)
<1>1. /\ header \in CSHeader /\ header.imagesize = n /\ n \in Nat
      /\ header.baseaddr_offset = h.memory_ranges[1].address
  <2>1. h.memory_ranges[1] \in Region /\ n \in Nat
    BY DEF CSOneSegment
  <2> QED
    BY <2>1 DEF CSUpdateHeader, CSHeader, Region
<1>2. f = [format |-> "cs", header |-> header, rest |-> h.data \o tail]
  BY DEF CSWritten
<1>3. cs800_0 \in Seq(Byte) /\ Len(cs800_0) > 0 /\ 0 \in Nat /\ HeaderTotal(header) \in Nat
  BY <1>1, KeyTables, HeaderTotalType
<1>4. sum \in Seq(Byte) /\ Len(sum) = 2
  <2>1. sum = CSChecksum(total)
    BY DEF MakeChecksum
  <2>2. total \in Nat
    <3>1. ApplyXOR(h.data, cs800_0, 0) \in Seq(Byte)
      BY <1>3, XORBytes
    <3>2. Total(ApplyXOR(h.data, cs800_0, 0)) \in Nat
      BY <3>1, TotalType
    <3> QED
      BY <1>3, <3>2
  <2> HIDE DEF total
  <2> QED
    BY <2>1, <2>2, ChecksumType
<1>5. tail = ApplyXOR(sum, cs800_0, n)
  BY <1>1 DEF XORedChecksum
<1> HIDE DEF header, n, sum
<1>6. tail \in Seq(Byte) /\ Len(tail) = 2 /\ ApplyXOR(tail, cs800_0, n) = sum
  BY <1>1, <1>3, <1>4, <1>5, XORBytes, ApplyXORTwice
<1> HIDE DEF tail, f
<1>7. /\ f.rest \in Seq(Byte) /\ Len(f.rest) = n + 2
      /\ \A i \in 1..n : f.rest[i] = h.data[i]
      /\ \A i \in 1..2 : f.rest[n + i] = tail[i]
  <2>1. f.rest = h.data \o tail /\ h.data \in Seq(Byte)
    BY <1>2
  <2>2. /\ h.data \o tail \in Seq(Byte) /\ Len(h.data \o tail) = Len(h.data) + Len(tail)
        /\ \A i \in 1..(Len(h.data) + Len(tail)) :
             (h.data \o tail)[i] =
               IF i <= Len(h.data) THEN h.data[i] ELSE tail[i - Len(h.data)]
    BY <1>6, <2>1, ConcatProperties
  <2>3. \A i \in 1..n : i \in 1..(n + 2) /\ i <= n
    BY <1>1
  <2>4. \A i \in 1..2 : n + i \in 1..(n + 2) /\ ~(n + i <= n) /\ (n + i) - n = i
    BY <1>1
  <2>5. Len(h.data) = n /\ Len(tail) = 2
    BY <1>6 DEF n
  <2> QED
    BY <2>1, <2>2, <2>3, <2>4, <2>5
<1>8. CSFile(f) /\ f.header = header /\ f.header.imagesize + ChecksumSize = Len(f.rest)
  BY <1>1, <1>2, <1>7 DEF CSFile, ChecksumSize
<1> DEFINE tail2 == SubSeq(f.rest, n + 1, n + ChecksumSize)
<1>9. /\ CSImage(f) \in Seq(Byte) /\ Len(CSImage(f)) = n
      /\ \A i \in 1..n : CSImage(f)[i] = f.rest[i]
      /\ tail2 \in Seq(Byte) /\ Len(tail2) = 2
      /\ \A i \in 1..2 : tail2[i] = f.rest[n + i]
      /\ CSStoredChecksum(f) = ApplyXOR(tail2, cs800_0, n)
  <2>1. f.header.imagesize = n
    BY <1>1, <1>8
  <2> QED
    BY <1>8, <2>1, CSParts
<1> HIDE DEF tail2
<1>10. CSImage(f) = h.data
  <2>1. \A i \in 1..n : CSImage(f)[i] = h.data[i]
    BY <1>7, <1>9
  <2> QED
    BY <1>9, <2>1, SeqEqual DEF n
<1>11. tail2 = tail
  <2>1. \A i \in 1..2 : tail2[i] = tail[i]
    BY <1>7, <1>9
  <2> QED
    BY <1>6, <1>9, <2>1, SeqEqual
<1>12. CSStoredChecksum(f) = MakeChecksum(f.header, CSImage(f))
  BY <1>6, <1>8, <1>9, <1>10, <1>11 DEF sum
<1> QED
  BY <1>1, <1>8, <1>10, <1>12 DEF Genuine, f, n

-----------------------------------------------------------------------------
(***************************************************************************)
(* Containers, cut off and damaged.                                        *)
(***************************************************************************)

LEMMA LenOf ==
  ASSUME NEW n \in Nat, NEW d, d = [z \in 1..n |-> d[z]]
  PROVE  DOMAIN d = 1..n /\ Len(d) = n /\ d \in Seq({d[z] : z \in 1..n})
<1> DEFINE S == {d[z] : z \in 1..n}
<1>1. \A z \in 1..n : d[z] \in S
  OBVIOUS
<1> HIDE DEF S
<1>2. DOMAIN d = 1..n /\ d \in [1..n -> S]
  BY <1>1
<1>3. d \in Seq(S) /\ Len(d) = n
  BY <1>2
<1> QED
  BY <1>2, <1>3 DEF S

LEMMA ContainerParts ==
  ASSUME NEW f, Container(f)
  PROVE  /\ f.rest \in Seq(Byte) /\ "rest" \in DOMAIN f
         /\ f.format \in {"tyt", "cs", "sgl", "plain"}
         /\ f # Missing
         /\ f.format = "tyt" => TYTFile(f)
         /\ f.format = "cs" => CSFile(f)
         /\ f.format = "sgl" => SGLFile(f)
         /\ f.format = "plain" => PlainFile(f)
<1>1. CASE TYTFile(f)
  <2>1. f.format = "tyt" /\ f.rest \in Seq(Byte) /\ "rest" \in DOMAIN f
    BY <1>1 DEF TYTFile
  <2> QED
    BY <1>1, <2>1 DEF Missing
<1>2. CASE CSFile(f)
  <2>1. f.format = "cs" /\ f.rest \in Seq(Byte) /\ "rest" \in DOMAIN f
    BY <1>2 DEF CSFile
  <2> QED
    BY <1>2, <2>1 DEF Missing
<1>3. CASE SGLFile(f)
  <2>1. f.format = "sgl" /\ f.rest \in Seq(Byte) /\ "rest" \in DOMAIN f
    BY <1>3 DEF SGLFile
  <2> QED
    BY <1>3, <2>1 DEF Missing
<1>4. CASE PlainFile(f)
  <2>1. f.format = "plain" /\ f.rest \in Seq(Byte) /\ "rest" \in DOMAIN f
    BY <1>4 DEF PlainFile
  <2> QED
    BY <1>4, <2>1 DEF Missing
<1> QED
  BY <1>1, <1>2, <1>3, <1>4 DEF Container

(* Another content behind the header of a container makes a container. *)
LEMMA OtherRest ==
  ASSUME NEW f, Container(f), NEW bytes \in Seq(Byte), NEW g,
         g = [f EXCEPT !.rest = bytes]
  PROVE  /\ Container(g) /\ g.format = f.format /\ g.rest = bytes
         /\ f.format = "cs" => g.header = f.header
<1>1. CASE TYTFile(f)
  <2>1. /\ f = [format |-> "tyt", radio |-> f.radio, counter_magic |-> f.counter_magic,
                n_regions |-> f.n_regions, regions |-> f.regions, rest |-> f.rest]
        /\ f.n_regions \in Nat /\ f.regions \in Seq(Region)
    BY <1>1 DEF TYTFile
  <2>2. /\ g = [format |-> "tyt", radio |-> g.radio, counter_magic |-> g.counter_magic,
                n_regions |-> g.n_regions, regions |-> g.regions, rest |-> g.rest]
        /\ g.n_regions = f.n_regions /\ g.regions = f.regions /\ g.rest = bytes
        /\ g.format = f.format /\ f.format = "tyt"
    BY <2>1
  <2>3. TYTFile(g)
    BY <2>1, <2>2, Zenon DEF TYTFile
  <2> QED
    BY <2>2, <2>3 DEF Container
<1>2. CASE CSFile(f)
  <2>1. /\ f = [format |-> "cs", header |-> f.header, rest |-> f.rest]
        /\ f.header \in CSHeader
    BY <1>2 DEF CSFile
  <2>2. /\ g = [format |-> "cs", header |-> g.header, rest |-> g.rest]
        /\ g.header = f.header /\ g.rest = bytes /\ g.format = f.format
    BY <2>1
  <2>3. CSFile(g)
    BY <2>1, <2>2, Zenon DEF CSFile
  <2> QED
    BY <2>2, <2>3 DEF Container
<1>3. CASE SGLFile(f)
  <2>1. /\ f = [format |-> "sgl", header |-> f.header, rest |-> f.rest]
        /\ f.header.length \in Nat
    BY <1>3 DEF SGLFile
  <2>2. /\ g = [format |-> "sgl", header |-> g.header, rest |-> g.rest]
        /\ g.header = f.header /\ g.rest = bytes /\ g.format = f.format
    BY <2>1
  <2>3. SGLFile(g)
    BY <2>1, <2>2, Zenon DEF SGLFile
  <2> QED
    BY <2>2, <2>3 DEF Container
<1>4. CASE PlainFile(f)
  <2>1. f = [format |-> "plain", rest |-> f.rest]
    BY <1>4 DEF PlainFile
  <2>2. /\ g = [format |-> "plain", rest |-> g.rest]
        /\ g.rest = bytes /\ g.format = f.format /\ f.format = "plain"
    BY <2>1
  <2>3. PlainFile(g)
    BY <2>2, Zenon DEF PlainFile
  <2> QED
    BY <2>2, <2>3 DEF Container
<1> QED
  BY <1>1, <1>2, <1>3, <1>4 DEF Container

(* A TYT file without all of its regions. *)
LEMMA CutTable ==
  ASSUME NEW f, TYTFile(f), NEW g \in CutTables(f)
  PROVE  TYTFile(g)
<1>1. /\ f = [format |-> "tyt", radio |-> f.radio, counter_magic |-> f.counter_magic,
              n_regions |-> f.n_regions, regions |-> f.regions, rest |-> f.rest]
      /\ f.format = "tyt" /\ f.n_regions \in Nat /\ f.regions \in Seq(Region)
      /\ <<>> \in Seq(Byte) /\ <<>> \in Seq(Region)
  BY DEF TYTFile
<1>2. CASE g = [f EXCEPT !.n_regions = 0, !.regions = <<>>, !.rest = <<>>]
  <2>1. /\ g = [format |-> "tyt", radio |-> g.radio, counter_magic |-> g.counter_magic,
                n_regions |-> g.n_regions, regions |-> g.regions, rest |-> g.rest]
        /\ g.format = "tyt" /\ g.n_regions \in Nat
        /\ g.regions \in Seq(Region) /\ g.rest \in Seq(Byte)
    BY <1>1, <1>2
  <2> QED
    BY <2>1, Zenon DEF TYTFile
<1>3. CASE \E n \in 0..(Len(f.regions) - 1) :
             g = [f EXCEPT !.regions = SubSeq(@, 1, n), !.rest = <<>>]
  <2>1. PICK n \in 0..(Len(f.regions) - 1) :
          g = [f EXCEPT !.regions = SubSeq(@, 1, n), !.rest = <<>>]
    BY <1>3
  <2> DEFINE table == SubSeq(f.regions, 1, n)
  <2>2. table \in Seq(Region)
    BY <1>1, SubSeqProperties
  <2>3. g = [f EXCEPT !.regions = table, !.rest = <<>>]
    BY <2>1
  <2> HIDE DEF table
  <2>4. /\ g = [format |-> "tyt", radio |-> g.radio, counter_magic |-> g.counter_magic,
                n_regions |-> g.n_regions, regions |-> g.regions, rest |-> g.rest]
        /\ g.format = "tyt" /\ g.n_regions \in Nat
        /\ g.regions \in Seq(Region) /\ g.rest \in Seq(Byte)
    BY <1>1, <2>2, <2>3
  <2> QED
    BY <2>4, Zenon DEF TYTFile
<1> QED
  BY <1>2, <1>3 DEF CutTables

(* A beginning of a container, and a container with another bit, are       *)
(* containers, and none that Read takes for a Connect Systems file.        *)
LEMMA BeginningOf ==
  ASSUME NEW f, Container(f), f.format = "cs" => Genuine(f), NEW g \in Beginnings(f)
  PROVE  Container(g) /\ ~CSReadable(g)
<1>1. f.rest \in Seq(Byte) /\ Len(f.rest) \in Nat
  <2>1. f.rest \in Seq(Byte)
    BY ContainerParts
  <2> QED
    BY <2>1
<1>2. CASE g = EmptyFile \/ g = Plain(<<Zero>>)
  <2>1. \E bytes \in Seq(Byte) : g = [format |-> "plain", rest |-> bytes]
    <3>1. <<>> \in Seq(Byte) /\ <<Zero>> \in Seq(Byte)
      BY DEF Zero, Byte
    <3> QED
      BY <1>2, <3>1 DEF EmptyFile, Plain
  <2>2. PlainFile(g) /\ g.format # "cs"
    BY <2>1 DEF PlainFile
  <2> QED
    BY <2>2 DEF Container, CSReadable, CSSizeGood
<1>3. CASE f.format = "tyt" /\ g \in CutTables(f)
  <2>1. TYTFile(g)
    BY <1>3, ContainerParts, CutTable
  <2> QED
    BY <2>1 DEF Container, TYTFile, CSReadable, CSSizeGood
<1>4. CASE \E n \in 0..(Len(f.rest) - 1) : g = [f EXCEPT !.rest = SubSeq(@, 1, n)]
  <2>1. PICK n \in 0..(Len(f.rest) - 1) : g = [f EXCEPT !.rest = SubSeq(@, 1, n)]
    BY <1>4
  <2> DEFINE bytes == SubSeq(f.rest, 1, n)
  <2>2. bytes \in Seq(Byte) /\ Len(bytes) = n
    <3>1. 0 + n <= Len(f.rest) /\ 0 + 1 = 1 /\ 0 + n = n /\ n \in Nat
      BY <1>1
    <3>2. SubSeq(f.rest, 0 + 1, 0 + n) \in Seq(Byte) /\ Len(SubSeq(f.rest, 0 + 1, 0 + n)) = n
      BY <1>1, <3>1, PartOf
    <3> QED
      BY <3>1, <3>2
  <2>3. g = [f EXCEPT !.rest = bytes]
    BY <2>1
  <2> HIDE DEF bytes
  <2>4. /\ Container(g) /\ g.format = f.format /\ g.rest = bytes
        /\ f.format = "cs" => g.header = f.header
    BY <2>2, <2>3, OtherRest
  <2>5. ~CSSizeGood(g)
    <3>1. CASE f.format = "cs"
      <4>1. f.header.imagesize + ChecksumSize = Len(f.rest)
        BY <3>1 DEF Genuine
      <4>2. g.header.imagesize + ChecksumSize # Len(g.rest)
        BY <1>1, <2>2, <2>4, <3>1, <4>1
      <4> QED
        BY <4>2 DEF CSSizeGood
    <3>2. CASE f.format # "cs"
      BY <2>4, <3>2 DEF CSSizeGood
    <3> QED
      BY <3>1, <3>2
  <2> QED
    BY <2>4, <2>5 DEF CSReadable
<1> QED
  BY <1>2, <1>3, <1>4 DEF Beginnings

LEMMA DamagedOf ==
  ASSUME NEW f, Container(f), f.format = "cs" => Genuine(f),
         NEW z \in DOMAIN f.rest, NEW b \in 3..7,
         NEW g, g = [f EXCEPT !.rest[z] = Xor(@, {b})]
  PROVE  Container(g) /\ ~CSReadable(g)
<1> DEFINE bytes == [f.rest EXCEPT ![z] = Xor(@, {b})]
<1>1. f.rest \in Seq(Byte)
  BY ContainerParts
<1>2. bytes \in Seq(Byte)
  <2>1. f.rest[z] \in Byte /\ {b} \in Byte
    BY <1>1 DEF Byte, Bits
  <2>2. Xor(f.rest[z], {b}) \in Byte
    BY <2>1, XorByte
  <2> QED
    BY <1>1, <2>2
<1>3. g = [f EXCEPT !.rest = bytes]
  OBVIOUS
<1> HIDE DEF bytes
<1>4. Container(g) /\ g.format = f.format
  BY <1>2, <1>3, OtherRest
<1>5. CASE f.format = "cs"
  <2>1. CSStoredChecksum(g) # MakeChecksum(g.header, CSImage(g))
    BY <1>5, DamageIsSeen
  <2> QED
    BY <1>4, <2>1 DEF CSReadable
<1>6. CASE f.format # "cs"
  BY <1>4, <1>6 DEF CSReadable, CSSizeGood
<1> QED
  BY <1>4, <1>5, <1>6

-----------------------------------------------------------------------------
(***************************************************************************)
(* Handlers: SetRadioModel and Encrypt.                                    *)
(***************************************************************************)

(* The handler that a wrap starts with. *)
LEMMA ModelHandlers ==
  ASSUME NEW model, NEW h \in GetFirmwareModelHandler(model)
  PROVE  LET g == SetRadioModel(h, model)
         IN  MadeFor(g, model) /\ g.data = <<>> /\ g.memory_ranges = <<>>
<1> DEFINE g == SetRadioModel(h, model)
<1>1. /\ AllFirmwareHandlers[1] = "TYT" /\ AllFirmwareHandlers[2] = "CS"
      /\ AllFirmwareHandlers[3] = "SGL" /\ AllFirmwareHandlers[4] = "Yaesu"
      /\ AllFirmwareHandlers[5] = "Ailunce" /\ DOMAIN AllFirmwareHandlers = 1..5
  BY DEF AllFirmwareHandlers
<1>2. PICK i \in 1..5 : /\ h = CreateHandler(AllFirmwareHandlers[i])
                        /\ SupportsRadioModel(AllFirmwareHandlers[i], model)
                        /\ \A j \in 1..(i - 1) : ~SupportsRadioModel(AllFirmwareHandlers[j], model)
  BY <1>1 DEF GetFirmwareModelHandler
<1>3. i # 5
  <2>1. SupportsRadioModel(AllFirmwareHandlers[4], model)
    BY <1>1 DEF SupportsRadioModel, YaesuSupportsRadioModel
  <2>2. i = 5 => 4 \in 1..(i - 1)
    OBVIOUS
  <2> QED
    BY <1>2, <2>1, <2>2
<1>4. CASE i = 1
  <2>1. h = TYTNew /\ TYTSupportsRadioModel(model)
    BY <1>1, <1>2, <1>4 DEF CreateHandler, SupportsRadioModel
  <2>2. h.class = "TYT"
    BY <2>1 DEF TYTNew, Handler
  <2>3. g = TYTSetRadioModel(h, model)
    BY <2>2 DEF SetRadioModel
  <2>4. ConfigsOfModel(model) # {}
    BY <2>1 DEF TYTSupportsRadioModel
  <2> DEFINE c == Config(model)
             info == [counterMagic |-> c.counter_magic, radio_model |-> c.radio_model,
                      firmware_model |-> c.firmware_model]
  <2>5. g = [h EXCEPT !.info = info]
    BY <2>3, <2>4 DEF TYTSetRadioModel, Config
  <2>6. info.counterMagic = Config(model).counter_magic
    OBVIOUS
  <2> HIDE DEF info
  <2>7. g = [class |-> "TYT", data |-> <<>>, memory_ranges |-> <<>>, info |-> info]
    BY <2>1, <2>5 DEF TYTNew, Handler
  <2> HIDE DEF g
  <2> QED
    BY <2>1, <2>6, <2>7 DEF MadeFor, HandlerShape, g
<1>5. CASE i = 2
  <2>1. h = CSNew
    BY <1>1, <1>2, <1>5 DEF CreateHandler
  <2>2. h.class = "CS"
    BY <2>1 DEF CSNew, Handler
  <2>3. g = h
    BY <2>2 DEF SetRadioModel
  <2> HIDE DEF g
  <2>4. /\ g.class = "CS" /\ g.data = <<>> /\ g.memory_ranges = <<>> /\ HandlerShape(g)
    BY <2>1, <2>3 DEF CSNew, Handler, HandlerShape
  <2> QED
    BY <2>4 DEF MadeFor, g
<1>6. CASE i = 3
  <2>1. h = SGLNew /\ SGLSupportsRadioModel(model)
    BY <1>1, <1>2, <1>6 DEF CreateHandler, SupportsRadioModel
  <2>2. h.class = "SGL" /\ h.data = <<>> /\ Len(h.data) = 0
    BY <2>1 DEF SGLNew, Handler
  <2>3. g = SGLSetRadioModel(h, model)
    BY <2>2 DEF SetRadioModel
  <2>4. SGLConfigsOfModel(model) # {}
    BY <2>1 DEF SGLSupportsRadioModel
  <2> DEFINE n == CHOOSE n \in SGLConfigsOfModel(model) : TRUE
             c == SGLConfigs[n]
             info == TYTSGLRadioConfig(c.radio_model, AsNew(c.header, 0),
                                       c.cipher, c.xor_offset)
  <2>5. n \in {1, 2, 3, 4}
    BY <2>4 DEF SGLConfigsOfModel, SGLConfigs
  <2>6. g = [h EXCEPT !.info = info]
    BY <2>2, <2>3, <2>4 DEF SGLSetRadioModel
  <2> HIDE DEF n
  <2>7. /\ c.header = [sgl_version |-> 1, length |-> 0, radio_group |-> c.header.radio_group,
                       radio_model |-> c.header.radio_model, binary_offset |-> 0]
        /\ c.cipher = sgl /\ c.xor_offset \in Nat
    BY <2>5 DEF SGLConfigs, TYTSGLRadioConfig, SGLHeader
  <2> HIDE DEF c
  <2>8. NewSGLInfo(info) /\ info.cipher = sgl /\ info.xor_offset \in Nat
    BY <2>7 DEF TYTSGLRadioConfig, AsNew, NewSGLInfo, NoConfig
  <2> HIDE DEF info
  <2>9. g = [class |-> "SGL", data |-> <<>>, memory_ranges |-> <<>>, info |-> info]
    BY <2>1, <2>6 DEF SGLNew, Handler
  <2> HIDE DEF g
  <2> QED
    BY <2>8, <2>9 DEF MadeFor, HandlerShape, g
<1>7. CASE i = 4
  <2>1. h = YaesuNew
    BY <1>1, <1>2, <1>7 DEF CreateHandler
  <2>2. h.class = "Yaesu"
    BY <2>1 DEF YaesuNew, Handler
  <2>3. g = h
    BY <2>2 DEF SetRadioModel
  <2> HIDE DEF g
  <2>4. /\ g.class = "Yaesu" /\ g.data = <<>> /\ g.memory_ranges = <<>> /\ HandlerShape(g)
    BY <2>1, <2>3 DEF YaesuNew, Handler, HandlerShape
  <2> QED
    BY <2>4 DEF MadeFor, g
<1> QED
  BY <1>2, <1>3, <1>4, <1>5, <1>6, <1>7

(* Encryption and decryption of the data of a handler, whatever they are,  *)
(* keep how much there is.                                                 *)
LEMMA XORKeepsLength ==
  ASSUME NEW data, DOMAIN data = 1..Len(data), Len(data) \in Nat, NEW key, NEW offset
  PROVE  /\ DOMAIN ApplyXOR(data, key, offset) = 1..Len(data)
         /\ Len(ApplyXOR(data, key, offset)) = Len(data)
<1> DEFINE d == ApplyXOR(data, key, offset)
<1>1. d = [z \in 1..Len(data) |-> Xor(data[z], key[1 + ((offset + (z - 1)) % Len(key))])]
  BY Zenon DEF ApplyXOR
<1>2. d = [z \in 1..Len(data) |-> d[z]]
  BY <1>1, Zenon
<1> HIDE DEF d
<1> QED
  BY <1>2, LenOf DEF d

LEMMA SGLKeepsLength ==
  ASSUME NEW data, DOMAIN data = 1..Len(data), Len(data) \in Nat, NEW key, NEW offset
  PROVE  /\ DOMAIN SGLDecrypt(data, key, offset) = 1..Len(data)
         /\ Len(SGLDecrypt(data, key, offset)) = Len(data)
<1> DEFINE turned == [z \in DOMAIN data |-> Bits \ RotateLeft3(data[z])]
<1>1. DOMAIN turned = 1..Len(data) /\ Len(turned) = Len(data)
  <2>1. turned = [z \in 1..Len(data) |-> turned[z]]
    OBVIOUS
  <2> HIDE DEF turned
  <2> QED
    BY <2>1, LenOf
<1>2. SGLDecrypt(data, key, offset) = ApplyXOR(turned, key, offset)
  BY DEF SGLDecrypt
<1> HIDE DEF turned
<1> QED
  BY <1>1, <1>2, XORKeepsLength

LEMMA SGLEncryptBytes ==
  ASSUME NEW data \in Seq(Byte), NEW key \in Seq(Byte), Len(key) > 0, NEW offset \in Nat
  PROVE  /\ SGLEncrypt(data, key, offset) \in Seq(Byte)
         /\ Len(SGLEncrypt(data, key, offset)) = Len(data)
<1> DEFINE xored == ApplyXOR(data, key, offset)
           d == SGLEncrypt(data, key, offset)
           turned(z) == Bits \ RotateRight3(xored[z])
<1>1. DOMAIN data = 1..Len(data) /\ Len(data) \in Nat
  OBVIOUS
<1>2. d = [z \in 1..Len(data) |-> turned(z)]
  BY <1>1, Zenon DEF SGLEncrypt
<1>3. \A z : turned(z) \in Byte
  BY DEF Byte
<1> HIDE DEF d, turned
<1>4. d \in [1..Len(data) -> Byte]
  BY <1>2, <1>3
<1> QED
  BY <1>1, <1>4 DEF d

(* Encrypt gives a handler whose data decrypt to the segments. *)
LEMMA EncryptSeals ==
  ASSUME NEW h, NEW model, MadeFor(h, model),
         NEW segs, Holds(h.data, h.memory_ranges, segs),
         NEW g \in Encrypt(h)
  PROVE  Sealed(g, model, segs)
<1>1. /\ h.data \in Seq(Byte) /\ segs \in Seq(Segment) /\ h.memory_ranges = RangesOf(segs)
      /\ Len(h.data) = RangeOffset(h.memory_ranges, Len(h.memory_ranges) + 1)
      /\ Len(h.data) \in Nat
  <2>1. h.data \in Seq(Byte)
    BY DEF Holds
  <2>2. Len(h.data) \in Nat
    BY <2>1
  <2> QED
    BY <2>2 DEF Holds
<1>2. h = [class |-> h.class, data |-> h.data, memory_ranges |-> h.memory_ranges,
           info |-> h.info]
      /\ h.class \in {"TYT", "CS", "SGL", "Yaesu"}
  BY DEF MadeFor, HandlerShape
<1>3. ASSUME NEW d, g = [h EXCEPT !.data = d]
      PROVE  /\ g.class = h.class /\ g.data = d /\ g.memory_ranges = h.memory_ranges
             /\ g.info = h.info /\ HandlerShape(g)
  BY <1>2, <1>3 DEF HandlerShape
<1>4. ASSUME NEW d, g = [h EXCEPT !.data = d], d \in Seq(Byte), Len(d) = Len(h.data),
             h.class \in {"TYT", "CS"} =>
               HoldsXORed(d, KeyOf(h.class, model), h.memory_ranges, segs)
      PROVE  Sealed(g, model, segs)
  <2>1. /\ g.class = h.class /\ g.data = d /\ g.memory_ranges = h.memory_ranges
        /\ g.info = h.info /\ HandlerShape(g)
    BY <1>3, <1>4
  <2>2. MadeFor(g, model)
    BY <2>1 DEF MadeFor
  <2> QED
    BY <1>1, <1>4, <2>1, <2>2 DEF Sealed
<1>5. ASSUME NEW key \in Seq(Byte), Len(key) > 0
      PROVE  LET d == ApplyXOR(h.data, key, 0)
             IN  /\ d \in Seq(Byte) /\ Len(d) = Len(h.data)
                 /\ HoldsXORed(d, key, h.memory_ranges, segs)
  <2> DEFINE d == ApplyXOR(h.data, key, 0)
  <2>1. d \in Seq(Byte) /\ Len(d) = Len(h.data) /\ ApplyXOR(d, key, 0) = h.data
    <3>1. 0 \in Nat
      OBVIOUS
    <3> QED
      BY <1>1, <1>5, <3>1, XORBytes, ApplyXORTwice
  <2> HIDE DEF d
  <2>2. HoldsXORed(d, key, h.memory_ranges, segs)
    BY <2>1 DEF HoldsXORed
  <2> QED
    BY <2>1, <2>2 DEF d
<1>6. CASE h.class = "TYT"
  <2>1. PICK i \in ConfigsOfMagic(h.info.counterMagic) :
               g = [h EXCEPT !.data = ApplyXOR(@, TYTConfigs[i].cipher, 0)]
    BY <1>6 DEF Encrypt, TYTApplyXOR
  <2> DEFINE key == KeyOf("TYT", model)
  <2>2. /\ TYTSupportsRadioModel(model)
        /\ h.info.counterMagic = Config(model).counter_magic
    BY <1>6 DEF MadeFor
  <2>3. key = Config(model).cipher
    BY DEF KeyOf
  <2>4. TYTConfigs[i].cipher = key /\ key \in Seq(Byte) /\ Len(key) > 0
    BY <2>2, <2>3, MagicRow, ModelRow
  <2> HIDE DEF key
  <2> DEFINE d == ApplyXOR(h.data, key, 0)
  <2>5. g = [h EXCEPT !.data = d]
    BY <2>1, <2>4
  <2>6. d \in Seq(Byte) /\ Len(d) = Len(h.data)
        /\ HoldsXORed(d, key, h.memory_ranges, segs)
    BY <1>5, <2>4
  <2> HIDE DEF d
  <2> QED
    BY <1>4, <1>6, <2>5, <2>6 DEF key
<1>7. CASE h.class = "CS"
  <2> DEFINE d == ApplyXOR(h.data, cs800_0, 0)
  <2>1. g = [h EXCEPT !.data = d]
    BY <1>7 DEF Encrypt, CSApplyXOR
  <2>2. d \in Seq(Byte) /\ Len(d) = Len(h.data)
        /\ HoldsXORed(d, cs800_0, h.memory_ranges, segs)
    BY <1>5, KeyTables
  <2>3. KeyOf("CS", model) = cs800_0
    BY DEF KeyOf
  <2> HIDE DEF d
  <2> QED
    BY <1>4, <1>7, <2>1, <2>2, <2>3
<1>8. CASE h.class = "SGL"
  <2> DEFINE d == SGLEncrypt(SGLPadded(h), h.info.cipher, h.info.xor_offset)
  <2>1. g = [h EXCEPT !.data = d]
    BY <1>8 DEF Encrypt, SGLEncrypted
  <2>2. h.info.header.length = 0 /\ h.info.cipher = sgl /\ h.info.xor_offset \in Nat
    BY <1>8 DEF MadeFor, NewSGLInfo
  <2>3. SGLPadded(h) = h.data
    <3>1. DOMAIN h.data = 1..Len(h.data)
      BY <1>1
    <3>2. DOMAIN h.data \cup 1..0 = 1..Len(h.data)
      BY <3>1
    <3>3. SGLPadded(h) = [z \in 1..Len(h.data) |->
                            IF z <= Len(h.data) THEN h.data[z] ELSE Ones]
      BY <2>2, <3>2 DEF SGLPadded
    <3>4. h.data = [z \in 1..Len(h.data) |-> h.data[z]]
      BY <1>1, <3>1
    <3> QED
      BY <1>1, <3>3, <3>4
  <2>4. d \in Seq(Byte) /\ Len(d) = Len(h.data)
    BY <1>1, <2>2, <2>3, KeyTables, SGLEncryptBytes
  <2> HIDE DEF d
  <2> QED
    BY <1>4, <1>8, <2>1, <2>4
<1>9. CASE h.class = "Yaesu"
  <2>1. g = h
    BY <1>9 DEF Encrypt
  <2>2. g = [h EXCEPT !.data = h.data]
    BY <1>2, <2>1
  <2> QED
    BY <1>1, <1>4, <1>9, <2>2
<1> QED
  BY <1>2, <1>6, <1>7, <1>8, <1>9

-----------------------------------------------------------------------------
(***************************************************************************)
(* Write.                                                                  *)
(***************************************************************************)

LEMMA OneRange ==
  ASSUME NEW r \in Region
  PROVE  <<r>> \in Seq(Region) /\ Len(<<r>>) = 1 /\ RangeOffset(<<r>>, 2) = r.size
<1>1. <<>> \in Seq(Region) /\ Len(<<>>) = 0 /\ Append(<<>>, r) = <<r>>
      /\ <<r>> \in Seq(Region) /\ Len(<<r>>) = 1
  OBVIOUS
<1>2. r.size \in Nat
  BY DEF Region
<1>3. RangeOffset(<<>>, 1) = 0
  BY <1>1, Offsets
<1>4. RangeOffset(Append(<<>>, r), 0 + 2) = RangeOffset(<<>>, 0 + 1) + r.size
  <2>1. PICK none \in Seq(Region) : none = <<>> /\ Len(none) = 0
    BY <1>1
  <2>2. RangeOffset(Append(none, r), Len(none) + 2) = RangeOffset(none, Len(none) + 1) + r.size
    BY OffsetsAppend
  <2> QED
    BY <2>1, <2>2
<1>5. 0 + 2 = 2 /\ 0 + 1 = 1
  OBVIOUS
<1> QED
  BY <1>1, <1>2, <1>3, <1>4, <1>5

(* ReadBytes gets back what was written before something else. *)
LEMMA ReadBack ==
  ASSUME NEW data \in Seq(Byte), NEW more \in Seq(Byte)
  PROVE  ReadBytes(data \o more, Len(data)) = data
<1> DEFINE n == Len(data)
           all == data \o more
<1>1. /\ n \in Nat /\ all \in Seq(Byte) /\ Len(all) = n + Len(more) /\ Len(more) \in Nat
      /\ \A z \in 1..n : all[z] = data[z]
      /\ data = [z \in 1..n |-> data[z]]
  OBVIOUS
<1> HIDE DEF all, n
<1>2. \A z \in 1..n : z <= Len(all)
  BY <1>1
<1>3. \A z \in 1..n : (IF z <= Len(all) THEN all[z] ELSE Zero) = data[z]
  BY <1>1, <1>2
<1>4. ReadBytes(all, n) = [z \in 1..n |-> data[z]]
  BY <1>3 DEF ReadBytes
<1> QED
  BY <1>1, <1>4 DEF all, n

(* What Write puts into the file is a container, genuine if it is one of   *)
(* Connect Systems.                                                        *)
LEMMA WrittenContainer ==
  ASSUME NEW h, NEW model, NEW segs, Sealed(h, model, segs),
         h.class = "CS" => CSOneSegment(h)
  PROVE  /\ Container(Written(h))
         /\ h.class = "TYT" => TYTFile(Written(h)) /\ Written(h) = TYTWritten(h)
         /\ h.class = "SGL" => SGLFile(Written(h))
         /\ h.class = "Yaesu" => PlainFile(Written(h))
         /\ h.class = "CS" => Genuine(Written(h))
         /\ (Written(h).format = "cs") = (h.class = "CS")
<1>1. /\ h.data \in Seq(Byte) /\ segs \in Seq(Segment)
      /\ h.memory_ranges = RangesOf(segs)
      /\ h.class \in {"TYT", "CS", "SGL", "Yaesu"}
  BY DEF Sealed, MadeFor
<1>2. /\ h.memory_ranges \in Seq(Region) /\ Len(h.memory_ranges) \in Nat
  <2>1. h.memory_ranges \in Seq(Region)
    BY <1>1, RangesOfSegments
  <2> QED
    BY <2>1
<1>3. CASE h.class = "TYT"
  <2> DEFINE rest == h.data \o Footer
             f == TYTWritten(h)
             cm == CounterBytes(h.info.counterMagic)
  <2>1. rest \in Seq(Byte)
    <3>1. Footer \in Seq(Byte)
      BY DEF Footer, Ones, Byte
    <3> QED
      BY <1>1, <3>1
  <2>2. Written(h) = f
    BY <1>3 DEF Written
  <2>3. f = [format |-> "tyt", radio |-> h.info.firmware_model, counter_magic |-> cm,
             n_regions |-> Len(h.memory_ranges), regions |-> h.memory_ranges,
             rest |-> rest]
    BY DEF TYTWritten
  <2> HIDE DEF rest, f, cm
  <2>4. /\ f = [format |-> "tyt", radio |-> f.radio, counter_magic |-> f.counter_magic,
                n_regions |-> f.n_regions, regions |-> f.regions, rest |-> f.rest]
        /\ f.n_regions = Len(h.memory_ranges) /\ f.regions = h.memory_ranges
        /\ f.rest = rest /\ f.format = "tyt"
    BY <2>3
  <2>5. TYTFile(f)
    BY <1>2, <2>1, <2>4 DEF TYTFile
  <2> QED
    BY <1>3, <2>2, <2>4, <2>5 DEF Container, f
<1>4. CASE h.class = "CS"
  <2>1. Written(h) = CSWritten(h)
    BY <1>4 DEF Written
  <2>2. Genuine(CSWritten(h))
    BY <1>1, <1>2, <1>4, CSReadBack
  <2>3. CSFile(CSWritten(h)) /\ CSWritten(h).format = "cs"
    BY <2>2 DEF Genuine, CSFile
  <2> QED
    BY <1>4, <2>1, <2>2, <2>3 DEF Container
<1>5. CASE h.class = "SGL"
  <2>1. h.info.header.length = 0 /\ h.info.header.binary_offset = 68
    BY <1>5 DEF Sealed, MadeFor, NewSGLInfo, AsNewOffset
  <2> DEFINE first == [z \in 1..h.info.header.binary_offset |-> Zero]
             f == SGLWritten(h)
  <2>2. first \in Seq(Byte)
    BY <2>1 DEF Zero, Byte
  <2>3. f = [format |-> "sgl", header |-> h.info.header, rest |-> first \o h.data]
    <3> DEFINE s == Serialize(h.info.header)
    <3>1. s = [format |-> "sgl", header |-> h.info.header, rest |-> first]
      BY DEF Serialize
    <3>2. f = [s EXCEPT !.rest = @ \o h.data]
      BY DEF SGLWritten
    <3> HIDE DEF s, f, first
    <3> QED
      BY <3>1, <3>2
  <2> HIDE DEF first, f
  <2>4. first \o h.data \in Seq(Byte)
    BY <1>1, <2>2
  <2>5. f = [format |-> "sgl", header |-> f.header, rest |-> f.rest]
        /\ f.header = h.info.header /\ f.rest = first \o h.data /\ f.format = "sgl"
    BY <2>3
  <2>6. SGLFile(f)
    BY <2>1, <2>4, <2>5 DEF SGLFile
  <2>7. Written(h) = f
    BY <1>5 DEF Written, f
  <2> QED
    BY <1>5, <2>5, <2>6, <2>7 DEF Container
<1>6. CASE h.class = "Yaesu"
  <2>1. Written(h) = [format |-> "plain", rest |-> h.data]
    BY <1>6 DEF Written, PlainWritten, Plain
  <2>2. PlainFile(Written(h)) /\ Written(h).format = "plain"
    BY <1>1, <2>1 DEF PlainFile
  <2> QED
    BY <1>6, <2>2 DEF Container
<1> QED
  BY <1>1, <1>3, <1>4, <1>5, <1>6

(* What WriteContent notes of the container it has written.                *)
LEMMA WrittenMade ==
  ASSUME NEW h, NEW model, NEW segs, Sealed(h, model, segs),
         h.class = "CS" => CSOneSegment(h),
         h.class = "TYT" => TYTWriteEnds(h),
         h.class = "SGL" => SGLLengthGood(h),
         NEW m, m = [class |-> h.class, file |-> Written(h), radio |-> model,
                     segments |-> segs]
  PROVE  MadeGood(m)
<1> DEFINE ranges == h.memory_ranges
<1>1. /\ h.data \in Seq(Byte) /\ segs \in Seq(Segment)
      /\ ranges = RangesOf(segs)
      /\ Len(h.data) = RangeOffset(ranges, Len(ranges) + 1)
      /\ h.class \in {"TYT", "CS", "SGL", "Yaesu"}
  BY DEF Sealed, MadeFor
<1>2. /\ ranges \in Seq(Region) /\ Len(ranges) = Len(segs) /\ Len(segs) \in Nat
      /\ DOMAIN segs = 1..Len(segs)
      /\ \A i \in 1..Len(segs) :
           /\ ranges[i] = [address |-> segs[i].address, size |-> Len(segs[i].data)]
           /\ segs[i].data \in Seq(Byte)
  <2>1. Len(segs) \in Nat /\ DOMAIN segs = 1..Len(segs)
    BY <1>1
  <2> QED
    BY <1>1, <2>1, RangesOfSegments
<1>3. /\ m.class = h.class /\ m.file = Written(h) /\ m.radio = model /\ m.segments = segs
      /\ m = [class |-> m.class, file |-> m.file, radio |-> m.radio,
              segments |-> m.segments]
  OBVIOUS
<1>4. CASE h.class = "TYT"
  <2> DEFINE f == TYTWritten(h)
  <2>1. TYTFile(f) /\ Written(h) = f
    BY <1>4, WrittenContainer
  <2>2. /\ TYTSupportsRadioModel(model)
        /\ h.info.counterMagic = Config(model).counter_magic
        /\ HoldsXORed(h.data, KeyOf("TYT", model), ranges, segs)
    BY <1>4 DEF Sealed, MadeFor
  <2>3. /\ f.counter_magic = CounterBytes(h.info.counterMagic)
        /\ f.n_regions = Len(ranges) /\ f.regions = ranges /\ f.rest = h.data \o Footer
    BY DEF TYTWritten
  <2> HIDE DEF f
  <2>4. ReadBytes(f.rest, RangeOffset(ranges, Len(ranges) + 1)) = h.data
    <3>1. Footer \in Seq(Byte)
      BY DEF Footer, Ones, Byte
    <3>2. ReadBytes(h.data \o Footer, Len(h.data)) = h.data
      BY <1>1, <3>1, ReadBack
    <3> QED
      BY <1>1, <2>3, <3>2
  <2>5. Len(segs) <= MaxRegions
    BY <1>2, <1>4 DEF TYTWriteEnds
  <2>6. TYTMade(m)
    BY <1>1, <1>2, <1>3, <2>1, <2>2, <2>3, <2>4, <2>5 DEF TYTMade
  <2> QED
    BY <1>1, <1>3, <1>4, <2>6 DEF MadeGood
<1>5. CASE h.class = "CS"
  <2> DEFINE f == CSWritten(h)
  <2>1. /\ Genuine(f) /\ CSImage(f) = h.data /\ f.header.imagesize = Len(h.data)
        /\ f.header.baseaddr_offset = ranges[1].address
    BY <1>1, <1>2, <1>5, CSReadBack
  <2>2. Written(h) = f
    BY <1>5 DEF Written
  <2> HIDE DEF f
  <2>3. Len(ranges) = 1 /\ ranges[1] \in Region
    <3>1. Len(ranges) = 1
      BY <1>5 DEF CSOneSegment
    <3> QED
      BY <1>2, <3>1
  <2>4. ranges = <<ranges[1]>>
    BY <1>2, <2>3
  <2>5. Len(h.data) = ranges[1].size
    <3> DEFINE r == ranges[1]
    <3> HIDE DEF r
    <3>1. r \in Region /\ ranges = <<r>>
      BY <2>3, <2>4 DEF r
    <3>2. RangeOffset(<<r>>, 2) = r.size
      BY <3>1, OneRange
    <3>3. Len(ranges) + 1 = 2
      BY <2>3
    <3> QED
      BY <1>1, <3>1, <3>2, <3>3 DEF r
  <2>6. ranges[1] = [address |-> f.header.baseaddr_offset, size |-> f.header.imagesize]
    BY <2>1, <2>3, <2>5 DEF Region
  <2>7. HoldsXORed(h.data, KeyOf("CS", model), ranges, segs)
    BY <1>5 DEF Sealed
  <2>8. CSMade(m)
    BY <1>1, <1>3, <2>1, <2>2, <2>4, <2>6, <2>7 DEF CSMade
  <2> QED
    BY <1>1, <1>3, <1>5, <2>8 DEF MadeGood
<1>6. CASE h.class = "SGL"
  <2>1. Len(h.data) = 0
    BY <1>6 DEF SGLLengthGood, Sealed, MadeFor, NewSGLInfo
  <2>2. ASSUME NEW i \in DOMAIN segs PROVE segs[i].data = <<>>
    <3>1. i \in 1..Len(ranges) /\ i \in 1..(Len(ranges) + 1)
      BY <1>2
    <3>2. /\ RangeOffset(ranges, i) \in Nat /\ ranges[i].size \in Nat
          /\ RangeOffset(ranges, i) + ranges[i].size <= 0
      BY <1>1, <1>2, <2>1, <3>1, Offsets
    <3>3. ranges[i].size = 0
      BY <3>2
    <3>4. segs[i].data \in Seq(Byte) /\ Len(segs[i].data) = 0
      <4>1. i \in 1..Len(segs)
        BY <1>2
      <4> HIDE DEF ranges
      <4>2. ranges[i] = [address |-> segs[i].address, size |-> Len(segs[i].data)]
            /\ segs[i].data \in Seq(Byte)
        BY <1>2, <4>1
      <4> QED
        BY <3>3, <4>2
    <3> QED
      BY <3>4
  <2>3. SGLMade(m)
    BY <1>3, <1>6, <2>2, WrittenContainer DEF SGLMade
  <2> QED
    BY <1>1, <1>3, <1>6, <2>3 DEF MadeGood
<1>7. CASE h.class = "Yaesu"
  <2>1. PlainFile(m.file)
    BY <1>3, <1>7, WrittenContainer
  <2> QED
    BY <1>1, <1>3, <1>7, <2>1 DEF MadeGood
<1> QED
  BY <1>1, <1>4, <1>5, <1>6, <1>7

-----------------------------------------------------------------------------
(***************************************************************************)
(* GetFirmwareFileHandler and Read, of any container.                      *)
(***************************************************************************)

(* The new handlers of the five classes. *)
LEMMA NewHandlers ==
  ASSUME NEW c \in Readers
  PROVE  LET h == CreateHandler(c)
         IN  /\ h = [class |-> c, data |-> <<>>, memory_ranges |-> <<>>, info |-> h.info]
             /\ c = "TYT" => h = TYTNew
             /\ c = "CS" => h = CSNew
             /\ c = "SGL" => h = SGLNew
             /\ c = "Yaesu" => h = YaesuNew
             /\ c = "Ailunce" => h = AilunceNew
<1>0. ASSUME NEW class, NEW info, NEW h, h = Handler(class, info)
      PROVE  h = [class |-> class, data |-> <<>>, memory_ranges |-> <<>>, info |-> h.info]
  BY <1>0 DEF Handler
<1>1. CASE c = "TYT"
  <2>1. CreateHandler(c) = TYTNew
    BY <1>1 DEF CreateHandler
  <2>2. \E info : TYTNew = Handler("TYT", info)
    BY DEF TYTNew
  <2> QED
    BY <1>0, <1>1, <2>1, <2>2
<1>2. CASE c = "CS"
  <2>1. CreateHandler(c) = CSNew
    BY <1>2 DEF CreateHandler
  <2>2. \E info : CSNew = Handler("CS", info)
    BY DEF CSNew
  <2> QED
    BY <1>0, <1>2, <2>1, <2>2
<1>3. CASE c = "SGL"
  <2>1. CreateHandler(c) = SGLNew
    BY <1>3 DEF CreateHandler
  <2>2. \E info : SGLNew = Handler("SGL", info)
    BY DEF SGLNew
  <2> QED
    BY <1>0, <1>3, <2>1, <2>2
<1>4. CASE c = "Yaesu"
  <2>1. CreateHandler(c) = YaesuNew
    BY <1>4 DEF CreateHandler
  <2>2. \E info : YaesuNew = Handler("Yaesu", info)
    BY DEF YaesuNew
  <2> QED
    BY <1>0, <1>4, <2>1, <2>2
<1>5. CASE c = "Ailunce"
  <2>1. CreateHandler(c) = AilunceNew
    BY <1>5 DEF CreateHandler
  <2>2. \E info : AilunceNew = Handler("Ailunce", info)
    BY DEF AilunceNew
  <2> QED
    BY <1>0, <1>5, <2>1, <2>2
<1> QED
  BY <1>1, <1>2, <1>3, <1>4, <1>5 DEF Readers

LEMMA FileHandlers ==
  ASSUME NEW f, NEW h \in GetFirmwareFileHandler(f)
  PROVE  h.class \in Readers /\ h = CreateHandler(h.class)
<1>1. \A i \in DOMAIN AllFirmwareHandlers : AllFirmwareHandlers[i] \in Readers
  BY DEF AllFirmwareHandlers, Readers
<1>2. PICK c \in Readers : h = CreateHandler(c)
  BY <1>1 DEF GetFirmwareFileHandler
<1>3. h.class = c
  BY <1>2, NewHandlers
<1> QED
  BY <1>2, <1>3

(* The ranges that TYTRead makes, and the data it reads for them. *)
LEMMA TYTFills ==
  ASSUME NEW f, TYTFile(f)
  PROVE  LET h == TYTFilled(TYTNew, f)
         IN  /\ h = [class |-> "TYT", data |-> h.data, memory_ranges |-> h.memory_ranges,
                     info |-> h.info]
             /\ h.info.counterMagic = SubSeq(f.counter_magic, 1, 1 + f.counter_magic[1])
             /\ h.memory_ranges \in Seq(Region)
             /\ Len(h.memory_ranges) = f.n_regions
             /\ f.n_regions = Len(f.regions) => h.memory_ranges = f.regions
             /\ h.data = ReadBytes(f.rest,
                                   RangeOffset(h.memory_ranges, Len(h.memory_ranges) + 1))
             /\ DOMAIN h.data = 1..Len(h.data)
             /\ Len(h.data) = RangeOffset(h.memory_ranges, Len(h.memory_ranges) + 1)
             /\ Len(h.data) \in Nat
<1> DEFINE cm == SubSeq(f.counter_magic, 1, 1 + f.counter_magic[1])
           config == TYTConfigs[CHOOSE i \in ConfigsOfMagic(cm) : TRUE]
           ranges == [n \in 1..Regions(f) |-> RegionAt(f, n)]
           total == RangeOffset(ranges, Len(ranges) + 1)
           d == ReadBytes(f.rest, total)
           info == [counterMagic |-> cm, firmware_model |-> f.radio,
                    radio_model |-> config.radio_model]
           h == TYTFilled(TYTNew, f)
<1>1. f.n_regions \in Nat /\ f.regions \in Seq(Region) /\ DOMAIN f.regions = 1..Len(f.regions)
  <2>1. f.n_regions \in Nat /\ f.regions \in Seq(Region)
    BY DEF TYTFile
  <2> QED
    BY <2>1
<1>2. h = [TYTNew EXCEPT !.info = info, !.memory_ranges = ranges, !.data = d]
  BY DEF TYTFilled
<1>3. info.counterMagic = cm
  OBVIOUS
<1>4. Regions(f) = f.n_regions
  BY <1>1 DEF Regions
<1>5. ranges \in Seq(Region) /\ Len(ranges) = f.n_regions
      /\ \A n \in 1..f.n_regions : ranges[n] = RegionAt(f, n)
  <2>1. ASSUME NEW n PROVE RegionAt(f, n) \in Region
    <3>1. \A x \in DOMAIN f.regions : f.regions[x] \in Region
      BY <1>1
    <3>2. [address |-> 0, size |-> 0] \in Region
      BY DEF Region
    <3> QED
      BY <3>1, <3>2 DEF RegionAt
  <2>2. ranges \in [1..f.n_regions -> Region]
    BY <1>4, <2>1
  <2> QED
    BY <1>1, <1>4, <2>2
<1> HIDE DEF ranges
<1>6. f.n_regions = Len(f.regions) => ranges = f.regions
  <2> SUFFICES ASSUME f.n_regions = Len(f.regions) PROVE ranges = f.regions
    OBVIOUS
  <2>1. \A n \in 1..Len(f.regions) : ranges[n] = f.regions[n]
    BY <1>1, <1>5 DEF RegionAt
  <2> QED
    BY <1>1, <1>5, <2>1, SeqEqual
<1>7. total \in Nat
  <2>1. Len(ranges) + 1 \in 1..(Len(ranges) + 1)
    BY <1>1, <1>5
  <2> QED
    BY <1>5, <2>1, Offsets
<1> HIDE DEF total
<1>8. DOMAIN d = 1..total /\ Len(d) = total
  <2>1. d = [z \in 1..total |-> d[z]]
    BY Zenon DEF ReadBytes
  <2> HIDE DEF d
  <2> QED
    BY <1>7, <2>1, LenOf
<1> HIDE DEF d, info, h, cm
<1>9. h = [class |-> "TYT", data |-> d, memory_ranges |-> ranges, info |-> info]
  BY <1>2 DEF TYTNew, Handler
<1>10. h.data = d /\ h.memory_ranges = ranges /\ h.info = info
       /\ h = [class |-> "TYT", data |-> h.data, memory_ranges |-> h.memory_ranges,
               info |-> h.info]
  BY <1>9
<1> QED
  BY <1>3, <1>5, <1>6, <1>7, <1>8, <1>10 DEF h, d, total, cm

(* What a new handler is after Read. *)
ReadGood(h, c, f) ==
  /\ HandlerShape(h) /\ h.class = c
  /\ c \in {"TYT", "CS", "SGL"} =>
       /\ DOMAIN h.data = 1..Len(h.data) /\ Len(h.data) \in Nat
       /\ Len(h.data) = RangeOffset(h.memory_ranges, 1 + Len(h.memory_ranges))
  /\ c = "CS" =>
       /\ CSReadable(f) /\ h.data = CSImage(f)
       /\ h.memory_ranges = <<[address |-> f.header.baseaddr_offset,
                               size |-> f.header.imagesize]>>

LEMMA ReadTyped ==
  ASSUME NEW f, f = Missing \/ Container(f), NEW c \in Readers,
         NEW h \in Read(CreateHandler(c), f)
  PROVE  ReadGood(h, c, f)
<1> DEFINE new == CreateHandler(c)
<1>1. new = [class |-> c, data |-> <<>>, memory_ranges |-> <<>>, info |-> new.info]
      /\ new.class = c
  BY NewHandlers
<1>2. <<>> \in Seq(Region) /\ Len(<<>>) = 0 /\ DOMAIN <<>> = 1..0
      /\ RangeOffset(<<>>, 1 + 0) = 0
  <2>1. <<>> \in Seq(Region) /\ Len(<<>>) = 0 /\ DOMAIN <<>> = 1..0 /\ 1 + 0 = 1
    OBVIOUS
  <2> QED
    BY <2>1, Offsets
<1>3. CASE h = new /\ c # "CS"
  <2>1. /\ h.data = <<>> /\ h.memory_ranges = <<>> /\ h.class = c
        /\ h = [class |-> h.class, data |-> h.data, memory_ranges |-> h.memory_ranges,
                info |-> h.info]
    BY <1>1, <1>3
  <2> QED
    BY <1>2, <1>3, <2>1 DEF ReadGood, HandlerShape
<1>4. CASE c = "TYT" /\ h # new
  <2>1. new = TYTNew
    BY <1>4, NewHandlers
  <2>2. h \in TYTRead(TYTNew, f)
    BY <1>1, <1>4, <2>1 DEF Read
  <2>3. f # Missing /\ TYTHeaderGood(f) /\ h = TYTFilled(TYTNew, f)
    BY <1>4, <2>1, <2>2 DEF TYTRead
  <2>4. TYTFile(f)
    <3>1. f.format = "tyt"
      BY <2>3 DEF TYTHeaderGood
    <3> QED
      BY <2>3, <3>1, ContainerParts
  <2>5. /\ h = [class |-> "TYT", data |-> h.data, memory_ranges |-> h.memory_ranges,
                info |-> h.info]
        /\ h.memory_ranges \in Seq(Region)
        /\ DOMAIN h.data = 1..Len(h.data) /\ Len(h.data) \in Nat
        /\ Len(h.data) = RangeOffset(h.memory_ranges, Len(h.memory_ranges) + 1)
    BY <2>3, <2>4, TYTFills
  <2>6. h.class = "TYT" /\ HandlerShape(h)
    BY <2>5 DEF HandlerShape
  <2>7. Len(h.memory_ranges) + 1 = 1 + Len(h.memory_ranges)
    BY <2>5
  <2> QED
    BY <1>4, <2>5, <2>6, <2>7 DEF ReadGood
<1>5. CASE c = "CS"
  <2>1. new = CSNew
    BY <1>5, NewHandlers
  <2>2. h \in CSRead(CSNew, f)
    BY <1>1, <1>5, <2>1 DEF Read
  <2>3. CSReadable(f)
    BY <2>2 DEF CSRead, CSReadable
  <2> DEFINE r == [address |-> f.header.baseaddr_offset, size |-> f.header.imagesize]
             info == [header |-> f.header, checksum |-> CSStoredChecksum(f)]
             image == CSImage(f)
  <2>4. h = [CSNew EXCEPT !.info = info, !.data = image, !.memory_ranges = Append(@, r)]
    BY <2>2, <2>3 DEF CSRead, CSReadable
  <2>5. CSFile(f) /\ f.header.imagesize + ChecksumSize = Len(f.rest)
    <3>1. f.format = "cs" /\ f.header.imagesize + ChecksumSize = Len(f.rest)
      BY <2>3 DEF CSReadable, CSSizeGood
    <3>2. f # Missing
      BY <3>1 DEF Missing
    <3> QED
      BY <3>1, <3>2, ContainerParts
  <2>6. r \in Region
    BY <2>5 DEF CSFile, CSHeader, Region
  <2>7. image \in Seq(Byte) /\ Len(image) = r.size
    BY <2>5, CSParts
  <2>8. <<r>> \in Seq(Region) /\ Len(<<r>>) = 1 /\ RangeOffset(<<r>>, 2) = r.size
        /\ Append(<<>>, r) = <<r>>
    <3> HIDE DEF r
    <3> QED
      BY <2>6, OneRange
  <2> HIDE DEF r, info, image
  <2>9. /\ h = [class |-> "CS", data |-> image, memory_ranges |-> Append(<<>>, r),
                info |-> info]
    BY <2>4 DEF CSNew, Handler
  <2>10. h.data = image /\ h.memory_ranges = <<r>> /\ h.class = "CS" /\ HandlerShape(h)
    BY <2>8, <2>9 DEF HandlerShape
  <2>11. DOMAIN image = 1..Len(image) /\ Len(image) \in Nat /\ 1 + Len(<<r>>) = 2
    BY <2>7, <2>8
  <2> QED
    BY <1>5, <2>3, <2>7, <2>8, <2>10, <2>11 DEF ReadGood, r, image
<1>6. CASE c = "SGL" /\ h # new
  <2>1. new = SGLNew
    BY <1>6, NewHandlers
  <2>2. h \in SGLRead(SGLNew, f)
    BY <1>1, <1>6, <2>1 DEF Read
  <2> DEFINE n == f.header.length
             r == [address |-> 0, size |-> n]
             info(i) == TYTSGLRadioConfig(SGLConfigs[i].radio_model, f.header,
                      SGLConfigs[i].cipher, SGLConfigs[i].xor_offset)
             d == ReadBytes(Binary(f), n)
  <2>3. PICK i : h = [SGLNew EXCEPT !.info = info(i), !.data = d,
                                    !.memory_ranges = Append(@, r)]
    BY <2>2 DEF SGLRead
  <2>4. SGLFile(f)
    <3>1. f.format = "sgl"
      BY <2>2 DEF SGLRead, SGLHeaderGood
    <3>2. f # Missing
      BY <3>1 DEF Missing
    <3> QED
      BY <3>1, <3>2, ContainerParts
  <2>5. n \in Nat
    BY <2>4 DEF SGLFile
  <2> HIDE DEF n
  <2>6. DOMAIN d = 1..n /\ Len(d) = n
    <3>1. d = [z \in 1..n |-> d[z]]
      BY Zenon DEF ReadBytes
    <3> HIDE DEF d
    <3> QED
      BY <2>5, <3>1, LenOf
  <2>7. r \in Region /\ r.size = n
    BY <2>5 DEF Region
  <2> HIDE DEF r, info, d
  <2>8. <<r>> \in Seq(Region) /\ Len(<<r>>) = 1 /\ RangeOffset(<<r>>, 2) = n
        /\ Append(<<>>, r) = <<r>>
    BY <2>7, OneRange
  <2>9. h = [class |-> "SGL", data |-> d, memory_ranges |-> Append(<<>>, r),
             info |-> info(i)]
    BY <2>3 DEF SGLNew, Handler
  <2>10. h.data = d /\ h.memory_ranges = <<r>> /\ h.class = "SGL" /\ HandlerShape(h)
    BY <2>8, <2>9 DEF HandlerShape
  <2>11. 1 + Len(<<r>>) = 2
    BY <2>8
  <2> QED
    BY <1>6, <2>5, <2>6, <2>8, <2>10, <2>11 DEF ReadGood
<1>7. CASE c \in {"Yaesu", "Ailunce"} /\ h # new
  <2> DEFINE info == new.info
  <2> HIDE DEF info
  <2>1. PICK d, ranges : h = [class |-> c, data |-> d, memory_ranges |-> ranges,
                              info |-> info]
    <3>1. CASE c = "Yaesu"
      <4>1. h \in YaesuRead(new, f) /\ h # new
        BY <1>1, <1>7, <3>1 DEF Read
      <4>2. \E d : h = [new EXCEPT !.data = d]
        BY <4>1 DEF YaesuRead
      <4> QED
        BY <1>1, <4>2 DEF info
    <3>2. CASE c = "Ailunce"
      <4>1. h \in AilunceRead(new, f) /\ h # new
        BY <1>1, <1>7, <3>2 DEF Read
      <4>2. \E d, ranges : h = [new EXCEPT !.data = d, !.memory_ranges = ranges]
        BY <4>1 DEF AilunceRead
      <4> QED
        BY <1>1, <4>2 DEF info
    <3> QED
      BY <1>7, <3>1, <3>2
  <2>2. h.class = c /\ HandlerShape(h)
    BY <2>1 DEF HandlerShape
  <2> QED
    BY <1>7, <2>2 DEF ReadGood
<1> QED
  BY <1>3, <1>4, <1>5, <1>6, <1>7 DEF Readers

-----------------------------------------------------------------------------
(***************************************************************************)
(* GetFirmwareFileHandler, Read and Decrypt, of a container that was       *)
(* wrapped.                                                                *)
(***************************************************************************)

(* A container with something in it, as its maker left it. *)
Filled(m) == /\ MadeGood(m) /\ m # NotMade
             /\ \E i \in DOMAIN m.segments : m.segments[i].data # <<>>

LEMMA FilledParts ==
  ASSUME NEW m, Filled(m)
  PROVE  /\ m.segments \in Seq(Segment)
         /\ \/ m.class = "TYT" /\ TYTMade(m)
            \/ m.class = "CS" /\ CSMade(m)
            \/ m.class = "Yaesu" /\ PlainFile(m.file)
<1>1. ~SGLMade(m)
  BY DEF Filled, SGLMade
<1> QED
  BY <1>1 DEF Filled, MadeGood

(* The table has a row for the magic that Write has put into the header. *)
LEMMA TYTMadeMagic ==
  ASSUME NEW m, TYTMade(m)
  PROVE  LET f == m.file
         IN  /\ TYTFile(f) /\ f.format = "tyt" /\ f # Missing
             /\ TYTHeaderGood(f)
             /\ SubSeq(f.counter_magic, 1, 1 + f.counter_magic[1])
                  = Config(m.radio).counter_magic
<1> DEFINE f == m.file
           cm == Config(m.radio).counter_magic
<1>1. /\ TYTSupportsRadioModel(m.radio) /\ TYTFile(f)
      /\ f.counter_magic = CounterBytes(cm)
      /\ f.n_regions <= MaxRegions
  BY DEF TYTMade
<1>2. /\ cm \in Seq(Nat) /\ cm[1] \in {1, 2} /\ Len(cm) = 1 + cm[1]
      /\ \E i \in 1..12 : Config(m.radio) = TYTConfigs[i]
  BY <1>1, ModelRow
<1> HIDE DEF cm
<1>3. /\ f.counter_magic[1] = cm[1]
      /\ SubSeq(f.counter_magic, 1, 1 + f.counter_magic[1]) = cm
      /\ IsPrefix(cm, f.counter_magic)
  BY <1>1, <1>2, MagicReadBack
<1>4. \E i \in DOMAIN TYTConfigs : IsPrefix(TYTConfigs[i].counter_magic, f.counter_magic)
  BY <1>2, <1>3, ConfigTable DEF cm
<1>5. f.format = "tyt" /\ f # Missing /\ f.n_regions \in Nat
  <2>1. f.format = "tyt" /\ f.n_regions \in Nat
    BY <1>1 DEF TYTFile
  <2> QED
    BY <2>1 DEF Missing
<1>6. Regions(f) <= MaxRegions
  BY <1>1, <1>5 DEF Regions
<1>7. f.counter_magic[1] <= 3
  <2>1. PICK n \in {1, 2} : n = cm[1]
    BY <1>2
  <2>2. f.counter_magic[1] = n
    BY <1>3, <2>1
  <2>3. n <= 3
    OBVIOUS
  <2> QED
    BY <2>2, <2>3
<1>8. TYTHeaderGood(f)
  BY <1>4, <1>5, <1>6, <1>7 DEF TYTHeaderGood
<1> QED
  BY <1>1, <1>3, <1>5, <1>8 DEF cm

(* GetFirmwareFileHandler finds the class that made it. *)
LEMMA MakerFound ==
  ASSUME NEW m, Filled(m), NEW h \in GetFirmwareFileHandler(m.file)
  PROVE  h.class = m.class
<1> DEFINE f == m.file
           answer(i) == SupportsFirmwareFile(AllFirmwareHandlers[i], f)
<1>1. PICK i \in 1..5 : /\ h = CreateHandler(AllFirmwareHandlers[i])
                        /\ TRUE \in answer(i)
                        /\ \A j \in 1..(i - 1) : answer(j) = {FALSE}
  <2>1. DOMAIN AllFirmwareHandlers = 1..5
    BY DEF AllFirmwareHandlers
  <2> QED
    BY <2>1 DEF GetFirmwareFileHandler
<1>2. /\ AllFirmwareHandlers[1] = "TYT" /\ AllFirmwareHandlers[2] = "CS"
      /\ AllFirmwareHandlers[3] = "SGL" /\ AllFirmwareHandlers[4] = "Yaesu"
      /\ AllFirmwareHandlers[5] = "Ailunce"
      /\ AllFirmwareHandlers[i] \in Readers
  BY DEF AllFirmwareHandlers, Readers
<1>3. h.class = AllFirmwareHandlers[i]
  BY <1>1, <1>2, NewHandlers
<1>4. /\ answer(1) = IF f = Missing THEN {} ELSE {TYTHeaderGood(f)}
      /\ answer(2) = {CSSizeGood(f)}
      /\ answer(3) = {SGLHeaderGood(f) /\ f.header.length # 0}
      /\ answer(4) = IF f = Missing THEN {} ELSE {TRUE}
  <2>1. answer(1) = TYTSupportsFirmwareFile(f)
    BY <1>2 DEF SupportsFirmwareFile
  <2>2. answer(2) = CSSupportsFirmwareFile(f)
    BY <1>2 DEF SupportsFirmwareFile
  <2>3. answer(3) = SGLSupportsFirmwareFile(f)
    BY <1>2 DEF SupportsFirmwareFile
  <2>4. answer(4) = YaesuSupportsFirmwareFile(f)
    BY <1>2 DEF SupportsFirmwareFile
  <2> QED
    BY <2>1, <2>2, <2>3, <2>4 DEF TYTSupportsFirmwareFile, CSSupportsFirmwareFile,
         SGLSupportsFirmwareFile, YaesuSupportsFirmwareFile
<1> HIDE DEF answer
<1>5. CASE m.class = "TYT" /\ TYTMade(m)
  <2>1. f # Missing /\ TYTHeaderGood(f)
    BY <1>5, TYTMadeMagic
  <2>2. TRUE \in answer(1)
    BY <1>4, <2>1
  <2>3. i = 1
    <3>1. i # 1 => 1 \in 1..(i - 1)
      OBVIOUS
    <3> QED
      BY <1>1, <2>2, <3>1
  <2> QED
    BY <1>2, <1>3, <1>5, <2>3
<1>6. CASE m.class = "CS" /\ CSMade(m)
  <2>1. f.format = "cs" /\ f.header.imagesize + ChecksumSize = Len(f.rest)
    BY <1>6 DEF CSMade, Genuine, CSFile
  <2>2. f.header.imagesize # 0
    <3>1. /\ RangesOf(m.segments) = <<[address |-> f.header.baseaddr_offset,
                                       size |-> f.header.imagesize]>>
      BY <1>6 DEF CSMade
    <3>2. m.segments \in Seq(Segment)
      BY FilledParts
    <3>3. PICK x \in DOMAIN m.segments : m.segments[x].data # <<>>
      BY DEF Filled
    <3>4. DOMAIN m.segments = 1..Len(m.segments)
      BY <3>2
    <3>5. /\ DOMAIN RangesOf(m.segments) = 1..Len(m.segments)
          /\ RangesOf(m.segments)[x].size = Len(m.segments[x].data)
          /\ m.segments[x].data \in Seq(Byte)
      <4> DEFINE segs == m.segments
      <4>1. segs \in Seq(Segment) /\ x \in 1..Len(segs)
        BY <3>2, <3>3, <3>4
      <4> HIDE DEF segs
      <4>2. /\ DOMAIN RangesOf(segs) = 1..Len(segs)
            /\ RangesOf(segs)[x] = [address |-> segs[x].address, size |-> Len(segs[x].data)]
            /\ segs[x].data \in Seq(Byte)
        BY <4>1, RangesOfSegments
      <4>3. RangesOf(segs)[x].size = Len(segs[x].data)
        BY <4>2
      <4> QED
        BY <4>2, <4>3 DEF segs
    <3>6. x = 1
      BY <3>1, <3>3, <3>4, <3>5
    <3>7. Len(m.segments[x].data) # 0
      BY <3>3, <3>5
    <3> QED
      BY <3>1, <3>5, <3>6, <3>7
  <2>3. CSSizeGood(f) /\ ~TYTHeaderGood(f)
    BY <2>1, <2>2 DEF CSSizeGood, TYTHeaderGood
  <2>4. TRUE \in answer(2) /\ TRUE \notin answer(1)
    BY <1>4, <2>3
  <2>5. i = 2
    <3>1. i \notin {1, 2} => 2 \in 1..(i - 1)
      OBVIOUS
    <3> QED
      BY <1>1, <2>4, <3>1
  <2> QED
    BY <1>2, <1>3, <1>6, <2>5
<1>7. CASE m.class = "Yaesu" /\ PlainFile(f)
  <2>1. f.format = "plain" /\ f # Missing
    <3>1. f.format = "plain"
      BY <1>7 DEF PlainFile
    <3> QED
      BY <3>1 DEF Missing
  <2>2. ~TYTHeaderGood(f) /\ ~CSSizeGood(f) /\ ~SGLHeaderGood(f)
    BY <2>1 DEF TYTHeaderGood, CSSizeGood, SGLHeaderGood
  <2>3. TRUE \notin answer(1) /\ TRUE \notin answer(2) /\ TRUE \notin answer(3)
        /\ TRUE \in answer(4)
    BY <1>4, <2>1, <2>2
  <2>4. i = 4
    <3>1. i \notin {1, 2, 3, 4} => 4 \in 1..(i - 1)
      OBVIOUS
    <3> QED
      BY <1>1, <2>3, <3>1
  <2> QED
    BY <1>2, <1>3, <1>7, <2>4
<1> QED
  BY <1>5, <1>6, <1>7, FilledParts

(* Reading gives the model and the segments, encrypted. *)
LEMMA MadeIsRead ==
  ASSUME NEW m, Filled(m), NEW h \in Read(CreateHandler(m.class), m.file)
  PROVE  /\ m.class = "TYT" => h.info.counterMagic = Config(m.radio).counter_magic
         /\ m.class \in {"TYT", "CS"} =>
              HoldsXORed(h.data, KeyOf(m.class, m.radio), h.memory_ranges, m.segments)
<1> DEFINE f == m.file
<1>1. CASE m.class = "TYT" /\ TYTMade(m)
  <2>1. CreateHandler(m.class) = TYTNew /\ TYTNew.class = "TYT"
    BY <1>1, NewHandlers DEF Readers
  <2>2. h \in TYTRead(TYTNew, f)
    BY <2>1 DEF Read
  <2>3. /\ TYTFile(f) /\ f # Missing
        /\ SubSeq(f.counter_magic, 1, 1 + f.counter_magic[1]) = Config(m.radio).counter_magic
    BY <1>1, TYTMadeMagic
  <2>4. h = TYTFilled(TYTNew, f)
    BY <2>2, <2>3 DEF TYTRead
  <2> DEFINE ranges == RangesOf(m.segments)
  <2>5. /\ f.n_regions = Len(m.segments) /\ f.regions = ranges
        /\ HoldsXORed(ReadBytes(f.rest, RangeOffset(ranges, Len(ranges) + 1)),
                      KeyOf("TYT", m.radio), ranges, m.segments)
    BY <1>1 DEF TYTMade
  <2>6. Len(ranges) = Len(m.segments)
    BY FilledParts, RangesOfSegments
  <2> HIDE DEF ranges
  <2>7. /\ h.info.counterMagic = Config(m.radio).counter_magic
        /\ h.memory_ranges = ranges
        /\ h.data = ReadBytes(f.rest, RangeOffset(h.memory_ranges, Len(h.memory_ranges) + 1))
    BY <2>3, <2>4, <2>5, <2>6, TYTFills
  <2> QED
    BY <1>1, <2>5, <2>7
<1>2. CASE m.class = "CS" /\ CSMade(m)
  <2>1. m.class \in Readers /\ Container(f)
    BY <1>2 DEF Readers, CSMade, Genuine, Container
  <2>2. ReadGood(h, "CS", f)
    BY <1>2, <2>1, ReadTyped
  <2>3. h.data = CSImage(f) /\ h.memory_ranges = RangesOf(m.segments)
    BY <1>2, <2>2 DEF ReadGood, CSMade
  <2> QED
    BY <1>2, <2>3 DEF CSMade
<1> QED
  BY <1>1, <1>2, FilledParts

(* Decrypt keeps the class, the ranges and how much data there is. *)
LEMMA DecryptKeeps ==
  ASSUME NEW h, HandlerShape(h), h.class \in Readers, NEW g \in Decrypt(h),
         h.class \in {"TYT", "CS", "SGL"} =>
           DOMAIN h.data = 1..Len(h.data) /\ Len(h.data) \in Nat
  PROVE  /\ g.class = h.class /\ g.memory_ranges = h.memory_ranges
         /\ h.class \in {"TYT", "CS", "SGL"} => Len(g.data) = Len(h.data)
<1>1. ASSUME NEW d, g = [h EXCEPT !.data = d]
      PROVE  g.class = h.class /\ g.memory_ranges = h.memory_ranges /\ g.data = d
  BY <1>1 DEF HandlerShape
<1>2. CASE h.class = "TYT"
  <2>1. PICK i : g = [h EXCEPT !.data = ApplyXOR(@, TYTConfigs[i].cipher, 0)]
    BY <1>2 DEF Decrypt, TYTApplyXOR
  <2> DEFINE d == ApplyXOR(h.data, TYTConfigs[i].cipher, 0)
  <2>2. Len(d) = Len(h.data)
    BY <1>2, XORKeepsLength
  <2>3. g = [h EXCEPT !.data = d]
    BY <2>1
  <2> HIDE DEF d
  <2> QED
    BY <1>1, <2>2, <2>3
<1>3. CASE h.class = "CS"
  <2> DEFINE d == ApplyXOR(h.data, cs800_0, 0)
  <2>1. g = [h EXCEPT !.data = d]
    BY <1>3 DEF Decrypt, CSApplyXOR
  <2>2. Len(d) = Len(h.data)
    BY <1>3, XORKeepsLength
  <2> HIDE DEF d
  <2> QED
    BY <1>1, <2>1, <2>2
<1>4. CASE h.class = "SGL"
  <2> DEFINE d == SGLDecrypt(h.data, h.info.cipher, h.info.xor_offset)
  <2>1. g = [h EXCEPT !.data = d]
    BY <1>4 DEF Decrypt, SGLDecrypted
  <2>2. Len(d) = Len(h.data)
    BY <1>4, SGLKeepsLength
  <2> HIDE DEF d
  <2> QED
    BY <1>1, <2>1, <2>2
<1>5. CASE h.class = "Yaesu"
  BY <1>5 DEF Decrypt
<1>6. CASE h.class = "Ailunce"
  <2>1. g = [h EXCEPT !.data = AilunceXOR(h.data)]
    BY <1>6 DEF Decrypt, AilunceApplyXOR
  <2> QED
    BY <1>1, <1>6, <2>1
<1> QED
  BY <1>2, <1>3, <1>4, <1>5, <1>6 DEF Readers

(* Decrypt gives the segments. *)
LEMMA DecryptGivesBack ==
  ASSUME NEW h, HandlerShape(h), NEW model, NEW segs, h.class \in {"TYT", "CS"},
         h.class = "TYT" => /\ TYTSupportsRadioModel(model)
                            /\ h.info.counterMagic = Config(model).counter_magic,
         HoldsXORed(h.data, KeyOf(h.class, model), h.memory_ranges, segs),
         NEW g \in Decrypt(h)
  PROVE  Holds(g.data, g.memory_ranges, segs)
<1> DEFINE key == KeyOf(h.class, model)
           d == ApplyXOR(h.data, key, 0)
<1>1. g = [h EXCEPT !.data = d]
  <2>1. CASE h.class = "TYT"
    <3>1. PICK i \in ConfigsOfMagic(h.info.counterMagic) :
                 g = [h EXCEPT !.data = ApplyXOR(@, TYTConfigs[i].cipher, 0)]
      BY <2>1 DEF Decrypt, TYTApplyXOR
    <3>2. key = Config(model).cipher
      BY <2>1 DEF KeyOf
    <3>3. TYTConfigs[i].cipher = key
      BY <2>1, <3>2, MagicRow, ModelRow
    <3> QED
      BY <3>1, <3>3
  <2>2. CASE h.class = "CS"
    <3>1. g = [h EXCEPT !.data = ApplyXOR(@, cs800_0, 0)]
      BY <2>2 DEF Decrypt, CSApplyXOR
    <3>2. key = cs800_0
      BY <2>2 DEF KeyOf
    <3> QED
      BY <3>1, <3>2
  <2> QED
    BY <2>1, <2>2
<1>2. Holds(d, h.memory_ranges, segs)
  BY DEF HoldsXORed
<1> HIDE DEF d
<1>3. g.data = d /\ g.memory_ranges = h.memory_ranges
  BY <1>1 DEF HandlerShape
<1> QED
  BY <1>2, <1>3

(* GetDataSegments of what is still encrypted: each segment, with the key  *)
(* from the place on where the segment starts.                             *)
LEMMA EncryptedSegments ==
  ASSUME NEW h, NEW segs, NEW key \in Seq(Byte), Len(key) > 0,
         HoldsXORed(h.data, key, h.memory_ranges, segs)
  PROVE  LET out == GetDataSegments(h)
         IN  /\ Len(out) = Len(segs) /\ DOMAIN out = 1..Len(segs)
             /\ \A i \in 1..Len(segs) :
                  /\ out[i].address = segs[i].address
                  /\ ApplyXOR(out[i].data, key, RangeOffset(RangesOf(segs), i))
                       = segs[i].data
<1> DEFINE ranges == RangesOf(segs)
           n == Len(segs)
           d == h.data
           clear == ApplyXOR(d, key, 0)
           out == GetDataSegments(h)
<1>1. /\ d \in Seq(Byte) /\ clear \in Seq(Byte) /\ segs \in Seq(Segment)
      /\ h.memory_ranges = ranges
      /\ Len(clear) = RangeOffset(ranges, Len(ranges) + 1)
      /\ \A i \in DOMAIN segs : \A z \in 1..Len(segs[i].data) :
           clear[RangeOffset(ranges, i) + z] = segs[i].data[z]
  BY Zenon DEF HoldsXORed, Holds
<1>2. n \in Nat /\ DOMAIN segs = 1..n
  BY <1>1
<1>3. /\ ranges \in Seq(Region) /\ Len(ranges) = n /\ DOMAIN ranges = 1..n
      /\ \A i \in 1..n :
           /\ ranges[i] = [address |-> segs[i].address, size |-> Len(segs[i].data)]
           /\ segs[i].data \in Seq(Byte) /\ Len(segs[i].data) \in Nat
  BY <1>1, <1>2, RangesOfSegments
<1>4. /\ Len(clear) = Len(d) /\ Len(d) \in Nat
      /\ \A z \in 1..Len(d) : clear[z] = Xor(d[z], key[1 + ((0 + (z - 1)) % Len(key))])
  <2>1. 0 \in Nat /\ Len(d) \in Nat
    BY <1>1
  <2> QED
    BY <1>1, <2>1, XORBytes
<1> HIDE DEF ranges, n, d, clear
<1>5. out = [i \in 1..n |->
               [address |-> ranges[i].address,
                data    |-> SubSeq(d, RangeOffset(ranges, i) + 1,
                                   RangeOffset(ranges, i) + ranges[i].size)]]
  BY <1>1, <1>3 DEF GetDataSegments, d
<1>6. DOMAIN out = 1..n /\ Len(out) = n
  <2>1. out = [i \in 1..n |-> out[i]]
    BY <1>5
  <2> HIDE DEF out
  <2> QED
    BY <1>2, <2>1, LenOf
<1>7. ASSUME NEW i \in 1..n
      PROVE  /\ out[i].address = segs[i].address
             /\ ApplyXOR(out[i].data, key, RangeOffset(ranges, i)) = segs[i].data
  <2> DEFINE first == RangeOffset(ranges, i)
             m == ranges[i].size
             t == SubSeq(d, first + 1, first + m)
             c == ApplyXOR(t, key, first)
  <2>1. first \in Nat /\ m \in Nat /\ first + m <= Len(d)
    <3>1. i \in 1..Len(ranges) /\ i \in 1..(Len(ranges) + 1)
      BY <1>2, <1>3
    <3> QED
      BY <1>1, <1>3, <1>4, <3>1, Offsets
  <2>2. out[i].address = segs[i].address /\ out[i].data = t /\ m = Len(segs[i].data)
    BY <1>3, <1>5
  <2>3. \A z \in 1..m : clear[first + z] = segs[i].data[z]
    BY <1>1, <1>2, <2>2
  <2> HIDE DEF first, m, out
  <2>4. /\ t \in Seq(Byte) /\ Len(t) = m
        /\ \A z \in 1..m : t[z] = d[first + z]
    BY <1>1, <2>1, PartOf
  <2> HIDE DEF t
  <2>5. /\ c \in Seq(Byte) /\ Len(c) = m
        /\ \A z \in 1..m : c[z] = Xor(t[z], key[1 + ((first + (z - 1)) % Len(key))])
    BY <2>1, <2>4, XORBytes
  <2> HIDE DEF c
  <2>6. ASSUME NEW z \in 1..m PROVE c[z] = segs[i].data[z]
    <3>1. first + z \in 1..Len(d) /\ 0 + ((first + z) - 1) = first + (z - 1)
      BY <1>4, <2>1
    <3>2. clear[first + z] = Xor(d[first + z], key[1 + ((first + (z - 1)) % Len(key))])
      BY <1>4, <3>1
    <3> QED
      BY <2>3, <2>4, <2>5, <3>2
  <2>7. c = segs[i].data
    BY <1>3, <2>2, <2>5, <2>6, SeqEqual
  <2> QED
    BY <2>2, <2>7 DEF c, first
<1> QED
  BY <1>6, <1>7 DEF n, ranges

-----------------------------------------------------------------------------
(***************************************************************************)
(* The order of segments, and the properties of RadioTool with the history *)
(* as an argument.                                                         *)
(***************************************************************************)

(* What has been unwrapped when one more segment is, and in the end.       *)
LEMMA LastOneMore ==
  ASSUME NEW segs \in Seq(Segment), NEW n \in Nat, n + 1 <= Len(segs),
         NEW u, LastOf(u, segs, n),
         NEW v, v = [a \in DOMAIN u \cup {segs[n + 1].address} |->
                       IF a = segs[n + 1].address THEN segs[n + 1].data ELSE u[a]]
  PROVE  LastOf(v, segs, n + 1)
<1> DEFINE S(x) == {segs[i].address : i \in 1..x}
           b == segs[n + 1].address
           bytes == segs[n + 1].data
           Is(w, x, a, i) == /\ segs[i].address = a
                             /\ w[a] = segs[i].data
                             /\ \A j \in (i + 1)..x : segs[j].address # a
<1>1. /\ DOMAIN u = S(n)
      /\ \A a \in S(n) : \E i \in 1..n : Is(u, n, a, i)
  BY DEF LastOf
<1>2. S(n + 1) = S(n) \cup {b}
  <2>1. 1..(n + 1) = (1..n) \cup {n + 1}
    OBVIOUS
  <2> QED
    BY <2>1
<1> HIDE DEF S, b, bytes
<1>3. v = [a \in S(n + 1) |-> IF a = b THEN bytes ELSE u[a]]
  BY <1>1, <1>2 DEF b, bytes
<1>4. v = [a \in S(n + 1) |-> v[a]]
  BY <1>3
<1>5. ASSUME NEW a \in S(n + 1)
      PROVE  \E i \in 1..(n + 1) : Is(v, n + 1, a, i)
  <2>1. CASE a = b
    <3>1. v[a] = segs[n + 1].data /\ segs[n + 1].address = a
      BY <1>3, <2>1 DEF b, bytes
    <3>2. (n + 1 + 1)..(n + 1) = {}
      OBVIOUS
    <3>3. Is(v, n + 1, a, n + 1)
      BY <3>1, <3>2
    <3> HIDE DEF Is
    <3>4. n + 1 \in 1..(n + 1)
      OBVIOUS
    <3> QED
      BY <3>3, <3>4
  <2>2. CASE a # b
    <3>1. a \in S(n) /\ v[a] = u[a]
      BY <1>2, <1>3, <2>2
    <3>2. PICK i \in 1..n : Is(u, n, a, i)
      BY <1>1, <3>1
    <3>3. \A j \in (i + 1)..(n + 1) : j \in (i + 1)..n \/ j = n + 1
      OBVIOUS
    <3>4. Is(v, n + 1, a, i)
      BY <2>2, <3>1, <3>2, <3>3 DEF b
    <3> HIDE DEF Is
    <3>5. i \in 1..(n + 1)
      OBVIOUS
    <3> QED
      BY <3>4, <3>5
  <2> QED
    BY <2>1, <2>2
<1> QED
  BY <1>4, <1>5 DEF LastOf, S

(* The last segment for an address, as LastWith chooses it.                *)
LastIn(segs, address) ==
  CHOOSE i \in DOMAIN segs :
    /\ segs[i].address = address
    /\ \A j \in (i + 1)..Len(segs) : segs[j].address # address

Outcome(segs) ==
  [a \in {segs[i].address : i \in DOMAIN segs} |-> segs[LastIn(segs, a)].data]

LEMMA LastIsOutcome ==
  ASSUME NEW segs \in Seq(Segment), NEW u, LastOf(u, segs, Len(segs))
  PROVE  u = Outcome(segs)
<1> DEFINE n == Len(segs)
           S == {segs[i].address : i \in 1..n}
           LastAt(a, i) == /\ segs[i].address = a
                         /\ \A j \in (i + 1)..n : segs[j].address # a
<1>1. n \in Nat /\ DOMAIN segs = 1..n
  OBVIOUS
<1>2. u = [a \in S |-> u[a]] /\ \A a \in S : \E i \in 1..n : LastAt(a, i) /\ u[a] = segs[i].data
  BY DEF LastOf
<1>3. Outcome(segs) = [a \in S |-> segs[LastIn(segs, a)].data]
  BY <1>1 DEF Outcome
<1>4. ASSUME NEW a \in S PROVE u[a] = segs[LastIn(segs, a)].data
  <2>1. PICK i \in 1..n : LastAt(a, i) /\ u[a] = segs[i].data
    BY <1>2
  <2> DEFINE x == LastIn(segs, a)
  <2>2. x \in 1..n /\ LastAt(a, x)
    <3>1. x = CHOOSE y \in 1..n : LastAt(a, y)
      BY <1>1 DEF LastIn
    <3> HIDE DEF LastAt, x
    <3> QED
      BY <2>1, <3>1
  <2> HIDE DEF x
  <2>3. x = i
    <3>1. ~(x < i)
      <4>1. x < i => i \in (x + 1)..n
        BY <1>1, <2>2
      <4> QED
        BY <2>1, <2>2, <4>1
    <3>2. ~(i < x)
      <4>1. i < x => x \in (i + 1)..n
        BY <1>1, <2>2
      <4> QED
        BY <2>1, <2>2, <4>1
    <3> QED
      BY <1>1, <2>2, <3>1, <3>2
  <2> QED
    BY <2>1, <2>3 DEF x
<1> QED
  BY <1>2, <1>3, <1>4

(* What the two last properties say, with the history as an argument.      *)
LEMMA UnwrapMeans ==
  /\ UnwrapGivesBack <=>
       (pc = "exited" /\ status = "ok" /\ command = "unwrap" /\ Intact
          /\ made.class \in {"TYT", "CS"} => unwrapped = Outcome(made.segments))
  /\ UnwrapGivesBack' <=>
       (pc' = "exited" /\ status' = "ok" /\ command' = "unwrap" /\ Intact'
          /\ made'.class \in {"TYT", "CS"} => unwrapped' = Outcome(made'.segments))
  BY Zenon DEF UnwrapGivesBack, Outcome, LastIn, LastWith

FlashedFrom(out, m) ==
  /\ Len(out) = Len(m.segments)
  /\ \A i \in DOMAIN out :
       /\ out[i].address = m.segments[i].address
       /\ ApplyXOR(out[i].data, Config(m.radio).cipher,
                   SumFirst([j \in DOMAIN m.segments |-> Len(m.segments[j].data)], i - 1))
            = m.segments[i].data

LEMMA FlashMeans ==
  /\ FlashGivesWrapped <=>
       (pc = "exited" /\ status = "ok" /\ sent # <<>> /\ Intact
          /\ radio = "TYT" /\ made.class = "TYT" => FlashedFrom(sent, made))
  /\ FlashGivesWrapped' <=>
       (pc' = "exited" /\ status' = "ok" /\ sent' # <<>> /\ Intact'
          /\ radio' = "TYT" /\ made'.class = "TYT" => FlashedFrom(sent', made'))
  BY Zenon DEF FlashGivesWrapped, FlashedFrom, Before

-----------------------------------------------------------------------------
(***************************************************************************)
(* Parts of the invariant that several steps need.                         *)
(***************************************************************************)

LengthFits(h) ==
  h.class \in {"TYT", "CS", "SGL"} =>
    Len(h.data) = RangeOffset(h.memory_ranges, 1 + Len(h.memory_ranges))

LEMMA HeldLengthFits ==
  ASSUME NEW h, NEW segs, Holds(h.data, h.memory_ranges, segs)
  PROVE  LengthFits(h)
<1>1. segs \in Seq(Segment) /\ h.memory_ranges = RangesOf(segs)
      /\ Len(h.data) = RangeOffset(h.memory_ranges, Len(h.memory_ranges) + 1)
  BY DEF Holds
<1>2. h.memory_ranges \in Seq(Region)
  BY <1>1, RangesOfSegments
<1>3. Len(h.memory_ranges) + 1 = 1 + Len(h.memory_ranges)
  BY <1>2
<1> QED
  BY <1>1, <1>3 DEF LengthFits

LEMMA SealedLengthFits ==
  ASSUME NEW h, NEW model, NEW segs, Sealed(h, model, segs)
  PROVE  LengthFits(h)
<1>1. segs \in Seq(Segment) /\ h.memory_ranges = RangesOf(segs)
      /\ Len(h.data) = RangeOffset(h.memory_ranges, Len(h.memory_ranges) + 1)
  BY DEF Sealed
<1>2. h.memory_ranges \in Seq(Region)
  BY <1>1, RangesOfSegments
<1>3. Len(h.memory_ranges) + 1 = 1 + Len(h.memory_ranges)
  BY <1>2
<1> QED
  BY <1>1, <1>3 DEF LengthFits

(* A container that was made is one, with a checksum that is right. *)
LEMMA MadeContainer ==
  ASSUME NEW m, MadeGood(m), m # NotMade
  PROVE  Container(m.file) /\ (m.file.format = "cs" => Genuine(m.file))
                           /\ m.class # "none"
<1>1. CASE m.class = "TYT" /\ TYTMade(m)
  <2>1. TYTFile(m.file) /\ m.file.format = "tyt"
    BY <1>1 DEF TYTMade, TYTFile
  <2> QED
    BY <1>1, <2>1 DEF Container
<1>2. CASE m.class = "CS" /\ CSMade(m)
  <2>1. Genuine(m.file)
    BY <1>2 DEF CSMade
  <2> QED
    BY <1>2, <2>1 DEF Container, Genuine
<1>3. CASE m.class = "SGL" /\ SGLMade(m)
  <2>1. SGLFile(m.file) /\ m.file.format = "sgl"
    BY <1>3 DEF SGLMade, SGLFile
  <2> QED
    BY <1>3, <2>1 DEF Container
<1>4. CASE m.class = "Yaesu" /\ PlainFile(m.file)
  <2>1. m.file.format = "plain"
    BY <1>4 DEF PlainFile
  <2> QED
    BY <1>4, <2>1 DEF Container
<1> QED
  BY <1>1, <1>2, <1>3, <1>4 DEF MadeGood

LEMMA IntactFilled ==
  ASSUME FilesGood, Intact
  PROVE  Filled(made) /\ packed = made.file /\ packed # Missing /\ Container(packed)
<1>1. Filled(made) /\ packed = made.file
  BY DEF Intact, FilesGood, Filled
<1>2. Container(made.file)
  BY <1>1, MadeContainer DEF Filled
<1> QED
  BY <1>1, <1>2, ContainerParts

(* The files stay as they are. *)
LEMMA SameFiles ==
  ASSUME FilesGood, UNCHANGED files
  PROVE  FilesGood' /\ (Intact' <=> Intact) /\ packed' = packed /\ made' = made
  BY DEF FilesGood, files, Intact

(* The given segments. *)
LEMMA GivenTyped ==
  ASSUME NEW o \in Invocations
  PROVE  /\ o.segments \in Seq([address : Int, file : STRING])
         /\ Len(o.segments) \in Nat /\ DOMAIN o.segments = 1..Len(o.segments)
         /\ GivenSegments(o, 0) = <<>>
<1>1. o.segments \in Seq([address : Int, file : STRING])
  BY RadioToolAssumption
<1>2. GivenSegments(o, 0) = <<>>
  BY DEF GivenSegments
<1> QED
  BY <1>1, <1>2

LEMMA GivenOneMore ==
  ASSUME NEW o \in Invocations, NEW n \in Nat, n + 1 <= Len(o.segments),
         GivenSegments(o, n) \in Seq(Segment),
         SegmentGood(o.segments[n + 1])
  PROVE  LET s == o.segments[n + 1]
         IN  /\ s.address \in Nat /\ Files[s.file] \in Seq(Byte)
             /\ GivenSegments(o, n + 1)
                  = Append(GivenSegments(o, n),
                           [address |-> s.address, data |-> Files[s.file]])
<1> DEFINE s == o.segments[n + 1]
           seg == [address |-> s.address, data |-> Files[s.file]]
           A == GivenSegments(o, n)
           B == GivenSegments(o, n + 1)
           C == Append(A, seg)
<1>1. s.address \in Nat /\ Files[s.file] \in Seq(Byte)
  <2>1. s \in [address : Int, file : STRING]
    <3>1. n + 1 \in 1..Len(o.segments)
      BY GivenTyped
    <3>2. o.segments \in Seq([address : Int, file : STRING])
      BY GivenTyped
    <3> DEFINE T == [address : Int, file : STRING]
    <3> HIDE DEF T
    <3>3. PICK segs \in Seq(T) : segs = o.segments
      BY <3>2 DEF T
    <3>4. segs[n + 1] \in T
      BY <3>1, <3>3
    <3> QED
      BY <3>3, <3>4 DEF T
  <2>2. s.address \in Int
    BY <2>1
  <2> QED
    BY <2>2, RadioToolAssumption DEF SegmentGood
<1>2. Len(A) = n /\ \A i \in 1..n : A[i] = B[i]
  <2>1. A = [i \in 1..n |-> A[i]]
    BY DEF GivenSegments
  <2>2. Len(A) = n
    <3> HIDE DEF A
    <3> QED
      BY <2>1, LenOf
  <2> QED
    BY <2>2 DEF GivenSegments
<1>3. B[n + 1] = seg /\ B = [i \in 1..(n + 1) |-> B[i]]
  BY DEF GivenSegments
<1> HIDE DEF seg, A, B
<1>4. A \in Seq(Segment)
  BY DEF A
<1>5. seg \in Segment
  BY <1>1 DEF seg, Segment
<1>6. C \in Seq(Segment) /\ Len(C) = n + 1 /\ C[n + 1] = seg /\ \A i \in 1..n : C[i] = A[i]
  BY <1>2, <1>4, <1>5
<1> HIDE DEF C
<1>7. C = [i \in 1..(n + 1) |-> C[i]]
  BY <1>6
<1>8. \A i \in 1..(n + 1) : C[i] = B[i]
  <2>1. \A i \in 1..(n + 1) : i \in 1..n \/ i = n + 1
    OBVIOUS
  <2> QED
    BY <1>2, <1>3, <1>6, <2>1
<1>9. C = B
  BY <1>3, <1>7, <1>8
<1> QED
  BY <1>1, <1>9 DEF A, B, C, seg

-----------------------------------------------------------------------------
(***************************************************************************)
(* The steps of RadioTool.                                                 *)
(***************************************************************************)

(* The three ways on: to another place, to a place of which the invariant  *)
(* says nothing of its own, and out of main.                               *)
LEMMA InsideKeeps ==
  ASSUME ToolInv, pc # "exited", pc' \in Inside, UNCHANGED <<opt, status, sent>>,
         pc' # "segments" => unwrapped' = NoOutput,
         k' \in Nat, radio' \in Drivers \cup {"none"}, LengthFits(fw'),
         CommandFits', FilesGood', WrapFits', UnwrapFits',
         CSReadsOnlyGenuine', ReadByItsMaker'
  PROVE  ToolInv'
<1>1. pc' # "exited" /\ sent = <<>> /\ sent' = <<>>
  BY DEF Inside, ToolInv, OutputsFit
<1>2. TypeOK'
  <2>1. /\ status \in {"ok", "error", "crash", "killed", "running"}
        /\ (status = "running") = (pc # "exited") /\ opt \in Invocations
    BY DEF ToolInv, TypeOK
  <2> QED
    BY <1>1, <2>1 DEF TypeOK, LengthFits
<1>3. OutputsFit'
  BY <1>1 DEF OutputsFit
<1>4. UnwrapGivesBack' /\ FlashGivesWrapped'
  BY <1>1, UnwrapMeans, FlashMeans
<1> QED
  BY <1>2, <1>3, <1>4 DEF ToolInv

LEMMA PlaceKeeps ==
  ASSUME ToolInv, pc # "exited", pc # "segments",
         pc' \in {"modelhandler", "padding", "filehandler", "codeplug", "list",
                  "device", "operate", "flash"},
         UNCHANGED <<opt, status, fw, k, outputs>>,
         radio' \in Drivers \cup {"none"}, CommandFits', FilesGood'
  PROVE  ToolInv'
<1>1. pc' \in Inside /\ unwrapped' = NoOutput /\ UNCHANGED <<opt, status, sent>>
  BY DEF Inside, outputs, ToolInv, OutputsFit
<1>2. k' \in Nat /\ LengthFits(fw')
  BY DEF ToolInv, TypeOK, LengthFits
<1>3. WrapFits' /\ UnwrapFits'
  BY DEF WrapFits, UnwrapFits
<1>4. CSReadsOnlyGenuine' /\ ReadByItsMaker'
  BY DEF CSReadsOnlyGenuine, ReadByItsMaker
<1> QED
  BY <1>1, <1>2, <1>3, <1>4, InsideKeeps

LEMMA ExitGood ==
  ASSUME ToolInv, NEW s \in {"ok", "error", "crash", "killed"}, Exit(s),
         FilesGood', UnwrapGivesBack', FlashGivesWrapped'
  PROVE  ToolInv'
<1>1. pc' = "exited" /\ status' = s /\ fw' = NoHandler /\ k' = 0
      /\ opt' = opt /\ radio' = radio
  BY DEF Exit
<1>2. TypeOK'
  <2>1. opt \in Invocations /\ radio \in Drivers \cup {"none"}
    BY DEF ToolInv, TypeOK
  <2>2. fw'.class = "none"
    BY <1>1 DEF NoHandler
  <2> QED
    BY <1>1, <2>1, <2>2 DEF TypeOK
<1>3. CommandFits' /\ OutputsFit' /\ WrapFits' /\ UnwrapFits'
  <2>1. CommandFits'
    BY <1>1 DEF CommandFits, Wrapping, Unwrapping
  <2> QED
    BY <1>1, <2>1 DEF OutputsFit, WrapFits, UnwrapFits
<1>4. CSReadsOnlyGenuine' /\ ReadByItsMaker'
  BY <1>1 DEF CSReadsOnlyGenuine, ReadByItsMaker
<1> QED
  BY <1>2, <1>3, <1>4 DEF ToolInv

LEMMA ExitKeeps ==
  ASSUME ToolInv, pc # "exited", NEW s \in {"ok", "error", "crash", "killed"}, Exit(s),
         s = "ok" => command # "unwrap", sent' = sent, FilesGood'
  PROVE  ToolInv'
<1>1. status' = s /\ opt' = opt
  BY DEF Exit
<1>2. command' = command
  BY <1>1 DEF command
<1>3. sent' = <<>>
  BY DEF ToolInv, OutputsFit
<1>4. UnwrapGivesBack'
  BY <1>1, <1>2, UnwrapMeans
<1>5. FlashGivesWrapped'
  BY <1>3, FlashMeans
<1> QED
  BY <1>4, <1>5, ExitGood

-----------------------------------------------------------------------------
LEMMA InitKeeps ==
  ASSUME Init
  PROVE  ToolInv
<1> USE DEF Init
<1>1. command = "help"
  <2>1. opt.given = {}
    OBVIOUS
  <2> QED
    BY <2>1 DEF command, CommandOf
<1>2. TypeOK
  BY DEF TypeOK, NoHandler
<1>3. FilesGood
  BY DEF FilesGood, MadeGood, CSReadable, CSSizeGood, Missing
<1>4. CommandFits /\ OutputsFit /\ WrapFits /\ UnwrapFits
  BY DEF CommandFits, Wrapping, Unwrapping, OutputsFit, WrapFits, UnwrapFits
<1>5. CSReadsOnlyGenuine /\ ReadByItsMaker
  BY DEF CSReadsOnlyGenuine, ReadByItsMaker
<1>6. UnwrapGivesBack /\ FlashGivesWrapped
  BY <1>1, UnwrapMeans, FlashMeans
<1> QED
  BY <1>2, <1>3, <1>4, <1>5, <1>6 DEF ToolInv

LEMMA StartKeeps ==
  ASSUME ToolInv, Start
  PROVE  ToolInv'
<1>1. /\ pc' = "parse" /\ opt' \in Invocations /\ status' = "running"
      /\ radio' = "none" /\ unwrapped' = NoOutput /\ sent' = <<>>
      /\ fw' = fw /\ k' = k /\ UNCHANGED files
  BY DEF Start
<1>2. TypeOK'
  <2>1. /\ k \in Nat
        /\ fw.class \in {"TYT", "CS", "SGL"} =>
             Len(fw.data) = RangeOffset(fw.memory_ranges, 1 + Len(fw.memory_ranges))
    BY DEF ToolInv, TypeOK
  <2> QED
    BY <1>1, <2>1 DEF TypeOK, Inside
<1>3. FilesGood'
  BY <1>1, SameFiles DEF ToolInv
<1>4. CommandFits' /\ OutputsFit' /\ WrapFits' /\ UnwrapFits'
  BY <1>1 DEF CommandFits, Wrapping, Unwrapping, OutputsFit, WrapFits, UnwrapFits
<1>5. CSReadsOnlyGenuine' /\ ReadByItsMaker'
  BY <1>1 DEF CSReadsOnlyGenuine, ReadByItsMaker
<1>6. UnwrapGivesBack' /\ FlashGivesWrapped'
  BY <1>1, UnwrapMeans, FlashMeans
<1> QED
  BY <1>2, <1>3, <1>4, <1>5, <1>6 DEF ToolInv

(* The commands there are, of the options that cxxopts knows. *)
LEMMA CommandValue ==
  ASSUME NEW given, given \subseteq Registered
  PROVE  CommandOf(given) \in {"help", "fw-info", "codeplug-info", "wrap", "unwrap",
                               "list", "device"}
<1> DEFINE found == FirstOf({i \in DOMAIN CommandOrder : CommandOrder[i] \in given})
           n == CHOOSE i \in found : TRUE
<1>1. CASE given = {} \/ found = {}
  BY <1>1 DEF CommandOf
<1>2. CASE given # {} /\ found # {}
  <2>1. CommandOf(given) = CommandOrder[n]
    BY <1>2 DEF CommandOf
  <2>2. n \in DOMAIN CommandOrder /\ CommandOrder[n] \in given
    BY <1>2 DEF FirstOf
  <2> HIDE DEF n
  <2>3. n \in {1, 2, 3, 4, 5, 6, 7} /\ CommandOrder[2] = "list-radios"
    BY <2>2 DEF CommandOrder
  <2>4. n # 2
    BY <2>2, <2>3 DEF Registered
  <2>5. CommandOrder[n] \in {"help", "fw-info", "codeplug-info", "wrap", "unwrap", "list"}
    BY <2>3, <2>4 DEF CommandOrder
  <2> QED
    BY <2>1, <2>5
<1> QED
  BY <1>1, <1>2

LEMMA ParseKeeps ==
  ASSUME ToolInv, ParseOptions
  PROVE  ToolInv'
<1>1. pc = "parse" /\ UNCHANGED <<outputs, files>> /\ sent' = sent
  BY DEF ParseOptions, outputs
<1>2. FilesGood'
  BY <1>1, SameFiles DEF ToolInv
<1>3. CASE Exit("error")
  BY <1>1, <1>2, <1>3, ExitKeeps
<1>4. CASE Exit("ok") /\ command = "help"
  BY <1>1, <1>2, <1>4, ExitKeeps
<1>5. CASE /\ opt.given \subseteq Registered /\ command # "help"
           /\ GoTo(FirstStep(command)) /\ UNCHANGED <<fw, k, radio>>
  <2>1. pc' = FirstStep(command) /\ UNCHANGED <<opt, status>>
    BY <1>5 DEF GoTo
  <2>2. command' = command
    BY <2>1 DEF command
  <2>3. command \in {"fw-info", "codeplug-info", "wrap", "unwrap", "list", "device"}
    BY <1>5, CommandValue DEF command
  <2>4. /\ command = "wrap" => pc' = "modelhandler"
        /\ command \in {"fw-info", "unwrap"} => pc' = "filehandler"
        /\ command = "codeplug-info" => pc' = "codeplug"
        /\ command = "list" => pc' = "list"
        /\ command = "device" => pc' = "device"
    BY <2>1 DEF FirstStep
  <2>5. CommandFits'
    BY <2>2, <2>3, <2>4 DEF CommandFits, Wrapping, Unwrapping
  <2>6. radio' \in Drivers \cup {"none"}
    BY <1>5 DEF ToolInv, TypeOK
  <2> QED
    BY <1>1, <1>2, <1>5, <2>1, <2>3, <2>4, <2>5, <2>6, PlaceKeeps
<1> QED
  BY <1>3, <1>4, <1>5 DEF ParseOptions

-----------------------------------------------------------------------------
LEMMA ModelHandlerKeeps ==
  ASSUME ToolInv, ChooseModelHandler
  PROVE  ToolInv'
<1>1. /\ pc = "modelhandler" /\ k' = 1 /\ pc' = "append" /\ UNCHANGED <<opt, status>>
      /\ radio' = radio /\ unwrapped' = unwrapped /\ sent' = sent /\ UNCHANGED files
  BY DEF ChooseModelHandler, GoTo, outputs
<1>2. PICK h \in GetFirmwareModelHandler(opt.radio) : fw' = SetRadioModel(h, opt.radio)
  BY DEF ChooseModelHandler
<1>3. MadeFor(fw', opt.radio) /\ fw'.data = <<>> /\ fw'.memory_ranges = <<>>
  BY <1>2, ModelHandlers
<1>4. FilesGood'
  BY <1>1, SameFiles DEF ToolInv
<1>5. opt \in Invocations /\ radio \in Drivers \cup {"none"} /\ command = "wrap"
      /\ unwrapped = NoOutput
  BY <1>1 DEF ToolInv, TypeOK, CommandFits, Wrapping, OutputsFit
<1>6. /\ Holds(fw'.data, fw'.memory_ranges, GivenSegments(opt, 0))
      /\ 1 \in 1..(Len(opt.segments) + 1) /\ 1 - 1 = 0
  <2>1. GivenSegments(opt, 0) = <<>> /\ Len(opt.segments) \in Nat
    BY <1>5, GivenTyped
  <2> QED
    BY <1>3, <2>1, HoldsNothing
<1>7. WrapFits'
  BY <1>1, <1>3, <1>6 DEF WrapFits
<1>8. UnwrapFits' /\ CSReadsOnlyGenuine' /\ ReadByItsMaker'
  BY <1>1 DEF UnwrapFits, CSReadsOnlyGenuine, ReadByItsMaker
<1>9. CommandFits'
  <2>1. command' = command
    BY <1>1 DEF command
  <2> QED
    BY <1>1, <1>5, <2>1 DEF CommandFits, Wrapping, Unwrapping
<1>10. LengthFits(fw')
  BY <1>6, HeldLengthFits
<1>11. pc # "exited" /\ pc' \in Inside /\ UNCHANGED <<opt, status, sent>>
       /\ unwrapped' = NoOutput /\ k' \in Nat /\ radio' \in Drivers \cup {"none"}
  BY <1>1, <1>5 DEF Inside
<1> QED
  BY <1>4, <1>7, <1>8, <1>9, <1>10, <1>11, InsideKeeps

LEMMA AddSegmentKeeps ==
  ASSUME ToolInv, AddSegment
  PROVE  ToolInv'
<1> DEFINE s == opt.segments[k]
<1>1. /\ pc = "append" /\ k <= Len(opt.segments)
      /\ unwrapped' = unwrapped /\ sent' = sent /\ UNCHANGED files
  BY DEF AddSegment, outputs
<1>2. FilesGood'
  BY <1>1, SameFiles DEF ToolInv
<1>3. CASE Exit("error")
  BY <1>1, <1>2, <1>3, ExitKeeps
<1>4. CASE /\ SegmentGood(s)
           /\ fw' = AppendSegment(fw, s.address, Files[s.file])
           /\ k' = k + 1 /\ GoTo("append") /\ UNCHANGED radio
  <2>1. pc' = "append" /\ UNCHANGED <<opt, status>>
    BY <1>4 DEF GoTo
  <2>2. /\ opt \in Invocations /\ radio \in Drivers \cup {"none"} /\ command = "wrap"
        /\ unwrapped = NoOutput
        /\ k \in 1..(Len(opt.segments) + 1)
        /\ MadeFor(fw, opt.radio)
        /\ Holds(fw.data, fw.memory_ranges, GivenSegments(opt, k - 1))
    BY <1>1 DEF ToolInv, TypeOK, CommandFits, Wrapping, OutputsFit, WrapFits
  <2>3. Len(opt.segments) \in Nat
    BY <2>2, GivenTyped
  <2> DEFINE n == k - 1
             more == AppendSegment(fw, s.address, Files[s.file])
             seg == [address |-> s.address, data |-> Files[s.file]]
  <2>4. n \in Nat /\ k = n + 1 /\ n + 1 <= Len(opt.segments)
        /\ k' \in 1..(Len(opt.segments) + 1) /\ k' \in Nat /\ k' - 1 = n + 1
    BY <1>1, <1>4, <2>2, <2>3
  <2>5. GivenSegments(opt, n) \in Seq(Segment)
    BY <2>2 DEF Holds
  <2>6. /\ s.address \in Nat /\ Files[s.file] \in Seq(Byte)
        /\ GivenSegments(opt, n + 1) = Append(GivenSegments(opt, n), seg)
    <3> HIDE DEF n
    <3>1. s = opt.segments[n + 1]
      BY <2>4
    <3> HIDE DEF s
    <3>2. SegmentGood(opt.segments[n + 1])
      BY <1>4, <3>1
    <3> QED
      BY <2>2, <2>4, <2>5, <3>1, <3>2, GivenOneMore
  <2>7. /\ more = [class |-> fw.class, data |-> more.data,
                   memory_ranges |-> more.memory_ranges, info |-> fw.info]
        /\ Holds(more.data, more.memory_ranges, Append(GivenSegments(opt, n), seg))
    <3>1. fw = [class |-> fw.class, data |-> fw.data, memory_ranges |-> fw.memory_ranges,
                info |-> fw.info]
      BY <2>2 DEF MadeFor, HandlerShape
    <3>2. Holds(fw.data, fw.memory_ranges, GivenSegments(opt, n))
      BY <2>2
    <3> HIDE DEF n, s
    <3> QED
      BY <2>6, <3>1, <3>2, HoldsOneMore, Zenon
  <2>8. fw' = more
    BY <1>4
  <2> HIDE DEF more, seg, s, n
  <2>9. Holds(fw'.data, fw'.memory_ranges, GivenSegments(opt, n + 1))
    BY <2>6, <2>7, <2>8
  <2>10. MadeFor(fw', opt.radio)
    <3>1. more.class = fw.class /\ more.info = fw.info
      BY <2>7
    <3>2. HandlerShape(more)
      BY <2>7, <3>1, Zenon DEF HandlerShape
    <3> QED
      BY <2>2, <2>8, <3>1, <3>2 DEF MadeFor
  <2>11. WrapFits'
    BY <2>1, <2>4, <2>9, <2>10 DEF WrapFits
  <2>12. UnwrapFits' /\ CSReadsOnlyGenuine' /\ ReadByItsMaker'
    BY <2>1 DEF UnwrapFits, CSReadsOnlyGenuine, ReadByItsMaker
  <2>13. CommandFits'
    <3>1. command' = command
      BY <2>1 DEF command
    <3> QED
      BY <2>1, <2>2, <3>1 DEF CommandFits, Wrapping, Unwrapping
  <2>14. LengthFits(fw')
    BY <2>9, HeldLengthFits
  <2>15. pc # "exited" /\ pc' \in Inside /\ UNCHANGED <<opt, status, sent>>
         /\ unwrapped' = NoOutput /\ k' \in Nat /\ radio' \in Drivers \cup {"none"}
    BY <1>1, <1>4, <2>1, <2>2, <2>4 DEF Inside
  <2> QED
    BY <1>2, <2>11, <2>12, <2>13, <2>14, <2>15, InsideKeeps
<1> QED
  BY <1>3, <1>4 DEF AddSegment

-----------------------------------------------------------------------------
(* Where a wrap goes on: nothing changes but what it has of the handler.   *)
LEMMA WrapStepKeeps ==
  ASSUME ToolInv, pc \in Wrapping, pc' \in {"encrypt", "open", "write"},
         UNCHANGED <<opt, status, k, radio, outputs>>, LengthFits(fw'),
         FilesGood', WrapFits'
  PROVE  ToolInv'
<1>1. pc # "exited" /\ pc # "segments" /\ pc' \in Inside /\ UNCHANGED <<opt, status, sent>>
      /\ unwrapped' = unwrapped /\ k' = k /\ radio' = radio
  BY DEF Wrapping, Inside, outputs
<1>2. /\ k \in Nat /\ radio \in Drivers \cup {"none"} /\ command = "wrap"
      /\ unwrapped = NoOutput
  BY <1>1 DEF ToolInv, TypeOK, CommandFits, OutputsFit
<1>3. CommandFits'
  <2>1. command' = command
    BY <1>1 DEF command
  <2> QED
    BY <1>2, <2>1 DEF CommandFits, Wrapping, Unwrapping
<1>4. UnwrapFits' /\ CSReadsOnlyGenuine' /\ ReadByItsMaker'
  BY DEF UnwrapFits, CSReadsOnlyGenuine, ReadByItsMaker
<1> QED
  BY <1>1, <1>2, <1>3, <1>4, InsideKeeps

LEMMA AllAddedKeeps ==
  ASSUME ToolInv, AllAdded
  PROVE  ToolInv'
<1>1. /\ pc = "append" /\ k > Len(opt.segments) /\ pc' = "encrypt"
      /\ UNCHANGED <<opt, status, fw, k, radio, outputs, files>>
  BY DEF AllAdded, GoTo
<1>2. /\ opt \in Invocations /\ k \in 1..(Len(opt.segments) + 1)
      /\ MadeFor(fw, opt.radio)
      /\ Holds(fw.data, fw.memory_ranges, GivenSegments(opt, k - 1))
  BY <1>1 DEF ToolInv, TypeOK, WrapFits
<1>3. k - 1 = Len(opt.segments)
  <2>1. Len(opt.segments) \in Nat
    BY <1>2, GivenTyped
  <2> QED
    BY <1>1, <1>2, <2>1
<1>4. Holds(fw.data, fw.memory_ranges, AllGiven(opt))
  BY <1>2, <1>3 DEF AllGiven
<1>5. WrapFits'
  BY <1>1, <1>2, <1>4 DEF WrapFits, AllGiven, GivenSegments
<1>6. LengthFits(fw')
  BY <1>1, <1>4, HeldLengthFits
<1>7. FilesGood'
  BY <1>1, SameFiles DEF ToolInv
<1> QED
  BY <1>1, <1>5, <1>6, <1>7, WrapStepKeeps DEF Wrapping

LEMMA EncryptAllKeeps ==
  ASSUME ToolInv, EncryptAll
  PROVE  ToolInv'
<1>1. /\ pc = "encrypt" /\ fw' \in Encrypt(fw) /\ pc' = "open"
      /\ UNCHANGED <<opt, status, k, radio, outputs, files>>
  BY DEF EncryptAll, GoTo
<1>2. MadeFor(fw, opt.radio) /\ Holds(fw.data, fw.memory_ranges, AllGiven(opt))
  BY <1>1 DEF ToolInv, WrapFits
<1>3. Sealed(fw', opt.radio, AllGiven(opt))
  BY <1>1, <1>2, EncryptSeals
<1>4. WrapFits'
  BY <1>1, <1>3 DEF WrapFits, AllGiven, GivenSegments
<1>5. LengthFits(fw')
  BY <1>3, SealedLengthFits
<1>6. FilesGood'
  BY <1>1, SameFiles DEF ToolInv
<1> QED
  BY <1>1, <1>4, <1>5, <1>6, WrapStepKeeps DEF Wrapping

LEMMA OpenOutputKeeps ==
  ASSUME ToolInv, OpenOutput
  PROVE  ToolInv'
<1>1. pc = "open" /\ UNCHANGED outputs /\ sent' = sent
  BY DEF OpenOutput, outputs
<1>2. Sealed(fw, opt.radio, AllGiven(opt)) /\ command = "wrap"
  BY <1>1 DEF ToolInv, WrapFits, CommandFits, Wrapping
<1>3. CASE (Exit("error") \/ Exit("ok")) /\ UNCHANGED files
  <2>1. FilesGood'
    BY <1>3, SameFiles DEF ToolInv
  <2> QED
    BY <1>1, <1>2, <1>3, <2>1, ExitKeeps
<1>4. CASE /\ fw.class = "SGL" => SGLLengthGood(fw)
           /\ packed' = EmptyFile /\ made' = NotMade
           /\ GoTo("write") /\ UNCHANGED <<fw, k, radio>>
  <2>1. pc' = "write" /\ UNCHANGED <<opt, status>>
    BY <1>4 DEF GoTo
  <2>2. WrapFits'
    BY <1>2, <1>4, <2>1 DEF WrapFits, AllGiven, GivenSegments
  <2>3. FilesGood'
    <3>1. packed' = [format |-> "plain", rest |-> <<>>] /\ <<>> \in Seq(Byte)
      BY <1>4 DEF EmptyFile, Plain
    <3>2. PlainFile(packed') /\ packed'.format # "cs"
      BY <3>1 DEF PlainFile
    <3> QED
      BY <1>4, <3>2 DEF FilesGood, Container, CSReadable, CSSizeGood, MadeGood
  <2>4. LengthFits(fw')
    BY <1>2, <1>4, SealedLengthFits
  <2> QED
    BY <1>1, <1>4, <2>1, <2>2, <2>3, <2>4, WrapStepKeeps DEF Wrapping
<1> QED
  BY <1>3, <1>4 DEF OpenOutput

(* A file that has been written, and what a write leaves that goes on for  *)
(* ever or is cut short.                                                   *)
LEMMA WriteContentKeeps ==
  ASSUME ToolInv, WriteContent
  PROVE  ToolInv'
<1>1. pc = "write" /\ UNCHANGED outputs /\ sent' = sent
  BY DEF WriteContent, outputs
<1>2. /\ Sealed(fw, opt.radio, AllGiven(opt)) /\ command = "wrap"
      /\ opt \in Invocations /\ radio \in Drivers \cup {"none"}
      /\ fw.class = "SGL" => SGLLengthGood(fw)
  BY <1>1 DEF ToolInv, TypeOK, WrapFits, CommandFits, Wrapping
<1>3. CASE Exit("error") /\ UNCHANGED <<packed, made>>
  <2>1. FilesGood'
    BY <1>3, SameFiles DEF ToolInv, files
  <2> QED
    BY <1>1, <1>3, <2>1, ExitKeeps
<1>4. CASE /\ fw.class = "TYT" /\ packed' = [TYTWritten(fw) EXCEPT !.rest = <<>>]
           /\ GoTo("padding") /\ UNCHANGED <<fw, k, radio, made>>
  <2>1. pc' = "padding" /\ UNCHANGED <<opt, status>>
    BY <1>4 DEF GoTo
  <2>2. Container(TYTWritten(fw)) /\ TYTWritten(fw).format = "tyt"
    <3>1. TYTFile(Written(fw)) /\ Written(fw) = TYTWritten(fw)
      BY <1>2, <1>4, WrittenContainer
    <3> QED
      BY <3>1 DEF Container, TYTWritten
  <2>3. Container(packed') /\ packed'.format = "tyt"
    <3>1. <<>> \in Seq(Byte)
      OBVIOUS
    <3> QED
      BY <1>4, <2>2, <3>1, OtherRest
  <2>4. FilesGood'
    <3>1. MadeGood(made)
      BY DEF ToolInv, FilesGood
    <3> QED
      BY <1>4, <2>3, <3>1 DEF FilesGood, CSReadable, CSSizeGood
  <2>5. CommandFits'
    <3>1. command' = command
      BY <2>1 DEF command
    <3> QED
      BY <1>2, <2>1, <3>1 DEF CommandFits, Wrapping, Unwrapping
  <2> QED
    BY <1>1, <1>2, <1>4, <2>1, <2>4, <2>5, PlaceKeeps
<1>5. CASE /\ fw.class = "CS" => CSOneSegment(fw)
           /\ fw.class = "TYT" => TYTWriteEnds(fw)
           /\ packed' = Written(fw)
           /\ made' = [class |-> fw.class, file |-> Written(fw), radio |-> opt.radio,
                       segments |-> [i \in DOMAIN opt.segments |->
                          [address |-> opt.segments[i].address,
                           data    |-> Files[opt.segments[i].file]]]]
           /\ Exit("ok")
  <2>1. made' = [class |-> fw.class, file |-> Written(fw), radio |-> opt.radio,
                 segments |-> AllGiven(opt)]
    <3>1. DOMAIN opt.segments = 1..Len(opt.segments)
      BY <1>2, GivenTyped
    <3> QED
      BY <1>5, <3>1 DEF AllGiven, GivenSegments
  <2>2. MadeGood(made')
    BY <1>2, <1>5, <2>1, WrittenMade
  <2>3. Container(packed') /\ (packed'.format = "cs") = (fw.class = "CS")
    BY <1>2, <1>5, WrittenContainer
  <2>4. FilesGood'
    <3>1. CSReadable(packed') => packed'.format = "cs"
      BY DEF CSReadable, CSSizeGood
    <3>2. made'.class = fw.class /\ made'.file = packed'
      BY <1>5, <2>1
    <3> QED
      BY <2>2, <2>3, <3>1, <3>2 DEF FilesGood
  <2> QED
    BY <1>1, <1>2, <1>5, <2>4, ExitKeeps
<1> QED
  BY <1>3, <1>4, <1>5 DEF WriteContent

-----------------------------------------------------------------------------
(* Where an unwrap goes on.                                                *)
LEMMA UnwrapStepKeeps ==
  ASSUME ToolInv, pc \in {"filehandler", "read", "decrypt", "segments"},
         pc' \in {"read", "decrypt", "segments"},
         pc' # "segments" => pc # "segments" /\ unwrapped' = unwrapped,
         pc' # "read" => command = "unwrap",
         UNCHANGED <<opt, status, radio, sent, files>>,
         k' \in Nat, LengthFits(fw'), UnwrapFits', CSReadsOnlyGenuine', ReadByItsMaker'
  PROVE  ToolInv'
<1>1. /\ pc # "exited" /\ pc' \in Inside /\ UNCHANGED <<opt, status, sent>>
      /\ radio' = radio
  BY DEF Inside
<1>2. /\ radio \in Drivers \cup {"none"} /\ command \in {"fw-info", "unwrap"}
      /\ pc # "segments" => unwrapped = NoOutput
  BY DEF ToolInv, TypeOK, CommandFits, Unwrapping, OutputsFit
<1>3. CommandFits'
  <2>1. command' = command
    BY DEF command
  <2> QED
    BY <1>2, <2>1 DEF CommandFits, Wrapping, Unwrapping
<1>4. WrapFits'
  BY DEF WrapFits, AllGiven, GivenSegments
<1>5. FilesGood'
  BY SameFiles DEF ToolInv
<1> QED
  BY <1>1, <1>2, <1>3, <1>4, <1>5, InsideKeeps

LEMMA FileHandlerKeeps ==
  ASSUME ToolInv, ChooseFileHandler
  PROVE  ToolInv'
<1>1. pc = "filehandler" /\ UNCHANGED <<outputs, files>> /\ sent' = sent
      /\ unwrapped' = unwrapped
  BY DEF ChooseFileHandler, outputs
<1>2. FilesGood /\ (FilesGood' /\ (Intact' <=> Intact) /\ made' = made)
  BY <1>1, SameFiles DEF ToolInv
<1>3. CASE Exit("error")
  BY <1>1, <1>2, <1>3, ExitKeeps
<1>4. CASE /\ fw' \in GetFirmwareFileHandler(packed)
           /\ GoTo("read") /\ UNCHANGED <<k, radio>>
  <2>1. pc' = "read" /\ UNCHANGED <<opt, status, k, radio>>
    BY <1>4 DEF GoTo
  <2>2. fw'.class \in Readers /\ fw' = CreateHandler(fw'.class)
    BY <1>4, FileHandlers
  <2>3. fw'.data = <<>> /\ fw'.memory_ranges = <<>>
    BY <2>2, NewHandlers
  <2>4. LengthFits(fw')
    BY <2>3, HoldsNothing, HeldLengthFits
  <2>5. Intact' => fw'.class = made'.class
    <3> SUFFICES ASSUME Intact'
                 PROVE  fw'.class = made'.class
      OBVIOUS
    <3>1. Filled(made) /\ packed = made.file
      BY <1>2, IntactFilled
    <3> QED
      BY <1>2, <1>4, <3>1, MakerFound
  <2>6. UnwrapFits'
    BY <2>1, <2>2, <2>5 DEF UnwrapFits
  <2>7. CSReadsOnlyGenuine' /\ ReadByItsMaker'
    BY <2>1 DEF CSReadsOnlyGenuine, ReadByItsMaker
  <2>8. k' \in Nat
    BY <2>1 DEF ToolInv, TypeOK
  <2> QED
    BY <1>1, <2>1, <2>4, <2>6, <2>7, <2>8, UnwrapStepKeeps
<1> QED
  BY <1>3, <1>4 DEF ChooseFileHandler

LEMMA ReadFileKeeps ==
  ASSUME ToolInv, ReadFile
  PROVE  ToolInv'
<1>1. pc = "read" /\ UNCHANGED <<outputs, files>> /\ sent' = sent
      /\ unwrapped' = unwrapped
  BY DEF ReadFile, outputs
<1>2. FilesGood /\ (FilesGood' /\ (Intact' <=> Intact) /\ made' = made)
  BY <1>1, SameFiles DEF ToolInv
<1>3. CASE Exit("error")
  BY <1>1, <1>2, <1>3, ExitKeeps
<1>4. CASE command = "fw-info" /\ Exit("ok")
  BY <1>1, <1>2, <1>4, ExitKeeps
<1>5. CASE /\ fw' \in Read(fw, packed) /\ command = "unwrap"
           /\ GoTo("decrypt") /\ UNCHANGED <<k, radio>>
  <2>1. pc' = "decrypt" /\ UNCHANGED <<opt, status, k, radio>>
    BY <1>5 DEF GoTo
  <2>2. /\ fw.class \in Readers /\ fw = CreateHandler(fw.class)
        /\ Intact => fw.class = made.class
    BY <1>1 DEF ToolInv, UnwrapFits
  <2>3. fw' \in Read(CreateHandler(fw.class), packed)
    BY <1>5, <2>2
  <2>4. packed = Missing \/ Container(packed)
    BY <1>2 DEF FilesGood
  <2>5. ReadGood(fw', fw.class, packed)
    BY <2>2, <2>3, <2>4, ReadTyped
  <2>6. LengthFits(fw')
    BY <2>5 DEF ReadGood, LengthFits
  <2>7. Intact => /\ fw'.class = made.class
                  /\ made.class = "TYT" =>
                       fw'.info.counterMagic = Config(made.radio).counter_magic
                  /\ made.class \in {"TYT", "CS"} =>
                       HoldsXORed(fw'.data, KeyOf(made.class, made.radio),
                                  fw'.memory_ranges, made.segments)
    <3> SUFFICES ASSUME Intact
                 PROVE  /\ fw'.class = made.class
                        /\ made.class = "TYT" =>
                             fw'.info.counterMagic = Config(made.radio).counter_magic
                        /\ made.class \in {"TYT", "CS"} =>
                             HoldsXORed(fw'.data, KeyOf(made.class, made.radio),
                                        fw'.memory_ranges, made.segments)
      OBVIOUS
    <3>1. Filled(made) /\ packed = made.file
      BY <1>2, IntactFilled
    <3>2. fw' \in Read(CreateHandler(made.class), made.file)
      BY <2>2, <2>3, <3>1
    <3>3. fw'.class = made.class
      BY <2>2, <2>5 DEF ReadGood
    <3> QED
      BY <3>1, <3>2, <3>3, MadeIsRead
  <2>8. UnwrapFits'
    <3>1. Intact' => HoldsIntact(fw)'
      BY <1>2, <2>7 DEF HoldsIntact
    <3>2. /\ HandlerShape(fw') /\ fw'.class \in Readers
          /\ fw'.class \in {"TYT", "CS", "SGL"} =>
               DOMAIN fw'.data = 1..Len(fw'.data) /\ Len(fw'.data) \in Nat
      BY <2>2, <2>5 DEF ReadGood
    <3> QED
      BY <2>1, <3>1, <3>2 DEF UnwrapFits, HandlerShape
  <2>9. ReadByItsMaker'
    BY <1>2, <2>7 DEF ReadByItsMaker, Config
  <2>10. CSReadsOnlyGenuine'
    <3> SUFFICES ASSUME fw'.class = "CS"
                 PROVE  /\ made' # NotMade /\ made'.class = "CS"
                        /\ fw'.data = CSImage(made'.file)
                        /\ fw'.memory_ranges[1].address = made'.segments[1].address
      BY DEF CSReadsOnlyGenuine
    <3>1. /\ CSReadable(packed) /\ fw'.data = CSImage(packed)
          /\ fw'.memory_ranges = <<[address |-> packed.header.baseaddr_offset,
                                    size |-> packed.header.imagesize]>>
      BY <2>5 DEF ReadGood
    <3>2. made.class = "CS" /\ packed = made.file
      BY <1>2, <3>1 DEF FilesGood
    <3>3. made # NotMade
      BY <3>2 DEF NotMade
    <3>4. made.segments \in Seq(Segment) /\ CSMade(made)
      BY <1>2, <3>2, <3>3 DEF FilesGood, MadeGood
    <3>5. RangesOf(made.segments) = fw'.memory_ranges
      BY <3>1, <3>2, <3>4 DEF CSMade
    <3>6. Len(made.segments) = 1
      <4>1. Len(RangesOf(made.segments)) = Len(made.segments)
        BY <3>4, RangesOfSegments
      <4>2. Len(fw'.memory_ranges) = 1
        BY <3>1
      <4> QED
        BY <3>5, <4>1, <4>2
    <3>7. RangesOf(made.segments)[1] = [address |-> made.segments[1].address,
                                        size |-> Len(made.segments[1].data)]
      BY <3>4, <3>6, RangesOfSegments
    <3> QED
      BY <1>2, <3>1, <3>2, <3>3, <3>5, <3>7
  <2>11. k' \in Nat
    BY <2>1 DEF ToolInv, TypeOK
  <2> QED
    BY <1>1, <1>5, <2>1, <2>6, <2>8, <2>9, <2>10, <2>11, UnwrapStepKeeps
<1> QED
  BY <1>3, <1>4, <1>5 DEF ReadFile

LEMMA DecryptAllKeeps ==
  ASSUME ToolInv, DecryptAll
  PROVE  ToolInv'
<1>1. pc = "decrypt" /\ UNCHANGED <<outputs, files>> /\ sent' = sent
      /\ unwrapped' = unwrapped
  BY DEF DecryptAll, outputs
<1>2. FilesGood /\ (FilesGood' /\ (Intact' <=> Intact) /\ made' = made)
  BY <1>1, SameFiles DEF ToolInv
<1>3. CASE Exit("error")
  BY <1>1, <1>2, <1>3, ExitKeeps
<1>4. CASE fw' \in Decrypt(fw) /\ k' = 1 /\ GoTo("segments") /\ UNCHANGED radio
  <2>1. pc' = "segments" /\ UNCHANGED <<opt, status, radio>>
    BY <1>4 DEF GoTo
  <2>2. /\ HandlerShape(fw) /\ fw.class \in Readers
        /\ fw.class \in {"TYT", "CS", "SGL"} =>
             DOMAIN fw.data = 1..Len(fw.data) /\ Len(fw.data) \in Nat
        /\ Intact => HoldsIntact(fw)
        /\ Intact /\ made.class \in {"TYT", "CS"} =>
             /\ fw.class = made.class
             /\ made.class = "TYT" =>
                  fw.info.counterMagic = Config(made.radio).counter_magic
        /\ LengthFits(fw) /\ unwrapped = NoOutput /\ command = "unwrap"
    BY <1>1 DEF ToolInv, TypeOK, LengthFits, UnwrapFits, ReadByItsMaker, OutputsFit,
                CommandFits, Unwrapping
  <2>3. LengthFits(fw')
    <3>1. /\ fw'.class = fw.class /\ fw'.memory_ranges = fw.memory_ranges
          /\ fw.class \in {"TYT", "CS", "SGL"} => Len(fw'.data) = Len(fw.data)
      BY <1>4, <2>2, DecryptKeeps
    <3> QED
      BY <2>2, <3>1 DEF LengthFits
  <2>4. Intact /\ made.class \in {"TYT", "CS"} =>
          /\ Holds(fw'.data, fw'.memory_ranges, made.segments)
          /\ 1 \in 1..(Len(made.segments) + 1)
          /\ LastOf(NoOutput, made.segments, 1 - 1)
    <3> SUFFICES ASSUME Intact, made.class \in {"TYT", "CS"}
                 PROVE  /\ Holds(fw'.data, fw'.memory_ranges, made.segments)
                        /\ 1 \in 1..(Len(made.segments) + 1)
                        /\ LastOf(NoOutput, made.segments, 1 - 1)
      OBVIOUS
    <3>1. Filled(made)
      BY <1>2, IntactFilled
    <3>2. /\ made.segments \in Seq(Segment)
          /\ made.class = "TYT" => TYTSupportsRadioModel(made.radio)
      BY <3>1, FilledParts DEF TYTMade
    <3>3. HoldsXORed(fw.data, KeyOf(fw.class, made.radio), fw.memory_ranges, made.segments)
      BY <2>2 DEF HoldsIntact
    <3>4. Holds(fw'.data, fw'.memory_ranges, made.segments)
      <4>1. /\ fw.class \in {"TYT", "CS"}
            /\ fw.class = "TYT" =>
                 /\ TYTSupportsRadioModel(made.radio)
                 /\ fw.info.counterMagic = Config(made.radio).counter_magic
        BY <2>2, <3>2
      <4>2. HandlerShape(fw)
        BY <2>2
      <4>3. PICK g \in Decrypt(fw) : fw' = g
        BY <1>4
      <4>4. Holds(g.data, g.memory_ranges, made.segments)
        BY <3>3, <4>1, <4>2, DecryptGivesBack, Z3
      <4> QED
        BY <4>3, <4>4
    <3>5. Len(made.segments) \in Nat
      BY <3>2
    <3>6. LastOf(NoOutput, made.segments, 1 - 1)
      <4>1. 1 - 1 = 0 /\ 1..0 = {}
        OBVIOUS
      <4>2. {made.segments[i].address : i \in 1..0} = {}
        BY <4>1
      <4>3. NoOutput = [a \in {} |-> NoOutput[a]]
        BY DEF NoOutput
      <4> QED
        BY <4>1, <4>2, <4>3 DEF LastOf
    <3> QED
      BY <3>4, <3>5, <3>6
  <2>5. UnwrapFits'
    <3>1. unwrapped' = NoOutput /\ k' = 1
      BY <1>1, <1>4, <2>2
    <3> QED
      BY <1>2, <2>1, <2>4, <3>1 DEF UnwrapFits
  <2>6. CSReadsOnlyGenuine' /\ ReadByItsMaker'
    BY <2>1 DEF CSReadsOnlyGenuine, ReadByItsMaker
  <2> QED
    BY <1>1, <1>4, <2>1, <2>2, <2>3, <2>5, <2>6, UnwrapStepKeeps
<1> QED
  BY <1>3, <1>4 DEF DecryptAll

LEMMA UnwrapSegmentKeeps ==
  ASSUME ToolInv, UnwrapSegment
  PROVE  ToolInv'
<1> DEFINE rn == GetDataSegments(fw)[k]
<1>1. pc = "segments" /\ k <= Len(fw.memory_ranges) /\ sent' = sent /\ UNCHANGED files
  BY DEF UnwrapSegment
<1>2. FilesGood /\ (FilesGood' /\ (Intact' <=> Intact) /\ made' = made)
  BY <1>1, SameFiles DEF ToolInv
<1>3. CASE Exit("error")
  BY <1>1, <1>2, <1>3, ExitKeeps
<1>4. CASE /\ unwrapped' = [a \in DOMAIN unwrapped \cup {rn.address} |->
                              IF a = rn.address THEN rn.data ELSE unwrapped[a]]
           /\ k' = k + 1 /\ GoTo("segments") /\ UNCHANGED <<fw, radio>>
  <2>1. pc' = "segments" /\ UNCHANGED <<opt, status, fw, radio>>
    BY <1>4 DEF GoTo
  <2>2. k \in Nat /\ LengthFits(fw) /\ command = "unwrap"
    BY <1>1 DEF ToolInv, TypeOK, LengthFits, CommandFits, Unwrapping
  <2>3. Intact /\ made.class \in {"TYT", "CS"} =>
          /\ Holds(fw.data, fw.memory_ranges, made.segments)
          /\ k + 1 \in 1..(Len(made.segments) + 1)
          /\ LastOf(unwrapped', made.segments, (k + 1) - 1)
    <3> SUFFICES ASSUME Intact, made.class \in {"TYT", "CS"}
                 PROVE  /\ Holds(fw.data, fw.memory_ranges, made.segments)
                        /\ k + 1 \in 1..(Len(made.segments) + 1)
                        /\ LastOf(unwrapped', made.segments, (k + 1) - 1)
      OBVIOUS
    <3>1. /\ Holds(fw.data, fw.memory_ranges, made.segments)
          /\ k \in 1..(Len(made.segments) + 1)
          /\ LastOf(unwrapped, made.segments, k - 1)
      BY <1>1 DEF ToolInv, UnwrapFits
    <3> DEFINE n == k - 1
    <3>2. made.segments \in Seq(Segment) /\ fw.memory_ranges = RangesOf(made.segments)
      BY <3>1 DEF Holds
    <3>3. Len(fw.memory_ranges) = Len(made.segments) /\ Len(made.segments) \in Nat
      BY <3>2, RangesOfSegments
    <3>4. /\ n \in Nat /\ n + 1 <= Len(made.segments) /\ n + 1 = k
          /\ k + 1 \in 1..(Len(made.segments) + 1) /\ (k + 1) - 1 = n + 1
      BY <1>1, <2>2, <3>1, <3>3
    <3>5. rn = made.segments[n + 1]
      BY <3>1, <3>4, HeldSegments
    <3>6. unwrapped' = [a \in DOMAIN unwrapped \cup {made.segments[n + 1].address} |->
                          IF a = made.segments[n + 1].address
                          THEN made.segments[n + 1].data ELSE unwrapped[a]]
      BY <1>4, <3>5, Zenon
    <3>7. LastOf(unwrapped, made.segments, n)
      BY <3>1
    <3> HIDE DEF n, rn
    <3>8. LastOf(unwrapped', made.segments, n + 1)
      BY <3>2, <3>4, <3>6, <3>7, LastOneMore
    <3> QED
      BY <3>1, <3>4, <3>8
  <2>4. UnwrapFits'
    BY <1>2, <1>4, <2>1, <2>3 DEF UnwrapFits
  <2>5. CSReadsOnlyGenuine' /\ ReadByItsMaker'
    BY <2>1 DEF CSReadsOnlyGenuine, ReadByItsMaker
  <2>6. k' \in Nat /\ LengthFits(fw')
    BY <1>4, <2>1, <2>2
  <2> QED
    BY <1>1, <2>1, <2>2, <2>4, <2>5, <2>6, UnwrapStepKeeps
<1> QED
  BY <1>3, <1>4 DEF UnwrapSegment

(* An unwrap that ends well has unwrapped every segment.                   *)
LEMMA AllUnwrappedKeeps ==
  ASSUME ToolInv, AllUnwrapped
  PROVE  ToolInv'
<1>1. /\ pc = "segments" /\ k > Len(fw.memory_ranges) /\ Exit("ok")
      /\ sent' = sent /\ unwrapped' = unwrapped /\ UNCHANGED files
  BY DEF AllUnwrapped, outputs
<1>2. FilesGood /\ (FilesGood' /\ (Intact' <=> Intact) /\ made' = made)
  BY <1>1, SameFiles DEF ToolInv
<1>3. Intact /\ made.class \in {"TYT", "CS"} => unwrapped = Outcome(made.segments)
  <2> SUFFICES ASSUME Intact, made.class \in {"TYT", "CS"}
               PROVE  unwrapped = Outcome(made.segments)
    OBVIOUS
  <2>1. /\ Holds(fw.data, fw.memory_ranges, made.segments)
        /\ k \in 1..(Len(made.segments) + 1)
        /\ LastOf(unwrapped, made.segments, k - 1)
    BY <1>1 DEF ToolInv, UnwrapFits
  <2>2. made.segments \in Seq(Segment) /\ fw.memory_ranges = RangesOf(made.segments)
    BY <2>1 DEF Holds
  <2>3. Len(fw.memory_ranges) = Len(made.segments) /\ Len(made.segments) \in Nat
    BY <2>2, RangesOfSegments
  <2>4. k - 1 = Len(made.segments)
    BY <1>1, <2>1, <2>3
  <2>5. LastOf(unwrapped, made.segments, Len(made.segments))
    BY <2>1, <2>4
  <2> QED
    BY <2>2, <2>5, LastIsOutcome
<1>4. UnwrapGivesBack'
  BY <1>1, <1>2, <1>3, UnwrapMeans
<1>5. FlashGivesWrapped'
  <2>1. sent' = <<>>
    BY <1>1 DEF ToolInv, OutputsFit
  <2> QED
    BY <2>1, FlashMeans
<1> QED
  BY <1>1, <1>2, <1>4, <1>5, ExitGood

-----------------------------------------------------------------------------
(* Codeplugs and devices.                                                  *)
LEMMA CodeplugInfoKeeps ==
  ASSUME ToolInv, CodeplugInfo
  PROVE  ToolInv'
<1>1. pc = "codeplug" /\ sent' = sent /\ UNCHANGED files
  BY DEF CodeplugInfo, outputs
<1>2. PICK s \in {"ok", "error", "crash"} : Exit(s)
  BY DEF CodeplugInfo
<1>3. command # "unwrap" /\ FilesGood'
  BY <1>1, SameFiles DEF ToolInv, CommandFits
<1> QED
  BY <1>1, <1>2, <1>3, ExitKeeps

LEMMA ListDevicesKeeps ==
  ASSUME ToolInv, ListDevices
  PROVE  ToolInv'
<1>1. pc = "list" /\ sent' = sent /\ UNCHANGED files
  BY DEF ListDevices, outputs
<1>2. PICK s \in {"ok", "error"} : Exit(s)
  BY DEF ListDevices
<1>3. command # "unwrap" /\ FilesGood'
  BY <1>1, SameFiles DEF ToolInv, CommandFits
<1> QED
  BY <1>1, <1>2, <1>3, ExitKeeps

LEMMA OpenDeviceKeeps ==
  ASSUME ToolInv, OpenDevice
  PROVE  ToolInv'
<1>1. pc = "device" /\ UNCHANGED <<outputs, files>> /\ sent' = sent
  BY DEF OpenDevice, outputs
<1>2. command \in {"codeplug-info", "list", "device"} /\ FilesGood'
  BY <1>1, SameFiles DEF ToolInv, CommandFits
<1>3. CASE Exit("error")
  BY <1>1, <1>2, <1>3, ExitKeeps
<1>4. CASE radio' \in Drivers /\ GoTo("operate") /\ UNCHANGED <<fw, k>>
  <2>1. pc' = "operate" /\ UNCHANGED <<opt, status>>
    BY <1>4 DEF GoTo
  <2>2. command' = command
    BY <2>1 DEF command
  <2>3. CommandFits'
    BY <1>2, <2>1, <2>2 DEF CommandFits, Wrapping, Unwrapping
  <2> QED
    BY <1>1, <1>2, <1>4, <2>1, <2>3, PlaceKeeps
<1> QED
  BY <1>3, <1>4 DEF OpenDevice

LEMMA OperateKeeps ==
  ASSUME ToolInv, Operate
  PROVE  ToolInv'
<1>1. pc = "operate" /\ UNCHANGED <<outputs, files>> /\ sent' = sent
  BY DEF Operate, outputs
<1>2. /\ command \in {"codeplug-info", "list", "device"} /\ FilesGood'
      /\ radio \in Drivers \cup {"none"}
  BY <1>1, SameFiles DEF ToolInv, CommandFits, TypeOK
<1>3. CASE Exit("error") \/ Exit("ok")
  BY <1>1, <1>2, <1>3, ExitKeeps
<1>4. CASE GoTo("flash") /\ UNCHANGED <<fw, k, radio>>
  <2>1. pc' = "flash" /\ UNCHANGED <<opt, status>>
    BY <1>4 DEF GoTo
  <2>2. command' = command
    BY <2>1 DEF command
  <2>3. CommandFits'
    BY <1>2, <2>1, <2>2 DEF CommandFits, Wrapping, Unwrapping
  <2> QED
    BY <1>1, <1>2, <1>4, <2>1, <2>3, PlaceKeeps
<1> QED
  BY <1>3, <1>4 DEF Operate

(* A TYT radio gets the segments of an intact container, encrypted.        *)
LEMMA TYTFlashed ==
  ASSUME NEW m, Filled(m), m.class = "TYT",
         NEW h \in Read(CreateHandler("TYT"), m.file)
  PROVE  FlashedFrom(ToSend(Prepared(h)), m)
<1> DEFINE segs == m.segments
           key == Config(m.radio).cipher
           out == GetDataSegments(h)
<1>1. segs \in Seq(Segment) /\ TYTMade(m)
  BY FilledParts
<1>2. key \in Seq(Byte) /\ Len(key) > 0
  BY <1>1, ModelRow DEF TYTMade
<1>3. ReadGood(h, "TYT", m.file)
  <2>1. Container(m.file) /\ "TYT" \in Readers
    BY <1>1 DEF TYTMade, Container, Readers
  <2> QED
    BY <2>1, ReadTyped
<1>4. ToSend(Prepared(h)) = out
  BY <1>3 DEF ReadGood, Prepared, ToSend
<1>5. HoldsXORed(h.data, key, h.memory_ranges, segs)
  BY MadeIsRead DEF KeyOf
<1> HIDE DEF key, out
<1>6. /\ Len(out) = Len(segs) /\ DOMAIN out = 1..Len(segs)
      /\ \A i \in 1..Len(segs) :
           /\ out[i].address = segs[i].address
           /\ ApplyXOR(out[i].data, key, RangeOffset(RangesOf(segs), i)) = segs[i].data
  BY <1>2, <1>5, EncryptedSegments DEF out
<1>7. \A i : RangeOffset(RangesOf(segs), i)
               = SumFirst([j \in DOMAIN segs |-> Len(segs[j].data)], i - 1)
  <2>1. DOMAIN RangesOf(segs) = DOMAIN segs
    BY DEF RangesOf
  <2>2. \A j \in DOMAIN segs : RangesOf(segs)[j].size = Len(segs[j].data)
    BY DEF RangesOf
  <2>3. [j \in DOMAIN RangesOf(segs) |-> RangesOf(segs)[j].size]
          = [j \in DOMAIN segs |-> Len(segs[j].data)]
    BY <2>1, <2>2
  <2> QED
    BY <2>3, Zenon DEF RangeOffset
<1>8. FlashedFrom(out, m)
  BY <1>6, <1>7 DEF FlashedFrom, key
<1> QED
  BY <1>4, <1>8

LEMMA WriteFirmwareKeeps ==
  ASSUME ToolInv, WriteFirmware
  PROVE  ToolInv'
<1>1. pc = "flash" /\ UNCHANGED <<unwrapped, files>>
  BY DEF WriteFirmware
<1>2. /\ command \in {"codeplug-info", "list", "device"}
      /\ FilesGood /\ (FilesGood' /\ (Intact' <=> Intact) /\ made' = made)
  BY <1>1, SameFiles DEF ToolInv, CommandFits
<1>3. CASE (Exit("error") \/ Exit("crash")) /\ UNCHANGED sent
  BY <1>1, <1>2, <1>3, ExitKeeps
<1>4. CASE \E h \in Read(CreateHandler(radio), packed) :
             sent' = ToSend(Prepared(h)) /\ Exit("ok")
  <2>1. PICK h \in Read(CreateHandler(radio), packed) :
          sent' = ToSend(Prepared(h)) /\ Exit("ok")
    BY <1>4
  <2>2. opt' = opt /\ radio' = radio
    BY <2>1 DEF Exit
  <2>3. UnwrapGivesBack'
    <3>1. command' = command
      BY <2>2 DEF command
    <3> QED
      BY <1>2, <3>1, UnwrapMeans
  <2>4. Intact' /\ radio' = "TYT" /\ made'.class = "TYT" => FlashedFrom(sent', made')
    <3> SUFFICES ASSUME Intact', radio' = "TYT", made'.class = "TYT"
                 PROVE  FlashedFrom(sent', made')
      OBVIOUS
    <3>1. Filled(made) /\ packed = made.file
      BY <1>2, IntactFilled
    <3>2. h \in Read(CreateHandler("TYT"), made.file)
      BY <2>2, <3>1
    <3>3. FlashedFrom(ToSend(Prepared(h)), made)
      BY <1>2, <3>1, <3>2, TYTFlashed
    <3> QED
      BY <1>2, <2>1, <3>3
  <2>5. FlashGivesWrapped'
    BY <2>4, FlashMeans
  <2> QED
    BY <1>2, <2>1, <2>3, <2>5, ExitGood
<1> QED
  BY <1>3, <1>4 DEF WriteFirmware

-----------------------------------------------------------------------------
(* What a kill leaves of a file, and what happens to one that nobody       *)
(* writes.                                                                 *)
LEMMA KillKeeps ==
  ASSUME ToolInv, Kill
  PROVE  ToolInv'
<1>1. pc \in Inside /\ Exit("killed") /\ sent' = sent /\ made' = made
  BY DEF Kill, outputs
<1>2. pc # "exited"
  BY <1>1 DEF Inside
<1>3. FilesGood
  BY DEF ToolInv
<1>4. FilesGood'
  <2>1. CASE UNCHANGED packed
    BY <1>1, <1>3, <2>1, SameFiles DEF files
  <2>2. CASE /\ pc = "write" /\ (fw.class = "CS" => CSOneSegment(fw))
             /\ packed' \in Beginnings(Written(fw))
    <3>1. Sealed(fw, opt.radio, AllGiven(opt))
      BY <2>2 DEF ToolInv, WrapFits
    <3>2. Container(Written(fw)) /\ (Written(fw).format = "cs" => Genuine(Written(fw)))
      BY <2>2, <3>1, WrittenContainer
    <3>3. PICK g \in Beginnings(Written(fw)) : packed' = g
      BY <2>2
    <3>4. Container(g) /\ ~CSReadable(g)
      BY <3>2, BeginningOf
    <3> QED
      BY <1>1, <1>3, <3>3, <3>4 DEF FilesGood
  <2> QED
    BY <2>1, <2>2 DEF Kill
<1> QED
  BY <1>1, <1>2, <1>4, ExitKeeps

LEMMA ChangeKeeps ==
  ASSUME ToolInv, Change
  PROVE  ToolInv'
<1>1. /\ packed = made.file /\ packed # Missing
      /\ pc' = pc /\ opt' = opt /\ fw' = fw /\ k' = k /\ radio' = radio
      /\ unwrapped' = unwrapped /\ sent' = sent /\ status' = status /\ made' = made
  BY DEF Change, outputs
<1>2. MadeGood(made) /\ made # NotMade
  BY <1>1 DEF ToolInv, FilesGood, NotMade
<1>3. Container(packed) /\ (packed.format = "cs" => Genuine(packed))
  BY <1>1, <1>2, MadeContainer
<1>4. (packed' = Missing \/ Container(packed')) /\ ~CSReadable(packed')
  <2>1. CASE packed' = Missing
    BY <2>1 DEF CSReadable, CSSizeGood, Missing
  <2>2. CASE packed' \in Beginnings(packed)
    <3>1. PICK g \in Beginnings(packed) : packed' = g
      BY <2>2
    <3>2. Container(g) /\ ~CSReadable(g)
      BY <1>3, BeginningOf
    <3> QED
      BY <3>1, <3>2
  <2>3. CASE \E z \in DOMAIN packed.rest, b \in 3..7 :
               packed' = [packed EXCEPT !.rest[z] = Xor(@, {b})]
    <3>1. PICK z \in DOMAIN packed.rest, b \in 3..7 :
            packed' = [packed EXCEPT !.rest[z] = Xor(@, {b})]
      BY <2>3
    <3> DEFINE g == [packed EXCEPT !.rest[z] = Xor(@, {b})]
    <3>2. Container(g) /\ ~CSReadable(g)
      BY <1>3, DamagedOf
    <3> QED
      BY <3>1, <3>2
  <2> QED
    BY <2>1, <2>2, <2>3 DEF Change
<1>5. FilesGood'
  BY <1>1, <1>2, <1>4 DEF FilesGood
<1>6. Intact' => Intact
  BY <1>1 DEF Intact
<1>7. TypeOK' /\ CommandFits' /\ OutputsFit'
  <2>1. command' = command
    BY <1>1 DEF command
  <2> QED
    BY <1>1, <2>1 DEF ToolInv, TypeOK, CommandFits, OutputsFit
<1>8. WrapFits'
  BY <1>1 DEF ToolInv, WrapFits, AllGiven, GivenSegments
<1>9. UnwrapFits'
  BY <1>1, <1>6 DEF ToolInv, UnwrapFits, HoldsIntact, HandlerShape
<1>10. CSReadsOnlyGenuine' /\ ReadByItsMaker'
  BY <1>1, <1>6 DEF ToolInv, CSReadsOnlyGenuine, ReadByItsMaker, Config
<1>11. UnwrapGivesBack' /\ FlashGivesWrapped'
  <2>1. command' = command
    BY <1>1 DEF command
  <2>2. UnwrapGivesBack /\ FlashGivesWrapped
    BY DEF ToolInv
  <2> QED
    BY <1>1, <1>6, <2>1, <2>2, UnwrapMeans, FlashMeans
<1> QED
  BY <1>5, <1>7, <1>8, <1>9, <1>10, <1>11 DEF ToolInv

LEMMA StutterKeeps ==
  ASSUME ToolInv, UNCHANGED vars
  PROVE  ToolInv'
<1> USE DEF vars
<1>1. UNCHANGED files /\ command' = command
  BY DEF files, command
<1>2. FilesGood' /\ (Intact' <=> Intact)
  BY <1>1, SameFiles DEF ToolInv
<1>3. TypeOK' /\ CommandFits' /\ OutputsFit'
  BY <1>1 DEF ToolInv, TypeOK, CommandFits, OutputsFit
<1>4. WrapFits'
  BY DEF ToolInv, WrapFits, AllGiven, GivenSegments
<1>5. UnwrapFits'
  BY <1>2 DEF ToolInv, UnwrapFits, HoldsIntact, HandlerShape
<1>6. CSReadsOnlyGenuine' /\ ReadByItsMaker'
  BY <1>2 DEF ToolInv, CSReadsOnlyGenuine, ReadByItsMaker, Config
<1>7. UnwrapGivesBack' /\ FlashGivesWrapped'
  <2>1. UnwrapGivesBack /\ FlashGivesWrapped
    BY DEF ToolInv
  <2> QED
    BY <1>1, <1>2, <2>1, UnwrapMeans, FlashMeans
<1> QED
  BY <1>2, <1>3, <1>4, <1>5, <1>6, <1>7 DEF ToolInv

-----------------------------------------------------------------------------
LEMMA NextKeeps ==
  ASSUME ToolInv, [Next]_vars
  PROVE  ToolInv'
<1>1. CASE Start
  BY <1>1, StartKeeps
<1>2. CASE ParseOptions
  BY <1>2, ParseKeeps
<1>3. CASE ChooseModelHandler
  BY <1>3, ModelHandlerKeeps
<1>4. CASE AddSegment
  BY <1>4, AddSegmentKeeps
<1>5. CASE AllAdded
  BY <1>5, AllAddedKeeps
<1>6. CASE EncryptAll
  BY <1>6, EncryptAllKeeps
<1>7. CASE OpenOutput
  BY <1>7, OpenOutputKeeps
<1>8. CASE WriteContent
  BY <1>8, WriteContentKeeps
<1>9. CASE ChooseFileHandler
  BY <1>9, FileHandlerKeeps
<1>10. CASE ReadFile
  BY <1>10, ReadFileKeeps
<1>11. CASE DecryptAll
  BY <1>11, DecryptAllKeeps
<1>12. CASE UnwrapSegment
  BY <1>12, UnwrapSegmentKeeps
<1>13. CASE AllUnwrapped
  BY <1>13, AllUnwrappedKeeps
<1>14. CASE CodeplugInfo
  BY <1>14, CodeplugInfoKeeps
<1>15. CASE ListDevices
  BY <1>15, ListDevicesKeeps
<1>16. CASE OpenDevice
  BY <1>16, OpenDeviceKeeps
<1>17. CASE Operate
  BY <1>17, OperateKeeps
<1>18. CASE WriteFirmware
  BY <1>18, WriteFirmwareKeeps
<1>19. CASE Kill
  BY <1>19, KillKeeps
<1>20. CASE Change
  BY <1>20, ChangeKeeps
<1>21. CASE UNCHANGED vars
  BY <1>21, StutterKeeps
<1> QED
  BY <1>1, <1>2, <1>3, <1>4, <1>5, <1>6, <1>7, <1>8, <1>9, <1>10, <1>11, <1>12,
     <1>13, <1>14, <1>15, <1>16, <1>17, <1>18, <1>19, <1>20, <1>21 DEF Next, Step

(* At every place of main the handler and the container are what main has  *)
(* made of the segments so far, and the properties of RadioTool hold: in   *)
(* every sequence of runs, with kills and changes of the container         *)
(* (src/radio_tool.cpp and the classes it calls).                          *)
THEOREM Invariance == Spec => []ToolInv
<1>1. Init => ToolInv
  BY InitKeeps
<1>2. ToolInv /\ [Next]_vars => ToolInv'
  BY NextKeeps
<1> QED
  BY <1>1, <1>2, PTL DEF Spec

(* In every state main holds what it may hold; a handler of a class with   *)
(* ranges has as much data as its ranges say, whichever way it came by     *)
(* them (AppendSegment, Read, the ciphers: fw/fw.hpp and its classes).     *)
THEOREM ToolTypes == Spec => []TypeOK
<1>1. ToolInv => TypeOK
  BY DEF ToolInv
<1> QED
  BY <1>1, Invariance, PTL

(* --unwrap decrypts as a Connect Systems file only what a wrap has        *)
(* written to its end, with the address and the image of that wrap: no     *)
(* beginning of such a file and none in which a bit of weight 8 or more    *)
(* has changed gets past CSFW::Read (src/cs_fw.cpp).                       *)
THEOREM ReadsOnlyGenuine == Spec => []CSReadsOnlyGenuine
<1>1. ToolInv => CSReadsOnlyGenuine
  BY DEF ToolInv
<1> QED
  BY <1>1, Invariance, PTL

(* GetFirmwareFileHandler (fw/fw_factory.hpp) finds for an intact          *)
(* container the class that has written it, and Read the counter magic of  *)
(* the model it was wrapped for.                                           *)
THEOREM MakerReads == Spec => []ReadByItsMaker
<1>1. ToolInv => ReadByItsMaker
  BY DEF ToolInv
<1> QED
  BY <1>1, Invariance, PTL

(* What --unwrap writes of an intact TYT or Connect Systems container is,  *)
(* at each address, the last segment that --wrap was given for it          *)
(* (src/radio_tool.cpp).                                                   *)
THEOREM WrapUnwrap == Spec => []UnwrapGivesBack
<1>1. ToolInv => UnwrapGivesBack
  BY DEF ToolInv
<1> QED
  BY <1>1, Invariance, PTL

(* A TYT radio that is flashed with an intact container gets the wrapped   *)
(* segments in order, each encrypted with the model's key from the place   *)
(* on where the segment before it ends (TYTRadio::WriteFirmware).          *)
THEOREM WrapFlash == Spec => []FlashGivesWrapped
<1>1. ToolInv => FlashGivesWrapped
  BY DEF ToolInv
<1> QED
  BY <1>1, Invariance, PTL
=============================================================================

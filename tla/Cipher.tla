------------------------------- MODULE Cipher -------------------------------
(***************************************************************************)
(* The keys of include/radio_tool/fw/cipher and the ciphers that the       *)
(* firmware classes build on ApplyXOR.  A key is a table of bytes; which   *)
(* bytes, and how many, is a parameter.                                    *)
(***************************************************************************)
EXTENDS Bytes

CONSTANT
  Tables   \* what the tables hold: a sequence of bytes for each name

TableNames == {"dm1701", "md380", "md9600", "uv3x0", "cs800_0", "sgl"}

ASSUME TablesAssumption ==
  /\ DOMAIN Tables = TableNames
  /\ \A n \in TableNames : Tables[n] \in Seq(Byte) /\ Len(Tables[n]) > 0

dm1701  == Tables["dm1701"]
md380   == Tables["md380"]
md9600  == Tables["md9600"]
uv3x0   == Tables["uv3x0"]
cs800_0 == Tables["cs800_0"]
sgl     == Tables["sgl"]

-----------------------------------------------------------------------------
(* TYTSGLFW: after the XOR a byte is rotated and complemented. *)
RotateRight3(b) == {k \in Bits : (IF k <= 4 THEN k + 3 ELSE k - 5) \in b}

RotateLeft3(b) == {k \in Bits : (IF k >= 3 THEN k - 3 ELSE k + 5) \in b}

SGLEncrypt(data, key, xor_offset) ==
  LET xored == ApplyXOR(data, key, xor_offset)
  IN  [z \in DOMAIN data |-> Bits \ RotateRight3(xored[z])]

SGLDecrypt(data, key, xor_offset) ==
  ApplyXOR([z \in DOMAIN data |-> Bits \ RotateLeft3(data[z])], key, xor_offset)

-----------------------------------------------------------------------------
(* AilunceFW::ApplyXOR: four bytes at a time as a word, a set of bits of   *)
(* 0..31, and what is left byte by byte.                                   *)
WordBits == 0..31

(* 0x01111111 and 0x07777777 *)
Nibbles1 == {0, 4, 8, 12, 16, 20, 24}

Nibbles7 == {k \in 0..27 : k % 4 # 3}

AilunceWord(w) ==
  IF w \in {{}, WordBits} THEN Xor(w, WordBits)
  ELSE IF 28 \in w THEN Xor(w, Nibbles1)
  ELSE Xor(w, Nibbles7)

AilunceLast(b) ==
  IF b \in {Zero, Ones} THEN Xor(b, Ones)
  ELSE IF 0 \in b THEN Xor(b, {0})
  ELSE Xor(b, {0, 1, 2})

(* The word that holds byte z, the first byte being the lowest. *)
WordAt(data, z) ==
  LET first == z - ((z - 1) % 4)
  IN  UNION {{8 * i + k : k \in data[first + i]} : i \in 0..3}

ByteOfWord(w, i) == {k \in Bits : 8 * i + k \in w}

AilunceXOR(data) ==
  [z \in DOMAIN data |->
     IF z <= 4 * (Len(data) \div 4)
     THEN ByteOfWord(AilunceWord(WordAt(data, z)), (z - 1) % 4)
     ELSE AilunceLast(data[z])]
=============================================================================

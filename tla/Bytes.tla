------------------------------- MODULE Bytes -------------------------------
(***************************************************************************)
(* Bytes and the helpers of include/radio_tool/util.hpp that the tool      *)
(* calls.  A byte is the set of its bits that are 1.                       *)
(***************************************************************************)
EXTENDS Integers, Sequences

Bits == 0..7

Byte == SUBSET Bits

Zero == {}     \* 0x00

Ones == Bits   \* 0xff

Xor(a, b) == (a \ b) \cup (b \ a)

(* The number a byte stands for, and the low byte of a number. *)
Value(b) ==
  LET bit(k, weight) == IF k \in b THEN weight ELSE 0
  IN  bit(0, 1) + bit(1, 2) + bit(2, 4) + bit(3, 8)
        + bit(4, 16) + bit(5, 32) + bit(6, 64) + bit(7, 128)

Weights == <<1, 2, 4, 8, 16, 32, 64, 128>>

ByteOf(n) == {k \in Bits : (n \div Weights[k + 1]) % 2 = 1}

(* A loop that adds up numbers, after the first n of them. *)
SumFirst(numbers, n) ==
  LET sum[i \in 0..Len(numbers)] == IF i = 0 THEN 0 ELSE sum[i - 1] + numbers[i]
  IN  sum[n]

(* ApplyXOR: a key that repeats, from xor_offset on, over all of the data. *)
ApplyXOR(data, xor_key, xor_offset) ==
  [z \in DOMAIN data |->
     Xor(data[z], xor_key[1 + ((xor_offset + (z - 1)) % Len(xor_key))])]

Total(bytes) == SumFirst([z \in DOMAIN bytes |-> Value(bytes[z])], Len(bytes))

(* Mutant: the sum is divided once more. *)
CSChecksumCoarse(total) ==
  LET fifth == (total % 65536) \div 500
  IN  <<ByteOf(fifth \div 256), ByteOf(fifth % 256)>>

(* CSChecksum of bytes with this total: a fifth of it, the high byte first. *)
CSChecksum(total) ==
  LET fifth == (total % 65536) \div 5
  IN  <<ByteOf(fifth \div 256), ByteOf(fifth % 256)>>

-----------------------------------------------------------------------------
(* _bcd, _dcb: two decimal digits in a byte, here as a number. *)
bcd(c) == (c % 16) + (c \div 16) * 10

dcb(c) == (c \div 10) * 16 + (c % 10)

Times == [year : 0..9999, mon : 1..12, mday : 1..31,
          hour : 0..23, min : 0..59, sec : 0..60]

(* The fields ParseBCDTimestamp gives to mktime, which is external. *)
ParseBCDTimestamp(time) ==
  [year |-> bcd(time[1]) * 100 + bcd(time[2]), mon |-> bcd(time[3]),
   mday |-> bcd(time[4]), hour |-> bcd(time[5]), min |-> bcd(time[6]),
   sec  |-> bcd(time[7])]

MakeBCDTimestamp(t) ==
  <<dcb(t.year \div 100), dcb(t.year - (t.year \div 100) * 100), dcb(t.mon),
    dcb(t.mday), dcb(t.hour), dcb(t.min), dcb(t.sec)>>
=============================================================================

------------------------- MODULE FrameStreamProofs -------------------------
(***************************************************************************)
(* Proofs about FrameStream.tla and the operators of WebSocketFrame.tla,   *)
(* and, at the end, about PartialMessage.tla:                              *)
(* for all messages of up to 2^31 - 1 bytes, masked or not, all sizes of   *)
(* the socket buffer, and however the connection cuts the stream, the      *)
(* receiver gets the messages that were sent, and gives up only where the  *)
(* next one is not all there.                                              *)
(*                                                                         *)
(* The invariant: what the receiver has not made a message of, with what   *)
(* it has read ahead and what is on the connection, is the concatenation   *)
(* of the encodings of the messages sent and not received, or a prefix of  *)
(* it once the connection has ended.  It rests on three facts about the    *)
(* encoding: the second byte tells the length of the header, the header    *)
(* is read as it was written, and unmasking twice changes nothing.         *)
(***************************************************************************)
EXTENDS FrameStream, PartialMessage, SequenceInduction
-----------------------------------------------------------------------------
LEMMA BitsOfByte ==
    \A a \in Byte :
        a = ((a \div 1) % 2) + 2 * ((a \div 2) % 2) + 4 * ((a \div 4) % 2) + 8 * ((a \div 8) % 2)
            + 16 * ((a \div 16) % 2) + 32 * ((a \div 32) % 2) + 64 * ((a \div 64) % 2)
            + 128 * ((a \div 128) % 2)
BY SMTT(60) DEF Byte

LEMMA ByteOfBits ==
    \A a, b, c, d, e, f, g, h \in {0, 1} :
        LET n == a + 2 * b + 4 * c + 8 * d + 16 * e + 32 * f + 64 * g + 128 * h
        IN /\ n \in Byte
           /\ (n \div 1) % 2 = a
           /\ (n \div 2) % 2 = b
           /\ (n \div 4) % 2 = c
           /\ (n \div 8) % 2 = d
           /\ (n \div 16) % 2 = e
           /\ (n \div 32) % 2 = f
           /\ (n \div 64) % 2 = g
           /\ (n \div 128) % 2 = h
BY SMTT(60) DEF Byte

LEMMA DifferTwice ==
    \A p, q, r \in Nat : /\ (p + q) % 2 \in {0, 1}
                         /\ r % 2 = (p + q) % 2 => (r + q) % 2 = p % 2
BY SMTT(60)

(* Bytes have no bit twice.                                                *)
LEMMA XorTwice ==
    \A a, b \in Byte : XorByte(a, b) \in Byte /\ XorByte(XorByte(a, b), b) = a
<1> TAKE a \in Byte, b \in Byte
<1> DEFINE Bit(w) == ((a \div w) + (b \div w)) % 2
<1>0. \A w \in {1, 2, 4, 8, 16, 32, 64, 128} :
         /\ a \div w \in Nat /\ b \div w \in Nat
         /\ Bit(w) \in {0, 1}
  <2>1. a \in Nat /\ b \in Nat
    BY DEF Byte
  <2>2. \A w \in {1, 2, 4, 8, 16, 32, 64, 128} : a \div w \in Nat /\ b \div w \in Nat
    BY <2>1
  <2> QED BY <2>2, DifferTwice
<1>1. PICK x \in Int :
         x = Bit(1) + 2 * Bit(2) + 4 * Bit(4) + 8 * Bit(8) + 16 * Bit(16) + 32 * Bit(32)
                 + 64 * Bit(64) + 128 * Bit(128)
  <2> HIDE DEF Bit
  <2> QED BY <1>0
<1>2. /\ x \in Byte
      /\ \A w \in {1, 2, 4, 8, 16, 32, 64, 128} : (x \div w) % 2 = Bit(w)
  <2> HIDE DEF Bit
  <2>1. /\ Bit(1) \in {0, 1} /\ Bit(2) \in {0, 1} /\ Bit(4) \in {0, 1} /\ Bit(8) \in {0, 1}
        /\ Bit(16) \in {0, 1} /\ Bit(32) \in {0, 1} /\ Bit(64) \in {0, 1}
        /\ Bit(128) \in {0, 1}
    BY <1>0
  <2>2. PICK c1, c2, c4, c8, c16, c32, c64, c128 \in {0, 1} :
            /\ c1 = Bit(1) /\ c2 = Bit(2) /\ c4 = Bit(4) /\ c8 = Bit(8)
            /\ c16 = Bit(16) /\ c32 = Bit(32) /\ c64 = Bit(64) /\ c128 = Bit(128)
    BY <2>1
  <2>3. PICK n : n = c1 + 2 * c2 + 4 * c4 + 8 * c8 + 16 * c16 + 32 * c32 + 64 * c64 + 128 * c128
    OBVIOUS
  <2>4. /\ n \in Byte
        /\ (n \div 1) % 2 = c1 /\ (n \div 2) % 2 = c2 /\ (n \div 4) % 2 = c4
        /\ (n \div 8) % 2 = c8 /\ (n \div 16) % 2 = c16 /\ (n \div 32) % 2 = c32
        /\ (n \div 64) % 2 = c64 /\ (n \div 128) % 2 = c128
    BY <2>3, ByteOfBits
  <2>5. x = n
    BY <1>1, <2>2, <2>3
  <2> QED BY <2>2, <2>4, <2>5
<1>3. XorByte(a, b) = x
  BY <1>1, <1>0 DEF XorByte
<1>4. ASSUME NEW w \in {1, 2, 4, 8, 16, 32, 64, 128}
      PROVE  ((x \div w) + (b \div w)) % 2 = (a \div w) % 2
  <2>1. x \div w \in Nat
    BY <1>2 DEF Byte
  <2>2. PICK p \in Nat, q \in Nat, r \in Nat : p = a \div w /\ q = b \div w /\ r = x \div w
    BY <1>0, <2>1, ZenonT(60)
  <2>3. r % 2 = (p + q) % 2
    BY <1>2, <2>2
  <2> QED BY <2>2, <2>3, DifferTwice
<1>5. XorByte(x, b) = ((a \div 1) % 2) + 2 * ((a \div 2) % 2) + 4 * ((a \div 4) % 2)
         + 8 * ((a \div 8) % 2) + 16 * ((a \div 16) % 2) + 32 * ((a \div 32) % 2)
         + 64 * ((a \div 64) % 2) + 128 * ((a \div 128) % 2)
  <2>1. /\ ((x \div 1) + (b \div 1)) % 2 = (a \div 1) % 2
        /\ ((x \div 2) + (b \div 2)) % 2 = (a \div 2) % 2
        /\ ((x \div 4) + (b \div 4)) % 2 = (a \div 4) % 2
        /\ ((x \div 8) + (b \div 8)) % 2 = (a \div 8) % 2
        /\ ((x \div 16) + (b \div 16)) % 2 = (a \div 16) % 2
        /\ ((x \div 32) + (b \div 32)) % 2 = (a \div 32) % 2
        /\ ((x \div 64) + (b \div 64)) % 2 = (a \div 64) % 2
        /\ ((x \div 128) + (b \div 128)) % 2 = (a \div 128) % 2
    BY <1>4
  <2>2. XorByte(x, b) =
           1 * (((x \div 1) + (b \div 1)) % 2) + 2 * (((x \div 2) + (b \div 2)) % 2)
           + 4 * (((x \div 4) + (b \div 4)) % 2) + 8 * (((x \div 8) + (b \div 8)) % 2)
           + 16 * (((x \div 16) + (b \div 16)) % 2) + 32 * (((x \div 32) + (b \div 32)) % 2)
           + 64 * (((x \div 64) + (b \div 64)) % 2)
           + 128 * (((x \div 128) + (b \div 128)) % 2)
    BY Zenon DEF XorByte
  <2>3. 1 * ((a \div 1) % 2) = (a \div 1) % 2
    BY DEF Byte
  <2> QED BY <2>1, <2>2, <2>3
<1> QED BY <1>2, <1>3, <1>5, BitsOfByte
-----------------------------------------------------------------------------
(* The function ToHost is defined with: the values of the prefixes.        *)
IsValue(f, bytes) ==
    f = [i \in 0..Len(bytes) |-> IF i = 0 THEN 0 ELSE 256 * f[i - 1] + bytes[i]]

(* It exists.                                                              *)
LEMMA ValueExists ==
    ASSUME NEW bytes, Len(bytes) \in Nat
    PROVE  \E f : IsValue(f, bytes)
<1> DEFINE Step(f, i) == IF i = 0 THEN 0 ELSE 256 * f[i - 1] + bytes[i]
           Upto(f, k) == f = [i \in 0..k |-> Step(f, i)]
           T == {k \in Nat : \E f : Upto(f, k)}
<1>1. 0 \in T
  <2>1. PICK g : g = [i \in 0..0 |-> 0]
    OBVIOUS
  <2>2. \A i \in 0..0 : i = 0 /\ Step(g, i) = 0
    OBVIOUS
  <2>3. Upto(g, 0)
    BY <2>1, <2>2
  <2> QED BY <2>3
<1>2. ASSUME NEW k \in T PROVE k + 1 \in T
  <2>1. PICK f : Upto(f, k)
    OBVIOUS
  <2> DEFINE g == [i \in 0..(k + 1) |-> IF i = k + 1 THEN Step(f, i) ELSE f[i]]
  <2>2. ASSUME NEW i \in 0..(k + 1) PROVE g[i] = Step(g, i)
    <3>1. i # 0 => i - 1 \in 0..k
      OBVIOUS
    <3>2. i # 0 => g[i - 1] = f[i - 1]
      BY <3>1
    <3>3. Step(g, i) = Step(f, i)
      BY <3>2
    <3>4. CASE i = k + 1
      BY <3>3, <3>4
    <3>5. CASE i # k + 1
      <4>1. i \in 0..k /\ g[i] = f[i]
        BY <3>5
      <4> HIDE DEF g, Step
      <4>2. f[i] = Step(f, i)
        BY <4>1, <2>1
      <4> QED BY <4>1, <4>2, <3>3
    <3> QED BY <3>4, <3>5
  <2>3. Upto(g, k + 1)
    <3> HIDE DEF Step
    <3>1. DOMAIN g = 0..(k + 1) /\ g = [i \in 0..(k + 1) |-> g[i]]
      OBVIOUS
    <3> HIDE DEF g
    <3> QED BY <3>1, <2>2
  <2> HIDE DEF Upto, g
  <2> QED BY <2>3
<1> HIDE DEF T
<1>3. T = Nat
  <2>1. T \in SUBSET Nat
    BY DEF T
  <2> QED BY <2>1, <1>1, <1>2, InductiveSet
<1>4. Len(bytes) \in T
  BY <1>3
<1> QED BY <1>4 DEF T, IsValue

(* ToHost yields the last of them.                                         *)
LEMMA ToHostDef ==
    ASSUME NEW bytes, Len(bytes) \in Nat
    PROVE  \E f : /\ ToHost(bytes) = f[Len(bytes)] /\ f[0] = 0
                  /\ \A i \in 1..Len(bytes) : f[i] = 256 * f[i - 1] + bytes[i]
<1> DEFINE f == CHOOSE g : IsValue(g, bytes)
<1>1. IsValue(f, bytes)
  BY ValueExists
<1>2. ToHost(bytes) = f[Len(bytes)]
  BY DEF ToHost, IsValue
<1> HIDE DEF f
<1>3. f[0] = 0 /\ \A i \in 1..Len(bytes) : f[i] = 256 * f[i - 1] + bytes[i]
  BY <1>1 DEF IsValue
<1> QED BY <1>2, <1>3

(* The bytes of a number are bytes.                                        *)
LEMMA ToNetworkType ==
    ASSUME NEW n \in Nat, NEW w \in {0, 2, 8}
    PROVE  ToNetwork(n, w) \in Seq(Byte) /\ Len(ToNetwork(n, w)) = w
<1>1. \A k \in {1, 256, 65536, 16777216} : (n \div k) % 256 \in Byte
  BY SMTT(10) DEF Byte
<1>2. \A i \in 1..w : ~(w - i > 3) => Weight[w - i + 1] \in {1, 256, 65536, 16777216}
  <2> TAKE i \in 1..w
  <2> HAVE ~(w - i > 3)
  <2>1. PICK j \in 1..4 : j = w - i + 1
    BY SMTT(10)
  <2>2. Weight[j] \in {1, 256, 65536, 16777216}
    BY SMTT(10) DEF Weight
  <2> QED BY <2>1, <2>2, SMTT(10)
<1>3. \A i \in 1..w : (IF w - i > 3 THEN 0 ELSE (n \div Weight[w - i + 1]) % 256) \in Byte
  <2>1. 0 \in Byte
    BY DEF Byte
  <2> QED BY <1>1, <1>2, <2>1, SMTT(10)
<1>4. w \in Nat
  OBVIOUS
<1>5. PICK s : s = [i \in 1..w |-> IF w - i > 3 THEN 0 ELSE (n \div Weight[w - i + 1]) % 256]
  OBVIOUS
<1>6. s \in Seq(Byte) /\ Len(s) = w
  BY <1>3, <1>4, <1>5, SMTT(10)
<1> QED BY <1>5, <1>6, Zenon DEF ToNetwork

(* The value of a sequence of bytes, step by step.                         *)
LEMMA Values ==
    ASSUME NEW n \in Nat, NEW w \in {2, 8}
    PROVE  \E f : /\ ToHost(ToNetwork(n, w)) = f[w] /\ f[0] = 0
                  /\ \A i \in 1..w : f[i] = 256 * f[i - 1] + ToNetwork(n, w)[i]
<1>1. PICK b : b = ToNetwork(n, w)
  OBVIOUS
<1>2. Len(b) = w /\ w \in Nat
  <2>1. w \in {0, 2, 8} /\ w \in Nat
    OBVIOUS
  <2> QED BY <1>1, <2>1, ToNetworkType
<1>3. \E f : /\ ToHost(b) = f[Len(b)] /\ f[0] = 0
             /\ \A i \in 1..Len(b) : f[i] = 256 * f[i - 1] + b[i]
  <2>1. Len(b) \in Nat
    BY <1>2
  <2> HIDE <1>2
  <2> QED BY <2>1, ToHostDef
<1> QED BY <1>1, <1>2, <1>3

(* A number of 16 bits is read as it was written.                          *)
LEMMA TwoBytes ==
    ASSUME NEW n \in Nat, n <= 65535
    PROVE  ToHost(ToNetwork(n, 2)) = n
<1>1. PICK b : b = ToNetwork(n, 2)
  OBVIOUS
<1>2. b[1] = (n \div 256) % 256 /\ b[2] = (n \div 1) % 256
  BY <1>1, SMTT(10) DEF ToNetwork, Weight
<1>3. PICK f : /\ ToHost(b) = f[2] /\ f[0] = 0
               /\ \A i \in 1..2 : f[i] = 256 * f[i - 1] + b[i]
  BY <1>1, Values, SMTT(10)
<1>4. f[1] = 256 * f[0] + b[1] /\ f[2] = 256 * f[1] + b[2]
  BY <1>3, SMTT(10)
<1>5. ToHost(b) = 256 * b[1] + b[2]
  BY <1>2, <1>3, <1>4, SMTT(10)
<1> QED BY <1>1, <1>2, <1>5, SMTT(10)

(* A number of 31 bits in eight bytes, too.                                *)
LEMMA EightBytes ==
    ASSUME NEW n \in Nat, n <= MaxLength
    PROVE  ToHost(ToNetwork(n, 8)) = n
<1>1. PICK b : b = ToNetwork(n, 8)
  OBVIOUS
<1>2. /\ b[1] = 0 /\ b[2] = 0 /\ b[3] = 0 /\ b[4] = 0
      /\ b[5] = (n \div 16777216) % 256 /\ b[6] = (n \div 65536) % 256
      /\ b[7] = (n \div 256) % 256 /\ b[8] = (n \div 1) % 256
  BY <1>1, SMTT(10) DEF ToNetwork, Weight
<1>3. PICK f : /\ ToHost(b) = f[8] /\ f[0] = 0
               /\ \A i \in 1..8 : f[i] = 256 * f[i - 1] + b[i]
  BY <1>1, Values, SMTT(10)
<1>4. /\ f[1] = 256 * f[0] + b[1] /\ f[2] = 256 * f[1] + b[2]
      /\ f[3] = 256 * f[2] + b[3] /\ f[4] = 256 * f[3] + b[4]
      /\ f[5] = 256 * f[4] + b[5] /\ f[6] = 256 * f[5] + b[6]
      /\ f[7] = 256 * f[6] + b[7] /\ f[8] = 256 * f[7] + b[8]
  BY <1>3, SMTT(10)
<1>5. f[4] = 0
  BY <1>2, <1>3, <1>4, SMTT(10)
<1>6. PICK p \in Nat, q \in Nat, r \in Nat, s \in Nat :
          /\ p = (n \div 16777216) % 256 /\ q = (n \div 65536) % 256
          /\ r = (n \div 256) % 256 /\ s = (n \div 1) % 256
          /\ n = 16777216 * p + 65536 * q + 256 * r + s
  <2>1. /\ (n \div 16777216) % 256 \in Nat /\ (n \div 65536) % 256 \in Nat
        /\ (n \div 256) % 256 \in Nat /\ (n \div 1) % 256 \in Nat
    BY SMTT(10)
  <2>2. n = 16777216 * ((n \div 16777216) % 256) + 65536 * ((n \div 65536) % 256)
            + 256 * ((n \div 256) % 256) + ((n \div 1) % 256)
    BY SMTT(10) DEF MaxLength
  <2> QED BY <2>1, <2>2, SMTT(10)
<1>7. f[5] = p /\ f[6] = 256 * p + q /\ f[7] = 65536 * p + 256 * q + r
  BY <1>2, <1>4, <1>5, <1>6, SMTT(10)
<1>8. f[8] = n
  <2>1. f[8] = 256 * f[7] + s
    BY <1>2, <1>4, <1>6, SMTT(10)
  <2>2. PICK g \in Nat : g = 65536 * p + 256 * q + r
    BY SMTT(10)
  <2>3. f[8] = 256 * g + s
    BY <2>1, <2>2, <1>7, SMTT(10)
  <2>4. 256 * g + s = n
    BY <2>2, <1>6, SMTT(10)
  <2> QED BY <2>3, <2>4, SMTT(10)
<1> QED BY <1>1, <1>3, <1>8, SMTT(10)
-----------------------------------------------------------------------------
(* The byte of the key that goes with a byte of the payload is one of four.*)
LEMMA KeyIndex ==
    \A n \in Nat : \A i \in 1..n :
        /\ ((i - 1) % 4) + 1 \in 1..4
        /\ ~(i <= 4 * (n \div 4)) => i - 4 * (n \div 4) \in 1..4
BY SMTT(30)

(* Unmasking what has been masked yields the payload.                      *)
LEMMA UnMaskTwice ==
    ASSUME NEW payload \in Seq(Byte), NEW key \in Seq(Byte), Len(key) = 4
    PROVE  /\ UnMaskData(payload, key) \in Seq(Byte)
           /\ Len(UnMaskData(payload, key)) = Len(payload)
           /\ UnMaskData(UnMaskData(payload, key), key) = payload
<1>1. PICK n \in Nat : n = Len(payload) /\ DOMAIN payload = 1..n
  BY LenProperties
<1> DEFINE K(i) == IF i <= 4 * (n \div 4) THEN key[((i - 1) % 4) + 1]
                                          ELSE key[i - 4 * (n \div 4)]
<1>2. \A i \in 1..n : K(i) \in Byte
  <2>1. \A j \in 1..4 : key[j] \in Byte
    BY ElementOfSeq
  <2> QED BY <2>1, KeyIndex
<1>3. \A i \in 1..n : payload[i] \in Byte
  BY <1>1, ElementOfSeq
<1>4. PICK masked : masked = [i \in 1..n |-> XorByte(payload[i], K(i))]
  OBVIOUS
<1>5. UnMaskData(payload, key) = masked
  BY <1>1, <1>4, Zenon DEF UnMaskData
<1> HIDE DEF K
<1>6. \A i \in 1..n : XorByte(payload[i], K(i)) \in Byte
  BY <1>2, <1>3, XorTwice, Zenon
<1>7. masked \in Seq(Byte) /\ Len(masked) = n /\ DOMAIN masked = 1..n
  BY <1>4, <1>6
<1>8. PICK plain : plain = [i \in 1..n |-> XorByte(masked[i], K(i))]
  OBVIOUS
<1>9. UnMaskData(masked, key) = plain
  BY <1>7, <1>8, Zenon DEF UnMaskData, K
<1>10. \A i \in 1..n : XorByte(masked[i], K(i)) = payload[i]
  <2> TAKE i \in 1..n
  <2>1. masked[i] = XorByte(payload[i], K(i))
    BY <1>4
  <2> QED BY <2>1, <1>2, <1>3, XorTwice, Zenon
<1>11. plain \in Seq(Byte) /\ Len(plain) = n /\ \A i \in 1..n : plain[i] = payload[i]
  BY <1>3, <1>8, <1>10
<1>12. plain = payload
  BY <1>1, <1>11, Equal
<1> QED BY <1>1, <1>5, <1>7, <1>9, <1>12

(* The end of a concatenation.                                             *)
LEMMA Ending ==
    ASSUME NEW S, NEW a \in Seq(S), NEW b \in Seq(S)
    PROVE  SubSeq(a \o b, Len(a) + 1, Len(a) + Len(b)) = b
<1>1. PICK d : d = a \o b
  OBVIOUS
<1>2. PICK e \in Seq(S) : e = <<>>
  <2>1. <<>> \in Seq(S)
    OBVIOUS
  <2> QED BY <2>1
<1>3. d \in Seq(S)
  BY <1>1, Concat
<1>4. d \o e = d
  BY <1>2, <1>3, ConcatEmptySeq
<1>5. SubSeq((a \o b) \o e, Len(a) + 1, Len(a) + Len(b)) = b
  BY <1>2, Middle
<1> QED BY <1>1, <1>4, <1>5
-----------------------------------------------------------------------------
(* The length fits the length field.                                       *)
LEMMA LengthFits ==
    ASSUME NEW n \in Nat
    PROVE  /\ LengthBits(n) \in Nat /\ LengthBits(n) < 128
           /\ LengthSize(LengthBits(n)) \in {0, 2, 8}
           /\ LengthSize(LengthBits(n)) = 0 => LengthBits(n) = n
           /\ LengthSize(LengthBits(n)) = 2 => n <= 65535
<1>1. CASE n < 126
  BY <1>1, SMTT(10) DEF LengthBits, LengthSize
<1>2. CASE n >= 126 /\ n <= 65535
  BY <1>2, SMTT(10) DEF LengthBits, LengthSize
<1>3. CASE n > 65535
  BY <1>3, SMTT(10) DEF LengthBits, LengthSize
<1> QED BY <1>1, <1>2, <1>3, SMTT(10)

LEMMA LengthSizes == \A bits : LengthSize(bits) \in {0, 2, 8}
BY DEF LengthSize

(* The second byte carries the bits and the flag of the mask.              *)
LEMMA SecondByte ==
    ASSUME NEW bits \in Nat, bits < 128, NEW flag \in {0, 128}
    PROVE  /\ bits + flag \in Byte
           /\ (bits + flag) % 128 = bits
           /\ bits + flag >= 128 <=> flag = 128
BY SMTT(30) DEF Byte

(* A header is read as it was written.                                     *)
LEMMA HeaderParts ==
    ASSUME NEW n \in Nat, n <= MaxLength, NEW key \in Seq(Byte), Len(key) \in {0, 4}
    PROVE  /\ Header(n, key) \in Seq(Byte) /\ Len(Header(n, key)) >= 2
           /\ Len(Header(n, key)) = DataOffset(Header(n, key))
           /\ PayloadLength(Header(n, key)) = n
           /\ MaskingKey(Header(n, key)) = key
<1>0. PICK mask \in Nat : mask = Len(key)
  BY LenProperties
<1>1. PICK bits, size, flag :
          /\ bits = LengthBits(n) /\ size = LengthSize(bits)
          /\ flag = (IF key = <<>> THEN 0 ELSE 128) /\ mask = Len(key)
  BY <1>0
<1>2. /\ bits \in Nat /\ bits < 128 /\ size \in {0, 2, 8} /\ size \in Nat
      /\ size = 0 => bits = n
      /\ size = 2 => n <= 65535
  <2>1. \A k \in {0, 2, 8} : k \in Nat
    OBVIOUS
  <2>2. /\ LengthBits(n) \in Nat /\ LengthBits(n) < 128
        /\ LengthSize(LengthBits(n)) \in {0, 2, 8}
        /\ LengthSize(LengthBits(n)) = 0 => LengthBits(n) = n
        /\ LengthSize(LengthBits(n)) = 2 => n <= 65535
    BY LengthFits
  <2> QED BY <2>1, <2>2, <1>1, SMTT(10)
<1>3. flag \in {0, 128} /\ (flag = 128 <=> mask = 4) /\ mask \in {0, 4}
  <2>1. key = <<>> <=> mask = 0
    BY <1>1, EmptySeq
  <2> QED BY <2>1, <1>1
<1>4. PICK begin, length : begin = <<130, bits + flag>> /\ length = ToNetwork(n, size)
  OBVIOUS
<1>5. begin \in Seq(Byte) /\ Len(begin) = 2 /\ begin[2] = bits + flag
  <2>1. bits + flag \in Byte /\ 130 \in Byte
    BY <1>2, <1>3, SecondByte DEF Byte
  <2> QED BY <2>1, <1>4
<1>6. length \in Seq(Byte) /\ Len(length) = size
  <2>1. ToNetwork(n, size) \in Seq(Byte) /\ Len(ToNetwork(n, size)) = size
    <3>1. size \in {0, 2, 8}
      BY <1>2
    <3> QED BY <3>1, ToNetworkType, Zenon
  <2> QED BY <2>1, <1>4
<1>7. PICK front : front = begin \o length
  OBVIOUS
<1>8. front \in Seq(Byte) /\ Len(front) = 2 + size /\ front[2] = bits + flag
  <2>1. /\ front \in Seq(Byte) /\ Len(front) = Len(begin) + Len(length)
        /\ \A i \in 1..Len(begin) : front[i] = begin[i]
    BY <1>5, <1>6, <1>7, Concat, ZenonT(60)
  <2> QED BY <2>1, <1>5, <1>6
<1>9. PICK h : h = front \o key
  OBVIOUS
<1>10. h \in Seq(Byte) /\ Len(h) = (2 + size) + mask /\ h[2] = bits + flag
  <2>1. /\ h \in Seq(Byte) /\ Len(h) = Len(front) + Len(key)
        /\ \A i \in 1..Len(front) : h[i] = front[i]
    BY <1>8, <1>9, Concat, ZenonT(60)
  <2>2. 2 \in 1..Len(front)
    BY <1>8, <1>2
  <2> QED BY <2>1, <2>2, <1>1, <1>8
<1>11. Header(n, key) = h
  BY <1>1, <1>4, <1>7, <1>9, Zenon DEF Header
<1>12. Bits(h) = bits /\ MaskSize(h) = mask
  <2>1. (bits + flag) % 128 = bits /\ (bits + flag >= 128 <=> flag = 128)
    BY <1>2, <1>3, SecondByte
  <2>2. Bits(h) = bits
    BY <2>1, <1>10 DEF Bits
  <2>3. MaskSize(h) = IF flag = 128 THEN 4 ELSE 0
    BY <2>1, <1>10 DEF MaskSize
  <2> QED BY <2>2, <2>3, <1>3
<1>13. Len(h) >= 2 /\ Len(h) = DataOffset(h)
  BY <1>1, <1>2, <1>10, <1>12, SMTT(40) DEF DataOffset
<1>14. PayloadLength(h) = n
  <2>1. CASE size = 0
    BY <2>1, <1>1, <1>2, <1>12 DEF PayloadLength
  <2>2. CASE size # 0
    <3>1. SubSeq((begin \o length) \o key, 2 + 1, 2 + size) = length
      BY <1>5, <1>6, Middle
    <3>2. SubSeq(h, 3, 2 + size) = length
      <4>1. 2 + 1 = 3
        OBVIOUS
      <4> QED BY <3>1, <4>1, <1>7, <1>9
    <3>3. PayloadLength(h) = ToHost(length)
      BY <2>2, <3>2, <1>1, <1>12, Zenon DEF PayloadLength
    <3>4. ToHost(length) = n
      BY <2>2, <1>2, <1>4, TwoBytes, EightBytes
    <3> QED BY <3>3, <3>4
  <2> QED BY <2>1, <2>2
<1>15. MaskingKey(h) = key
  <2>1. SubSeq(front \o key, Len(front) + 1, Len(front) + Len(key)) = key
    BY <1>8, Ending
  <2>2. SubSeq(h, (2 + size) + 1, (2 + size) + mask) = key
    BY <2>1, <1>1, <1>8, <1>9
  <2> QED BY <2>2, <1>1, <1>12 DEF MaskingKey
<1> QED BY <1>10, <1>11, <1>13, <1>14, <1>15
-----------------------------------------------------------------------------
-----------------------------------------------------------------------------
(* What a header tells depends on its second byte.                         *)
LEMMA SecondByteTells ==
    ASSUME NEW h, NEW g, h[2] = g[2]
    PROVE  /\ Bits(h) = Bits(g) /\ MaskSize(h) = MaskSize(g)
           /\ DataOffset(h) = DataOffset(g)
BY DEF Bits, MaskSize, DataOffset

(* The body of a message yields its payload.                               *)
Unmasked(body, key) == IF key = <<>> THEN body ELSE UnMaskData(body, key)

(* The message h \o body is the encoding of m.                             *)
IsMessage(m, h, body) ==
    /\ Encode(m.payload, m.key) = Cat(h, body)
    /\ Len(h) \in Nat /\ Len(h) >= 2 /\ Len(h) = DataOffset(h)
    /\ PayloadLength(h) = Len(m.payload) /\ Len(body) = Len(m.payload) /\ Len(body) \in Nat
    /\ Unmasked(body, MaskingKey(h)) = m.payload
    /\ Encode(m.payload, m.key) \in Seq(Byte)
    /\ Len(Encode(m.payload, m.key)) = Len(h) + Len(body)

LEMMA EncodeParts ==
    ASSUME NEW m \in Message
    PROVE  \E h \in Seq(Byte), body \in Seq(Byte) : IsMessage(m, h, body)
<1>1. PICK payload \in Seq(Byte), key \in Seq(Byte), n \in Nat :
          /\ payload = m.payload /\ key = m.key /\ n = Len(payload)
          /\ n <= MaxLength /\ Len(key) \in {0, 4}
  BY LenProperties DEF Message
<1>2. PICK h, body : h = Header(n, key) /\ body = Unmasked(payload, key)
  OBVIOUS
<1>3. /\ h \in Seq(Byte) /\ Len(h) >= 2 /\ Len(h) = DataOffset(h)
      /\ PayloadLength(h) = n /\ MaskingKey(h) = key
  BY <1>1, <1>2, HeaderParts
<1>4. body \in Seq(Byte) /\ Len(body) = n /\ Unmasked(body, key) = payload
  <2>1. CASE key = <<>>
    BY <2>1, <1>1, <1>2 DEF Unmasked
  <2>2. CASE key # <<>>
    <3>1. Len(key) = 4
      BY <2>2, <1>1, EmptySeq
    <3> QED BY <3>1, <2>2, <1>1, <1>2, UnMaskTwice DEF Unmasked
  <2> QED BY <2>1, <2>2
<1>5. Encode(payload, key) = Cat(h, body)
  BY <1>1, <1>2, Zenon DEF Encode, Unmasked, Cat
<1>6. Cat(h, body) \in Seq(Byte) /\ Len(Cat(h, body)) = Len(h) + Len(body)
  BY <1>3, <1>4, CatParts
<1>7. Len(h) \in Nat
  BY <1>3, LenProperties
<1> QED BY <1>1, <1>3, <1>4, <1>5, <1>6, <1>7 DEF IsMessage
-----------------------------------------------------------------------------
(* The header at the beginning of a message tells its size.                *)
LEMMA HeaderTells ==
    ASSUME NEW m \in Message, NEW h \in Seq(Byte), NEW g \in Seq(Byte), NEW body \in Seq(Byte),
           IsMessage(m, g, body), NEW x \in Seq(Byte), NEW y \in Seq(Byte),
           Len(h) >= 2, Cat(h, x) = Cat(g, y)
    PROVE  /\ Bits(h) = Bits(g) /\ MaskSize(h) = MaskSize(g)
           /\ DataOffset(h) = Len(g)
<1>1. Len(g) \in Nat /\ Len(g) >= 2 /\ Len(g) = DataOffset(g)
  BY DEF IsMessage
<1>2. 2 \in 1..Len(h) /\ 2 \in 1..Len(g)
  BY <1>1, LenProperties
<1>3. h[2] = g[2]
  BY <1>2, SameElement, SMTT(40)
<1> QED BY <1>1, <1>3, SecondByteTells

(* A whole header is the one of the message.                               *)
LEMMA WholeHeader ==
    ASSUME NEW m \in Message, NEW h \in Seq(Byte), NEW g \in Seq(Byte), NEW body \in Seq(Byte),
           IsMessage(m, g, body), NEW x \in Seq(Byte), NEW y \in Seq(Byte),
           Len(h) >= 2, Len(h) = DataOffset(h), Cat(h, x) = Cat(g, y)
    PROVE  h = g /\ x = y
<1>1. Len(h) = Len(g)
  BY HeaderTells
<1> QED BY <1>1, SameBeginning

(* The bytes of a message, however they are followed, behind its header:   *)
(* the payload, and what follows.                                          *)
LEMMA WholeMessage ==
    ASSUME NEW m \in Message, NEW h \in Seq(Byte), NEW b \in Seq(Byte),
           NEW x \in Seq(Byte), NEW u \in Seq(Byte),
           Len(h) >= 2, Len(h) = DataOffset(h), Len(b) = PayloadLength(h),
           Cat(h, Cat(b, x)) = Cat(Encode(m.payload, m.key), u)
    PROVE  /\ Unmasked(b, MaskingKey(h)) = m.payload
           /\ x = u
<1>1. PICK g \in Seq(Byte), body \in Seq(Byte) : IsMessage(m, g, body)
  BY EncodeParts
<1>2. Encode(m.payload, m.key) = Cat(g, body)
  BY <1>1 DEF IsMessage
<1>3. Cat(b, x) \in Seq(Byte) /\ Cat(body, u) \in Seq(Byte)
  BY CatParts
<1>4. Cat(Cat(g, body), u) = Cat(g, Cat(body, u))
  BY CatAssociative
<1>5. Cat(h, Cat(b, x)) = Cat(g, Cat(body, u))
  BY <1>2, <1>4
<1>6. h = g /\ Cat(b, x) = Cat(body, u)
  BY <1>1, <1>3, <1>5, WholeHeader
<1>7. Len(b) = Len(body)
  BY <1>1, <1>6 DEF IsMessage
<1>8. b = body /\ x = u
  BY <1>6, <1>7, SameBeginning
<1> QED BY <1>1, <1>6, <1>8 DEF IsMessage

(* What a receiver that is still short of bytes has got of a message is    *)
(* less than all of it.                                                    *)
LEMMA ShortOfMessage ==
    ASSUME NEW m \in Message, NEW h \in Seq(Byte), NEW b \in Seq(Byte),
           NEW t \in Seq(Byte), NEW u \in Seq(Byte),
           \/ h = <<>> /\ Len(b) < 2
           \/ /\ Len(h) = 2
              /\ Len(b) < LengthSize(Bits(h)) + MaskSize(h)
           \/ /\ Len(h) >= 2 /\ Len(h) = DataOffset(h)
              /\ Len(b) < PayloadLength(h),
           Cat(h, Cat(b, t)) = Cat(Encode(m.payload, m.key), u)
    PROVE  Len(Cat(h, b)) < Len(Encode(m.payload, m.key))
<1>1. PICK g \in Seq(Byte), body \in Seq(Byte) : IsMessage(m, g, body)
  BY EncodeParts
<1>2. /\ Encode(m.payload, m.key) = Cat(g, body)
      /\ Len(Encode(m.payload, m.key)) = Len(g) + Len(body)
      /\ Len(g) \in Nat /\ Len(g) >= 2 /\ Len(body) \in Nat
  BY <1>1 DEF IsMessage
<1>3. Cat(b, t) \in Seq(Byte) /\ Cat(body, u) \in Seq(Byte)
  BY CatParts
<1>4. Cat(Cat(g, body), u) = Cat(g, Cat(body, u))
  BY CatAssociative
<1>5. Cat(h, Cat(b, t)) = Cat(g, Cat(body, u))
  BY <1>2, <1>4
<1>6. Len(Cat(h, b)) = Len(h) + Len(b)
  BY CatParts
<1>7. Len(h) \in Nat /\ Len(b) \in Nat
  BY LenProperties
<1>8. CASE h = <<>> /\ Len(b) < 2
  BY <1>2, <1>6, <1>7, <1>8
<1>9. CASE Len(h) = 2 /\ Len(b) < LengthSize(Bits(h)) + MaskSize(h)
  <2>1. Len(h) >= 2
    BY <1>9
  <2>2. DataOffset(h) = Len(g)
    BY <2>1, <1>1, <1>3, <1>5, HeaderTells
  <2>3. LengthSize(Bits(h)) \in Nat /\ MaskSize(h) \in Nat
    <3>1. LengthSize(Bits(h)) \in {0, 2, 8}
      BY LengthSizes, Zenon
    <3>2. MaskSize(h) \in {0, 4}
      BY Zenon DEF MaskSize
    <3> QED BY <3>1, <3>2
  <2>4. Len(g) = 2 + MaskSize(h) + LengthSize(Bits(h))
    BY <2>2 DEF DataOffset
  <2> QED BY <2>3, <2>4, <1>2, <1>6, <1>7, <1>9, SMTT(40)
<1>10. CASE Len(h) >= 2 /\ Len(h) = DataOffset(h) /\ Len(b) < PayloadLength(h)
  <2>1. h = g
    BY <1>1, <1>3, <1>5, <1>10, WholeHeader
  <2>2. PayloadLength(h) = Len(body)
    BY <2>1, <1>1 DEF IsMessage
  <2> QED BY <2>1, <2>2, <1>2, <1>6, <1>7, <1>10
<1> QED BY <1>8, <1>9, <1>10

(* Hence it is the beginning of the message.                               *)
LEMMA BeginningOfMessage ==
    ASSUME NEW m \in Message, NEW r \in Seq(Byte), NEW t \in Seq(Byte), NEW u \in Seq(Byte),
           Len(r) < Len(Encode(m.payload, m.key)),
           Cat(r, t) = Cat(Encode(m.payload, m.key), u)
    PROVE  IsStrictPrefix(r, Encode(m.payload, m.key))
<1>1. PICK e : e = Encode(m.payload, m.key)
  OBVIOUS
<1>2. e \in Seq(Byte)
  BY <1>1, EncodeParts DEF IsMessage
<1>3. Len(e) \in Nat /\ Len(r) \in Nat /\ Len(r) < Len(e)
  BY <1>1, <1>2, LenProperties
<1>4. Cat(e, u) = Cat(r, t) /\ Len(r) <= Len(e)
  BY <1>1, <1>3
<1>5. PICK c \in Seq(Byte) : e = Cat(r, c)
  BY <1>2, <1>4, Overlap
<1>6. Len(c) # 0
  BY <1>3, <1>5, CatParts
<1> QED BY <1>1, <1>5, <1>6, StrictPrefix
-----------------------------------------------------------------------------
(* The bytes of n messages of the input, from the one behind the k-th.     *)
Encoded(inp, i) == Encode(inp[i].payload, inp[i].key)

Bytes(inp, k, n) == FlattenSeq([i \in 1..n |-> Encoded(inp, k + i)])

LEMMA EncodedType ==
    ASSUME NEW inp \in Seq(Message), NEW i \in 1..Len(inp)
    PROVE  Encoded(inp, i) \in Seq(Byte)
<1>1. inp[i] \in Message
  BY ElementOfSeq
<1> QED BY <1>1, EncodeParts DEF IsMessage, Encoded

LEMMA BytesType ==
    ASSUME NEW inp \in Seq(Message), NEW k \in Nat, NEW n \in Nat, k + n <= Len(inp)
    PROVE  /\ [i \in 1..n |-> Encoded(inp, k + i)] \in Seq(Seq(Byte))
           /\ Bytes(inp, k, n) \in Seq(Byte)
<1>1. ASSUME NEW i \in 1..n PROVE Encoded(inp, k + i) \in Seq(Byte)
  <2>1. k + i \in 1..Len(inp)
    BY LenProperties
  <2> QED BY <2>1, EncodedType
<1>2. [i \in 1..n |-> Encoded(inp, k + i)] \in Seq(Seq(Byte))
  BY <1>1
<1> QED BY <1>2, FlattenType DEF Bytes

LEMMA BytesOfNone ==
    ASSUME NEW inp, NEW k
    PROVE  Bytes(inp, k, 0) = <<>>
<1>1. PICK s : s = [i \in 1..0 |-> Encoded(inp, k + i)]
  OBVIOUS
<1>2. s = <<>>
  BY <1>1
<1> QED BY <1>1, <1>2, FlattenEmpty DEF Bytes

(* One message more, at the end.                                           *)
LEMMA BytesMore ==
    ASSUME NEW inp \in Seq(Message), NEW k \in Nat, NEW n \in Nat, k + (n + 1) <= Len(inp)
    PROVE  Bytes(inp, k, n + 1) = Cat(Bytes(inp, k, n), Encoded(inp, k + (n + 1)))
<1>1. PICK s, x : /\ s = [i \in 1..n |-> Encoded(inp, k + i)]
                  /\ x = Encoded(inp, k + (n + 1))
  OBVIOUS
<1>2. s \in Seq(Seq(Byte)) /\ x \in Seq(Byte)
  <2>1. k + n <= Len(inp) /\ k + (n + 1) \in 1..Len(inp)
    BY LenProperties
  <2>2. s \in Seq(Seq(Byte))
    BY <2>1, <1>1, BytesType
  <2>3. x \in Seq(Byte)
    BY <2>1, <1>1, EncodedType
  <2> QED BY <2>2, <2>3
<1>3. PICK r : r = [i \in 1..(n + 1) |-> Encoded(inp, k + i)]
  OBVIOUS
<1>4. r \in Seq(Seq(Byte)) /\ Len(r) = n + 1
  <2>1. r \in Seq(Seq(Byte))
    <3>1. PICK l \in Nat : l = n + 1
      OBVIOUS
    <3>2. k + l <= Len(inp)
      BY <3>1
    <3>3. [i \in 1..l |-> Encoded(inp, k + i)] \in Seq(Seq(Byte))
      BY <3>2, BytesType
    <3> QED BY <3>1, <3>3, <1>3
  <2> QED BY <2>1, <1>3
<1>5. r = Append(s, x)
  <2>1. Len(s) = n
    BY <1>1
  <2>2. /\ Append(s, x) \in Seq(Seq(Byte)) /\ Len(Append(s, x)) = n + 1
        /\ \A i \in 1..n : Append(s, x)[i] = s[i]
        /\ Append(s, x)[n + 1] = x
    BY <1>2, <2>1, AppendProperties
  <2>3. PICK q : q = Append(s, x)
    OBVIOUS
  <2>4. ASSUME NEW i \in 1..(n + 1) PROVE r[i] = q[i]
    <3>1. r[i] = Encoded(inp, k + i)
      BY <1>3
    <3>2. CASE i = n + 1
      BY <3>1, <3>2, <2>2, <2>3, <1>1
    <3>3. CASE i # n + 1
      <4>1. i \in 1..n
        BY <3>3
      <4>2. s[i] = Encoded(inp, k + i)
        BY <4>1, <1>1
      <4> QED BY <3>1, <4>1, <4>2, <2>2, <2>3
    <3> QED BY <3>2, <3>3
  <2>5. q \in Seq(Seq(Byte)) /\ Len(q) = n + 1
    BY <2>2, <2>3
  <2>6. r = q
    BY <1>4, <2>4, <2>5, Equal
  <2> QED BY <2>3, <2>6
<1>6. FlattenSeq(Append(s, x)) = FlattenSeq(s) \o x
  BY <1>2, FlattenAppend
<1>7. FlattenSeq(r) = Cat(FlattenSeq(s), x)
  BY <1>5, <1>6, Zenon DEF Cat
<1> QED BY <1>1, <1>3, <1>7, Zenon DEF Bytes

(* The first message, and the others.                                      *)
LEMMA BytesFirst ==
    ASSUME NEW inp \in Seq(Message), NEW k \in Nat, NEW n \in Nat, k + (n + 1) <= Len(inp)
    PROVE  Bytes(inp, k, n + 1) = Cat(Encoded(inp, k + 1), Bytes(inp, k + 1, n))
<1>1. PICK s, x : /\ s = [i \in 1..n |-> Encoded(inp, (k + 1) + i)]
                  /\ x = Encoded(inp, k + 1)
  OBVIOUS
<1>2. s \in Seq(Seq(Byte)) /\ x \in Seq(Byte)
  <2>1. (k + 1) + n <= Len(inp) /\ k + 1 \in 1..Len(inp) /\ k + 1 \in Nat
    BY LenProperties
  <2>2. s \in Seq(Seq(Byte))
    BY <2>1, <1>1, BytesType
  <2>3. x \in Seq(Byte)
    BY <2>1, <1>1, EncodedType
  <2> QED BY <2>2, <2>3
<1>3. PICK r : r = [i \in 1..(n + 1) |-> Encoded(inp, k + i)]
  OBVIOUS
<1>4. r \in Seq(Seq(Byte)) /\ Len(r) = n + 1
  <2>1. r \in Seq(Seq(Byte))
    <3>1. PICK l \in Nat : l = n + 1
      OBVIOUS
    <3>2. k + l <= Len(inp)
      BY <3>1
    <3>3. [i \in 1..l |-> Encoded(inp, k + i)] \in Seq(Seq(Byte))
      BY <3>2, BytesType
    <3> QED BY <3>1, <3>3, <1>3
  <2> QED BY <2>1, <1>3
<1>5. PICK one : one = <<x>>
  OBVIOUS
<1>6. one \in Seq(Seq(Byte)) /\ Len(one) = 1 /\ one[1] = x
  BY <1>2, <1>5
<1>7. r = Cat(one, s)
  <2>1. Len(s) = n
    BY <1>1
  <2>2. PICK T, q : T = Seq(Byte) /\ q = Cat(one, s)
    OBVIOUS
  <2>3. one \in Seq(T) /\ s \in Seq(T)
    BY <1>2, <1>6, <2>2
  <2>4. Cat(one, s) \in Seq(T) /\ Len(Cat(one, s)) = Len(one) + Len(s)
    BY <2>3, CatParts
  <2>5. \A i \in 1..Len(one) : Cat(one, s)[i] = one[i]
    BY <2>3, CatParts
  <2>6. \A i \in 1..Len(s) : Cat(one, s)[Len(one) + i] = s[i]
    BY <2>3, CatParts
  <2>7. q \in Seq(Seq(Byte)) /\ Len(q) = 1 + n
    BY <1>6, <2>1, <2>2, <2>4, Zenon
  <2>8. \A i \in 1..1 : q[i] = one[i]
    BY <1>6, <2>2, <2>5, Zenon
  <2>9. \A i \in 1..n : q[1 + i] = s[i]
    BY <1>6, <2>1, <2>2, <2>6, Zenon
  <2>10. ASSUME NEW i \in 1..(n + 1) PROVE r[i] = q[i]
    <3>1. r[i] = Encoded(inp, k + i)
      BY <1>3
    <3>2. CASE i = 1
      BY <3>1, <3>2, <2>8, <1>1, <1>6
    <3>3. CASE i # 1
      <4>1. PICK j \in 1..n : i = 1 + j
        <5>1. i - 1 \in 1..n /\ i = 1 + (i - 1)
          BY <3>3
        <5> QED BY <5>1
      <4>2. s[j] = Encoded(inp, (k + 1) + j)
        BY <1>1
      <4>3. (k + 1) + j = k + i
        BY <4>1
      <4> QED BY <3>1, <4>1, <4>2, <4>3, <2>9
    <3> QED BY <3>2, <3>3
  <2>11. r = q
    BY <1>4, <2>7, <2>10, Equal
  <2> QED BY <2>2, <2>11
<1>8. FlattenSeq(one \o s) = FlattenSeq(one) \o FlattenSeq(s)
  BY <1>2, <1>6, FlattenConcat
<1>9. FlattenSeq(one) = x
  BY <1>2, <1>5, FlattenOne
<1>10. FlattenSeq(r) = Cat(x, FlattenSeq(s))
  BY <1>7, <1>8, <1>9, Zenon DEF Cat
<1> QED BY <1>1, <1>3, <1>10, Zenon DEF Bytes
-----------------------------------------------------------------------------
(* Bytes in four pieces: those read of the header and of what is asked     *)
(* for, those read ahead, and those on the connection.                     *)
Along(h, b, f, w) == Cat(h, Cat(b, Cat(f, w)))

LEMMA AlongType ==
    ASSUME NEW h \in Seq(Byte), NEW b \in Seq(Byte), NEW f \in Seq(Byte), NEW w \in Seq(Byte)
    PROVE  Along(h, b, f, w) \in Seq(Byte)
<1>1. Cat(f, w) \in Seq(Byte)
  BY CatParts
<1>2. Cat(b, Cat(f, w)) \in Seq(Byte)
  BY <1>1, CatParts
<1>3. Cat(h, Cat(b, Cat(f, w))) \in Seq(Byte)
  BY <1>2, CatParts
<1> QED BY <1>3 DEF Along

(* More on the connection.                                                 *)
LEMMA AlongMore ==
    ASSUME NEW h \in Seq(Byte), NEW b \in Seq(Byte), NEW f \in Seq(Byte), NEW w \in Seq(Byte),
           NEW e \in Seq(Byte)
    PROVE  Along(h, b, f, Cat(w, e)) = Cat(Along(h, b, f, w), e)
<1>1. Cat(f, w) \in Seq(Byte) /\ Cat(f, Cat(w, e)) = Cat(Cat(f, w), e)
  <2>1. Cat(f, w) \in Seq(Byte)
    BY CatParts
  <2>2. Cat(Cat(f, w), e) = Cat(f, Cat(w, e))
    BY CatAssociative
  <2> QED BY <2>1, <2>2
<1>2. PICK x \in Seq(Byte) : x = Cat(f, w)
  BY <1>1
<1>3. Cat(b, x) \in Seq(Byte) /\ Cat(b, Cat(x, e)) = Cat(Cat(b, x), e)
  <2>1. Cat(b, x) \in Seq(Byte)
    BY CatParts
  <2>2. Cat(Cat(b, x), e) = Cat(b, Cat(x, e))
    BY CatAssociative
  <2> QED BY <2>1, <2>2
<1>4. PICK y \in Seq(Byte) : y = Cat(b, x)
  BY <1>3
<1>5. Cat(Cat(h, y), e) = Cat(h, Cat(y, e))
  BY CatAssociative
<1> QED BY <1>1, <1>2, <1>3, <1>4, <1>5, Zenon DEF Along

(* A piece moves from one place to the one before it.                      *)
LEMMA AlongMoves ==
    ASSUME NEW h \in Seq(Byte), NEW b \in Seq(Byte), NEW f \in Seq(Byte), NEW w \in Seq(Byte)
    PROVE  /\ \A p, q \in Seq(Byte) :
                  f = Cat(p, q) => Along(h, Cat(b, p), q, w) = Along(h, b, f, w)
           /\ \A p, q \in Seq(Byte) :
                  w = Cat(p, q) => Along(h, b, p, q) = Along(h, b, <<>>, w)
           /\ Along(Cat(h, b), <<>>, f, w) = Along(h, b, f, w)
           /\ Along(<<>>, b, f, w) = Along(b, <<>>, f, w)
<1>1. ASSUME NEW p \in Seq(Byte), NEW q \in Seq(Byte), f = Cat(p, q)
      PROVE  Along(h, Cat(b, p), q, w) = Along(h, b, f, w)
  <2>1. Cat(Cat(p, q), w) = Cat(p, Cat(q, w))
    BY CatAssociative
  <2>2. PICK x \in Seq(Byte) : x = Cat(q, w)
    <3>1. Cat(q, w) \in Seq(Byte)
      BY CatParts
    <3> QED BY <3>1
  <2>3. Cat(Cat(b, p), x) = Cat(b, Cat(p, x))
    BY CatAssociative
  <2> QED BY <1>1, <2>1, <2>2, <2>3, Zenon DEF Along
<1>2. ASSUME NEW p \in Seq(Byte), NEW q \in Seq(Byte), w = Cat(p, q)
      PROVE  Along(h, b, p, q) = Along(h, b, <<>>, w)
  <2>1. Cat(<<>>, w) = w
    BY CatEmpty
  <2> QED BY <1>2, <2>1, Zenon DEF Along
<1>3. PICK x \in Seq(Byte) : x = Cat(f, w)
  <2>1. Cat(f, w) \in Seq(Byte)
    BY CatParts
  <2> QED BY <2>1
<1>4. Cat(<<>>, x) = x
  BY CatEmpty
<1>5. Cat(Cat(h, b), x) = Cat(h, Cat(b, x))
  BY CatAssociative
<1>6. PICK y \in Seq(Byte) : y = Cat(b, x)
  <2>1. Cat(b, x) \in Seq(Byte)
    BY CatParts
  <2> QED BY <2>1
<1>7. Cat(<<>>, y) = y
  BY CatEmpty
<1>8. Along(Cat(h, b), <<>>, f, w) = Along(h, b, f, w)
  BY <1>3, <1>4, <1>5, Zenon DEF Along
<1>9. Along(<<>>, b, f, w) = Along(b, <<>>, f, w)
  BY <1>3, <1>4, <1>6, <1>7, Zenon DEF Along
<1> QED BY <1>1, <1>2, <1>8, <1>9
-----------------------------------------------------------------------------
(* THE INVARIANT.                                                          *)

(* What the current RecvEx has been asked for.                             *)
Stage ==
    /\ stage = "header" => header = <<>> /\ nbytes = 2
    /\ stage = "extra" =>
           Len(header) = 2 /\ nbytes = LengthSize(Bits(header)) + MaskSize(header)
    /\ stage = "payload" =>
           /\ Len(header) >= 2 /\ Len(header) = DataOffset(header)
           /\ nbytes = PayloadLength(header)

(* The bytes that have not become a message yet, and those of the messages *)
(* sent and not received.                                                  *)
Rest == Along(header, buf, buffer, wire)

Coming == Bytes(input, Len(frames), sent - Len(frames))

(* They are the same; once the connection has ended, some may be missing   *)
(* at the end.                                                             *)
Stream ==
    IF stage = "failed"
    THEN closed /\ GivesUpOnIncomplete
    ELSE \E t \in Seq(Byte) : Cat(Rest, t) = Coming /\ (~closed => t = <<>>)

IInv == TypeOK /\ FramesIntact /\ Stage /\ Stream

(* What the actions need of the types.                                     *)
LEMMA Typed ==
    ASSUME IInv
    PROVE  /\ input \in Seq(Message) /\ input \in Inputs
           /\ Len(input) \in Nat /\ sent \in Nat /\ sent <= Len(input)
           /\ wire \in Seq(Byte) /\ buffer \in Seq(Byte) /\ Len(buffer) <= BufferSize
           /\ nbytes \in Nat /\ buf \in Seq(Byte) /\ Len(buf) <= nbytes /\ Len(buf) \in Nat
           /\ header \in Seq(Byte) /\ frames \in Seq(Seq(Byte))
           /\ Len(frames) \in Nat /\ Len(frames) <= sent /\ sent - Len(frames) \in Nat
           /\ Len(frames) + (sent - Len(frames)) = sent
           /\ closed \in BOOLEAN /\ BufferSize \in Nat
<1>1. /\ input \in Inputs /\ sent \in 0..Len(input)
      /\ wire \in Seq(Byte) /\ buffer \in Seq(Byte) /\ Len(buffer) <= BufferSize
      /\ nbytes \in Nat /\ buf \in Seq(Byte) /\ Len(buf) <= nbytes
      /\ header \in Seq(Byte) /\ frames \in Seq(Seq(Byte)) /\ closed \in BOOLEAN
  BY Zenon DEF IInv, TypeOK
<1>2. input \in Seq(Message) /\ BufferSize \in Nat
  BY <1>1, InputsAssumption, BufferSizeAssumption
<1>3. Len(input) \in Nat /\ Len(buf) \in Nat /\ Len(frames) \in Nat
  BY <1>1, <1>2, LenProperties
<1>4. Len(frames) <= sent
  BY Zenon DEF IInv, FramesIntact
<1>5. sent \in Nat /\ sent <= Len(input)
  BY <1>1, <1>3
<1>6. sent - Len(frames) \in Nat /\ Len(frames) + (sent - Len(frames)) = sent
  BY <1>3, <1>4, <1>5
<1> QED BY <1>1, <1>2, <1>3, <1>4, <1>5, <1>6, Zenon

LEMMA RestTyped ==
    ASSUME IInv
    PROVE  Rest \in Seq(Byte)
<1>1. wire \in Seq(Byte) /\ buffer \in Seq(Byte) /\ buf \in Seq(Byte) /\ header \in Seq(Byte)
  BY Typed, Zenon
<1> QED BY <1>1, AlongType DEF Rest

(* A step that moves bytes along, and nothing else.                        *)
LEMMA Moving ==
    ASSUME IInv, stage # "failed", stage' # "failed", Rest' = Rest,
           UNCHANGED <<input, sent, closed, frames>>
    PROVE  Stream' /\ FramesIntact'
<1>1. Coming' = Coming
  BY DEF Coming
<1>2. Stream'
  <2>1. \E t \in Seq(Byte) : Cat(Rest, t) = Coming /\ (~closed => t = <<>>)
    BY DEF IInv, Stream
  <2>2. PICK t \in Seq(Byte) : Cat(Rest, t) = Coming /\ (~closed => t = <<>>)
    BY <2>1
  <2>3. Cat(Rest', t) = Coming' /\ (~closed' => t = <<>>)
    BY <2>2, <1>1
  <2> QED BY <2>3 DEF Stream
<1>3. FramesIntact'
  BY DEF IInv, FramesIntact
<1> QED BY <1>2, <1>3
-----------------------------------------------------------------------------
(* THE STEPS.                                                              *)

LEMMA InvInit ==
    ASSUME Init
    PROVE  IInv
<1>1. /\ input \in Inputs /\ input \in Seq(Message)
      /\ Len(input) \in Nat /\ BufferSize \in Nat
  <2>1. input \in Inputs
    BY DEF Init
  <2>2. input \in Seq(Message)
    BY <2>1, InputsAssumption
  <2> QED BY <2>1, <2>2, BufferSizeAssumption, LenProperties
<1>2. PICK e \in Seq(Byte) : e = <<>> /\ Len(e) = 0
  <2>1. <<>> \in Seq(Byte) /\ Len(<<>>) = 0
    OBVIOUS
  <2> QED BY <2>1
<1>3. /\ wire = e /\ buffer = e /\ buf = e /\ header = e /\ nbytes = 2 /\ sent = 0
      /\ stage = "header" /\ closed = FALSE /\ frames = <<>>
  BY <1>2 DEF Init
<1>4. frames \in Seq(Seq(Byte)) /\ Len(frames) = 0 /\ DOMAIN frames = {}
  <2>1. <<>> \in Seq(Seq(Byte)) /\ Len(<<>>) = 0 /\ DOMAIN <<>> = {}
    OBVIOUS
  <2> QED BY <2>1, <1>3
<1>5. TypeOK
  <2>1. 0 \in 0..Len(input) /\ 0 <= BufferSize /\ 2 \in Nat /\ 0 <= 2
    BY <1>1
  <2>2. /\ input \in Inputs /\ wire \in Seq(Byte) /\ closed \in BOOLEAN
        /\ buffer \in Seq(Byte) /\ buf \in Seq(Byte) /\ header \in Seq(Byte)
        /\ stage \in {"header", "extra", "payload", "failed"}
    BY <1>1, <1>2, <1>3, Zenon
  <2>3. /\ sent \in 0..Len(input) /\ Len(buffer) <= BufferSize
        /\ nbytes \in Nat /\ Len(buf) <= nbytes
    BY <2>1, <1>2, <1>3, Zenon
  <2> QED BY <2>2, <2>3, <1>4, Zenon DEF TypeOK
<1>6. FramesIntact
  BY <1>3, <1>4 DEF FramesIntact
<1>7. Stage
  BY <1>2, <1>3 DEF Stage
<1>8. Stream
  <2>1. Coming = <<>>
    <3>1. sent = 0 /\ Len(frames) = 0 /\ 0 - 0 = 0
      BY <1>3, <1>4
    <3>2. Bytes(input, 0, 0) = <<>>
      BY BytesOfNone
    <3> QED BY <3>1, <3>2, Zenon DEF Coming
  <2>2. Rest = e
    <3>1. Cat(e, e) = e
      BY <1>2, CatEmpty
    <3> QED BY <3>1, <1>3, Zenon DEF Rest, Along
  <2>3. Cat(Rest, e) = Coming
    BY <2>1, <2>2, <1>2, CatEmpty
  <2> QED BY <2>3, <1>2, <1>3 DEF Stream
<1> QED BY <1>5, <1>6, <1>7, <1>8 DEF IInv

LEMMA InvSendEx ==
    ASSUME IInv, SendEx
    PROVE  IInv'
<1>1. /\ input \in Seq(Message) /\ Len(input) \in Nat /\ sent \in Nat
      /\ wire \in Seq(Byte) /\ buffer \in Seq(Byte) /\ buf \in Seq(Byte) /\ header \in Seq(Byte)
      /\ Len(frames) \in Nat /\ Len(frames) <= sent /\ sent - Len(frames) \in Nat
      /\ Len(frames) + (sent - Len(frames)) = sent
  BY Typed, Zenon
<1>2. /\ closed = FALSE /\ sent < Len(input) /\ sent' = sent + 1
      /\ wire' = wire \o Encode(input[sent'].payload, input[sent'].key)
      /\ UNCHANGED <<input, closed, buffer, nbytes, buf, stage, header, frames>>
  <2>1. closed \in BOOLEAN
    BY Typed, Zenon
  <2> QED BY <2>1, Zenon DEF SendEx
<1>3. PICK e \in Seq(Byte) : e = Encoded(input, sent + 1)
  <2>1. sent + 1 \in 1..Len(input)
    BY <1>1, <1>2
  <2>2. Encoded(input, sent + 1) \in Seq(Byte)
    BY <2>1, <1>1, EncodedType
  <2> QED BY <2>2
<1>4. wire' = Cat(wire, e)
  BY <1>2, <1>3, Zenon DEF Encoded, Cat
<1>5. wire' \in Seq(Byte)
  BY <1>1, <1>4, CatParts
<1>6. TypeOK'
  <2>1. sent' \in 0..Len(input)
    BY <1>1, <1>2
  <2>2. TypeOK
    BY DEF IInv
  <2> QED BY <2>1, <2>2, <1>2, <1>5, Zenon DEF TypeOK
<1>7. FramesIntact'
  <2>1. Len(frames) <= sent'
    BY <1>1, <1>2
  <2>2. \A i \in DOMAIN frames : frames[i] = input[i].payload
    BY Zenon DEF IInv, FramesIntact
  <2> QED BY <2>1, <2>2, <1>2, Zenon DEF FramesIntact
<1>8. Stage'
  BY <1>2, Zenon DEF IInv, Stage
<1>9. Stream'
  <2>1. Stream
    BY DEF IInv
  <2>2. stage # "failed"
    BY <2>1, <1>2 DEF Stream
  <2>3. PICK t \in Seq(Byte) : Cat(Rest, t) = Coming /\ t = <<>>
    BY <2>1, <2>2, <1>2 DEF Stream
  <2>4. Rest = Coming
    BY <2>3, RestTyped, CatEmpty
  <2>5. PICK k \in Nat, n \in Nat : k = Len(frames) /\ n = sent - Len(frames) /\ k + n = sent
    BY <1>1
  <2>6. Coming' = Cat(Coming, e)
    <3>1. k + (n + 1) <= Len(input) /\ k + (n + 1) = sent + 1
      BY <2>5, <1>1, <1>2
    <3>2. Bytes(input, k, n + 1) = Cat(Bytes(input, k, n), Encoded(input, k + (n + 1)))
      BY <3>1, <1>1, BytesMore
    <3>3. sent' - Len(frames) = n + 1
      BY <2>5, <1>1, <1>2
    <3>4. Coming' = Bytes(input, k, n + 1) /\ Coming = Bytes(input, k, n)
      BY <3>3, <2>5, <1>2, Zenon DEF Coming
    <3> QED BY <3>1, <3>2, <3>4, <1>3
  <2>7. Rest' = Cat(Rest, e)
    <3>1. Along(header, buf, buffer, Cat(wire, e)) = Cat(Along(header, buf, buffer, wire), e)
      BY <1>1, AlongMore
    <3> QED BY <3>1, <1>2, <1>4, Zenon DEF Rest
  <2>8. Rest' = Coming'
    BY <2>4, <2>6, <2>7
  <2>9. Coming' \in Seq(Byte)
    BY <2>4, <2>6, RestTyped, CatParts
  <2>10. Cat(Rest', <<>>) = Coming' /\ <<>> \in Seq(Byte)
    BY <2>8, <2>9, CatEmpty
  <2> QED BY <2>2, <2>10, <1>2, Zenon DEF Stream
<1> QED BY <1>6, <1>7, <1>8, <1>9 DEF IInv

LEMMA InvClose ==
    ASSUME IInv, Close
    PROVE  IInv'
<1>1. /\ wire \in Seq(Byte) /\ buffer \in Seq(Byte) /\ buf \in Seq(Byte) /\ header \in Seq(Byte)
  BY Typed, Zenon
<1>2. /\ ~closed /\ closed' = TRUE
      /\ UNCHANGED <<input, sent, buffer, nbytes, buf, stage, header, frames>>
  BY Zenon DEF Close
<1>3. PICK n \in 0..Len(wire) : wire' = SubSeq(wire, 1, n)
  BY Zenon DEF Close
<1>4. PICK q \in Seq(Byte) : wire' \in Seq(Byte) /\ Cat(wire', q) = wire
  <2>1. n \in Nat /\ n <= Len(wire)
    BY <1>1, <1>3, LenProperties
  <2>2. /\ SubSeq(wire, 1, n) \in Seq(Byte) /\ SubSeq(wire, n + 1, Len(wire)) \in Seq(Byte)
        /\ SubSeq(wire, 1, n) \o SubSeq(wire, n + 1, Len(wire)) = wire
    BY <2>1, <1>1, Cut
  <2> QED BY <2>2, <1>3, Zenon DEF Cat
<1>5. TypeOK'
  <2>1. TypeOK
    BY DEF IInv
  <2> QED BY <2>1, <1>2, <1>4, Zenon DEF TypeOK
<1>6. FramesIntact' /\ Stage'
  BY <1>2, Zenon DEF IInv, FramesIntact, Stage
<1>7. Stream'
  <2>1. Stream
    BY DEF IInv
  <2>2. stage # "failed"
    BY <2>1, <1>2 DEF Stream
  <2>3. PICK t \in Seq(Byte) : Cat(Rest, t) = Coming
    BY <2>1, <2>2 DEF Stream
  <2>4. Along(header, buf, buffer, Cat(wire', q)) = Cat(Along(header, buf, buffer, wire'), q)
    BY <1>1, <1>4, AlongMore
  <2>5. PICK r \in Seq(Byte) : r = Rest'
    <3>1. Along(header, buf, buffer, wire') \in Seq(Byte)
      BY <1>1, <1>4, AlongType
    <3> QED BY <3>1, <1>2, Zenon DEF Rest
  <2>6. Cat(r, q) = Rest
    BY <2>4, <2>5, <1>2, <1>4, Zenon DEF Rest
  <2>7. Cat(r, Cat(q, t)) = Cat(Cat(r, q), t) /\ Cat(q, t) \in Seq(Byte)
    <3>1. Cat(Cat(r, q), t) = Cat(r, Cat(q, t))
      BY CatAssociative
    <3>2. Cat(q, t) \in Seq(Byte)
      BY CatParts
    <3> QED BY <3>1, <3>2
  <2>8. Coming' = Coming
    BY <1>2 DEF Coming
  <2>9. Cat(Rest', Cat(q, t)) = Coming'
    BY <2>3, <2>5, <2>6, <2>7, <2>8, Zenon
  <2> QED BY <2>2, <2>7, <2>9, <1>2, Zenon DEF Stream
<1> QED BY <1>5, <1>6, <1>7 DEF IInv
-----------------------------------------------------------------------------
LEMMA InvAvailable ==
    ASSUME IInv, Available
    PROVE  IInv'
<1>1. /\ wire \in Seq(Byte) /\ buffer \in Seq(Byte) /\ buf \in Seq(Byte) /\ header \in Seq(Byte)
      /\ nbytes \in Nat /\ Len(buf) \in Nat /\ Len(buf) <= nbytes
      /\ Len(buffer) <= BufferSize /\ BufferSize \in Nat
  BY Typed, Zenon
<1>2. /\ stage # "failed" /\ Len(buf) < nbytes
      /\ UNCHANGED <<input, sent, wire, closed, nbytes, stage, header, frames>>
  BY Zenon DEF Available, Short
<1>3. PICK n : /\ n = IF Len(buffer) < nbytes - Len(buf) THEN Len(buffer) ELSE nbytes - Len(buf)
               /\ buf' = buf \o SubSeq(buffer, 1, n)
               /\ buffer' = SubSeq(buffer, n + 1, Len(buffer))
  BY Zenon DEF Available
<1>4. n \in Nat /\ n <= Len(buffer) /\ Len(buf) + n <= nbytes /\ Len(buffer) \in Nat
  <2>1. Len(buffer) \in Nat
    BY <1>1, LenProperties
  <2> QED BY <2>1, <1>1, <1>2, <1>3
<1>5. PICK p \in Seq(Byte) : /\ buffer = Cat(p, buffer') /\ buffer' \in Seq(Byte)
                             /\ buf' = Cat(buf, p) /\ Len(p) = n
                             /\ Len(buffer') = Len(buffer) - n
  <2>1. /\ SubSeq(buffer, 1, n) \in Seq(Byte) /\ SubSeq(buffer, n + 1, Len(buffer)) \in Seq(Byte)
        /\ Len(SubSeq(buffer, 1, n)) = n
        /\ Len(SubSeq(buffer, n + 1, Len(buffer))) = Len(buffer) - n
        /\ SubSeq(buffer, 1, n) \o SubSeq(buffer, n + 1, Len(buffer)) = buffer
    BY <1>1, <1>4, Cut
  <2> QED BY <2>1, <1>3, Zenon DEF Cat
<1>6. buf' \in Seq(Byte) /\ Len(buf') = Len(buf) + n
  BY <1>1, <1>5, CatParts
<1>7. TypeOK'
  <2>1. Len(buf') <= nbytes /\ Len(buffer') <= BufferSize
    BY <1>1, <1>4, <1>5, <1>6
  <2>2. TypeOK
    BY DEF IInv
  <2> QED BY <2>1, <2>2, <1>2, <1>5, <1>6, Zenon DEF TypeOK
<1>8. Stage'
  BY <1>2, Zenon DEF IInv, Stage
<1>9. Rest' = Rest
  <2>1. Along(header, Cat(buf, p), buffer', wire) = Along(header, buf, buffer, wire)
    BY <1>1, <1>5, AlongMoves
  <2> QED BY <2>1, <1>2, <1>5, Zenon DEF Rest
<1>10. Stream' /\ FramesIntact'
  BY <1>2, <1>9, Moving
<1> QED BY <1>7, <1>8, <1>10 DEF IInv

LEMMA InvRecv ==
    ASSUME IInv, Recv
    PROVE  IInv'
<1>1. /\ wire \in Seq(Byte) /\ buffer \in Seq(Byte) /\ buf \in Seq(Byte) /\ header \in Seq(Byte)
  BY Typed, Zenon
<1>2. /\ stage # "failed" /\ buffer = <<>>
      /\ UNCHANGED <<input, sent, closed, nbytes, buf, stage, header, frames>>
  BY Zenon DEF Recv, Short
<1>3. PICK n \in 1..Len(wire) : /\ n <= BufferSize
                                /\ buffer' = SubSeq(wire, 1, n)
                                /\ wire' = SubSeq(wire, n + 1, Len(wire))
  BY Zenon DEF Recv
<1>4. /\ buffer' \in Seq(Byte) /\ wire' \in Seq(Byte) /\ wire = Cat(buffer', wire')
      /\ Len(buffer') = n
  <2>1. n \in Nat /\ n <= Len(wire)
    BY <1>1, <1>3, LenProperties
  <2>2. /\ SubSeq(wire, 1, n) \in Seq(Byte) /\ SubSeq(wire, n + 1, Len(wire)) \in Seq(Byte)
        /\ Len(SubSeq(wire, 1, n)) = n
        /\ SubSeq(wire, 1, n) \o SubSeq(wire, n + 1, Len(wire)) = wire
    BY <2>1, <1>1, Cut
  <2> QED BY <2>2, <1>3, Zenon DEF Cat
<1>5. TypeOK'
  <2>1. Len(buffer') <= BufferSize
    BY <1>3, <1>4
  <2>2. TypeOK
    BY DEF IInv
  <2> QED BY <2>1, <2>2, <1>2, <1>4, Zenon DEF TypeOK
<1>6. Stage'
  BY <1>2, Zenon DEF IInv, Stage
<1>7. Rest' = Rest
  <2>1. Along(header, buf, buffer', wire') = Along(header, buf, <<>>, wire)
    BY <1>1, <1>4, AlongMoves
  <2> QED BY <2>1, <1>2, Zenon DEF Rest
<1>8. Stream' /\ FramesIntact'
  BY <1>2, <1>7, Moving
<1> QED BY <1>5, <1>6, <1>8 DEF IInv

(* As long as a message has not been received, it is the next to come.     *)
LEMMA NextToCome ==
    ASSUME IInv, Len(frames) < sent
    PROVE  /\ input[Len(frames) + 1] \in Message
           /\ \E u \in Seq(Byte) :
                  /\ u = Bytes(input, Len(frames) + 1, sent - (Len(frames) + 1))
                  /\ Coming = Cat(Encoded(input, Len(frames) + 1), u)
<1>1. /\ input \in Seq(Message) /\ Len(input) \in Nat /\ sent \in Nat /\ sent <= Len(input)
      /\ Len(frames) \in Nat
  BY Typed, Zenon
<1>2. PICK k \in Nat, n \in Nat : k = Len(frames) /\ n = sent - (k + 1) /\ sent = k + (n + 1)
  <2>1. sent - (Len(frames) + 1) \in Nat /\ sent = Len(frames) + ((sent - (Len(frames) + 1)) + 1)
    BY <1>1
  <2> QED BY <2>1, <1>1
<1>3. k + 1 \in 1..Len(input) /\ (k + 1) + n <= Len(input) /\ k + (n + 1) <= Len(input)
      /\ k + 1 \in Nat /\ sent - k = n + 1
  BY <1>1, <1>2
<1>4. input[k + 1] \in Message
  BY <1>1, <1>3, ElementOfSeq
<1>5. Bytes(input, k, n + 1) = Cat(Encoded(input, k + 1), Bytes(input, k + 1, n))
  BY <1>1, <1>3, BytesFirst
<1>6. Bytes(input, k + 1, n) \in Seq(Byte)
  <2>1. PICK l \in Nat : l = k + 1 /\ l + n <= Len(input)
    BY <1>3
  <2>2. Bytes(input, l, n) \in Seq(Byte)
    BY <2>1, <1>1, BytesType
  <2> QED BY <2>1, <2>2
<1>7. Coming = Bytes(input, k, n + 1)
  BY <1>2, <1>3, Zenon DEF Coming
<1> QED BY <1>2, <1>4, <1>5, <1>6, <1>7, Zenon

LEMMA InvRecvFails ==
    ASSUME IInv, RecvFails
    PROVE  IInv'
<1>1. /\ buf \in Seq(Byte) /\ header \in Seq(Byte) /\ Len(buf) \in Nat /\ nbytes \in Nat
      /\ input \in Seq(Message) /\ Len(input) \in Nat /\ sent \in Nat /\ sent <= Len(input)
      /\ Len(frames) \in Nat /\ Len(frames) <= sent
  BY Typed, Zenon
<1>2. /\ stage \in {"header", "extra", "payload"} /\ stage # "failed" /\ Len(buf) < nbytes
      /\ buffer = <<>> /\ wire = <<>> /\ closed /\ stage' = "failed"
      /\ UNCHANGED <<input, sent, wire, closed, buffer, nbytes, buf, header, frames>>
  <2>1. stage \in {"header", "extra", "payload", "failed"}
    BY Zenon DEF IInv, TypeOK
  <2> QED BY <2>1, Zenon DEF RecvFails, Short
<1>3. TypeOK' /\ FramesIntact'
  <2>1. TypeOK /\ FramesIntact
    BY DEF IInv
  <2>2. stage' \in {"header", "extra", "payload", "failed"}
    BY <1>2
  <2> QED BY <2>1, <2>2, <1>2, Zenon DEF TypeOK, FramesIntact
<1>4. Stage'
  BY <1>2 DEF Stage
<1>5. PICK t \in Seq(Byte) : Cat(Rest, t) = Coming
  BY <1>2 DEF IInv, Stream
<1>6. PICK r \in Seq(Byte) : r = Cat(header, buf)
  <2>1. Cat(header, buf) \in Seq(Byte)
    BY <1>1, CatParts
  <2> QED BY <2>1
<1>7. Rest = r
  <2>1. <<>> \in Seq(Byte) /\ Cat(<<>>, <<>>) = <<>>
    <3>1. PICK e \in Seq(Byte) : e = <<>>
      <4>1. <<>> \in Seq(Byte)
        OBVIOUS
      <4> QED BY <4>1
    <3>2. Cat(e, <<>>) = e
      BY CatEmpty
    <3> QED BY <3>1, <3>2
  <2>2. Cat(buf, <<>>) = buf
    BY <1>1, CatEmpty
  <2> QED BY <2>1, <2>2, <1>2, <1>6, Zenon DEF Rest, Along
<1>8. header \o buf \o buffer \o wire = r
  <2>1. Cat(r, <<>>) = r
    BY CatEmpty
  <2>2. Cat(Cat(Cat(header, buf), <<>>), <<>>) = r
    BY <2>1, <1>6
  <2> QED BY <2>2, <1>2, Zenon DEF Cat
<1>9. ASSUME Len(frames) < Len(input)
      PROVE  IsStrictPrefix(r, Encoded(input, Len(frames) + 1))
  <2>1. CASE Len(frames) < sent
    <3>1. PICK m \in Message, u \in Seq(Byte) :
              /\ m = input[Len(frames) + 1]
              /\ Coming = Cat(Encoded(input, Len(frames) + 1), u)
      BY <2>1, NextToCome, Zenon
    <3>2. Coming = Cat(Encode(m.payload, m.key), u)
      BY <3>1, Zenon DEF Encoded
    <3>3. Cat(r, t) = Cat(header, Cat(buf, t))
      <4>1. Cat(Cat(header, buf), t) = Cat(header, Cat(buf, t))
        BY <1>1, CatAssociative
      <4> QED BY <4>1, <1>6
    <3>4. Cat(header, Cat(buf, t)) = Cat(Encode(m.payload, m.key), u)
      BY <3>2, <3>3, <1>5, <1>7
    <3>5. \/ header = <<>> /\ Len(buf) < 2
          \/ Len(header) = 2 /\ Len(buf) < LengthSize(Bits(header)) + MaskSize(header)
          \/ /\ Len(header) >= 2 /\ Len(header) = DataOffset(header)
             /\ Len(buf) < PayloadLength(header)
      <4>1. Stage
        BY DEF IInv
      <4> QED BY <4>1, <1>2, Zenon DEF Stage
    <3>6. Len(Cat(header, buf)) < Len(Encode(m.payload, m.key))
      BY <3>4, <3>5, <1>1, ShortOfMessage
    <3>7. Cat(r, t) = Cat(Encode(m.payload, m.key), u) /\ Len(r) < Len(Encode(m.payload, m.key))
      BY <3>3, <3>4, <3>6, <1>6
    <3>8. IsStrictPrefix(r, Encode(m.payload, m.key))
      BY <3>7, BeginningOfMessage
    <3> QED BY <3>1, <3>8, Zenon DEF Encoded
  <2>2. CASE ~(Len(frames) < sent)
    <3>1. sent - Len(frames) = 0
      BY <2>2, <1>1
    <3>2. Coming = <<>>
      BY <3>1, BytesOfNone DEF Coming
    <3>3. r = <<>>
      <4>1. Len(Cat(r, t)) = Len(r) + Len(t) /\ Len(r) \in Nat /\ Len(t) \in Nat
        BY CatParts, LenProperties
      <4>2. Len(Cat(r, t)) = 0
        BY <3>2, <1>5, <1>7
      <4>3. Len(r) = 0
        <5>1. PICK x \in Nat, y \in Nat : x = Len(r) /\ y = Len(t)
          BY <4>1
        <5>2. x + y = 0
          BY <4>1, <4>2, <5>1, Zenon
        <5>3. x = 0
          BY <5>2
        <5> QED BY <5>1, <5>3
      <4> QED BY <4>3, EmptySeq
    <3>4. PICK m \in Message : m = input[Len(frames) + 1]
      <4>1. Len(frames) + 1 \in 1..Len(input)
        BY <1>1, <1>9
      <4>2. input[Len(frames) + 1] \in Message
        BY <4>1, <1>1, ElementOfSeq
      <4> QED BY <4>2
    <3>5. PICK e \in Seq(Byte) : e = Encode(m.payload, m.key) /\ Len(e) # 0
      <4>1. PICK g \in Seq(Byte), body \in Seq(Byte) : IsMessage(m, g, body)
        BY EncodeParts
      <4>2. /\ Encode(m.payload, m.key) \in Seq(Byte)
            /\ Len(Encode(m.payload, m.key)) = Len(g) + Len(body)
            /\ Len(g) \in Nat /\ Len(g) >= 2 /\ Len(body) \in Nat
        BY <4>1 DEF IsMessage
      <4>3. Len(Encode(m.payload, m.key)) # 0
        BY <4>2
      <4> QED BY <4>2, <4>3
    <3>6. IsStrictPrefix(r, Cat(r, e))
      BY <3>5, StrictPrefix
    <3>7. Cat(r, e) = e
      BY <3>3, CatEmpty
    <3> QED BY <3>4, <3>5, <3>6, <3>7, Zenon DEF Encoded
  <2> QED BY <2>1, <2>2
<1>10. GivesUpOnIncomplete'
  <2>1. Len(frames) < Len(input) => IsStrictPrefix(header \o buf \o buffer \o wire,
                                                  Encoded(input, Len(frames) + 1))
    BY <1>8, <1>9
  <2> QED BY <2>1, <1>2, Zenon DEF GivesUpOnIncomplete, Encoded
<1>11. Stream'
  BY <1>2, <1>10, Zenon DEF Stream
<1> QED BY <1>3, <1>4, <1>11 DEF IInv
-----------------------------------------------------------------------------
(* The value of a sequence of bytes is a number.                           *)
LEMMA ToHostType ==
    ASSUME NEW bytes \in Seq(Byte)
    PROVE  ToHost(bytes) \in Nat
<1>1. Len(bytes) \in Nat
  BY LenProperties
<1>2. PICK f : /\ ToHost(bytes) = f[Len(bytes)] /\ f[0] = 0
               /\ \A i \in 1..Len(bytes) : f[i] = 256 * f[i - 1] + bytes[i]
  BY <1>1, ToHostDef
<1>3. \A i \in 1..Len(bytes) : bytes[i] \in Nat
  <2>1. \A x \in Byte : x \in Nat
    BY DEF Byte
  <2> QED BY <2>1, ElementOfSeq
<1> DEFINE T == {i \in Nat : i <= Len(bytes) => f[i] \in Nat}
<1>4. 0 \in T
  BY <1>2
<1>5. ASSUME NEW i \in T PROVE i + 1 \in T
  <2> SUFFICES ASSUME i + 1 <= Len(bytes) PROVE f[i + 1] \in Nat
    OBVIOUS
  <2>1. i + 1 \in 1..Len(bytes) /\ (i + 1) - 1 = i /\ i <= Len(bytes)
    BY <1>1
  <2>2. f[i] \in Nat /\ bytes[i + 1] \in Nat
    BY <2>1, <1>3
  <2>3. f[i + 1] = 256 * f[i] + bytes[i + 1]
    BY <2>1, <1>2
  <2> QED BY <2>2, <2>3
<1> HIDE DEF T
<1>6. T = Nat
  <2>1. T \in SUBSET Nat
    BY DEF T
  <2> QED BY <2>1, <1>4, <1>5, InductiveSet
<1>7. Len(bytes) \in T
  BY <1>1, <1>6
<1> QED BY <1>1, <1>2, <1>7 DEF T

(* What the fields of a header may be.                                     *)
LEMMA FieldTypes ==
    ASSUME NEW h \in Seq(Byte), Len(h) >= 2
    PROVE  /\ Bits(h) \in Nat /\ MaskSize(h) \in Nat /\ LengthSize(Bits(h)) \in Nat
           /\ Len(h) = DataOffset(h) => PayloadLength(h) \in Nat
<1>1. PICK l \in Nat : l = Len(h)
  BY LenProperties
<1>2. h[2] \in Byte
  <2>1. 2 \in 1..Len(h)
    BY <1>1
  <2> QED BY <2>1, ElementOfSeq
<1>3. Bits(h) \in Nat
  <2>1. \A x \in Byte : x % 128 \in Nat
    BY DEF Byte
  <2> QED BY <2>1, <1>2, Zenon DEF Bits
<1>4. PICK mask \in Nat : mask = MaskSize(h)
  <2>1. MaskSize(h) \in {0, 4}
    BY Zenon DEF MaskSize
  <2> QED BY <2>1
<1>5. PICK size \in Nat : size = LengthSize(Bits(h))
  <2>1. LengthSize(Bits(h)) \in {0, 2, 8}
    BY LengthSizes, Zenon
  <2> QED BY <2>1
<1>6. ASSUME Len(h) = DataOffset(h) PROVE PayloadLength(h) \in Nat
  <2>1. l = 2 + mask + size
    BY <1>1, <1>4, <1>5, <1>6, Zenon DEF DataOffset
  <2>2. 2 + size <= Len(h)
    BY <2>1, <1>1
  <2>3. SubSeq(h, 2 + 1, 2 + size) \in Seq(Byte)
    BY <2>2, Piece
  <2>4. SubSeq(h, 3, 2 + size) \in Seq(Byte)
    <3>1. 2 + 1 = 3
      OBVIOUS
    <3> QED BY <2>3, <3>1
  <2>5. ToHost(SubSeq(h, 3, 2 + size)) \in Nat
    BY <2>4, ToHostType
  <2> QED BY <2>5, <1>3, <1>5, Zenon DEF PayloadLength
<1> QED BY <1>3, <1>4, <1>5, <1>6

(* A request for more bytes.                                               *)
LEMMA Asking ==
    ASSUME IInv, NEW s \in {"header", "extra", "payload"}, NEW n \in Nat, Ask(s, n),
           UNCHANGED <<input, sent, wire, closed, buffer>>,
           header' \in Seq(Byte), frames' \in Seq(Seq(Byte))
    PROVE  TypeOK' /\ buf' = <<>> /\ stage' = s /\ nbytes' = n
<1>1. buf' = <<>> /\ stage' = s /\ nbytes' = n
  BY DEF Ask
<1>2. buf' \in Seq(Byte) /\ Len(buf') <= n
  BY <1>1
<1>3. stage' \in {"header", "extra", "payload", "failed"}
  BY <1>1
<1>4. TypeOK
  BY DEF IInv
<1> QED BY <1>1, <1>2, <1>3, <1>4, Zenon DEF TypeOK

LEMMA InvHeaderBegun ==
    ASSUME IInv, HeaderBegun
    PROVE  IInv'
<1>1. /\ wire \in Seq(Byte) /\ buffer \in Seq(Byte) /\ buf \in Seq(Byte)
      /\ frames \in Seq(Seq(Byte))
  BY Typed, Zenon
<1>2. /\ stage = "header" /\ stage # "failed" /\ Len(buf) = nbytes /\ header' = buf
      /\ UNCHANGED <<input, sent, wire, closed, buffer, frames>>
  BY DEF HeaderBegun, Complete
<1>3. header = <<>> /\ Len(buf) = 2
  BY <1>2, Zenon DEF IInv, Stage
<1>4. Bits(buf) \in Nat /\ MaskSize(buf) \in Nat /\ LengthSize(Bits(buf)) \in Nat
  <2>1. Len(buf) >= 2
    BY <1>3
  <2> QED BY <2>1, <1>1, FieldTypes
<1>5. PICK extra \in Nat : extra = LengthSize(Bits(buf)) + MaskSize(buf)
  BY <1>4
<1>6. IF extra > 0 THEN Ask("extra", extra) ELSE Ask("payload", Bits(buf))
  BY <1>5, Zenon DEF HeaderBegun
<1>7. /\ TypeOK' /\ buf' = <<>>
      /\ \/ extra > 0 /\ stage' = "extra" /\ nbytes' = extra
         \/ extra = 0 /\ stage' = "payload" /\ nbytes' = Bits(buf)
  <2>1. CASE extra > 0
    <3>1. Ask("extra", extra)
      BY <2>1, <1>6
    <3>2. TypeOK' /\ buf' = <<>> /\ stage' = "extra" /\ nbytes' = extra
      BY <3>1, <1>1, <1>2, Asking
    <3> QED BY <3>2, <2>1
  <2>2. CASE ~(extra > 0)
    <3>1. Ask("payload", Bits(buf))
      BY <2>2, <1>6
    <3>2. TypeOK' /\ buf' = <<>> /\ stage' = "payload" /\ nbytes' = Bits(buf)
      BY <3>1, <1>1, <1>2, <1>4, Asking
    <3> QED BY <3>2, <2>2
  <2> QED BY <2>1, <2>2
<1>8. Stage'
  <2>1. CASE extra > 0
    <3>1. stage' = "extra" /\ nbytes' = extra
      BY <2>1, <1>7
    <3> QED BY <3>1, <1>2, <1>3, <1>5 DEF Stage
  <2>2. CASE extra = 0
    <3>1. stage' = "payload" /\ nbytes' = Bits(buf)
      BY <2>2, <1>7
    <3>2. LengthSize(Bits(buf)) = 0 /\ MaskSize(buf) = 0
      BY <2>2, <1>4, <1>5
    <3>3. PayloadLength(buf) = Bits(buf)
      BY <3>2, Zenon DEF PayloadLength
    <3>4. DataOffset(buf) = 2 /\ Len(buf) >= 2
      BY <3>2, <1>3 DEF DataOffset
    <3> QED BY <3>1, <3>3, <3>4, <1>2, <1>3, Zenon DEF Stage
  <2> QED BY <1>7, <2>1, <2>2
<1>9. Rest' = Rest
  <2>1. <<>> \in Seq(Byte)
    OBVIOUS
  <2>2. Along(<<>>, buf, buffer, wire) = Along(buf, <<>>, buffer, wire)
    BY <2>1, <1>1, AlongMoves
  <2> QED BY <2>2, <1>2, <1>3, <1>7, Zenon DEF Rest
<1>10. Stream' /\ FramesIntact'
  <2>1. stage' # "failed"
    BY <1>7
  <2> QED BY <2>1, <1>2, <1>9, Moving
<1> QED BY <1>7, <1>8, <1>10 DEF IInv

LEMMA InvHeaderComplete ==
    ASSUME IInv, HeaderComplete
    PROVE  IInv'
<1>1. /\ wire \in Seq(Byte) /\ buffer \in Seq(Byte) /\ buf \in Seq(Byte) /\ header \in Seq(Byte)
      /\ frames \in Seq(Seq(Byte))
  BY Typed, Zenon
<1>2. /\ stage = "extra" /\ stage # "failed" /\ Len(buf) = nbytes /\ header' = header \o buf
      /\ UNCHANGED <<input, sent, wire, closed, buffer, frames>>
      /\ Ask("payload", PayloadLength(header'))
  BY DEF HeaderComplete, Complete
<1>3. Len(header) = 2 /\ Len(buf) = LengthSize(Bits(header)) + MaskSize(header)
  BY <1>2, Zenon DEF IInv, Stage
<1>4. PICK h \in Seq(Byte) : h = Cat(header, buf)
  <2>1. Cat(header, buf) \in Seq(Byte)
    BY <1>1, CatParts
  <2> QED BY <2>1
<1>5. header' = h
  BY <1>2, <1>4, Zenon DEF Cat
<1>6. Len(h) = Len(header) + Len(buf) /\ h[2] = header[2]
  <2>1. Len(h) = Len(header) + Len(buf)
    BY <1>1, <1>4, CatParts
  <2>2. \A i \in 1..Len(header) : h[i] = header[i]
    BY <1>1, <1>4, CatParts
  <2>3. 2 \in 1..Len(header)
    BY <1>3
  <2> QED BY <2>1, <2>2, <2>3, Zenon
<1>7. Bits(h) = Bits(header) /\ MaskSize(h) = MaskSize(header)
  BY <1>6, SecondByteTells, Zenon
<1>8. Len(h) >= 2 /\ Len(h) = DataOffset(h)
  <2>1. MaskSize(header) \in Nat /\ LengthSize(Bits(header)) \in Nat
    <3>1. Len(header) >= 2
      BY <1>3
    <3> QED BY <3>1, <1>1, FieldTypes
  <2>2. PICK mask \in Nat, size \in Nat : mask = MaskSize(h) /\ size = LengthSize(Bits(h))
    BY <2>1, <1>7
  <2>3. Len(h) = 2 + (size + mask)
    BY <2>2, <1>3, <1>6, <1>7, Zenon
  <2>4. DataOffset(h) = 2 + mask + size
    BY <2>2, Zenon DEF DataOffset
  <2> QED BY <2>3, <2>4
<1>9. PayloadLength(h) \in Nat
  BY <1>8, FieldTypes
<1>10. TypeOK' /\ buf' = <<>> /\ stage' = "payload" /\ nbytes' = PayloadLength(h)
  BY <1>1, <1>2, <1>5, <1>9, Asking
<1>11. Stage'
  BY <1>5, <1>8, <1>10 DEF Stage
<1>12. Rest' = Rest
  <2>1. Along(Cat(header, buf), <<>>, buffer, wire) = Along(header, buf, buffer, wire)
    BY <1>1, AlongMoves
  <2> QED BY <2>1, <1>2, <1>4, <1>5, <1>10, Zenon DEF Rest
<1>13. Stream' /\ FramesIntact'
  <2>1. stage' # "failed"
    BY <1>10
  <2> QED BY <2>1, <1>2, <1>12, Moving
<1> QED BY <1>10, <1>11, <1>13 DEF IInv

LEMMA InvPayloadComplete ==
    ASSUME IInv, PayloadComplete
    PROVE  IInv'
<1>1. /\ wire \in Seq(Byte) /\ buffer \in Seq(Byte) /\ buf \in Seq(Byte) /\ header \in Seq(Byte)
      /\ input \in Seq(Message) /\ Len(input) \in Nat /\ sent \in Nat /\ sent <= Len(input)
      /\ frames \in Seq(Seq(Byte)) /\ Len(frames) \in Nat /\ Len(frames) <= sent
      /\ Len(buf) \in Nat
  BY Typed, Zenon
<1>2. /\ stage = "payload" /\ stage # "failed" /\ Len(buf) = nbytes
      /\ frames' = Append(frames, Unmasked(buf, MaskingKey(header)))
      /\ header' = <<>> /\ Ask("header", 2)
      /\ UNCHANGED <<input, sent, wire, closed, buffer>>
  BY Zenon DEF PayloadComplete, Complete, Unmasked
<1>3. /\ Len(header) >= 2 /\ Len(header) = DataOffset(header)
      /\ Len(buf) = PayloadLength(header)
  BY <1>2, Zenon DEF IInv, Stage
<1>4. PICK t \in Seq(Byte) : Cat(Rest, t) = Coming /\ (~closed => t = <<>>)
  BY <1>2, Zenon DEF IInv, Stream
<1>5. PICK x \in Seq(Byte) : x = Cat(buffer, wire)
  <2>1. Cat(buffer, wire) \in Seq(Byte)
    BY <1>1, CatParts
  <2> QED BY <2>1
<1>6. /\ Cat(x, t) \in Seq(Byte)
      /\ Cat(Rest, t) = Cat(header, Cat(buf, Cat(x, t)))
  <2>1. PICK y \in Seq(Byte) : y = Cat(buf, x)
    <3>1. Cat(buf, x) \in Seq(Byte)
      BY <1>1, CatParts
    <3> QED BY <3>1
  <2>2. Cat(y, t) = Cat(buf, Cat(x, t))
    <3>1. Cat(Cat(buf, x), t) = Cat(buf, Cat(x, t))
      BY <1>1, CatAssociative
    <3> QED BY <2>1, <3>1
  <2>3. Cat(Cat(header, y), t) = Cat(header, Cat(y, t))
    BY <1>1, CatAssociative
  <2>4. Rest = Cat(header, y)
    BY <2>1, <1>5, Zenon DEF Rest, Along
  <2>5. Cat(x, t) \in Seq(Byte)
    BY CatParts
  <2> QED BY <2>2, <2>3, <2>4, <2>5, Zenon
<1>7. Len(frames) < sent
  <2>1. SUFFICES ASSUME ~(Len(frames) < sent) PROVE FALSE
    OBVIOUS
  <2>2. sent - Len(frames) = 0
    BY <2>1, <1>1
  <2>3. Coming = <<>>
    BY <2>2, BytesOfNone DEF Coming
  <2>4. PICK y \in Seq(Byte) : y = Cat(buf, Cat(x, t))
    <3>1. Cat(buf, Cat(x, t)) \in Seq(Byte)
      BY <1>1, <1>6, CatParts
    <3> QED BY <3>1
  <2>5. Len(Cat(header, y)) = Len(header) + Len(y)
    BY <1>1, CatParts
  <2>6. Cat(header, y) = <<>>
    BY <2>3, <2>4, <1>4, <1>6, Zenon
  <2>7. Len(Cat(header, y)) = 0
    BY <2>6
  <2>8. PICK k \in Nat, l \in Nat : k = Len(header) /\ l = Len(y)
    BY <1>1, LenProperties
  <2>9. k + l = 0 /\ k >= 2
    BY <2>5, <2>7, <2>8, <1>3, Zenon
  <2> QED BY <2>9
<1>8. PICK m \in Message, u \in Seq(Byte) :
          /\ m = input[Len(frames) + 1]
          /\ u = Bytes(input, Len(frames) + 1, sent - (Len(frames) + 1))
          /\ Coming = Cat(Encoded(input, Len(frames) + 1), u)
  BY <1>7, NextToCome, Zenon
<1>9. Unmasked(buf, MaskingKey(header)) = m.payload /\ Cat(x, t) = u
  <2>1. Coming = Cat(Encode(m.payload, m.key), u)
    BY <1>8, Zenon DEF Encoded
  <2>2. Cat(header, Cat(buf, Cat(x, t))) = Cat(Encode(m.payload, m.key), u)
    BY <2>1, <1>4, <1>6, Zenon
  <2>3. PICK y \in Seq(Byte) : y = Cat(x, t)
    BY <1>6
  <2>4. \A z \in Seq(Byte) :
            Cat(header, Cat(buf, z)) = Cat(Encode(m.payload, m.key), u)
                => Unmasked(buf, MaskingKey(header)) = m.payload /\ z = u
    BY <1>1, <1>3, WholeMessage, SMTT(40)
  <2> QED BY <2>2, <2>4, <1>6, Zenon
<1>10. PICK p \in Seq(Byte) : p = m.payload
  <2>1. m.payload \in Seq(Byte)
    BY DEF Message
  <2> QED BY <2>1
<1>11. frames' = Append(frames, p)
  BY <1>2, <1>9, <1>10
<1>12. /\ frames' \in Seq(Seq(Byte)) /\ Len(frames') = Len(frames) + 1
       /\ \A i \in 1..Len(frames) : frames'[i] = frames[i]
       /\ frames'[Len(frames) + 1] = p
  BY <1>1, <1>11, AppendProperties
<1>13. TypeOK' /\ buf' = <<>> /\ stage' = "header" /\ nbytes' = 2
  <2>1. header' \in Seq(Byte)
    BY <1>2
  <2> QED BY <2>1, <1>2, <1>12, Asking
<1>14. Stage'
  BY <1>2, <1>13 DEF Stage
<1>15. FramesIntact'
  <2>1. Len(frames') <= sent
    BY <1>1, <1>7, <1>12
  <2>2. \A i \in 1..Len(frames) : frames[i] = input[i].payload
    <3>1. DOMAIN frames = 1..Len(frames)
      BY <1>1, LenProperties
    <3>2. \A i \in DOMAIN frames : frames[i] = input[i].payload
      BY Zenon DEF IInv, FramesIntact
    <3> QED BY <3>1, <3>2, Zenon
  <2>3. DOMAIN frames' = 1..(Len(frames) + 1)
    BY <1>12, LenProperties
  <2>4. ASSUME NEW i \in DOMAIN frames' PROVE frames'[i] = input[i].payload
    <3>1. CASE i = Len(frames) + 1
      BY <3>1, <1>8, <1>10, <1>12
    <3>2. CASE i # Len(frames) + 1
      <4>1. i \in 1..Len(frames)
        BY <3>2, <2>3, <1>1
      <4> QED BY <4>1, <2>2, <1>12
    <3> QED BY <3>1, <3>2
  <2> QED BY <2>1, <2>4, <1>2, Zenon DEF FramesIntact
<1>16. Stream'
  <2>1. Coming' = u
    BY <1>2, <1>8, <1>12, Zenon DEF Coming
  <2>2. Rest' = x
    <3>1. Cat(<<>>, x) = x
      BY CatEmpty
    <3> QED BY <3>1, <1>2, <1>5, <1>13, Zenon DEF Rest, Along
  <2>3. Cat(Rest', t) = Coming' /\ (~closed' => t = <<>>)
    BY <2>1, <2>2, <1>2, <1>4, <1>9, Zenon
  <2>4. stage' # "failed"
    BY <1>13
  <2> QED BY <2>3, <2>4, Zenon DEF Stream
<1> QED BY <1>13, <1>14, <1>15, <1>16 DEF IInv

LEMMA InvStutter ==
    ASSUME IInv, UNCHANGED vars
    PROVE  IInv'
<1>1. UNCHANGED <<input, sent, wire, closed, buffer, nbytes, buf, stage, header, frames>>
  BY DEF vars
<1> QED BY <1>1, Zenon DEF IInv, TypeOK, FramesIntact, Stage, Stream, GivesUpOnIncomplete,
                           Rest, Coming

(* The invariant is inductive.                                             *)
THEOREM StreamInvariant == Spec => []IInv
<1>1. Init => IInv
  BY InvInit
<1>2. IInv /\ [Next]_vars => IInv'
  BY InvSendEx, InvClose, InvAvailable, InvRecv, InvRecvFails, InvHeaderBegun,
     InvHeaderComplete, InvPayloadComplete, InvStutter DEF Next, Receive, Finished, Failed
<1> QED BY <1>1, <1>2, PTL DEF Spec
-----------------------------------------------------------------------------
(* THE THEOREMS.                                                           *)

(* Every variable has its type.                                            *)
THEOREM FrameTypes == Spec => []TypeOK
<1>1. IInv => TypeOK
  BY DEF IInv
<1> QED BY <1>1, StreamInvariant, PTL

(* However the stream is cut into pieces, and wherever it ends, the        *)
(* receiver gets the messages that were sent, in order and unchanged.      *)
THEOREM MessagesArriveIntact == Spec => []FramesIntact
<1>1. IInv => FramesIntact
  BY DEF IInv
<1> QED BY <1>1, StreamInvariant, PTL

(* The receiver fails only where the next message is not all there.        *)
THEOREM FailsOnlyOnIncomplete == Spec => []GivesUpOnIncomplete
<1>1. IInv => GivesUpOnIncomplete
  BY DEF IInv, Stream, GivesUpOnIncomplete
<1> QED BY <1>1, StreamInvariant, PTL
-----------------------------------------------------------------------------
(* MESSAGES IN MEMORY: PartialMessage, whose readers are those above.      *)

(* A reader does not look behind the header.                               *)
LEMMA FieldsOfBeginning ==
    ASSUME NEW h \in Seq(Byte), Len(h) >= 2, Len(h) = DataOffset(h),
           NEW g \in Seq(Byte), Len(g) >= Len(h), \A i \in 1..Len(h) : g[i] = h[i]
    PROVE  /\ DataOffset(g) = DataOffset(h) /\ PayloadLength(g) = PayloadLength(h)
           /\ MaskingKey(g) = MaskingKey(h) /\ FullMessageSize(g) = FullMessageSize(h)
<1>1. PICK l \in Nat, k \in Nat : l = Len(h) /\ k = Len(g)
  BY LenProperties
<1>2. Bits(g) = Bits(h) /\ MaskSize(g) = MaskSize(h) /\ DataOffset(g) = DataOffset(h)
  <2>1. 2 \in 1..l
    BY <1>1
  <2> QED BY <2>1, <1>1, SecondByteTells
<1>3. PICK size, mask : size = LengthSize(Bits(h)) /\ mask = MaskSize(h)
  OBVIOUS
<1>4. size \in Nat /\ mask \in Nat /\ l = 2 + mask + size
  <2>1. size \in {0, 2, 8} /\ mask \in {0, 4}
    BY <1>3, LengthSizes DEF MaskSize
  <2>2. l = 2 + mask + size
    BY <1>1, <1>3 DEF DataOffset
  <2> QED BY <2>1, <2>2
<1>5. \A m \in Nat, n \in Nat : m + n <= l => SubSeq(g, m + 1, m + n) = SubSeq(h, m + 1, m + n)
  <2> SUFFICES ASSUME NEW m \in Nat, NEW n \in Nat, m + n <= l
               PROVE  SubSeq(g, m + 1, m + n) = SubSeq(h, m + 1, m + n)
    OBVIOUS
  <2>1. PICK a, b : a = SubSeq(g, m + 1, m + n) /\ b = SubSeq(h, m + 1, m + n)
    OBVIOUS
  <2>2. m + n <= k
    BY <1>1
  <2>3. a \in Seq(Byte) /\ Len(a) = n /\ \A i \in 1..n : a[i] = g[m + i]
    BY <2>1, <2>2, <1>1, Piece
  <2>4. b \in Seq(Byte) /\ Len(b) = n /\ \A i \in 1..n : b[i] = h[m + i]
    BY <2>1, <1>1, Piece
  <2>5. \A i \in 1..n : a[i] = b[i]
    <3> TAKE i \in 1..n
    <3>1. m + i \in 1..l
      OBVIOUS
    <3> QED BY <3>1, <2>3, <2>4, <1>1
  <2>6. a = b
    BY <2>3, <2>4, <2>5, Equal
  <2> QED BY <2>1, <2>6
<1>6. PayloadLength(g) = PayloadLength(h)
  <2>0. 2 \in Nat /\ 2 + size <= l /\ 2 + 1 = 3
    BY <1>4
  <2>1. SubSeq(g, 2 + 1, 2 + size) = SubSeq(h, 2 + 1, 2 + size)
    BY <2>0, <1>4, <1>5, Zenon
  <2>2. SubSeq(g, 3, 2 + size) = SubSeq(h, 3, 2 + size)
    BY <2>0, <2>1, Zenon
  <2> QED BY <2>2, <1>2, <1>3 DEF PayloadLength
<1>7. MaskingKey(g) = MaskingKey(h)
  <2>0. 2 + size \in Nat /\ (2 + size) + mask <= l
    BY <1>4
  <2>1. SubSeq(g, (2 + size) + 1, (2 + size) + mask) = SubSeq(h, (2 + size) + 1, (2 + size) + mask)
    BY <2>0, <1>4, <1>5, Zenon
  <2> QED BY <2>1, <1>2, <1>3 DEF MaskingKey
<1> QED BY <1>2, <1>6, <1>7 DEF FullMessageSize

(* The word-wise and the byte-wise masking use the same byte of the key.   *)
LEMMA SameByteOfKey ==
    \A n \in Nat : \A i \in 1..n :
        ~(i <= 4 * (n \div 4)) => ((i - 1) % 4) + 1 = i - 4 * (n \div 4)
BY SMTT(30)

(* UnmaskPayload undoes what UnMaskData does, for a payload of any length. *)
THEOREM UnmaskingUndoes ==
    ASSUME NEW payload \in Seq(Byte), NEW key \in Seq(Byte), Len(key) = 4
    PROVE  UnmaskPayload(UnMaskData(payload, key), key) = payload
<1>1. PICK masked : masked = UnMaskData(payload, key)
  OBVIOUS
<1>2. masked \in Seq(Byte) /\ Len(masked) = Len(payload) /\ UnMaskData(masked, key) = payload
  BY <1>1, UnMaskTwice
<1>3. PICK n \in Nat : n = Len(masked) /\ DOMAIN masked = 1..n
  BY <1>2, LenProperties
<1>4. PICK whole : whole = 4 * (n \div 4)
  OBVIOUS
<1>5. \A i \in 1..n : key[((i - 1) % 4) + 1] = IF i <= whole THEN key[((i - 1) % 4) + 1]
                                                             ELSE key[i - whole]
  BY <1>4, SameByteOfKey, Zenon
<1>6. UnmaskPayload(masked, key) = [i \in 1..n |-> XorByte(masked[i], key[((i - 1) % 4) + 1])]
  BY <1>3, Zenon DEF UnmaskPayload
<1>7. UnMaskData(masked, key) =
        [i \in 1..n |-> XorByte(masked[i], IF i <= whole THEN key[((i - 1) % 4) + 1]
                                                         ELSE key[i - whole])]
  BY <1>3, <1>4, Zenon DEF UnMaskData
<1>8. [i \in 1..n |-> XorByte(masked[i], key[((i - 1) % 4) + 1])] =
        [i \in 1..n |-> XorByte(masked[i], IF i <= whole THEN key[((i - 1) % 4) + 1]
                                                         ELSE key[i - whole])]
  BY <1>5, Zenon
<1> QED BY <1>1, <1>2, <1>6, <1>7, <1>8, Zenon

PartTypes == written \in [length : Lengths, key : Keys] /\ obtained \in 0..Len(FullHeader) + 1

LEMMA FourBytes == \A k \in [1..4 -> Byte] : k \in Seq(Byte) /\ Len(k) = 4
<1> SUFFICES ASSUME NEW k \in [1..4 -> Byte]
             PROVE  k \in Seq(Byte) /\ Len(k) = 4
  OBVIOUS
<1>1. k = [i \in 1..4 |-> k[i]] /\ \A i \in 1..4 : k[i] \in Byte
  BY Zenon
<1>2. PICK g : g = [i \in 1..4 |-> k[i]]
  OBVIOUS
<1>3. g \in Seq(Byte) /\ Len(g) = 4
  BY <1>1, <1>2
<1> QED BY <1>1, <1>2, <1>3

LEMMA UpToMaxLength == \A n \in 0..MaxLength : n \in Nat /\ n <= MaxLength
<1>1. MaxLength \in Nat
  BY SMT DEF MaxLength
<1> QED BY <1>1, SMT

LEMMA WrittenType ==
    ASSUME NEW w \in [length : Lengths, key : Keys]
    PROVE  /\ w.length \in Nat /\ w.length <= MaxLength
           /\ w.key \in Seq(Byte) /\ Len(w.key) \in {0, 4}
<1>1. w.length \in Lengths /\ w.key \in Keys
  OBVIOUS
<1>2. w.length \in 0..MaxLength
  BY <1>1, LengthsAssumption, Zenon
<1>3. CASE w.key = <<>>
  BY <1>2, <1>3, UpToMaxLength
<1>4. CASE w.key \in [1..4 -> Byte]
  BY <1>2, <1>4, FourBytes, UpToMaxLength
<1> QED BY <1>1, <1>3, <1>4, KeysAssumption

(* What is obtained of the message once its header is there.               *)
LEMMA HeaderIsObtained ==
    ASSUME PartTypes, HeaderObtained
    PROVE  /\ FullHeader \in Seq(Byte) /\ Len(FullHeader) >= 2
           /\ Len(FullHeader) = DataOffset(FullHeader)
           /\ PayloadLength(FullHeader) = written.length
           /\ MaskingKey(FullHeader) = written.key
           /\ Part \in Seq(Byte) /\ Len(Part) >= Len(FullHeader)
           /\ \A i \in 1..Len(FullHeader) : Part[i] = FullHeader[i]
<1>1. /\ written.length \in Nat /\ written.length <= MaxLength
      /\ written.key \in Seq(Byte) /\ Len(written.key) \in {0, 4}
  BY WrittenType DEF PartTypes
<1>2. PICK h : h = FullHeader
  OBVIOUS
<1>3. /\ h \in Seq(Byte) /\ Len(h) >= 2 /\ Len(h) = DataOffset(h)
      /\ PayloadLength(h) = written.length /\ MaskingKey(h) = written.key
  BY <1>1, <1>2, HeaderParts, Zenon DEF FullHeader
<1>5. PICK l \in Nat : l = Len(h)
  BY <1>3, LenProperties
<1>6. obtained \in 0..l + 1 /\ obtained >= l
  BY <1>2, <1>5 DEF PartTypes, HeaderObtained
<1>7. PICK w : w = Append(h, 0)
  OBVIOUS
<1>8. w \in Seq(Byte) /\ Len(w) = l + 1 /\ \A i \in 1..l : w[i] = h[i]
  <2>1. 0 \in Byte
    BY DEF Byte
  <2> QED BY <2>1, <1>3, <1>5, <1>7, AppendProperties
<1>9. PICK g : g = SubSeq(w, 0 + 1, 0 + obtained)
  OBVIOUS
<1>10. g \in Seq(Byte) /\ Len(g) = obtained /\ \A i \in 1..obtained : g[i] = w[0 + i]
  <2>1. 0 \in Nat /\ obtained \in Nat /\ 0 + obtained <= Len(w)
    BY <1>6, <1>8
  <2> QED BY <2>1, <1>8, <1>9, Piece
<1>11. Part = g
  <2>1. 0 + 1 = 1 /\ 0 + obtained = obtained
    BY <1>6
  <2> QED BY <2>1, <1>2, <1>7, <1>9, Zenon DEF Part
<1>12. \A i \in 1..l : g[i] = h[i]
  <2> TAKE i \in 1..l
  <2>1. i \in 1..obtained /\ 0 + i = i
    BY <1>6
  <2> QED BY <2>1, <1>8, <1>10
<1> QED BY <1>2, <1>3, <1>5, <1>6, <1>10, <1>11, <1>12

LEMMA PartTyped ==
    /\ PartInit => PartTypes
    /\ PartTypes /\ [PartNext]_partVars => PartTypes'
<1>1. \A w \in [length : Lengths, key : Keys] : Len(Header(w.length, w.key)) \in Nat
  <2> TAKE w \in [length : Lengths, key : Keys]
  <2>1. /\ w.length \in Nat /\ w.length <= MaxLength
        /\ w.key \in Seq(Byte) /\ Len(w.key) \in {0, 4}
    BY WrittenType
  <2>2. Header(w.length, w.key) \in Seq(Byte)
    BY <2>1, HeaderParts
  <2> QED BY <2>2, LenProperties
<1>2. PartInit => PartTypes
  BY <1>1 DEF PartInit, PartTypes, FullHeader
<1>3. ASSUME PartTypes, Obtain
      PROVE  PartTypes'
  <2>1. written' = written /\ obtained' = obtained + 1 /\ obtained <= Len(FullHeader)
    BY <1>3 DEF Obtain
  <2>2. FullHeader' = FullHeader
    BY <2>1 DEF FullHeader
  <2>3. Len(FullHeader) \in Nat
    BY <1>1, <1>3 DEF PartTypes, FullHeader
  <2> QED BY <2>1, <2>2, <2>3, <1>3 DEF PartTypes
<1>4. ASSUME PartTypes, UNCHANGED partVars
      PROVE  PartTypes'
  <2>1. written' = written /\ obtained' = obtained
    BY <1>4 DEF partVars
  <2>2. FullHeader' = FullHeader
    BY <2>1 DEF FullHeader
  <2> QED BY <2>1, <2>2, <1>4 DEF PartTypes
<1> QED BY <1>2, <1>3, <1>4 DEF PartNext

(* Whatever the length below 2^31, masked or not, and however much is      *)
(* there: once the header is, the WebSocket... functions read in it where  *)
(* the payload starts, its length, its key and the size of the message     *)
(* (ws.cpp 125-200) as GenWebSocketHeader wrote them.                      *)
THEOREM FieldsAreReadAsWritten == PartSpec => []FieldsAgree
<1>1. PartTypes => FieldsAgree
  <2> SUFFICES ASSUME PartTypes, HeaderObtained
               PROVE  /\ DataOffset(Part) = Len(FullHeader)
                      /\ PayloadLength(Part) = written.length
                      /\ MaskingKey(Part) = written.key
                      /\ FullMessageSize(Part) = Len(FullHeader) + written.length
    BY Zenon DEF FieldsAgree
  <2>1. PICK h, g : h = FullHeader /\ g = Part
    OBVIOUS
  <2>2. /\ h \in Seq(Byte) /\ Len(h) >= 2 /\ Len(h) = DataOffset(h)
        /\ PayloadLength(h) = written.length /\ MaskingKey(h) = written.key
    BY <2>1, HeaderIsObtained
  <2>3. g \in Seq(Byte) /\ Len(g) >= Len(h) /\ \A i \in 1..Len(h) : g[i] = h[i]
    BY <2>1, HeaderIsObtained
  <2>4. DataOffset(g) = DataOffset(h) /\ PayloadLength(g) = PayloadLength(h)
        /\ MaskingKey(g) = MaskingKey(h)
    BY <2>2, <2>3, FieldsOfBeginning
  <2> QED BY <2>1, <2>2, <2>4, Zenon DEF FullMessageSize
<1> QED BY <1>1, PartTyped, PTL DEF PartSpec

(* WebSocketMessageUnmaskPayload undoes UnMaskData, for every length of    *)
(* the payload and every key: the two count their way through the key in   *)
(* different ways (ws.cpp 230-247, 455-468).                               *)
THEOREM UnmaskingUndoesMasking == PartSpec => []UnmaskingAgrees
<1>1. PartTypes => UnmaskingAgrees
  <2> SUFFICES ASSUME PartTypes, written.key # <<>>,
                      NEW payload,
                      payload = [i \in 1..UpToNine(written.length) |-> (37 * i + obtained) % 256]
               PROVE  UnmaskPayload(UnMaskData(payload, written.key), written.key) = payload
    BY Zenon DEF UnmaskingAgrees
  <2>1. written.key \in [1..4 -> Byte]
    BY KeysAssumption DEF PartTypes
  <2>2. written.key \in Seq(Byte) /\ Len(written.key) = 4
    BY <2>1, FourBytes
  <2>3. UpToNine(written.length) \in Nat
    BY WrittenType DEF PartTypes, UpToNine
  <2>4. obtained \in Int
    BY DEF PartTypes
  <2>5. \A i \in 1..UpToNine(written.length) : (37 * i + obtained) % 256 \in Byte
    BY <2>3, <2>4 DEF Byte
  <2>6. payload \in Seq(Byte)
    BY <2>3, <2>5
  <2> QED BY <2>2, <2>6, UnmaskingUndoes
<1> QED BY <1>1, PartTyped, PTL DEF PartSpec
=============================================================================

--------------------------- MODULE WebSocketFrame ---------------------------
(***************************************************************************)
(* WebSocket messages as bytes (network/ws.cpp): the header that           *)
(* GenWebSocketHeader writes, its fields as RecvMessageHeader reads them   *)
(* from a stream and as the WebSocket... functions read them from a        *)
(* message in memory, and the masking of the payload.                      *)
(*                                                                         *)
(* A byte is a number below 256, a masking key a sequence of four bytes,   *)
(* or empty in a message that is not masked.  Lengths stay below 2^31,     *)
(* which is what RecvMessage can hold, so that the first four bytes of a   *)
(* 64-bit length are zero.                                                 *)
(***************************************************************************)
EXTENDS Naturals, Sequences

Byte == 0..255
MaxLength == 2147483647

(* The weights of the bytes of a number below 2^32.                        *)
Weight == <<1, 256, 65536, 16777216>>

(* htons, hton64: n in w bytes; ntohs, ntoh64.                             *)
ToNetwork(n, w) ==
    [i \in 1..w |-> IF w - i > 3 THEN 0 ELSE (n \div Weight[w - i + 1]) % 256]

ToHost(bytes) ==
    LET n[i \in 0..Len(bytes)] == IF i = 0 THEN 0 ELSE 256 * n[i - 1] + bytes[i]
    IN  n[Len(bytes)]

(* The bits in which the two bytes differ.                                 *)
XorByte(a, b) ==
    LET Bit(w) == w * (((a \div w) + (b \div w)) % 2)
    IN  Bit(1) + Bit(2) + Bit(4) + Bit(8) + Bit(16) + Bit(32) + Bit(64) + Bit(128)
-----------------------------------------------------------------------------
(* Faulty variants: a limit that is one too high, and a mask that leaves   *)
(* out the bytes behind the last word.                                     *)
LengthBitsOffByOne(n) == IF n < 126 THEN n ELSE IF n <= 65536 THEN 126 ELSE 127

UnMaskWords(payload, key) ==
    [i \in DOMAIN payload |->
        IF i <= 4 * (Len(payload) \div 4) THEN XorByte(payload[i], key[((i - 1) % 4) + 1])
                                          ELSE payload[i]]

(* The seven bits of the length, and the length field that follows.        *)
LengthBits(n) == IF n < 126 THEN n ELSE IF n <= 65535 THEN 126 ELSE 127

LengthSize(bits) == CASE bits = 126 -> 2 [] bits = 127 -> 8 [] OTHER -> 0

(* GenWebSocketHeader: a final, binary frame.                              *)
Header(n, key) ==
    LET bits == LengthBits(n)
    IN  <<130, bits + (IF key = <<>> THEN 0 ELSE 128)>>
            \o ToNetwork(n, LengthSize(bits)) \o key

(* The two bytes every header has.                                         *)
Bits(message) == message[2] % 128

MaskSize(message) == IF message[2] >= 128 THEN 4 ELSE 0

(* UnMaskData: whole words, then the rest from the first byte of the key.  *)
UnMaskData(payload, key) ==
    LET whole == 4 * (Len(payload) \div 4)
    IN  [i \in DOMAIN payload |->
            XorByte(payload[i], IF i <= whole THEN key[((i - 1) % 4) + 1]
                                              ELSE key[i - whole])]

(* What SendEx puts on the connection for a message.                       *)
Encode(payload, key) ==
    Header(Len(payload), key) \o (IF key = <<>> THEN payload ELSE UnMaskData(payload, key))
-----------------------------------------------------------------------------
(* The functions on a message in memory, of which a prefix is obtained.    *)

(* Where the payload starts (WebSocketMessageData).                        *)
DataOffset(message) == 2 + MaskSize(message) + LengthSize(Bits(message))

(* WebSocketHasFullHeader: with a length field the sum is returned, and    *)
(* not compared with what has been obtained.                               *)
HasFullHeader(message) ==
    /\ Len(message) >= 2
    /\ \/ LengthSize(Bits(message)) > 0
       \/ Len(message) >= DataOffset(message)

(* WebSocketMessagePayloadLength                                           *)
PayloadLength(message) ==
    LET size == LengthSize(Bits(message))
    IN  IF size = 0 THEN Bits(message) ELSE ToHost(SubSeq(message, 3, 2 + size))

(* WebSocketFullMessageSize                                                *)
FullMessageSize(message) == DataOffset(message) + PayloadLength(message)

(* WebSocketMessageMaskingKey                                              *)
MaskingKey(message) ==
    LET from == 2 + LengthSize(Bits(message))
    IN  SubSeq(message, from + 1, from + MaskSize(message))

(* WebSocketMessageUnmaskPayload: words, then byte by byte.                *)
UnmaskPayload(payload, key) ==
    [i \in DOMAIN payload |-> XorByte(payload[i], key[((i - 1) % 4) + 1])]
=============================================================================

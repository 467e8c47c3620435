--------------------------- MODULE PartialMessage ---------------------------
(***************************************************************************)
(* The WebSocket... functions of network/ws.cpp on a message in memory of  *)
(* which more and more bytes are obtained: when may the fields of the      *)
(* header be read, and do they say what GenWebSocketHeader wrote?          *)
(***************************************************************************)
EXTENDS WebSocketFrame

CONSTANTS
    Lengths,  \* of the payload
    Keys      \* masking keys, the empty one for none

ASSUME LengthsAssumption == Lengths \subseteq 0..MaxLength
ASSUME KeysAssumption == Keys \subseteq {<<>>} \cup [1..4 -> Byte]

VARIABLES
    written,   \* the length of the message's payload and the key it is masked with
    obtained   \* bytes obtained, as far as the first one of the payload

partVars == <<written, obtained>>

FullHeader == Header(written.length, written.key)

PartInit == written \in [length : Lengths, key : Keys] /\ obtained = 0

Obtain ==
    /\ obtained <= Len(FullHeader) /\ obtained < Len(FullHeader) + written.length
    /\ obtained' = obtained + 1
    /\ UNCHANGED written

PartNext == Obtain

PartSpec == PartInit /\ [][PartNext]_partVars
-----------------------------------------------------------------------------
(* PROPERTIES.                                                             *)

Part == SubSeq(Append(FullHeader, 0), 1, obtained)

HeaderObtained == obtained >= Len(FullHeader)

(* Once the header is there, every field says what was written: where the  *)
(* payload starts, how long it is, its key and the size of the message,    *)
(* at each of the limits of the three forms of a length.                   *)
FieldsAgree ==
    HeaderObtained =>
        /\ DataOffset(Part) = Len(FullHeader)
        /\ PayloadLength(Part) = written.length
        /\ MaskingKey(Part) = written.key
        /\ FullMessageSize(Part) = Len(FullHeader) + written.length

(* Payloads of at most nine bytes: two words and what is left.             *)
UpToNine(n) == IF n < 10 THEN n ELSE 9

(* The two unmasking functions undo each other, whatever is left behind    *)
(* the last whole word.                                                    *)
UnmaskingAgrees ==
    written.key # <<>> =>
        LET payload == [i \in 1..UpToNine(written.length) |-> (37 * i + obtained) % 256]
        IN  UnmaskPayload(UnMaskData(payload, written.key), written.key) = payload

(* What the comment above WebSocketHasFullHeader says: it validates that   *)
(* a message has enough bytes to contain a full WebSocket header.          *)
FullHeaderMeansFull == HasFullHeader(Part) => HeaderObtained
=============================================================================

---------------------------- MODULE FrameStream ----------------------------
(***************************************************************************)
(* How the native receiver finds the messages in the byte stream of a      *)
(* connection (network/ws.h SocketStream, network/ws.cpp RecvMessage): the *)
(* peer's SendEx puts one message after the other on the connection, which *)
(* hands the bytes over in pieces of any size; RecvEx reads ahead into a   *)
(* socket buffer and gives RecvMessageHeader and RecvMessage exactly the   *)
(* bytes they ask for: two of the header, the rest of it, the payload.     *)
(*                                                                         *)
(* WebSocketIO and ProxyClient take a message off the connection in one    *)
(* step; this module is why they may.                                      *)
(***************************************************************************)
EXTENDS WebSocketFrame, SequencesExt

CONSTANTS
    Inputs,      \* the sequences of messages the peer may send
    BufferSize   \* RECV_BUFFER_SIZE

(* Without a key or with one of four bytes.                                *)
Message == {m \in [payload : Seq(Byte), key : Seq(Byte)] :
                Len(m.payload) <= MaxLength /\ Len(m.key) \in {0, 4}}

ASSUME InputsAssumption == Inputs \subseteq Seq(Message)
ASSUME BufferSizeAssumption == BufferSize \in Nat \ {0}

VARIABLES
    input,   \* what the peer sends in this behaviour
    sent,    \* how many messages it has sent
    wire,    \* bytes on the connection
    closed,  \* the connection has ended
    buffer,  \* socket_buffer: data() .. data() + available()
    nbytes,  \* what the current RecvEx has been asked for
    buf,     \* and what it has copied so far
    stage,   \* which RecvEx it is, or "failed"
    header,  \* the bytes of the header read so far
    frames   \* the payloads of the messages received

vars == <<input, sent, wire, closed, buffer, nbytes, buf, stage, header, frames>>

Init ==
    /\ input \in Inputs
    /\ sent = 0 /\ wire = <<>> /\ closed = FALSE
    /\ buffer = <<>>
    /\ nbytes = 2 /\ buf = <<>> /\ stage = "header" /\ header = <<>>
    /\ frames = <<>>
-----------------------------------------------------------------------------
(* The peer sends the next message (masked, if it is a browser).           *)
SendEx ==
    /\ ~closed /\ sent < Len(input)
    /\ sent' = sent + 1
    /\ wire' = wire \o Encode(input[sent'].payload, input[sent'].key)
    /\ UNCHANGED <<input, closed, buffer, nbytes, buf, stage, header, frames>>

(* The connection ends; what it still carried may be cut anywhere.         *)
Close ==
    /\ ~closed
    /\ closed' = TRUE
    /\ \E n \in 0..Len(wire) : wire' = SubSeq(wire, 1, n)
    /\ UNCHANGED <<input, sent, buffer, nbytes, buf, stage, header, frames>>

Short == stage # "failed" /\ Len(buf) < nbytes

(* Faulty variant: all that is available, whatever was asked for.          *)
AvailableUncut ==
    /\ Short /\ buffer # <<>>
    /\ buf' = buf \o buffer /\ buffer' = <<>>
    /\ UNCHANGED <<input, sent, wire, closed, nbytes, stage, header, frames>>

(* RecvEx: what is available first ...                                     *)
Available ==
    /\ Short /\ buffer # <<>>
    /\ LET n == IF Len(buffer) < nbytes - Len(buf) THEN Len(buffer) ELSE nbytes - Len(buf)
       IN  /\ buf' = buf \o SubSeq(buffer, 1, n)
           /\ buffer' = SubSeq(buffer, n + 1, Len(buffer))
    /\ UNCHANGED <<input, sent, wire, closed, nbytes, stage, header, frames>>

(* Faulty variant: the buffer is filled although it is not used up.        *)
RecvOverwriting ==
    /\ Short
    /\ \E n \in 1..Len(wire) :
           /\ n <= BufferSize
           /\ buffer' = SubSeq(wire, 1, n)
           /\ wire' = SubSeq(wire, n + 1, Len(wire))
    /\ UNCHANGED <<input, sent, closed, nbytes, buf, stage, header, frames>>

(* ... and then the connection, which fills the buffer as far as it likes. *)
Recv ==
    /\ Short /\ buffer = <<>>
    /\ \E n \in 1..Len(wire) :
           /\ n <= BufferSize
           /\ buffer' = SubSeq(wire, 1, n)
           /\ wire' = SubSeq(wire, n + 1, Len(wire))
    /\ UNCHANGED <<input, sent, closed, nbytes, buf, stage, header, frames>>

(* Faulty variant: the end is reported although bytes are still there.     *)
RecvFailsAtOnce ==
    /\ Short /\ closed
    /\ stage' = "failed"
    /\ UNCHANGED <<input, sent, wire, closed, buffer, nbytes, buf, header, frames>>

(* Nothing comes any more: RecvEx returns short, the caller throws.        *)
RecvFails ==
    /\ Short /\ buffer = <<>> /\ wire = <<>> /\ closed
    /\ stage' = "failed"
    /\ UNCHANGED <<input, sent, wire, closed, buffer, nbytes, buf, header, frames>>
-----------------------------------------------------------------------------
Complete(s) == stage = s /\ Len(buf) = nbytes

Ask(s, n) == stage' = s /\ nbytes' = n /\ buf' = <<>>

(* RecvMessageHeader: the first two bytes tell how many are to follow.     *)
HeaderBegun ==
    /\ Complete("header")
    /\ header' = buf
    /\ LET extra == LengthSize(Bits(buf)) + MaskSize(buf)
       IN  IF extra > 0 THEN Ask("extra", extra) ELSE Ask("payload", Bits(buf))
    /\ UNCHANGED <<input, sent, wire, closed, buffer, frames>>

HeaderComplete ==
    /\ Complete("extra")
    /\ header' = header \o buf
    /\ Ask("payload", PayloadLength(header'))
    /\ UNCHANGED <<input, sent, wire, closed, buffer, frames>>

(* RecvMessage: the payload, unmasked.                                     *)
PayloadComplete ==
    /\ Complete("payload")
    /\ LET key == MaskingKey(header)
       IN  frames' = Append(frames, IF key = <<>> THEN buf ELSE UnMaskData(buf, key))
    /\ header' = <<>>
    /\ Ask("header", 2)
    /\ UNCHANGED <<input, sent, wire, closed, buffer>>

Receive ==
    Available \/ Recv \/ RecvFails \/ HeaderBegun \/ HeaderComplete \/ PayloadComplete

(* The receiver waits for a message that the peer does not send.           *)
Finished ==
    /\ sent = Len(input) /\ Len(frames) = sent
    /\ UNCHANGED vars

Failed == stage = "failed" /\ UNCHANGED vars

Next == SendEx \/ Close \/ Receive \/ Finished \/ Failed

(* The connection delivers what it carries and the receiver reads on.      *)
Spec == Init /\ [][Next]_vars /\ WF_vars(Receive)
-----------------------------------------------------------------------------
(* PROPERTIES.                                                             *)

(* Every variable has its type.                                            *)
TypeOK ==
    /\ input \in Inputs /\ sent \in 0..Len(input)
    /\ wire \in Seq(Byte) /\ closed \in BOOLEAN
    /\ buffer \in Seq(Byte) /\ Len(buffer) <= BufferSize
    /\ nbytes \in Nat /\ buf \in Seq(Byte) /\ Len(buf) <= nbytes
    /\ stage \in {"header", "extra", "payload", "failed"}
    /\ header \in Seq(Byte)
    /\ frames \in Seq(Seq(Byte))

(* However the stream is cut, and wherever it ends, the receiver gets the  *)
(* messages that were sent, in order, each with its own bytes.             *)
FramesIntact ==
    /\ Len(frames) <= sent
    /\ \A i \in DOMAIN frames : frames[i] = input[i].payload

(* The receiver gives up inside or before a message that is not all there, *)
(* never on a whole message: the bytes it has not made a message of, with  *)
(* all that was still to come, are a proper prefix of the next one.        *)
GivesUpOnIncomplete ==
    stage = "failed" /\ Len(frames) < Len(input) =>
        LET next == input[Len(frames) + 1]
        IN  IsStrictPrefix(header \o buf \o buffer \o wire, Encode(next.payload, next.key))

(* The receiver never gets stuck on data: as long as the connection stays  *)
(* up it receives every message sent, and when it ends it fails.           *)
AllReceived == <>[](stage = "failed" \/ Len(frames) = sent)
=============================================================================

------------------------- MODULE WebSocketIOProofs -------------------------
(***************************************************************************)
(* Proofs about WebSocketIO.tla, for all programs and capacities.          *)
(*                                                                         *)
(* The inductive invariant IInv joins the types with three groups of       *)
(* facts: what each thread's position says about the frames it holds and   *)
(* the mode of the channel (Threads), what the reader's cursor says about  *)
(* its list (Cursor), and the chain of ids from the last frame consumed to *)
(* the id of the send buffer (Arriving and Leaving).                       *)
(*                                                                         *)
(* The second part, THE BYTES, says where in its sender's stream each byte *)
(* is, and shows that every step is a step of ByteChannel.  The last part, *)
(* THE END OF A CONNECTION, counts the bytes that the programs have still  *)
(* to exchange.                                                            *)
(***************************************************************************)
EXTENDS WebSocketIO, SequenceInduction, SequenceTheorems, TLAPS

RecvInfo == [data : Seq(Nat), offset : Nat, prev : Nat, valid : BOOLEAN]

RecvContext == [list : Seq(Frame), info : RecvInfo]

(* A thread holds a frame exactly where its position says so.  While the   *)
(* flag async is set the flush thread runs; it has ended before the main   *)
(* thread sends by itself, and leaves an empty list.                       *)
Threads(p) ==
    /\ pc[p] = "put" => Len(hand[p]) = 1
    /\ pc[p] # "put" => hand[p] = <<>> /\ pend[p] = 0
    /\ pend[p] <= sent[p]
    /\ async[p] => /\ pc[p] \notin {"join", "spawn", "done"}
                   /\ fpc[p] \notin {"off", "exit"}
                   /\ pc[p] = "put" => cont[p] = "run"
    /\ ~async[p] => (fpc[p] = "off" <=> pc[p] # "join")
    /\ fpc[p] \in {"off", "exit"} => flushq[p] = <<>>
    /\ fpc[p] = "send" => Len(fhold[p]) = 1
    /\ fpc[p] # "send" => fhold[p] = <<>>

(* The list of a reader holds the frame it is consuming and no other.      *)
Cursor(c) ==
    IF c.info.valid
    THEN /\ Len(c.list) = 1
         /\ c.list[1].id = c.info.prev + 1
         /\ c.list[1].data = c.info.data
         /\ c.info.offset < Len(c.info.data)
    ELSE c.list = <<>>

(* The last id that has reached the reader of p's frames.                  *)
Arrived(p) == ctx[Other(p)].info.prev + Len(ctx[Other(p)].list)

Arriving(p) == \A i \in 1..Len(wire[p]) : wire[p][i].id = Arrived(p) + i

(* ... and what p has still to send follows it, on an unbroken connection. *)
Base(p) == Arrived(p) + Len(wire[p])

Leaving(p) ==
    /\ \A i \in 1..Len(fhold[p]) : fhold[p][i].id = Base(p) + i
    /\ \A i \in 1..Len(flushq[p]) : flushq[p][i].id = Base(p) + Len(fhold[p]) + i
    /\ \A i \in 1..Len(hand[p]) :
           hand[p][i].id = Base(p) + Len(fhold[p]) + Len(flushq[p]) + i
    /\ sendId[p] = Base(p) + Len(fhold[p]) + Len(flushq[p]) + Len(hand[p])

PeerInv(p) ==
    /\ Threads(p)
    /\ Cursor(ctx[p])
    /\ pc[p] = "read" => ~ctx[p].info.valid
    /\ Arriving(p)
    /\ ~Broken(p) => Leaving(p)

IInv == TypeOK /\ \A p \in Peers : PeerInv(p)
-----------------------------------------------------------------------------
LEMMA OtherPeer ==
    ASSUME NEW p \in Peers
    PROVE  Other(p) \in Peers /\ Other(p) # p /\ Other(Other(p)) = p
             /\ \A q \in Peers : q = p \/ q = Other(p)
BY PeersAssumption DEF Peers, Other

LEMMA NoLengthNoElements ==
    ASSUME NEW S, NEW s \in Seq(S)
    PROVE  Len(s) = 0 <=> s = <<>>
BY EmptySeq

LEMMA OneElement ==
    ASSUME NEW S, NEW s \in Seq(S), Len(s) = 1
    PROVE  s # <<>> /\ s = <<s[1]>> /\ Head(s) = s[1] /\ Tail(s) = <<>> /\ s[1] \in S
<1>1. s # <<>> /\ Head(s) = s[1] /\ s[1] \in S
  BY EmptySeq
<1>2. Tail(s) \in Seq(S) /\ Len(Tail(s)) = 0
  BY <1>1, HeadTailProperties
<1>3. <<s[1]>> \in Seq(S) /\ Len(<<s[1]>>) = 1 /\ <<s[1]>>[1] = s[1]
  BY <1>1
<1>4. s = <<s[1]>>
  BY <1>3, SeqEqual
<1> QED BY <1>1, <1>2, <1>4, NoLengthNoElements

LEMMA ConcatOne ==
    ASSUME NEW S, NEW s \in Seq(S), NEW t \in Seq(S), Len(t) = 1
    PROVE  /\ s \o t \in Seq(S) /\ Len(s \o t) = Len(s) + 1
           /\ \A i \in 1..Len(s) : (s \o t)[i] = s[i]
           /\ (s \o t)[Len(s) + 1] = t[1]
           /\ \A i \in 1..(Len(s) + 1) : i \in 1..Len(s) \/ i = Len(s) + 1
<1>1. /\ s \o t \in Seq(S) /\ Len(s \o t) = Len(s) + Len(t)
      /\ \A i \in 1 .. Len(s) + Len(t) :
             (s \o t)[i] = IF i <= Len(s) THEN s[i] ELSE t[i - Len(s)]
  BY ConcatProperties
<1>2. Len(s) \in Nat
  BY LenProperties
<1>3. /\ (Len(s) + 1) - Len(s) = 1 /\ ~(Len(s) + 1 <= Len(s))
      /\ Len(s) + 1 \in 1 .. Len(s) + Len(t)
      /\ \A i \in 1 .. Len(s) : i \in 1 .. Len(s) + Len(t) /\ i <= Len(s)
      /\ \A i \in 1..(Len(s) + 1) : i \in 1..Len(s) \/ i = Len(s) + 1
  BY <1>2
<1>4. (s \o t)[Len(s) + 1] = t[1]
  BY <1>1, <1>3
<1>5. \A i \in 1..Len(s) : (s \o t)[i] = s[i]
  BY <1>1, <1>3
<1>6. Len(s \o t) = Len(s) + 1
  BY <1>1
<1> QED BY <1>1, <1>3, <1>4, <1>5, <1>6

LEMMA SubSeqType ==
    ASSUME NEW S, NEW s \in Seq(S), NEW a \in Nat \ {0}, NEW b \in Nat,
           a - 1 <= b, b <= Len(s)
    PROVE  SubSeq(s, a, b) \in Seq(S) /\ Len(SubSeq(s, a, b)) = b - a + 1
<1>1. Len(s) \in Nat
  BY LenProperties
<1>2. \A i \in a .. b : s[i] \in S
  BY <1>1, ElementOfSeq
<1> QED BY <1>2, SubSeqProperties

LEMMA BytesType ==
    ASSUME NEW a \in Nat, NEW n \in Nat
    PROVE  Bytes(a, n) \in Seq(Nat) /\ Len(Bytes(a, n)) = n
               /\ (n > 0 => Bytes(a, n) # <<>>)
<1> DEFINE f == [i \in 1..n |-> a + i]
<1>1. f \in [1..n -> Nat]
  OBVIOUS
<1>2. f \in Seq(Nat) /\ Len(f) = n
  BY <1>1
<1> QED BY <1>2 DEF Bytes

(* A frame put into an empty context whose cursor expects it becomes the   *)
(* current frame.                                                          *)
LEMMA PutIntoEmpty ==
    ASSUME NEW c \in RecvContext, NEW f \in Frame,
           c.list = <<>>, ~c.info.valid, f.id = c.info.prev + 1
    PROVE  /\ PutToRecvCtx(c, f) \in RecvContext
           /\ Cursor(PutToRecvCtx(c, f))
           /\ PutToRecvCtx(c, f).info.valid
           /\ PutToRecvCtx(c, f).info.prev = c.info.prev
           /\ PutToRecvCtx(c, f).list = <<f>>
<1> DEFINE info == Info(f.data, 0, c.info.prev, TRUE)
           r == PutToRecvCtx(c, f)
<1>1. InsertById(c.list, f) = <<f>>
  BY DEF InsertById
<1>2. <<f>> \in Seq(Frame) /\ Len(<<f>>) = 1 /\ Head(<<f>>) = f /\ <<f>>[1] = f /\ <<f>> # <<>>
  OBVIOUS
<1>3. f.data \in Seq(Nat) /\ Len(f.data) > 0 /\ f.id \in Nat /\ c.info.prev \in Nat
  BY EmptySeq DEF Frame, RecvContext, RecvInfo
<1>4. r = [list |-> <<f>>, info |-> info]
  BY <1>1, <1>2 DEF PutToRecvCtx, Validate
<1>5. /\ info \in RecvInfo /\ info.valid /\ info.prev = c.info.prev
      /\ info.offset = 0 /\ info.data = f.data
  BY <1>3 DEF Info, RecvInfo
<1> HIDE DEF info, r
<1>6. r \in RecvContext /\ r.list = <<f>> /\ r.info = info
  BY <1>2, <1>4, <1>5 DEF RecvContext
<1>7. Cursor(r)
  BY <1>2, <1>3, <1>5, <1>6 DEF Cursor
<1> QED BY <1>5, <1>6, <1>7 DEF r

(* Taking from the current frame: at most len bytes, at most its rest.  If *)
(* bytes are left in it, it stays; else it leaves the list.                *)
LEMMA TakeFromCurrent ==
    ASSUME NEW c \in RecvContext, NEW len \in Nat,
           c.info.valid, Cursor(c)
    PROVE  /\ Taken(c, len) \in Seq(Nat)
           /\ Len(Taken(c, len)) <= len
           /\ RecvFromRecvCtx(c, len) \in RecvContext
           /\ Cursor(RecvFromRecvCtx(c, len))
           /\ Len(Taken(c, len)) < len => ~RecvFromRecvCtx(c, len).info.valid
           /\ RecvFromRecvCtx(c, len).info.prev + Len(RecvFromRecvCtx(c, len).list)
                 = c.info.prev + Len(c.list)
<1> DEFINE rest == Len(c.info.data) - c.info.offset
           n == MinOf(rest, len)
           offset == c.info.offset + n
           stays == Info(c.info.data, offset, c.info.prev, TRUE)
           ends == Info(c.info.data, offset, c.info.prev + 1, FALSE)
           r == RecvFromRecvCtx(c, len)
<1>1. /\ c.info.data \in Seq(Nat) /\ c.info.offset \in Nat /\ c.info.prev \in Nat
      /\ Len(c.info.data) \in Nat /\ c.list \in Seq(Frame)
  BY DEF RecvContext, RecvInfo
<1>2. /\ Len(c.list) = 1 /\ c.list # <<>> /\ Tail(c.list) = <<>>
      /\ Head(c.list).id = c.info.prev + 1
      /\ c.info.offset < Len(c.info.data)
  <2>1. Len(c.list) = 1 /\ c.list[1].id = c.info.prev + 1
          /\ c.info.offset < Len(c.info.data)
    BY DEF Cursor
  <2> QED BY <2>1, <1>1, OneElement
<1>3. rest \in Nat /\ rest > 0
  BY <1>1, <1>2
<1>4. n \in Nat /\ n <= rest /\ n <= len /\ (n = rest \/ (n < rest /\ n = len))
  <2> HIDE DEF rest
  <2> QED BY <1>3 DEF MinOf
<1> HIDE DEF n
<1>5. offset \in Nat /\ offset <= Len(c.info.data)
  BY <1>1, <1>4
<1>6. offset = Len(c.info.data) <=> n = rest
  <2>1. Len(c.info.data) = c.info.offset + rest
    BY <1>1
  <2> HIDE DEF rest
  <2> QED BY <2>1, <1>1, <1>3, <1>4
<1>7. offset - (c.info.offset + 1) + 1 = n
  BY <1>1, <1>4
<1>8. c.info.offset + 1 \in Nat \ {0} /\ (c.info.offset + 1) - 1 <= offset
  BY <1>1, <1>4
<1>9. /\ Taken(c, len) \in Seq(Nat)
      /\ Len(Taken(c, len)) = n
  <2> DEFINE a == c.info.offset + 1
  <2>1. Taken(c, len) = SubSeq(c.info.data, a, offset)
    BY DEF Taken, n
  <2>2. a \in Nat \ {0} /\ a - 1 <= offset /\ offset - a + 1 = n
    BY <1>7, <1>8
  <2> HIDE DEF a, offset
  <2>3. SubSeq(c.info.data, a, offset) \in Seq(Nat)
          /\ Len(SubSeq(c.info.data, a, offset)) = offset - a + 1
    <3>1. PICK d \in Seq(Nat) : d = c.info.data
      BY <1>1
    <3>2. offset \in Nat /\ offset <= Len(d)
      BY <3>1, <1>1, <1>5
    <3>3. /\ SubSeq(d, a, offset) \in Seq(Nat)
          /\ Len(SubSeq(d, a, offset)) = offset - a + 1
      BY <3>2, <2>2, SubSeqType
    <3> QED BY <3>1, <3>3
  <2> QED BY <2>1, <2>2, <2>3
<1> HIDE DEF rest, offset
<1>10. /\ stays \in RecvInfo /\ stays.valid /\ stays.prev = c.info.prev
      /\ stays.offset = offset /\ stays.data = c.info.data
  BY <1>1, <1>5 DEF Info, RecvInfo
<1>11. ends \in RecvInfo /\ ~ends.valid /\ ends.prev = c.info.prev + 1
  BY <1>1, <1>5 DEF Info, RecvInfo
<1> HIDE DEF stays, ends
<1>12. CASE n # rest
  <2>1. r = [list |-> c.list, info |-> Validate(stays, c.list)]
    BY <1>2, <1>6, <1>9, <1>12 DEF RecvFromRecvCtx, stays, offset
  <2>2. r = [list |-> c.list, info |-> stays]
    BY <2>1, <1>10 DEF Validate
  <2> HIDE DEF r
  <2>3. r \in RecvContext /\ r.list = c.list /\ r.info = stays
    BY <2>2, <1>1, <1>10 DEF RecvContext
  <2>4. Cursor(r)
    BY <2>3, <1>1, <1>2, <1>4, <1>5, <1>6, <1>10, <1>12 DEF Cursor
  <2> QED BY <2>3, <2>4, <1>4, <1>9, <1>10, <1>12 DEF r
<1>13. CASE n = rest
  <2>1. r = [list |-> <<>>, info |-> Validate(ends, <<>>)]
    BY <1>2, <1>6, <1>9, <1>13 DEF RecvFromRecvCtx, ends, offset
  <2>2. r = [list |-> <<>>, info |-> ends]
    BY <2>1 DEF Validate
  <2> HIDE DEF r
  <2>3. r \in RecvContext /\ r.list = <<>> /\ r.info = ends
    BY <2>2, <1>11 DEF RecvContext
  <2>4. Cursor(r)
    BY <2>3, <1>11 DEF Cursor
  <2>5. r.info.prev + Len(r.list) = c.info.prev + Len(c.list)
    BY <2>3, <1>1, <1>2, <1>11
  <2> QED BY <2>3, <2>4, <2>5, <1>4, <1>9, <1>11 DEF r
<1> QED BY <1>12, <1>13
-----------------------------------------------------------------------------
(* What a call of send_data_internal, up to its first frame, does to the   *)
(* main thread: either it is over, or it holds one new frame.              *)
OthersKeep(p) ==
    \A q \in Peers \ {p} :
        /\ pc'[q] = pc[q] /\ cont'[q] = cont[q] /\ hand'[q] = hand[q]
        /\ pend'[q] = pend[q] /\ sent'[q] = sent[q] /\ sendId'[q] = sendId[q]

SendTypes ==
    /\ pc \in [Peers -> {"run", "put", "recv", "read", "spawn", "join", "done"}]
    /\ cont \in [Peers -> {"run", "spawn", "done"}]
    /\ sent \in [Peers -> Nat] /\ buf \in [Peers -> Seq(Nat)]
    /\ sendId \in [Peers -> Nat] /\ hand \in [Peers -> Seq(Frame)]
    /\ pend \in [Peers -> Nat]

Sending(p, k) ==
    /\ pend'[p] <= sent'[p]
    /\ \/ /\ pc'[p] = k /\ hand'[p] = <<>> /\ pend'[p] = 0
          /\ sendId'[p] = sendId[p]
       \/ /\ pc'[p] = "put" /\ cont'[p] = k
          /\ Len(hand'[p]) = 1 /\ hand'[p][1].id = sendId[p] + 1
          /\ sendId'[p] = sendId[p] + 1

Packed(p, n, k) ==
    /\ pc' \in [Peers -> {"run", "put", "recv", "read", "spawn", "join", "done"}]
    /\ cont' \in [Peers -> {"run", "spawn", "done"}]
    /\ sendId' \in [Peers -> Nat] /\ hand' \in [Peers -> Seq(Frame)]
    /\ pend' \in [Peers -> Nat]
    /\ \A q \in Peers \ {p} :
           /\ pc'[q] = pc[q] /\ cont'[q] = cont[q] /\ hand'[q] = hand[q]
           /\ pend'[q] = pend[q] /\ sendId'[q] = sendId[q]
    /\ pc'[p] = "put" /\ cont'[p] = k /\ pend'[p] = n
    /\ Len(hand'[p]) = 1 /\ hand'[p][1].id = sendId[p] + 1
    /\ sendId'[p] = sendId[p] + 1

LEMMA PackEffect ==
    ASSUME SendTypes, NEW p \in Peers, NEW payload \in Seq(Nat), payload # <<>>,
           NEW n \in Nat, NEW k \in {"run", "spawn", "done"}, Pack(p, payload, n, k)
    PROVE  Packed(p, n, k)
<1> DEFINE f == [id |-> sendId[p] + 1, data |-> payload]
<1>1. f \in Frame /\ f.id = sendId[p] + 1
  BY DEF SendTypes, Frame
<1> HIDE DEF f
<1>2. <<f>> \in Seq(Frame) /\ Len(<<f>>) = 1 /\ <<f>>[1] = f
  BY <1>1
<1>3. hand' = [hand EXCEPT ![p] = <<f>>]
  BY DEF Pack, f
<1>4. hand' \in [Peers -> Seq(Frame)] /\ hand'[p] = <<f>>
        /\ \A q \in Peers \ {p} : hand'[q] = hand[q]
  BY <1>2, <1>3 DEF SendTypes
<1> QED BY <1>1, <1>2, <1>4 DEF SendTypes, Pack, Packed

LEMMA SendDataEffect ==
    ASSUME SendTypes, NEW p \in Peers, NEW n \in Nat, hand[p] = <<>>, pend[p] = 0,
           NEW k \in {"run", "spawn", "done"}, SendData(p, n, k)
    PROVE  SendTypes' /\ OthersKeep(p) /\ Sending(p, k)
<1>1. /\ sent' \in [Peers -> Nat] /\ sent'[p] = sent[p] + n /\ n <= sent'[p]
      /\ \A q \in Peers \ {p} : sent'[q] = sent[q]
  BY DEF SendTypes, SendData
<1>2. /\ Bytes(sent[p], n) \in Seq(Nat)
      /\ n > 0 => Bytes(sent[p], n) # <<>>
  BY BytesType DEF SendTypes
<1>3. CASE /\ buf' = [buf EXCEPT ![p] = @ \o Bytes(sent[p], n)]
           /\ pc' = [pc EXCEPT ![p] = k]
           /\ UNCHANGED <<sendId, hand, pend, cont>>
  <2>1. buf[p] \o Bytes(sent[p], n) \in Seq(Nat)
    BY <1>2, ConcatProperties DEF SendTypes
  <2>2. buf' \in [Peers -> Seq(Nat)]
    BY <1>3, <2>1 DEF SendTypes
  <2> QED BY <1>1, <1>3, <2>2 DEF SendTypes, OthersKeep, Sending
<1>4. CASE buf[p] # <<>> /\ Pack(p, buf[p], n, k) /\ UNCHANGED buf
  <2>1. buf[p] \in Seq(Nat)
    BY DEF SendTypes
  <2>2. Packed(p, n, k)
    BY <1>4, <2>1, PackEffect
  <2> QED BY <1>1, <1>4, <2>2 DEF SendTypes, OthersKeep, Sending, Packed
<1>5. CASE n > 0 /\ Pack(p, Bytes(sent[p], n), 0, k) /\ UNCHANGED buf
  <2>1. Packed(p, 0, k)
    BY <1>2, <1>5, PackEffect
  <2> QED BY <1>1, <1>5, <2>1 DEF SendTypes, OthersKeep, Sending, Packed
<1> QED BY <1>3, <1>4, <1>5 DEF SendData

(* ... and its continuation after the frame has been handed over.          *)
LEMMA SendRestEffect ==
    ASSUME SendTypes, NEW p \in Peers, pend[p] <= sent[p], SendRest(p)
    PROVE  SendTypes' /\ OthersKeep(p) /\ Sending(p, cont[p])
<1> DEFINE rest == Bytes(sent[p] - pend[p], pend[p])
<1>1. sent[p] \in Nat /\ pend[p] \in Nat /\ sent[p] - pend[p] \in Nat
        /\ cont[p] \in {"run", "spawn", "done"}
  BY DEF SendTypes
<1>2. rest \in Seq(Nat) /\ (pend[p] > 0 => rest # <<>>)
  BY <1>1, BytesType
<1> HIDE DEF rest
<1>3. CASE /\ buf' = [buf EXCEPT ![p] = rest]
           /\ hand' = [hand EXCEPT ![p] = <<>>]
           /\ pend' = [pend EXCEPT ![p] = 0]
           /\ pc' = [pc EXCEPT ![p] = cont[p]]
           /\ UNCHANGED <<sent, sendId, cont>>
  BY <1>1, <1>2, <1>3, EmptySeq DEF SendTypes, OthersKeep, Sending
<1>4. CASE /\ pend[p] > 0 /\ buf' = [buf EXCEPT ![p] = <<>>]
           /\ Pack(p, rest, 0, cont[p]) /\ UNCHANGED sent
  <2>1. buf' \in [Peers -> Seq(Nat)]
    BY <1>4, EmptySeq DEF SendTypes
  <2>2. Packed(p, 0, cont[p])
    BY <1>1, <1>2, <1>4, PackEffect
  <2> QED BY <1>1, <1>4, <2>1, <2>2 DEF SendTypes, OthersKeep, Sending, Packed
<1> QED BY <1>3, <1>4 DEF SendRest, rest
-----------------------------------------------------------------------------
LEMMA ContextType ==
    ASSUME TypeOK, NEW p \in Peers
    PROVE  /\ ctx \in [Peers -> RecvContext]
           /\ ctx[p] \in RecvContext /\ ctx[p].info.prev \in Nat
           /\ Len(ctx[p].list) \in Nat
<1>1. ctx \in [Peers -> RecvContext]
  BY DEF TypeOK, RecvContext, RecvInfo
<1>2. ctx[p] \in RecvContext
  BY <1>1
<1>3. ctx[p].list \in Seq(Frame) /\ ctx[p].info.prev \in Nat
  BY <1>2 DEF RecvContext, RecvInfo
<1> QED BY <1>1, <1>2, <1>3, LenProperties

LEMMA BaseType ==
    ASSUME TypeOK, NEW p \in Peers
    PROVE  Arrived(p) \in Nat /\ Len(wire[p]) \in Nat /\ Base(p) \in Nat
<1>1. Len(wire[p]) \in Nat
  BY LenProperties DEF TypeOK
<1>2. Arrived(p) \in Nat
  BY OtherPeer, ContextType DEF Arrived
<1> QED BY <1>1, <1>2 DEF Base

LEMMA InvInit == Init => IInv
<1> SUFFICES ASSUME Init PROVE IInv
  OBVIOUS
<1>1. EmptyRecvCtx \in RecvContext /\ Cursor(EmptyRecvCtx)
        /\ ~EmptyRecvCtx.info.valid /\ EmptyRecvCtx.info.prev = 0 /\ EmptyRecvCtx.list = <<>>
  BY EmptySeq DEF EmptyRecvCtx, RecvContext, RecvInfo, Info, Cursor
<1>2. ctx \in [Peers -> RecvContext]
  BY <1>1 DEF Init
<1>3. TypeOK
  BY <1>2, EmptySeq, ProgramsAssumption DEF Init, TypeOK, RecvContext, RecvInfo
<1>4. ASSUME NEW p \in Peers PROVE PeerInv(p)
  <2>1. Threads(p)
    BY DEF Init, Threads
  <2>2. Arrived(p) = 0 /\ Len(wire[p]) = 0 /\ Base(p) = 0
    BY <1>1, OtherPeer, EmptySeq DEF Init, Arrived, Base
  <2>3. Arriving(p) /\ Leaving(p)
    BY <2>2, EmptySeq DEF Init, Arriving, Leaving
  <2> QED BY <1>1, <2>1, <2>3 DEF Init, PeerInv
<1> QED BY <1>3, <1>4 DEF IInv

(* A peer is not disturbed by a step that leaves its threads, its cursor   *)
(* and what is under way to its reader as they are.                        *)
Kept(q) ==
    /\ pc'[q] = pc[q] /\ cont'[q] = cont[q] /\ hand'[q] = hand[q]
    /\ pend'[q] = pend[q] /\ sent'[q] = sent[q] /\ sendId'[q] = sendId[q]
    /\ async'[q] = async[q] /\ flushq'[q] = flushq[q]
    /\ fpc'[q] = fpc[q] /\ fhold'[q] = fhold[q]
    /\ wire'[q] = wire[q] /\ ctx'[q] = ctx[q]

LEMMA Undisturbed ==
    ASSUME NEW q \in Peers, PeerInv(q), Kept(q),
           Arrived(q)' = Arrived(q), ~Broken(q)' => ~Broken(q)
    PROVE  PeerInv(q)'
<1>1. Threads(q)'
  BY DEF PeerInv, Kept, Threads
<1>2. Cursor(ctx[q])' /\ (pc[q] = "read" => ~ctx[q].info.valid)'
  BY DEF PeerInv, Kept, Cursor
<1>3. Arriving(q)'
  BY DEF PeerInv, Kept, Arriving
<1>4. (~Broken(q) => Leaving(q))'
  <2> SUFFICES ASSUME ~Broken(q)' PROVE Leaving(q)'
    OBVIOUS
  <2>1. Leaving(q)
    BY DEF PeerInv
  <2>2. Base(q)' = Base(q)
    BY DEF Base, Kept
  <2> QED BY <2>1, <2>2 DEF Leaving, Kept
<1> QED BY <1>1, <1>2, <1>3, <1>4 DEF PeerInv

(* Every step that is no more than a call of send_data_internal by p, with *)
(* or without the end of a joined flush thread.                            *)
LEMMA InvSendData ==
    ASSUME IInv, NEW p \in Peers, NEW n \in Nat, NEW k \in {"run", "spawn", "done"},
           SendData(p, n, k),
           UNCHANGED <<async, flushq, fhold, wire, recvVars, lost>>,
           prog' \in [Peers -> Seq(Op)], hasSent' \in [Peers -> BOOLEAN],
           \/ pc[p] = "run" /\ fpc' = fpc /\ (async[p] => k = "run")
           \/ pc[p] = "join" /\ fpc[p] = "exit" /\ fpc' = [fpc EXCEPT ![p] = "off"]
                /\ k = "run"
    PROVE  IInv'
<1>1. /\ TypeOK /\ SendTypes /\ PeerInv(p) /\ Other(p) \in Peers /\ PeerInv(Other(p))
      /\ Other(p) # p /\ Other(Other(p)) = p
  BY OtherPeer DEF IInv, TypeOK, SendTypes
<1>2. Threads(p) /\ hand[p] = <<>> /\ pend[p] = 0
  BY <1>1 DEF PeerInv, Threads
<1>3. SendTypes' /\ OthersKeep(p) /\ Sending(p, k)
  BY <1>1, <1>2, SendDataEffect
<1>4. fpc' \in [Peers -> {"off", "check", "enter", "wait", "send", "exit"}]
        /\ fpc'[Other(p)] = fpc[Other(p)]
  BY <1>1 DEF TypeOK
<1>5. TypeOK'
  BY <1>1, <1>3, <1>4 DEF TypeOK, SendTypes, recvVars
<1>6. PeerInv(Other(p))'
  <2>1. Kept(Other(p)) /\ Arrived(Other(p))' = Arrived(Other(p))
    BY <1>1, <1>3, <1>4 DEF Kept, OthersKeep, recvVars, Arrived
  <2>2. ~Broken(Other(p))' => ~Broken(Other(p))
    BY <1>1, <1>3 DEF Broken
  <2> QED BY <1>1, <2>1, <2>2, Undisturbed
<1>7. PeerInv(p)'
  <2>1. Threads(p)'
    BY <1>1, <1>2, <1>3 DEF Threads, Sending, TypeOK
  <2>2. Cursor(ctx[p])' /\ (pc[p] = "read" => ~ctx[p].info.valid)'
    BY <1>1, <1>3 DEF PeerInv, Sending, recvVars, Cursor
  <2>3. Arriving(p)' /\ Base(p)' = Base(p)
    BY <1>1 DEF PeerInv, Arriving, Arrived, Base, recvVars
  <2>4. (~Broken(p) => Leaving(p))'
    <3> SUFFICES ASSUME ~Broken(p)' PROVE Leaving(p)'
      OBVIOUS
    <3>1. Leaving(p)
      BY <1>1, <1>3 DEF PeerInv, Broken, OthersKeep
    <3>2. /\ Len(hand[p]) = 0 /\ Len(fhold[p]) \in Nat /\ Len(flushq[p]) \in Nat
          /\ sendId[p] \in Nat
      BY <1>1, <1>2, EmptySeq, LenProperties DEF TypeOK
    <3>3. sendId[p] = Base(p) + Len(fhold[p]) + Len(flushq[p])
      <4>1. sendId[p] = Base(p) + Len(fhold[p]) + Len(flushq[p]) + 0
        BY <3>1, <3>2 DEF Leaving
      <4>2. Base(p) \in Int
        BY <1>1, BaseType
      <4> QED BY <4>1, <4>2, <3>2
    <3>4. CASE hand'[p] = <<>> /\ sendId'[p] = sendId[p]
      BY <3>1, <3>2, <3>4, <2>3 DEF Leaving
    <3>5. CASE /\ Len(hand'[p]) = 1 /\ hand'[p][1].id = sendId[p] + 1
               /\ sendId'[p] = sendId[p] + 1
      BY <3>1, <3>2, <3>3, <3>5, <2>3 DEF Leaving
    <3> QED BY <1>3, <3>4, <3>5 DEF Sending
  <2> QED BY <2>1, <2>2, <2>3, <2>4 DEF PeerInv
<1> QED
  <2>1. \A q \in Peers : q = p \/ q = Other(p)
    BY OtherPeer
  <2> QED BY <1>5, <1>6, <1>7, <2>1 DEF IInv

(* Handing the frame over: to the flush list, or to the connection.        *)
LEMMA InvPutToFlushCtx == ASSUME IInv, NEW p \in Peers, PutToFlushCtx(p) PROVE IInv'
<1>1. /\ TypeOK /\ SendTypes /\ PeerInv(p) /\ Other(p) \in Peers /\ PeerInv(Other(p))
      /\ Other(p) # p /\ Other(Other(p)) = p
  BY OtherPeer DEF IInv, TypeOK, SendTypes
<1>2. /\ pc[p] = "put" /\ async[p] /\ fpc[p] # "send"
      /\ flushq' = [flushq EXCEPT ![p] = @ \o hand[p]]
      /\ fpc' = Notified(p) /\ SendRest(p)
      /\ UNCHANGED <<prog, hasSent, async, fhold, wire, ctx, want, got, lost>>
  BY DEF PutToFlushCtx, LockFree, appVars, recvVars
<1>3. /\ Threads(p) /\ Len(hand[p]) = 1 /\ pend[p] <= sent[p] /\ cont[p] = "run"
      /\ fhold[p] = <<>> /\ fpc[p] \notin {"off", "exit"}
  BY <1>1, <1>2 DEF PeerInv, Threads
<1>4. SendTypes' /\ OthersKeep(p) /\ Sending(p, "run")
  BY <1>1, <1>2, <1>3, SendRestEffect
<1>5. /\ fpc' \in [Peers -> {"off", "check", "enter", "wait", "send", "exit"}]
      /\ fpc'[Other(p)] = fpc[Other(p)] /\ fpc'[p] \notin {"off", "exit", "send"}
  BY <1>1, <1>2, <1>3 DEF TypeOK, Notified
<1>6. /\ flushq[p] \in Seq(Frame) /\ hand[p] \in Seq(Frame)
      /\ flushq' \in [Peers -> Seq(Frame)] /\ flushq'[Other(p)] = flushq[Other(p)]
      /\ flushq'[p] = flushq[p] \o hand[p]
  BY <1>1, <1>2, ConcatProperties DEF TypeOK
<1>7. TypeOK'
  BY <1>1, <1>2, <1>4, <1>5, <1>6 DEF TypeOK, SendTypes
<1>8. PeerInv(Other(p))'
  <2>1. Kept(Other(p)) /\ Arrived(Other(p))' = Arrived(Other(p))
    BY <1>1, <1>2, <1>4, <1>5, <1>6 DEF Kept, OthersKeep, Arrived
  <2>2. ~Broken(Other(p))' => ~Broken(Other(p))
    BY <1>1, <1>2, <1>4 DEF Broken
  <2> QED BY <1>1, <2>1, <2>2, Undisturbed
<1>9. PeerInv(p)'
  <2>1. Threads(p)'
    BY <1>1, <1>2, <1>3, <1>4, <1>5 DEF Threads, Sending
  <2>2. Cursor(ctx[p])' /\ (pc[p] = "read" => ~ctx[p].info.valid)'
    BY <1>1, <1>2, <1>4 DEF PeerInv, Sending, Cursor
  <2>3. Arriving(p)' /\ Base(p)' = Base(p)
    BY <1>1, <1>2 DEF PeerInv, Arriving, Arrived, Base
  <2>4. (~Broken(p) => Leaving(p))'
    <3> SUFFICES ASSUME ~Broken(p)' PROVE Leaving(p)'
      OBVIOUS
    <3>1. Leaving(p)
      BY <1>1, <1>2, <1>4 DEF PeerInv, Broken, OthersKeep
    <3>2. /\ Len(hand[p]) = 1 /\ Len(fhold[p]) = 0 /\ Len(flushq[p]) \in Nat
          /\ sendId[p] \in Nat /\ Base(p) \in Nat
      BY <1>1, <1>3, BaseType, EmptySeq, LenProperties DEF TypeOK
    <3>3. /\ sendId[p] = Base(p) + Len(flushq[p]) + 1
          /\ hand[p][1].id = Base(p) + Len(flushq[p]) + 1
          /\ \A i \in 1..Len(flushq[p]) : flushq[p][i].id = Base(p) + i
      BY <3>1, <3>2 DEF Leaving
    <3>4. /\ Len(flushq'[p]) = Len(flushq[p]) + 1
          /\ \A i \in 1..Len(flushq'[p]) : flushq'[p][i].id = Base(p) + i
      <4>1. /\ Len(flushq'[p]) = Len(flushq[p]) + 1
            /\ \A i \in 1..Len(flushq[p]) : flushq'[p][i] = flushq[p][i]
            /\ flushq'[p][Len(flushq[p]) + 1] = hand[p][1]
            /\ \A i \in 1..(Len(flushq[p]) + 1) :
                   i \in 1..Len(flushq[p]) \/ i = Len(flushq[p]) + 1
        <5> DEFINE s == flushq[p]  t == hand[p]
        <5>1. s \in Seq(Frame) /\ t \in Seq(Frame) /\ Len(t) = 1 /\ flushq'[p] = s \o t
          BY <1>6, <3>2
        <5> HIDE DEF s, t
        <5>2. /\ s \o t \in Seq(Frame) /\ Len(s \o t) = Len(s) + 1
              /\ \A i \in 1..Len(s) : (s \o t)[i] = s[i]
              /\ (s \o t)[Len(s) + 1] = t[1]
              /\ \A i \in 1..(Len(s) + 1) : i \in 1..Len(s) \/ i = Len(s) + 1
          BY <5>1, ConcatOne
        <5> QED BY <5>1, <5>2 DEF s, t
      <4>2. hand[p][1].id = Base(p) + (Len(flushq[p]) + 1)
        BY <3>2, <3>3
      <4> QED BY <4>1, <4>2, <3>3
    <3>5. Len(fhold'[p]) = 0 /\ fhold'[p] = <<>>
      BY <1>2, <1>3, <3>2
    <3>6. CASE hand'[p] = <<>> /\ sendId'[p] = sendId[p]
      BY <3>2, <3>3, <3>4, <3>5, <3>6, <2>3, EmptySeq DEF Leaving
    <3>7. CASE /\ Len(hand'[p]) = 1 /\ hand'[p][1].id = sendId[p] + 1
               /\ sendId'[p] = sendId[p] + 1
      BY <3>2, <3>3, <3>4, <3>5, <3>7, <2>3 DEF Leaving
    <3> QED BY <1>4, <3>6, <3>7 DEF Sending
  <2> QED BY <2>1, <2>2, <2>3, <2>4 DEF PeerInv
<1> QED
  <2>1. \A q \in Peers : q = p \/ q = Other(p)
    BY OtherPeer
  <2> QED BY <1>7, <1>8, <1>9, <2>1 DEF IInv

(* One more frame in the connection, with the next id.                     *)
LEMMA OneMoreFrame ==
    ASSUME TypeOK, NEW p \in Peers, Arriving(p), UNCHANGED ctx,
           NEW t \in Seq(Frame), Len(t) = 1, t[1].id = Base(p) + 1,
           wire' = [wire EXCEPT ![p] = @ \o t]
    PROVE  /\ wire' \in [Peers -> Seq(Frame)] /\ wire'[Other(p)] = wire[Other(p)]
           /\ Arriving(p)' /\ Base(p)' = Base(p) + 1
<1> DEFINE s == wire[p]
<1>1. /\ s \in Seq(Frame) /\ s \o t \in Seq(Frame) /\ wire'[p] = s \o t
      /\ wire' \in [Peers -> Seq(Frame)] /\ wire'[Other(p)] = wire[Other(p)]
  BY OtherPeer, ConcatProperties DEF TypeOK
<1>2. /\ Arrived(p)' = Arrived(p) /\ Arrived(p) \in Nat /\ Len(s) \in Nat
      /\ t[1].id = Arrived(p) + (Len(s) + 1)
      /\ Base(p) = Arrived(p) + Len(s)
  <2>1. Arrived(p)' = Arrived(p) /\ Arrived(p) \in Nat /\ Len(s) \in Nat
    BY BaseType DEF Arrived
  <2> QED BY <2>1 DEF Base
<1>3. \A i \in 1..Len(s) : s[i].id = Arrived(p) + i
  BY DEF Arriving
<1> HIDE DEF s
<1>4. /\ Len(s \o t) = Len(s) + 1
      /\ \A i \in 1..Len(s) : (s \o t)[i] = s[i]
      /\ (s \o t)[Len(s) + 1] = t[1]
      /\ \A i \in 1..(Len(s) + 1) : i \in 1..Len(s) \/ i = Len(s) + 1
  BY <1>1, ConcatOne
<1>5. Arriving(p)'
  <2>1. \A i \in 1..Len(s \o t) : (s \o t)[i].id = Arrived(p) + i
    BY <1>2, <1>3, <1>4
  <2> QED BY <1>1, <1>2, <2>1 DEF Arriving
<1>6. Base(p)' = Base(p) + 1
  BY <1>1, <1>2, <1>4 DEF Base
<1> QED BY <1>1, <1>5, <1>6

LEMMA InvSendEx == ASSUME IInv, NEW p \in Peers, SendEx(p) PROVE IInv'
<1>1. /\ TypeOK /\ SendTypes /\ PeerInv(p) /\ Other(p) \in Peers /\ PeerInv(Other(p))
      /\ Other(p) # p /\ Other(Other(p)) = p
  BY OtherPeer DEF IInv, TypeOK, SendTypes
<1>2. /\ pc[p] = "put" /\ ~async[p] /\ SendRest(p)
      /\ \/ ~Broken(p) /\ wire' = [wire EXCEPT ![p] = @ \o hand[p]]
         \/ Broken(p) /\ wire' = wire
      /\ UNCHANGED <<prog, hasSent, async, flushq, fpc, fhold, ctx, want, got, lost>>
  BY DEF SendEx, appVars, flushVars, recvVars
<1>3. /\ Threads(p) /\ hand[p] \in Seq(Frame) /\ Len(hand[p]) = 1
      /\ pend[p] <= sent[p] /\ cont[p] \in {"run", "spawn", "done"}
      /\ fpc[p] = "off" /\ flushq[p] = <<>> /\ fhold[p] = <<>>
  BY <1>1, <1>2 DEF PeerInv, Threads, TypeOK
<1>4. SendTypes' /\ OthersKeep(p) /\ Sending(p, cont[p])
  BY <1>1, <1>2, <1>3, SendRestEffect
<1>5. Broken(p)' = Broken(p)
  BY <1>1, <1>2, <1>4 DEF Broken, OthersKeep
<1>6. /\ Len(fhold[p]) = 0 /\ Len(flushq[p]) = 0 /\ sendId[p] \in Nat /\ Base(p) \in Nat
  BY <1>1, <1>3, BaseType, EmptySeq DEF TypeOK
<1>7. ~Broken(p) => sendId[p] = Base(p) + 1 /\ hand[p][1].id = Base(p) + 1
  BY <1>1, <1>3, <1>6 DEF PeerInv, Leaving
<1>8. /\ wire' \in [Peers -> Seq(Frame)] /\ wire'[Other(p)] = wire[Other(p)]
      /\ Arriving(p)'
      /\ ~Broken(p) => Base(p)' = Base(p) + 1
  <2>1. CASE ~Broken(p) /\ wire' = [wire EXCEPT ![p] = @ \o hand[p]]
    <3> DEFINE t == hand[p]
    <3>1. t \in Seq(Frame) /\ Len(t) = 1 /\ t[1].id = Base(p) + 1
            /\ wire' = [wire EXCEPT ![p] = @ \o t] /\ Arriving(p)
      BY <1>1, <1>3, <1>7, <2>1 DEF PeerInv
    <3> HIDE DEF t
    <3> QED BY <1>1, <1>2, <3>1, OneMoreFrame
  <2>2. CASE Broken(p) /\ wire' = wire
    BY <1>1, <1>2, <2>2 DEF PeerInv, Arriving, Arrived, TypeOK
  <2> QED BY <1>2, <2>1, <2>2
<1>9. TypeOK'
  BY <1>1, <1>2, <1>4, <1>8 DEF TypeOK, SendTypes
<1>10. PeerInv(Other(p))'
  <2>1. Kept(Other(p)) /\ Arrived(Other(p))' = Arrived(Other(p))
    BY <1>1, <1>2, <1>4, <1>8 DEF Kept, OthersKeep, Arrived
  <2>2. ~Broken(Other(p))' => ~Broken(Other(p))
    BY <1>1, <1>2, <1>4 DEF Broken
  <2> QED BY <1>1, <2>1, <2>2, Undisturbed
<1>11. PeerInv(p)'
  <2>1. Threads(p)'
    BY <1>1, <1>2, <1>3, <1>4 DEF Threads, Sending
  <2>2. Cursor(ctx[p])' /\ (pc[p] = "read" => ~ctx[p].info.valid)'
    BY <1>1, <1>2, <1>3, <1>4 DEF PeerInv, Sending, Cursor
  <2>3. ASSUME ~Broken(p)' PROVE Leaving(p)'
    <3>1. sendId[p] = Base(p)'
      BY <1>5, <1>7, <1>8, <2>3
    <3>2. /\ Len(fhold'[p]) = 0 /\ Len(flushq'[p]) = 0 /\ Base(p)' \in Nat
          /\ flushq'[p] = <<>> /\ fhold'[p] = <<>>
      BY <1>2, <1>3, <1>6, <3>1
    <3>3. CASE hand'[p] = <<>> /\ sendId'[p] = sendId[p]
      BY <3>1, <3>2, <3>3, EmptySeq DEF Leaving
    <3>4. CASE /\ Len(hand'[p]) = 1 /\ hand'[p][1].id = sendId[p] + 1
               /\ sendId'[p] = sendId[p] + 1
      BY <3>1, <3>2, <3>4 DEF Leaving
    <3> QED BY <1>4, <3>3, <3>4 DEF Sending
  <2> QED BY <1>8, <2>1, <2>2, <2>3 DEF PeerInv
<1> QED
  <2>1. \A q \in Peers : q = p \/ q = Other(p)
    BY OtherPeer
  <2> QED BY <1>9, <1>10, <1>11, <2>1 DEF IInv

(* A failed send happens on a broken connection only, where nothing is     *)
(* claimed of what is still to leave.                                      *)
LEMMA InvSendExFails == ASSUME IInv, NEW p \in Peers, SendExFails(p) PROVE IInv'
<1>1. /\ TypeOK /\ PeerInv(p) /\ Other(p) \in Peers /\ PeerInv(Other(p))
      /\ Other(p) # p /\ Other(Other(p)) = p
  BY OtherPeer DEF IInv
<1>2. /\ pc[p] = "put" /\ ~async[p] /\ Broken(p)
      /\ hand' = [hand EXCEPT ![p] = <<>>]
      /\ pend' = [pend EXCEPT ![p] = 0]
      /\ pc' = [pc EXCEPT ![p] = cont[p]]
      /\ UNCHANGED <<prog, hasSent, sent, buf, sendId, cont, async, flushq, fpc,
                     fhold, wire, ctx, want, got, lost>>
  BY DEF SendExFails, appVars, flushVars, recvVars
<1>3. cont[p] \in {"run", "spawn", "done"} /\ Threads(p) /\ sent[p] \in Nat
  BY <1>1 DEF TypeOK, PeerInv
<1>4. /\ hand' \in [Peers -> Seq(Frame)] /\ hand'[p] = <<>> /\ pend'[p] = 0
      /\ pc'[p] = cont[p] /\ hand'[Other(p)] = hand[Other(p)]
      /\ pend'[Other(p)] = pend[Other(p)] /\ pc'[Other(p)] = pc[Other(p)]
  BY <1>1, <1>2, EmptySeq DEF TypeOK
<1>5. TypeOK'
  BY <1>1, <1>2, <1>3, <1>4 DEF TypeOK
<1>6. PeerInv(Other(p))'
  <2>1. Kept(Other(p)) /\ Arrived(Other(p))' = Arrived(Other(p))
    BY <1>1, <1>2, <1>4 DEF Kept, Arrived
  <2>2. ~Broken(Other(p))' => ~Broken(Other(p))
    BY <1>1, <1>2, <1>4 DEF Broken
  <2> QED BY <1>1, <2>1, <2>2, Undisturbed
<1>7. PeerInv(p)'
  <2>1. Threads(p)'
    BY <1>2, <1>3, <1>4 DEF Threads
  <2>2. Cursor(ctx[p])' /\ Arriving(p)' /\ Broken(p)'
    BY <1>1, <1>2, <1>4 DEF PeerInv, Cursor, Arriving, Arrived, Broken
  <2>3. pc'[p] # "read"
    BY <1>3, <1>4
  <2> QED BY <2>1, <2>2, <2>3 DEF PeerInv
<1> QED
  <2>1. \A q \in Peers : q = p \/ q = Other(p)
    BY OtherPeer
  <2> QED BY <1>5, <1>6, <1>7, <2>1 DEF IInv
-----------------------------------------------------------------------------
(* A step of p alone: it is enough to look at p.                           *)
LEMMA OnePeer ==
    ASSUME IInv, NEW p \in Peers, TypeOK', Kept(Other(p)), UNCHANGED lost,
           Arrived(Other(p))' = Arrived(Other(p)),
           pc'[p] = "done" <=> pc[p] = "done",
           PeerInv(p)'
    PROVE  IInv'
<1>1. /\ Other(p) \in Peers /\ PeerInv(Other(p)) /\ Other(Other(p)) = p
      /\ \A q \in Peers : q = p \/ q = Other(p)
  BY OtherPeer DEF IInv
<1>2. ~Broken(Other(p))' => ~Broken(Other(p))
  BY <1>1 DEF Broken
<1>3. PeerInv(Other(p))'
  BY <1>1, <1>2, Undisturbed
<1> QED BY <1>1, <1>3 DEF IInv

(* A step of p's flush thread, and any other that leaves alone everything  *)
(* but the flush thread's position and the frames it passes on.            *)
LEMMA FlushStep ==
    ASSUME IInv, NEW p \in Peers,
           UNCHANGED <<prog, pc, cont, hasSent, sent, buf, sendId, hand, pend,
                       async, ctx, want, got, lost>>,
           NEW pos \in {"check", "enter", "wait", "send", "exit"},
           fpc[p] # "off", fpc' = [fpc EXCEPT ![p] = pos],
           pos = "exit" => ~async[p] /\ flushq'[p] = <<>>,
           IF pos = "send" THEN Len(fhold'[p]) = 1 ELSE fhold'[p] = <<>>,
           flushq' \in [Peers -> Seq(Frame)], flushq'[Other(p)] = flushq[Other(p)],
           fhold' \in [Peers -> Seq(Frame)], fhold'[Other(p)] = fhold[Other(p)],
           wire' \in [Peers -> Seq(Frame)], wire'[Other(p)] = wire[Other(p)],
           Arriving(p)', ~Broken(p) => Leaving(p)'
    PROVE  IInv'
<1>1. TypeOK /\ PeerInv(p) /\ Other(p) \in Peers /\ Other(p) # p /\ Other(Other(p)) = p
  BY OtherPeer DEF IInv
<1>2. /\ fpc'[p] = pos /\ fpc'[Other(p)] = fpc[Other(p)]
      /\ fpc' \in [Peers -> {"off", "check", "enter", "wait", "send", "exit"}]
  BY <1>1 DEF TypeOK
<1>3. TypeOK'
  BY <1>1, <1>2 DEF TypeOK
<1>4. Kept(Other(p)) /\ Arrived(Other(p))' = Arrived(Other(p))
  BY <1>1, <1>2 DEF Kept, Arrived
<1>5. PeerInv(p)'
  <2>1. Threads(p)'
    <3>1. Threads(p)
      BY <1>1 DEF PeerInv
    <3> QED BY <1>2, <3>1 DEF Threads
  <2>2. Cursor(ctx[p])' /\ (pc[p] = "read" => ~ctx[p].info.valid)' /\ Broken(p)' = Broken(p)
    BY <1>1 DEF PeerInv, Cursor, Broken
  <2> QED BY <2>1, <2>2 DEF PeerInv
<1> QED BY <1>3, <1>4, <1>5, OnePeer

LEMMA InvFlushCheck == ASSUME IInv, NEW p \in Peers, FlushCheck(p) PROVE IInv'
<1>1. TypeOK /\ PeerInv(p) /\ Threads(p)
  BY DEF IInv, PeerInv
<1>2. /\ fpc[p] = "check"
      /\ fpc' = [fpc EXCEPT ![p] = IF async[p] \/ flushq[p] # <<>> THEN "enter" ELSE "exit"]
      /\ UNCHANGED <<prog, pc, cont, hasSent, sent, buf, sendId, hand, pend,
                     async, flushq, fhold, wire, ctx, want, got, lost>>
  BY DEF FlushCheck, appVars, sendVars, recvVars
<1>3. /\ Arriving(p)'
      /\ ~Broken(p) => Leaving(p)'
      /\ flushq' \in [Peers -> Seq(Frame)] /\ fhold' \in [Peers -> Seq(Frame)]
      /\ wire' \in [Peers -> Seq(Frame)]
  BY <1>1, <1>2 DEF PeerInv, Arriving, Leaving, Arrived, Base, TypeOK
<1>4. fhold'[p] = <<>>
  BY <1>1, <1>2 DEF Threads
<1>5. CASE async[p] \/ flushq[p] # <<>>
  <2>1. fpc' = [fpc EXCEPT ![p] = "enter"]
    BY <1>2, <1>5
  <2> QED BY <1>1, <1>2, <1>3, <1>4, <2>1, FlushStep
<1>6. CASE ~(async[p] \/ flushq[p] # <<>>)
  <2>1. fpc' = [fpc EXCEPT ![p] = "exit"] /\ ~async[p] /\ flushq'[p] = <<>>
    BY <1>2, <1>6
  <2> QED BY <1>1, <1>2, <1>3, <1>4, <2>1, FlushStep
<1> QED BY <1>5, <1>6

LEMMA InvFlushSpuriousWakeup ==
    ASSUME IInv, NEW p \in Peers, FlushSpuriousWakeup(p) PROVE IInv'
<1>1. TypeOK /\ PeerInv(p) /\ Threads(p)
  BY DEF IInv, PeerInv
<1>2. /\ fpc[p] = "wait" /\ fpc' = [fpc EXCEPT ![p] = "enter"]
      /\ UNCHANGED <<prog, pc, cont, hasSent, sent, buf, sendId, hand, pend,
                     async, flushq, fhold, wire, ctx, want, got, lost>>
  BY DEF FlushSpuriousWakeup, appVars, sendVars, recvVars
<1>3. /\ Arriving(p)'
      /\ ~Broken(p) => Leaving(p)'
      /\ flushq' \in [Peers -> Seq(Frame)] /\ fhold' \in [Peers -> Seq(Frame)]
      /\ wire' \in [Peers -> Seq(Frame)]
  BY <1>1, <1>2 DEF PeerInv, Arriving, Leaving, Arrived, Base, TypeOK
<1>4. fhold'[p] = <<>>
  BY <1>1, <1>2 DEF Threads
<1> QED BY <1>2, <1>3, <1>4, FlushStep

(* The head of the flush list passes to the flush thread's hand.           *)
LEMMA InvFlushEnter == ASSUME IInv, NEW p \in Peers, FlushEnter(p) PROVE IInv'
<1>1. TypeOK /\ PeerInv(p) /\ Threads(p) /\ Other(p) # p
  BY OtherPeer DEF IInv, PeerInv
<1>2. /\ fpc[p] = "enter"
      /\ UNCHANGED <<prog, pc, cont, hasSent, sent, buf, sendId, hand, pend,
                     async, wire, ctx, want, got, lost>>
  BY DEF FlushEnter, appVars, sendVars, recvVars
<1>3. fhold[p] = <<>> /\ Arriving(p)' /\ Base(p)' = Base(p) /\ wire' \in [Peers -> Seq(Frame)]
  BY <1>1, <1>2 DEF Threads, PeerInv, Arriving, Arrived, Base, TypeOK
<1>4. ASSUME UNCHANGED <<flushq, fhold>>
      PROVE  /\ ~Broken(p) => Leaving(p)'
             /\ flushq' \in [Peers -> Seq(Frame)] /\ fhold' \in [Peers -> Seq(Frame)]
  BY <1>1, <1>2, <1>3, <1>4 DEF PeerInv, Leaving, TypeOK
<1>5. CASE fpc' = [fpc EXCEPT ![p] = "wait"] /\ UNCHANGED <<flushq, fhold>>
  BY <1>2, <1>3, <1>4, <1>5, FlushStep
<1>6. CASE fpc' = [fpc EXCEPT ![p] = "check"] /\ UNCHANGED <<flushq, fhold>>
  BY <1>2, <1>3, <1>4, <1>6, FlushStep
<1>7. CASE /\ flushq[p] # <<>>
           /\ fhold' = [fhold EXCEPT ![p] = <<Head(flushq[p])>>]
           /\ flushq' = [flushq EXCEPT ![p] = Tail(@)]
           /\ fpc' = [fpc EXCEPT ![p] = "send"]
  <2> DEFINE s == flushq[p]
             h == <<Head(s)>>
  <2>1. s \in Seq(Frame) /\ s # <<>>
    BY <1>1, <1>7 DEF TypeOK
  <2>2. /\ flushq' = [flushq EXCEPT ![p] = Tail(s)] /\ fhold' = [fhold EXCEPT ![p] = h]
    BY <1>7
  <2> HIDE DEF s
  <2>3. /\ Head(s) \in Frame /\ Head(s) = s[1] /\ Len(s) \in Nat \ {0}
        /\ Tail(s) \in Seq(Frame) /\ Len(Tail(s)) = Len(s) - 1
        /\ \A i \in 1..Len(Tail(s)) : Tail(s)[i] = s[i + 1]
    BY <2>1, HeadTailProperties, EmptySeq, LenProperties
  <2>4. h \in Seq(Frame) /\ Len(h) = 1 /\ h[1] = s[1]
    BY <2>3
  <2> HIDE DEF h
  <2>5. /\ flushq' \in [Peers -> Seq(Frame)] /\ flushq'[Other(p)] = flushq[Other(p)]
        /\ fhold' \in [Peers -> Seq(Frame)] /\ fhold'[Other(p)] = fhold[Other(p)]
        /\ fhold'[p] = h /\ flushq'[p] = Tail(s)
    BY <1>1, <2>2, <2>3, <2>4, SMTT(40) DEF TypeOK
  <2>6. ASSUME ~Broken(p) PROVE Leaving(p)'
    <3>1. Leaving(p) /\ flushq[p] = s /\ Len(fhold[p]) = 0 /\ Base(p) \in Nat
      BY <1>1, <1>3, <2>6, BaseType, EmptySeq DEF PeerInv, s
    <3>2. /\ \A i \in 1..Len(s) : s[i].id = Base(p) + i
          /\ \A i \in 1..Len(hand[p]) : hand[p][i].id = Base(p) + Len(s) + i
          /\ sendId[p] = Base(p) + Len(s) + Len(hand[p])
      <4>1. Base(p) + Len(fhold[p]) = Base(p)
        BY <3>1
      <4> QED BY <3>1, <4>1 DEF Leaving
    <3>3. \A i \in 1..Len(h) : h[i].id = Base(p) + i
      BY <2>3, <2>4, <3>2
    <3>4. \A i \in 1..Len(Tail(s)) : Tail(s)[i].id = Base(p) + Len(h) + i
      <4>1. ASSUME NEW i \in 1..Len(Tail(s)) PROVE Tail(s)[i].id = Base(p) + Len(h) + i
        <5>1. i + 1 \in 1..Len(s) /\ Tail(s)[i] = s[i + 1]
          BY <2>3
        <5>2. s[i + 1].id = Base(p) + (i + 1)
          BY <3>2, <5>1
        <5> QED BY <2>4, <3>1, <5>1, <5>2
      <4> QED BY <4>1
    <3>5. Base(p) + Len(h) + Len(Tail(s)) = Base(p) + Len(s)
      BY <2>3, <2>4, <3>1
    <3> QED BY <1>2, <1>3, <2>5, <3>2, <3>3, <3>4, <3>5 DEF Leaving
  <2> QED BY <1>2, <1>3, <1>7, <2>4, <2>5, <2>6, FlushStep
<1> QED BY <1>5, <1>6, <1>7 DEF FlushEnter

(* ... and from there to the connection.                                   *)
LEMMA InvFlushSend == ASSUME IInv, NEW p \in Peers, FlushSend(p) PROVE IInv'
<1>1. TypeOK /\ PeerInv(p) /\ Threads(p) /\ Other(p) # p
  BY OtherPeer DEF IInv, PeerInv
<1>2. /\ fpc[p] = "send" /\ fpc' = [fpc EXCEPT ![p] = "check"]
      /\ \/ ~Broken(p) /\ wire' = [wire EXCEPT ![p] = @ \o fhold[p]]
         \/ Broken(p) /\ wire' = wire
      /\ fhold' = [fhold EXCEPT ![p] = <<>>]
      /\ UNCHANGED <<prog, pc, cont, hasSent, sent, buf, sendId, hand, pend,
                     async, flushq, ctx, want, got, lost>>
  BY DEF FlushSend, appVars, sendVars, recvVars
<1>3. /\ fhold' \in [Peers -> Seq(Frame)] /\ fhold'[Other(p)] = fhold[Other(p)]
      /\ fhold'[p] = <<>> /\ flushq' \in [Peers -> Seq(Frame)]
  BY <1>1, <1>2, EmptySeq DEF TypeOK
<1> DEFINE t == fhold[p]
<1>4. t \in Seq(Frame) /\ Len(t) = 1 /\ Arriving(p) /\ Base(p) \in Nat
  BY <1>1, <1>2, BaseType DEF Threads, PeerInv, TypeOK
<1>5. CASE ~Broken(p) /\ wire' = [wire EXCEPT ![p] = @ \o t]
  <2>1. Leaving(p)
    BY <1>1, <1>5 DEF PeerInv
  <2>2. t[1].id = Base(p) + 1
    BY <1>4, <2>1 DEF Leaving
  <2>3. /\ \A i \in 1..Len(flushq[p]) : flushq[p][i].id = Base(p) + 1 + i
        /\ \A i \in 1..Len(hand[p]) : hand[p][i].id = Base(p) + 1 + Len(flushq[p]) + i
        /\ sendId[p] = Base(p) + 1 + Len(flushq[p]) + Len(hand[p])
    BY <1>4, <2>1 DEF Leaving
  <2> HIDE DEF t
  <2>4. /\ wire' \in [Peers -> Seq(Frame)] /\ wire'[Other(p)] = wire[Other(p)]
        /\ Arriving(p)' /\ Base(p)' = Base(p) + 1
    BY <1>1, <1>2, <1>4, <1>5, <2>2, OneMoreFrame
  <2>5. Len(fhold'[p]) = 0
    BY <1>3, EmptySeq
  <2>6. Base(p)' + Len(fhold'[p]) = Base(p) + 1
    BY <1>4, <2>4, <2>5
  <2>7. Leaving(p)'
    BY <1>2, <2>3, <2>4, <2>5, <2>6 DEF Leaving
  <2> QED BY <1>2, <1>3, <2>4, <2>7, FlushStep
<1>6. CASE Broken(p) /\ wire' = wire
  <2>1. Arriving(p)' /\ wire' \in [Peers -> Seq(Frame)]
    BY <1>1, <1>2, <1>4, <1>6 DEF Arriving, Arrived, TypeOK
  <2> QED BY <1>2, <1>3, <1>6, <2>1, FlushStep
<1> QED BY <1>2, <1>5, <1>6
-----------------------------------------------------------------------------
(* A step of p's main thread that sends nothing and leaves the connection  *)
(* alone.                                                                  *)
LEMMA MainStep ==
    ASSUME IInv, NEW p \in Peers, TypeOK',
           UNCHANGED <<cont, sent, buf, sendId, hand, pend, flushq, fhold, wire, lost>>,
           pc'[Other(p)] = pc[Other(p)], async'[Other(p)] = async[Other(p)],
           fpc'[Other(p)] = fpc[Other(p)], ctx'[Other(p)] = ctx[Other(p)],
           pc[p] # "done", pc'[p] # "done",
           Threads(p)', Cursor(ctx[p])', (pc[p] = "read" => ~ctx[p].info.valid)',
           Arrived(Other(p))' = Arrived(Other(p))
    PROVE  IInv'
<1>1. PeerInv(p) /\ Other(p) \in Peers /\ Other(p) # p /\ Other(Other(p)) = p
  BY OtherPeer DEF IInv
<1>2. Kept(Other(p))
  BY DEF Kept
<1>3. Arriving(p)' /\ Broken(p)' = Broken(p) /\ Base(p)' = Base(p)
  BY <1>1 DEF PeerInv, Arriving, Arrived, Broken, Base
<1>4. (~Broken(p) => Leaving(p))'
  BY <1>1, <1>3 DEF PeerInv, Leaving
<1>5. PeerInv(p)'
  BY <1>3, <1>4 DEF PeerInv
<1> QED BY <1>2, <1>5, OnePeer

LEMMA InvRecv == ASSUME IInv, NEW p \in Peers, Recv(p) PROVE IInv'
<1>1. TypeOK /\ PeerInv(p) /\ Threads(p) /\ Other(p) \in Peers /\ Other(p) # p
  BY OtherPeer DEF IInv, PeerInv
<1>2. /\ pc[p] = "run" /\ prog[p] # <<>>
      /\ prog' = [prog EXCEPT ![p] = Tail(@)]
      /\ want' = [want EXCEPT ![p] = Head(prog[p]).n]
      /\ pc' = [pc EXCEPT ![p] = "recv"]
      /\ UNCHANGED <<hasSent, sent, buf, sendId, hand, pend, cont, async, flushq,
                     fpc, fhold, wire, ctx, got, lost>>
  BY DEF Recv, Calls, Return, sendVars, flushVars
<1>3. Head(prog[p]) \in Op /\ Tail(prog[p]) \in Seq(Op)
  BY <1>1, <1>2, HeadTailProperties, EmptySeq DEF TypeOK
<1>4. Head(prog[p]).n \in Nat
  BY <1>3 DEF Op
<1>5. TypeOK'
  BY <1>1, <1>2, <1>3, <1>4 DEF TypeOK
<1>6. pc'[p] = "recv" /\ pc'[Other(p)] = pc[Other(p)]
  BY <1>1, <1>2 DEF TypeOK
<1>7. Threads(p)' /\ Cursor(ctx[p])' /\ Arrived(Other(p))' = Arrived(Other(p))
  BY <1>1, <1>2, <1>6 DEF Threads, Cursor, PeerInv, Arrived
<1> QED BY <1>2, <1>5, <1>6, <1>7, MainStep

LEMMA InvRecvTake == ASSUME IInv, NEW p \in Peers, RecvTake(p) PROVE IInv'
<1>1. /\ TypeOK /\ PeerInv(p) /\ Threads(p) /\ Cursor(ctx[p])
      /\ Other(p) \in Peers /\ Other(p) # p /\ Other(Other(p)) = p
  BY OtherPeer DEF IInv, PeerInv
<1> DEFINE taken == Taken(ctx[p], want[p])
           c == RecvFromRecvCtx(ctx[p], want[p])
<1>2. /\ pc[p] = "recv" /\ ctx[p].info.valid
      /\ got' = [got EXCEPT ![p] = @ \o taken]
      /\ want' = [want EXCEPT ![p] = @ - Len(taken)]
      /\ pc' = [pc EXCEPT ![p] = IF Len(taken) = want[p] THEN "run" ELSE "read"]
      /\ ctx' = [ctx EXCEPT ![p] = c]
      /\ UNCHANGED <<prog, hasSent, sent, buf, sendId, hand, pend, cont, async,
                     flushq, fpc, fhold, wire, lost>>
  BY DEF RecvTake, appVars, sendVars, flushVars
<1>3. ctx \in [Peers -> RecvContext] /\ ctx[p] \in RecvContext /\ want[p] \in Nat
  BY <1>1, ContextType DEF TypeOK
<1>4. /\ taken \in Seq(Nat) /\ Len(taken) <= want[p]
      /\ c \in RecvContext /\ Cursor(c)
      /\ Len(taken) < want[p] => ~c.info.valid
      /\ c.info.prev + Len(c.list) = ctx[p].info.prev + Len(ctx[p].list)
  BY <1>1, <1>2, <1>3, TakeFromCurrent
<1> HIDE DEF taken, c
<1>5. Len(taken) \in Nat
  BY <1>4, LenProperties
<1>6. want[p] - Len(taken) \in Nat /\ (Len(taken) # want[p] => Len(taken) < want[p])
  BY <1>3, <1>4, <1>5
<1>7. got[p] \o taken \in Seq(Nat)
  BY <1>1, <1>4, ConcatProperties DEF TypeOK
<1>8. /\ ctx' \in [Peers -> RecvContext] /\ ctx'[p] = c /\ ctx'[Other(p)] = ctx[Other(p)]
  BY <1>1, <1>2, <1>3, <1>4
<1>9. TypeOK'
  <2>1. /\ pc' \in [Peers -> {"run", "put", "recv", "read", "spawn", "join", "done"}]
        /\ got' \in [Peers -> Seq(Nat)] /\ want' \in [Peers -> Nat]
    BY <1>1, <1>2, <1>6, <1>7 DEF TypeOK
  <2> QED BY <1>1, <1>2, <1>8, <2>1 DEF TypeOK, RecvContext, RecvInfo
<1>10. /\ pc'[p] \in {"run", "read"} /\ pc'[Other(p)] = pc[Other(p)]
       /\ pc'[p] = "read" => Len(taken) # want[p]
  BY <1>1, <1>2 DEF TypeOK
<1>11. Threads(p)'
  BY <1>1, <1>2, <1>10 DEF Threads
<1>12. Cursor(ctx[p])' /\ (pc[p] = "read" => ~ctx[p].info.valid)'
  BY <1>4, <1>6, <1>8, <1>10
<1>13. Arrived(Other(p))' = Arrived(Other(p))
  BY <1>1, <1>4, <1>8 DEF Arrived
<1> QED BY <1>1, <1>2, <1>8, <1>9, <1>10, <1>11, <1>12, <1>13, MainStep

LEMMA InvRecvFails == ASSUME IInv, NEW p \in Peers, RecvFails(p) PROVE IInv'
<1>1. TypeOK /\ PeerInv(p) /\ Threads(p) /\ Other(p) \in Peers /\ Other(p) # p
  BY OtherPeer DEF IInv, PeerInv
<1>2. /\ pc[p] \in {"recv", "read"}
      /\ prog' = [prog EXCEPT ![p] = <<>>]
      /\ want' = [want EXCEPT ![p] = 0]
      /\ pc' = [pc EXCEPT ![p] = "run"]
      /\ UNCHANGED <<hasSent, sent, buf, sendId, hand, pend, cont, async, flushq,
                     fpc, fhold, wire, ctx, got, lost>>
  BY DEF RecvFails, AtNetwork, sendVars, flushVars
<1>3. TypeOK'
  BY <1>1, <1>2, EmptySeq DEF TypeOK
<1>4. pc'[p] = "run" /\ pc'[Other(p)] = pc[Other(p)]
  BY <1>1, <1>2 DEF TypeOK
<1>5. Threads(p)' /\ Cursor(ctx[p])' /\ Arrived(Other(p))' = Arrived(Other(p))
  BY <1>1, <1>2, <1>4 DEF Threads, Cursor, PeerInv, Arrived
<1> QED BY <1>2, <1>3, <1>4, <1>5, MainStep

(* A frame goes from the connection into the reader's list: what has       *)
(* arrived grows by one, what is on its way shrinks by one.                *)
LEMMA InvRecvFrame == ASSUME IInv, NEW p \in Peers, RecvFrame(p) PROVE IInv'
<1> DEFINE q == Other(p)
           s == wire[q]
           c == PutToRecvCtx(ctx[p], Head(s))
<1>1. /\ TypeOK /\ PeerInv(p) /\ Threads(p) /\ Cursor(ctx[p]) /\ PeerInv(q) /\ Threads(q)
      /\ q \in Peers /\ q # p /\ Other(q) = p /\ \A x \in Peers : x = p \/ x = q
  BY OtherPeer DEF IInv, PeerInv
<1>2. /\ pc[p] \in {"recv", "read"} /\ ~ctx[p].info.valid
      /\ s # <<>> /\ wire' = [wire EXCEPT ![q] = Tail(s)]
      /\ ctx' = [ctx EXCEPT ![p] = c]
      /\ pc' = [pc EXCEPT ![p] = "recv"]
      /\ UNCHANGED <<prog, hasSent, sent, buf, sendId, hand, pend, cont, async,
                     flushq, fpc, fhold, want, got, lost>>
  BY <1>1 DEF RecvFrame, AtNetwork, appVars, sendVars, flushVars, PeerInv
<1>3. ctx \in [Peers -> RecvContext] /\ ctx[p] \in RecvContext
        /\ ctx[p].list = <<>> /\ ctx[p].info.prev \in Nat
  BY <1>1, <1>2, ContextType DEF Cursor
<1>4. s \in Seq(Frame) /\ Arrived(q) = ctx[p].info.prev /\ Arrived(q) \in Nat
  <2>1. Len(ctx[p].list) = 0
    BY <1>3, EmptySeq
  <2>2. s \in Seq(Frame)
    BY <1>1 DEF TypeOK
  <2> QED BY <1>1, <1>3, <2>1, <2>2 DEF Arrived
<1>5. \A i \in 1..Len(s) : s[i].id = Arrived(q) + i
  BY <1>1 DEF PeerInv, Arriving
<1>6. Base(q) = Arrived(q) + Len(s)
  BY DEF Base
<1>7. wire' \in [Peers -> Seq(Frame)] /\ wire'[q] = Tail(s) /\ wire'[p] = wire[p]
  BY <1>1, <1>2, HeadTailProperties, EmptySeq DEF TypeOK
<1> HIDE DEF s
<1>8. /\ Head(s) \in Frame /\ Head(s) = s[1] /\ Len(s) \in Nat \ {0}
      /\ Tail(s) \in Seq(Frame) /\ Len(Tail(s)) = Len(s) - 1
      /\ \A i \in 1..Len(Tail(s)) : Tail(s)[i] = s[i + 1]
  BY <1>2, <1>4, HeadTailProperties, EmptySeq, LenProperties
<1>9. Head(s).id = ctx[p].info.prev + 1
  BY <1>4, <1>5, <1>8
<1>10. /\ c \in RecvContext /\ Cursor(c) /\ c.info.valid
       /\ c.info.prev = ctx[p].info.prev /\ c.list = <<Head(s)>>
  BY <1>2, <1>3, <1>8, <1>9, PutIntoEmpty
<1> HIDE DEF c
<1>11. ctx' \in [Peers -> RecvContext] /\ ctx'[p] = c /\ ctx'[q] = ctx[q]
  BY <1>1, <1>2, <1>3, <1>10
<1>12. /\ pc' \in [Peers -> {"run", "put", "recv", "read", "spawn", "join", "done"}]
       /\ pc'[p] = "recv" /\ pc'[q] = pc[q]
  BY <1>1, <1>2 DEF TypeOK
<1>13. TypeOK'
  BY <1>1, <1>2, <1>7, <1>11, <1>12 DEF TypeOK, RecvContext, RecvInfo
<1>14. Arrived(q)' = Arrived(q) + 1 /\ Arrived(p)' = Arrived(p)
  <2>1. Len(<<Head(s)>>) = 1
    OBVIOUS
  <2>2. Arrived(q)' = c.info.prev + Len(c.list)
    BY <1>1, <1>11 DEF Arrived
  <2> QED BY <1>1, <1>3, <1>4, <1>10, <1>11, <2>1, <2>2 DEF Arrived
<1>15. Arriving(q)' /\ Base(q)' = Base(q)
  <2>1. ASSUME NEW i \in 1..Len(Tail(s)) PROVE Tail(s)[i].id = Arrived(q) + 1 + i
    <3>1. i + 1 \in 1..Len(s) /\ Tail(s)[i] = s[i + 1]
      BY <1>8
    <3>2. s[i + 1].id = Arrived(q) + (i + 1)
      BY <1>5, <3>1
    <3> QED BY <1>4, <3>1, <3>2
  <2>2. Arrived(q) + 1 + Len(Tail(s)) = Arrived(q) + Len(s)
    BY <1>4, <1>8
  <2> QED BY <1>6, <1>7, <1>14, <2>1, <2>2 DEF Arriving, Base
<1>16. Broken(p)' = Broken(p) /\ Broken(q)' = Broken(q)
  BY <1>1, <1>2, <1>12 DEF Broken
<1>17. PeerInv(q)'
  <2>1. Threads(q)'
    BY <1>1, <1>2, <1>12 DEF Threads
  <2>2. Cursor(ctx[q])' /\ (pc[q] = "read" => ~ctx[q].info.valid)'
    BY <1>1, <1>11, <1>12 DEF PeerInv
  <2>3. (~Broken(q) => Leaving(q))'
    BY <1>1, <1>2, <1>15, <1>16 DEF PeerInv, Leaving
  <2> QED BY <1>15, <2>1, <2>2, <2>3 DEF PeerInv
<1>18. PeerInv(p)'
  <2>1. Threads(p)'
    BY <1>1, <1>2, <1>12 DEF Threads
  <2>2. Cursor(ctx[p])' /\ (pc[p] = "read" => ~ctx[p].info.valid)'
    BY <1>10, <1>11, <1>12
  <2>3. Arriving(p)' /\ Base(p)' = Base(p)
    BY <1>1, <1>7, <1>14 DEF PeerInv, Arriving, Base
  <2>4. (~Broken(p) => Leaving(p))'
    BY <1>1, <1>2, <1>16, <2>3 DEF PeerInv, Leaving
  <2> QED BY <2>1, <2>2, <2>3, <2>4 DEF PeerInv
<1> QED BY <1>1, <1>13, <1>17, <1>18 DEF IInv
-----------------------------------------------------------------------------
(* The calls that start and stop the asynchronous flush.                   *)
LEMMA ReturnType ==
    ASSUME TypeOK, NEW p \in Peers, prog[p] # <<>>, Return(p)
    PROVE  prog' \in [Peers -> Seq(Op)] /\ Head(prog[p]) \in Op
<1>1. Head(prog[p]) \in Op /\ Tail(prog[p]) \in Seq(Op)
  BY HeadTailProperties, EmptySeq DEF TypeOK
<1> QED BY <1>1 DEF TypeOK, Return

LEMMA InvNothingToDo ==
    ASSUME IInv, NEW p \in Peers,
           \/ NothingToStop(p)
           \/ /\ Calls(p, "start") /\ Return(p)
              /\ UNCHANGED <<pc, sendVars, hasSent, flushVars, wire, recvVars, lost>>
    PROVE  IInv'
<1>1. TypeOK /\ PeerInv(p) /\ Threads(p) /\ Other(p) \in Peers /\ Other(p) # p
  BY OtherPeer DEF IInv, PeerInv
<1>2. /\ pc[p] = "run" /\ prog[p] # <<>> /\ Return(p)
      /\ UNCHANGED <<pc, hasSent, sent, buf, sendId, hand, pend, cont, async, flushq,
                     fpc, fhold, wire, ctx, want, got, lost>>
  BY DEF NothingToStop, Calls, sendVars, flushVars, recvVars
<1>3. TypeOK'
  <2>1. prog' \in [Peers -> Seq(Op)]
    BY <1>1, <1>2, ReturnType
  <2> QED BY <1>1, <1>2, <2>1 DEF TypeOK
<1>4. Threads(p)' /\ Cursor(ctx[p])' /\ Arrived(Other(p))' = Arrived(Other(p))
  BY <1>1, <1>2 DEF Threads, Cursor, PeerInv, Arrived
<1> QED BY <1>2, <1>3, <1>4, MainStep

LEMMA InvSpawnFlushThread ==
    ASSUME IInv, NEW p \in Peers, SpawnFlushThread(p) PROVE IInv'
<1>1. TypeOK /\ PeerInv(p) /\ Threads(p) /\ Other(p) \in Peers /\ Other(p) # p
  BY OtherPeer DEF IInv, PeerInv
<1>2. /\ pc[p] = "spawn"
      /\ async' = [async EXCEPT ![p] = TRUE]
      /\ fpc' = [fpc EXCEPT ![p] = "check"]
      /\ pc' = [pc EXCEPT ![p] = "run"]
      /\ UNCHANGED <<prog, hasSent, sent, buf, sendId, hand, pend, cont, flushq,
                     fhold, wire, ctx, want, got, lost>>
  BY DEF SpawnFlushThread, appVars, sendVars, recvVars
<1>3. TypeOK'
  BY <1>1, <1>2 DEF TypeOK
<1>4. /\ pc'[p] = "run" /\ pc'[Other(p)] = pc[Other(p)]
      /\ async'[p] = TRUE /\ async'[Other(p)] = async[Other(p)]
      /\ fpc'[p] = "check" /\ fpc'[Other(p)] = fpc[Other(p)]
  BY <1>1, <1>2 DEF TypeOK
<1>5. fhold[p] = <<>>
  BY <1>1, <1>2 DEF Threads
<1>6. Threads(p)' /\ Cursor(ctx[p])' /\ Arrived(Other(p))' = Arrived(Other(p))
  BY <1>1, <1>2, <1>4, <1>5 DEF Threads, Cursor, PeerInv, Arrived
<1> QED BY <1>2, <1>3, <1>4, <1>6, MainStep

LEMMA InvStopAsyncFlush ==
    ASSUME IInv, NEW p \in Peers, StopAsyncFlush(p) PROVE IInv'
<1>1. TypeOK /\ PeerInv(p) /\ Threads(p) /\ Other(p) \in Peers /\ Other(p) # p
  BY OtherPeer DEF IInv, PeerInv
<1>2. /\ pc[p] = "run" /\ (prog' = prog \/ (prog[p] # <<>> /\ Return(p)))
      /\ async[p] /\ fpc[p] # "send"
      /\ async' = [async EXCEPT ![p] = FALSE]
      /\ fpc' = Notified(p)
      /\ pc' = [pc EXCEPT ![p] = "join"]
      /\ UNCHANGED <<hasSent, sent, buf, sendId, hand, pend, cont, flushq,
                     fhold, wire, ctx, want, got, lost>>
  BY DEF StopAsyncFlush, Calls, Destroying, LockFree, sendVars, recvVars
<1>3. prog' \in [Peers -> Seq(Op)]
  BY <1>1, <1>2, ReturnType DEF TypeOK
<1>4. fpc' \in [Peers -> {"off", "check", "enter", "wait", "send", "exit"}]
        /\ fpc'[Other(p)] = fpc[Other(p)] /\ fpc'[p] \notin {"off", "exit", "send"}
  BY <1>1, <1>2 DEF TypeOK, Threads, Notified
<1>5. TypeOK'
  BY <1>1, <1>2, <1>3, <1>4 DEF TypeOK
<1>6. /\ pc'[p] = "join" /\ pc'[Other(p)] = pc[Other(p)]
      /\ async'[p] = FALSE /\ async'[Other(p)] = async[Other(p)]
  BY <1>1, <1>2 DEF TypeOK
<1>7. Threads(p)' /\ Cursor(ctx[p])' /\ Arrived(Other(p))' = Arrived(Other(p))
  BY <1>1, <1>2, <1>4, <1>6 DEF Threads, Cursor, PeerInv, Arrived
<1> QED BY <1>2, <1>4, <1>5, <1>6, <1>7, MainStep

(* The connection keeps a prefix of what it carries.                       *)
LEMMA InvLose == ASSUME IInv, Lose PROVE IInv'
<1>1. /\ TypeOK /\ lost' = TRUE
      /\ UNCHANGED <<prog, hasSent, pc, sent, buf, sendId, hand, pend, cont, async,
                     flushq, fpc, fhold, ctx, want, got>>
  BY DEF IInv, Lose, appVars, sendVars, flushVars, recvVars
<1>2. PICK keep \in [Peers -> 0..WireCap] :
          /\ \A p \in Peers : keep[p] <= Len(wire[p])
          /\ wire' = [p \in Peers |-> SubSeq(wire[p], 1, keep[p])]
  BY DEF Lose
<1>3. ASSUME NEW p \in Peers
      PROVE  /\ wire'[p] \in Seq(Frame) /\ Len(wire'[p]) <= Len(wire[p])
             /\ \A i \in 1..Len(wire'[p]) : wire'[p][i] = wire[p][i]
  <2> DEFINE s == wire[p]  k == keep[p]  t == SubSeq(s, 1, k)
  <2>1. s \in Seq(Frame) /\ k \in Nat /\ k <= Len(s) /\ wire'[p] = t
    BY <1>1, <1>2, CapAssumption, SMTT(40) DEF TypeOK
  <2> HIDE DEF s, k
  <2>2. t \in Seq(Frame) /\ Len(t) = k - 1 + 1
    BY <2>1, SubSeqType
  <2>3. \A i \in 1..k : t[i] = s[i]
    BY <2>1, LenProperties
  <2> HIDE DEF t
  <2>4. Len(t) = k
    BY <2>1, <2>2
  <2> QED BY <2>1, <2>2, <2>3, <2>4 DEF s
<1>4. TypeOK'
  <2>1. wire' \in [Peers -> Seq(Frame)]
    BY <1>2, <1>3
  <2> QED BY <1>1, <2>1 DEF TypeOK
<1>5. ASSUME NEW p \in Peers PROVE PeerInv(p)'
  <2>1. PeerInv(p)
    BY DEF IInv
  <2>2. Threads(p)' /\ Cursor(ctx[p])' /\ (pc[p] = "read" => ~ctx[p].info.valid)'
    BY <1>1, <2>1 DEF PeerInv, Threads, Cursor
  <2>3. Arriving(p)'
    <3>1. Len(wire[p]) \in Nat /\ Len(wire'[p]) \in Nat
      BY <1>1, <1>3, LenProperties DEF TypeOK
    <3>2. Arrived(p)' = Arrived(p)
      BY <1>1 DEF Arrived
    <3> QED BY <1>3, <2>1, <3>1, <3>2 DEF PeerInv, Arriving
  <2>4. Broken(p)'
    BY <1>1 DEF Broken
  <2> QED BY <2>2, <2>3, <2>4 DEF PeerInv
<1> QED BY <1>4, <1>5 DEF IInv

LEMMA InvStutter == ASSUME IInv, UNCHANGED vars PROVE IInv'
<1>1. UNCHANGED <<prog, hasSent, pc, sent, buf, sendId, hand, pend, cont, async,
                  flushq, fpc, fhold, wire, ctx, want, got, lost>>
  BY DEF vars, appVars, sendVars, flushVars, recvVars
<1>2. TypeOK'
  BY <1>1 DEF IInv, TypeOK
<1>3. ASSUME NEW p \in Peers PROVE PeerInv(p)'
  BY <1>1 DEF IInv, PeerInv, Threads, Cursor, Arriving, Arrived, Broken, Leaving, Base
<1> QED BY <1>2, <1>3 DEF IInv

(* The calls that are one call of send_data_internal, each brought to the  *)
(* hypotheses of InvSendData.                                              *)
LEMMA InvCall ==
    ASSUME IInv, NEW p \in Peers,
           \/ Send(p) \/ Flush(p) \/ RecvFlush(p) \/ StartAsyncFlush(p)
           \/ JoinFlushThread(p) \/ Destroy(p)
    PROVE  IInv'
<1>1. TypeOK /\ PeerInv(p) /\ Threads(p)
  BY DEF IInv, PeerInv
<1>2. ASSUME prog[p] # <<>>, Return(p)
      PROVE  prog' \in [Peers -> Seq(Op)] /\ Head(prog[p]).n \in Nat
  <2>1. prog' \in [Peers -> Seq(Op)] /\ Head(prog[p]) \in Op
    BY <1>1, <1>2, ReturnType
  <2> QED BY <2>1 DEF Op
<1>3. CASE Send(p)
  <2>1. /\ pc[p] = "run" /\ prog[p] # <<>> /\ Return(p)
        /\ SendData(p, Head(prog[p]).n, "run")
        /\ hasSent' = [hasSent EXCEPT ![p] = @ \/ Head(prog[p]).n > 0]
        /\ UNCHANGED <<async, flushq, fpc, fhold, wire, recvVars, lost>>
    BY <1>3 DEF Send, Calls, flushVars
  <2>2. hasSent' \in [Peers -> BOOLEAN]
    BY <1>1, <2>1 DEF TypeOK
  <2> DEFINE n == Head(prog[p]).n
  <2>3. n \in Nat /\ prog' \in [Peers -> Seq(Op)] /\ SendData(p, n, "run")
    BY <1>2, <2>1
  <2> HIDE DEF n
  <2> QED BY <2>1, <2>2, <2>3, InvSendData
<1>4. CASE Flush(p)
  <2>1. /\ pc[p] = "run" /\ prog[p] # <<>> /\ Return(p) /\ SendData(p, 0, "run")
        /\ UNCHANGED <<hasSent, async, flushq, fpc, fhold, wire, recvVars, lost>>
    BY <1>4 DEF Flush, Calls, flushVars
  <2>2. prog' \in [Peers -> Seq(Op)] /\ hasSent' \in [Peers -> BOOLEAN]
    BY <1>1, <1>2, <2>1 DEF TypeOK
  <2> QED BY <2>1, <2>2, InvSendData
<1>5. CASE RecvFlush(p)
  <2>1. /\ pc[p] = "run" /\ SendData(p, 0, "run")
        /\ hasSent' = [hasSent EXCEPT ![p] = FALSE]
        /\ UNCHANGED <<prog, async, flushq, fpc, fhold, wire, recvVars, lost>>
    BY <1>5 DEF RecvFlush, Calls, flushVars
  <2>2. prog' \in [Peers -> Seq(Op)] /\ hasSent' \in [Peers -> BOOLEAN]
    BY <1>1, <2>1 DEF TypeOK
  <2> QED BY <2>1, <2>2, InvSendData
<1>6. CASE StartAsyncFlush(p)
  <2>1. /\ pc[p] = "run" /\ prog[p] # <<>> /\ Calls(p, "start") /\ Return(p)
        /\ UNCHANGED <<hasSent, async, flushq, fpc, fhold, wire, recvVars, lost>>
        /\ UNCHANGED flushVars
        /\ \/ UNCHANGED <<pc, sendVars>>
           \/ ~async[p] /\ SendData(p, 0, "spawn")
    BY <1>6 DEF StartAsyncFlush, Calls, flushVars
  <2>2. CASE UNCHANGED <<pc, sendVars>>
    BY <2>1, <2>2, InvNothingToDo
  <2>3. CASE ~async[p] /\ SendData(p, 0, "spawn")
    <3>1. prog' \in [Peers -> Seq(Op)] /\ hasSent' \in [Peers -> BOOLEAN]
      BY <1>1, <1>2, <2>1 DEF TypeOK
    <3> QED BY <2>1, <2>3, <3>1, InvSendData
  <2> QED BY <2>1, <2>2, <2>3
<1>7. CASE JoinFlushThread(p)
  <2>1. /\ pc[p] = "join" /\ fpc[p] = "exit" /\ SendData(p, 0, "run")
        /\ fpc' = [fpc EXCEPT ![p] = "off"]
        /\ UNCHANGED <<prog, hasSent, async, flushq, fhold, wire, recvVars, lost>>
    BY <1>7 DEF JoinFlushThread, appVars
  <2>2. prog' \in [Peers -> Seq(Op)] /\ hasSent' \in [Peers -> BOOLEAN]
    BY <1>1, <2>1 DEF TypeOK
  <2> QED BY <2>1, <2>2, InvSendData
<1>8. CASE Destroy(p)
  <2>1. /\ pc[p] = "run" /\ ~async[p] /\ SendData(p, 0, "done")
        /\ UNCHANGED <<prog, hasSent, async, flushq, fpc, fhold, wire, recvVars, lost>>
    BY <1>8 DEF Destroy, Destroying, appVars, flushVars
  <2>2. prog' \in [Peers -> Seq(Op)] /\ hasSent' \in [Peers -> BOOLEAN]
    BY <1>1, <2>1 DEF TypeOK
  <2> QED BY <2>1, <2>2, InvSendData
<1> QED BY <1>3, <1>4, <1>5, <1>6, <1>7, <1>8

LEMMA InvNext == IInv /\ [Next]_vars => IInv'
<1> SUFFICES ASSUME IInv, [Next]_vars PROVE IInv'
  OBVIOUS
<1>1. ASSUME NEW p \in Peers, MainThread(p) PROVE IInv'
  BY <1>1, InvCall, InvRecv, InvRecvTake, InvRecvFrame, InvRecvFails,
     InvPutToFlushCtx, InvSendEx, InvSendExFails, InvSpawnFlushThread,
     InvStopAsyncFlush, InvNothingToDo DEF MainThread
<1>2. ASSUME NEW p \in Peers, FlushThread(p) PROVE IInv'
  BY <1>2, InvFlushCheck, InvFlushEnter, InvFlushSend DEF FlushThread
<1>3. ASSUME NEW p \in Peers, FlushSpuriousWakeup(p) PROVE IInv'
  BY <1>3, InvFlushSpuriousWakeup
<1>4. CASE Lose
  BY <1>4, InvLose
<1>5. CASE Finished
  BY <1>5, InvStutter DEF Finished
<1>6. CASE UNCHANGED vars
  BY <1>6, InvStutter
<1> QED BY <1>1, <1>2, <1>3, <1>4, <1>5, <1>6 DEF Next
-----------------------------------------------------------------------------
(* What the invariant gives.                                               *)
THEOREM Invariance == Spec => []IInv
BY InvInit, InvNext, PTL DEF Spec

(* Every variable keeps its type, for all programs and capacities.         *)
THEOREM TypeCorrect == Spec => []TypeOK
<1>1. IInv => TypeOK
  BY DEF IInv
<1> QED BY <1>1, Invariance, PTL

(* A receive that goes to the network has no frame left in its list: the   *)
(* shortcut of RecvMessage, which does not look at the list again, cannot  *)
(* block a reader that holds its data.                                     *)
THEOREM NeverStallsWithData == Spec => []NoStallWithData
<1>1. IInv => NoStallWithData
  BY DEF IInv, PeerInv, Cursor, NoStallWithData, AtNetwork
<1> QED BY <1>1, Invariance, PTL

(* The main thread sends on the socket itself only when the flush thread   *)
(* is joined and its list is empty, so frames cannot overtake each other.  *)
THEOREM OneSenderAtATime == Spec => []OneSender
<1>1. IInv => OneSender
  BY DEF IInv, PeerInv, Threads, OneSender
<1> QED BY <1>1, Invariance, PTL
-----------------------------------------------------------------------------
(* The frames of s carry the ids after b.                                  *)
Follows(s, b) == \A i \in 1..Len(s) : s[i].id = b + i

LEMMA FollowsConcat ==
    ASSUME NEW s \in Seq(Frame), NEW t \in Seq(Frame), NEW b \in Nat,
           Follows(s, b), Follows(t, b + Len(s))
    PROVE  /\ s \o t \in Seq(Frame) /\ Len(s \o t) = Len(s) + Len(t)
           /\ Follows(s \o t, b)
<1>1. /\ s \o t \in Seq(Frame) /\ Len(s \o t) = Len(s) + Len(t)
      /\ \A i \in 1 .. Len(s) + Len(t) :
             (s \o t)[i] = IF i <= Len(s) THEN s[i] ELSE t[i - Len(s)]
  BY ConcatProperties
<1>2. Len(s) \in Nat /\ Len(t) \in Nat
  BY LenProperties
<1>3. ASSUME NEW i \in 1 .. Len(s) + Len(t) PROVE (s \o t)[i].id = b + i
  <2>1. CASE i <= Len(s)
    BY <1>1, <1>2, <2>1 DEF Follows
  <2>2. CASE ~(i <= Len(s))
    <3>1. i - Len(s) \in 1..Len(t) /\ b + Len(s) + (i - Len(s)) = b + i
      BY <1>2, <2>2
    <3>2. t[i - Len(s)].id = b + Len(s) + (i - Len(s))
      BY <3>1 DEF Follows
    <3> QED BY <1>1, <2>2, <3>1, <3>2
  <2> QED BY <2>1, <2>2
<1> QED BY <1>1, <1>3 DEF Follows

(* The ids of everything p has packed and its reader has not consumed,     *)
(* from the reader's list back to the main thread's hand.                  *)
LEMMA InFlightFollows ==
    ASSUME IInv, NEW p \in Peers, ~Broken(p)
    PROVE  LET prev == ctx[Other(p)].info.prev
           IN  /\ InFlight(p) \in Seq(Frame) /\ Follows(InFlight(p), prev)
               /\ sendId[p] = prev + Len(InFlight(p))
<1> DEFINE q == Other(p)  c == ctx[q]  prev == c.info.prev
           l == c.list  w == wire[p]  f == fhold[p]  x == flushq[p]  h == hand[p]
<1>1. /\ TypeOK /\ q \in Peers /\ Cursor(c) /\ Arriving(p) /\ Leaving(p)
      /\ c \in RecvContext /\ prev \in Nat /\ Len(l) \in Nat
  BY OtherPeer, ContextType DEF IInv, PeerInv
<1>2. /\ l \in Seq(Frame) /\ w \in Seq(Frame) /\ f \in Seq(Frame)
      /\ x \in Seq(Frame) /\ h \in Seq(Frame)
  BY <1>1 DEF TypeOK, RecvContext
<1>3. Len(w) \in Nat /\ Len(f) \in Nat /\ Len(x) \in Nat /\ Len(h) \in Nat
  BY <1>2, LenProperties
<1>4. Follows(l, prev)
  <2>1. CASE c.info.valid
    BY <1>1, <2>1 DEF Cursor, Follows
  <2>2. CASE ~c.info.valid
    <3>1. l = <<>>
      BY <1>1, <2>2 DEF Cursor
    <3> QED BY <3>1 DEF Follows
  <2> QED BY <2>1, <2>2
<1>5. Arrived(p) = prev + Len(l) /\ Base(p) = prev + Len(l) + Len(w)
  BY DEF Arrived, Base
<1>6. /\ Follows(w, prev + Len(l))
      /\ Follows(f, prev + Len(l) + Len(w))
      /\ Follows(x, prev + Len(l) + Len(w) + Len(f))
      /\ Follows(h, prev + Len(l) + Len(w) + Len(f) + Len(x))
      /\ sendId[p] = prev + Len(l) + Len(w) + Len(f) + Len(x) + Len(h)
  BY <1>1, <1>5 DEF Arriving, Leaving, Follows
<1>7. InFlight(p) = l \o w \o f \o x \o h
  BY DEF InFlight
<1> HIDE DEF prev, l, w, f, x, h
<1> DEFINE lw == l \o w  lwf == lw \o f  lwfx == lwf \o x  all == lwfx \o h
<1>8. lw \in Seq(Frame) /\ Len(lw) = Len(l) + Len(w) /\ Follows(lw, prev)
  BY <1>1, <1>2, <1>4, <1>6, FollowsConcat
<1>9. Follows(f, prev + Len(lw)) /\ Follows(x, prev + (Len(lw) + Len(f)))
        /\ Follows(h, prev + (Len(lw) + Len(f) + Len(x)))
  <2>1. /\ prev + Len(lw) = prev + Len(l) + Len(w)
        /\ prev + (Len(lw) + Len(f)) = prev + Len(l) + Len(w) + Len(f)
        /\ prev + (Len(lw) + Len(f) + Len(x)) = prev + Len(l) + Len(w) + Len(f) + Len(x)
    BY <1>1, <1>3, <1>8
  <2> QED BY <1>6, <2>1
<1>10. sendId[p] = prev + (Len(lw) + Len(f) + Len(x) + Len(h))
  BY <1>1, <1>3, <1>6, <1>8
<1> HIDE DEF lw
<1>11. lwf \in Seq(Frame) /\ Len(lwf) = Len(lw) + Len(f) /\ Follows(lwf, prev)
  BY <1>1, <1>2, <1>8, <1>9, FollowsConcat
<1>12. Follows(x, prev + Len(lwf))
  BY <1>9, <1>11
<1> HIDE DEF lwf
<1>13. lwfx \in Seq(Frame) /\ Len(lwfx) = Len(lwf) + Len(x) /\ Follows(lwfx, prev)
  BY <1>1, <1>2, <1>11, <1>12, FollowsConcat
<1>14. Follows(h, prev + Len(lwfx))
  BY <1>9, <1>11, <1>13
<1> HIDE DEF lwfx
<1>15. all \in Seq(Frame) /\ Len(all) = Len(lwfx) + Len(h) /\ Follows(all, prev)
  BY <1>1, <1>2, <1>13, <1>14, FollowsConcat
<1>16. sendId[p] = prev + Len(all)
  BY <1>10, <1>11, <1>13, <1>15
<1>17. InFlight(p) = all
  BY <1>7 DEF lwfx, lwf, lw
<1> HIDE DEF all
<1> QED BY <1>15, <1>16, <1>17 DEF prev

(* Frame ids are never skipped or repeated between the two send buffers    *)
(* that give them and the reader that insists on their order.              *)
THEOREM FrameIdsAreContiguous == Spec => []FrameIdsContiguous
<1>1. ASSUME IInv PROVE FrameIdsContiguous
  <2>1. ASSUME NEW p \in Peers, ~Broken(p)
        PROVE  LET prev == ctx[Other(p)].info.prev
               IN  /\ \A i \in DOMAIN InFlight(p) : InFlight(p)[i].id = prev + i
                   /\ sendId[p] = prev + Len(InFlight(p))
    <3> DEFINE s == InFlight(p)  prev == ctx[Other(p)].info.prev
    <3>1. s \in Seq(Frame) /\ Follows(s, prev) /\ sendId[p] = prev + Len(s)
      BY <1>1, <2>1, InFlightFollows
    <3> HIDE DEF s, prev
    <3>2. DOMAIN s = 1..Len(s)
      BY <3>1, LenProperties
    <3>3. \A i \in DOMAIN s : s[i].id = prev + i
      BY <3>1, <3>2 DEF Follows
    <3> QED BY <3>1, <3>3 DEF s, prev
  <2> QED BY <2>1 DEF FrameIdsContiguous
<1> QED BY <1>1, Invariance, PTL
-----------------------------------------------------------------------------
(* THE SEND BUFFER WHILE A PEER WAITS.                                     *)

(* The send buffer may be full at any time, so the invariant is about      *)
(* has_sent: while it is false the buffer is empty, or on its way out with *)
(* nothing behind it; a receive goes to the network only when it is false. *)
Empty(p) == IF pc[p] = "put" THEN pend[p] = 0 ELSE buf[p] = <<>>

Held(p) ==
    /\ pc[p] \in {"recv", "read"} => ~hasSent[p]
    /\ ~Broken(p) /\ ~hasSent[p] => Empty(p)

HInv == IInv /\ \A p \in Peers : Held(p)
-----------------------------------------------------------------------------
(* What Held(q) is about.                                                  *)
Unmoved(q) ==
    pc'[q] = pc[q] /\ hasSent'[q] = hasSent[q] /\ pend'[q] = pend[q] /\ buf'[q] = buf[q]

(* A piece of length zero.                                                 *)
LEMMA NoBytes == ASSUME NEW a \in Nat PROVE Bytes(a, 0) = <<>>
<1>1. Bytes(a, 0) \in Seq(Nat) /\ Len(Bytes(a, 0)) = 0
  BY BytesType
<1> QED BY <1>1, EmptySeq

(* One peer moves, and does not come back from its end.                    *)
LEMMA HeldStep ==
    ASSUME HInv, NEW p \in Peers, Unmoved(Other(p)), lost' = lost,
           pc[p] = "done" => pc'[p] = "done", Held(p)'
    PROVE  \A q \in Peers : Held(q)'
<1>1. /\ Other(p) \in Peers /\ Other(Other(p)) = p
      /\ \A q \in Peers : q = p \/ q = Other(p)
  BY OtherPeer
<1>2. Held(Other(p))'
  BY <1>1 DEF HInv, Held, Empty, Unmoved, Broken
<1> QED BY <1>1, <1>2

(* A call of send_data_internal with n bytes by a peer whose send buffer   *)
(* is at rest.                                                             *)
LEMMA SendDataHolds ==
    ASSUME IInv, NEW p \in Peers, NEW n \in Nat, NEW k \in {"run", "spawn", "done"},
           SendData(p, n, k), pc[p] # "put"
    PROVE  /\ pc'[p] \in {"run", "spawn", "done", "put"}
           /\ \A q \in Peers \ {p} :
                  pc'[q] = pc[q] /\ pend'[q] = pend[q] /\ buf'[q] = buf[q]
           /\ n = 0 => Empty(p)'
<1>1. TypeOK /\ SendTypes /\ hand[p] = <<>> /\ pend[p] = 0
  BY DEF IInv, PeerInv, Threads, TypeOK, SendTypes
<1>2. SendTypes' /\ OthersKeep(p) /\ Sending(p, k)
  BY <1>1, SendDataEffect
<1>3. \A q \in Peers \ {p} : buf'[q] = buf[q]
  BY <1>1 DEF SendData, TypeOK
<1>4. pc'[p] \in {"run", "spawn", "done", "put"}
  BY <1>2 DEF Sending
<1>5. ASSUME n = 0 PROVE Empty(p)'
  <2>1. CASE buf[p] = <<>>
    <3>1. buf' = [buf EXCEPT ![p] = buf[p] \o Bytes(sent[p], 0)] /\ pc' = [pc EXCEPT ![p] = k]
      BY <1>5, <2>1 DEF SendData
    <3>2. buf[p] \o Bytes(sent[p], 0) = <<>>
      <4>1. Bytes(sent[p], 0) = <<>>
        BY <1>1, NoBytes DEF TypeOK
      <4>2. <<>> \in Seq(Nat)
        BY EmptySeq
      <4> QED BY <2>1, <4>1, <4>2, ConcatEmptySeq
    <3> QED BY <1>1, <3>1, <3>2 DEF TypeOK, Empty
  <2>2. CASE buf[p] # <<>>
    <3>1. Pack(p, buf[p], 0, k)
      BY <1>5, <2>2 DEF SendData
    <3> QED BY <1>1, <3>1 DEF Pack, TypeOK, Empty
  <2> QED BY <2>1, <2>2
<1> QED BY <1>2, <1>3, <1>4, <1>5 DEF OthersKeep

(* The calls that flush: with nothing sent, nothing is held back.          *)
LEMMA FlushHolds ==
    ASSUME HInv, NEW p \in Peers, NEW k \in {"run", "spawn", "done"}, SendData(p, 0, k),
           pc[p] \in {"run", "join"}, hasSent'[Other(p)] = hasSent[Other(p)], lost' = lost
    PROVE  \A q \in Peers : Held(q)'
<1>1. Other(p) \in Peers /\ Other(p) # p
  BY OtherPeer
<1>2. /\ pc'[p] \in {"run", "spawn", "done", "put"} /\ Empty(p)'
      /\ pc'[Other(p)] = pc[Other(p)] /\ pend'[Other(p)] = pend[Other(p)]
      /\ buf'[Other(p)] = buf[Other(p)]
  <2>1. 0 \in Nat /\ pc[p] # "put" /\ IInv
    BY DEF HInv
  <2> QED BY <1>1, <2>1, SendDataHolds
<1>3. Held(p)'
  BY <1>2 DEF Held
<1> QED BY <1>1, <1>2, <1>3, HeldStep DEF Unmoved

LEMMA SendHolds ==
    ASSUME HInv, NEW p \in Peers, Send(p)
    PROVE  \A q \in Peers : Held(q)'
<1> DEFINE n == Head(prog[p]).n
<1>1. /\ TypeOK /\ IInv /\ Other(p) \in Peers /\ Other(p) # p
      /\ pc[p] = "run" /\ prog[p] # <<>> /\ Return(p) /\ SendData(p, n, "run")
      /\ hasSent' = [hasSent EXCEPT ![p] = @ \/ n > 0] /\ lost' = lost
  BY OtherPeer DEF HInv, IInv, Send, Calls
<1>2. n \in Nat
  <2>1. Head(prog[p]) \in Op
    BY <1>1, ReturnType
  <2> QED BY <2>1 DEF Op
<1> HIDE DEF n
<1>3. hasSent'[Other(p)] = hasSent[Other(p)]
  BY <1>1 DEF TypeOK
<1>4. CASE n = 0
  <2>1. SendData(p, 0, "run")
    BY <1>1, <1>4
  <2> QED BY <1>1, <1>3, <2>1, FlushHolds
<1>5. CASE n > 0
  <2>1. /\ pc'[p] \in {"run", "spawn", "done", "put"}
        /\ pc'[Other(p)] = pc[Other(p)] /\ pend'[Other(p)] = pend[Other(p)]
        /\ buf'[Other(p)] = buf[Other(p)]
    BY <1>1, <1>2, SendDataHolds
  <2>2. hasSent'[p]
    <3>1. p \in DOMAIN hasSent
      BY <1>1 DEF TypeOK
    <3>2. hasSent'[p] = (hasSent[p] \/ n > 0)
      BY <1>1, <3>1
    <3> QED BY <1>5, <3>2
  <2>3. Held(p)'
    BY <2>1, <2>2 DEF Held
  <2> QED BY <1>1, <1>3, <2>1, <2>3, HeldStep DEF Unmoved
<1> QED BY <1>2, <1>4, <1>5

(* The frame is handed over: the buffer is reset, and nothing follows.     *)
LEMMA SendRestHolds ==
    ASSUME HInv, NEW p \in Peers, pc[p] = "put", SendRest(p),
           UNCHANGED <<hasSent, lost>>
    PROVE  \A q \in Peers : Held(q)'
<1>1. /\ TypeOK /\ SendTypes /\ pend[p] <= sent[p] /\ Held(p)
      /\ Other(p) \in Peers /\ Other(p) # p
  BY OtherPeer DEF HInv, IInv, PeerInv, Threads, TypeOK, SendTypes
<1>2. SendTypes' /\ OthersKeep(p) /\ Sending(p, cont[p]) /\ cont[p] \in {"run", "spawn", "done"}
  BY <1>1, SendRestEffect DEF SendTypes
<1>3. pc'[p] \in {"run", "spawn", "done", "put"}
  BY <1>2 DEF Sending
<1>4. Unmoved(Other(p))
  <2>1. buf'[Other(p)] = buf[Other(p)]
    BY <1>1 DEF SendRest, TypeOK
  <2> QED BY <1>1, <1>2, <2>1 DEF OthersKeep, Unmoved
<1>5. ASSUME pend[p] = 0 PROVE Empty(p)'
  <2>1. /\ buf' = [buf EXCEPT ![p] = Bytes(sent[p] - 0, 0)]
        /\ pc' = [pc EXCEPT ![p] = cont[p]]
    BY <1>5 DEF SendRest
  <2>2. sent[p] \in Nat
    BY <1>1 DEF SendTypes
  <2>3. sent[p] - 0 \in Nat
    BY <2>2
  <2>4. Bytes(sent[p] - 0, 0) = <<>>
    BY <2>3, NoBytes
  <2> QED BY <1>1, <1>2, <2>1, <2>4 DEF TypeOK, Empty
<1>6. ~Broken(p)' => ~Broken(p)
  BY <1>1, <1>2 DEF Broken, OthersKeep
<1>7. Held(p)'
  BY <1>1, <1>3, <1>5, <1>6 DEF Held, Empty
<1> QED BY <1>4, <1>7, HeldStep
-----------------------------------------------------------------------------
(* The main thread's steps that do not send.                               *)
LEMMA QuietHolds ==
    ASSUME HInv, NEW p \in Peers, UNCHANGED <<hasSent, buf, lost>>,
           pend'[Other(p)] = pend[Other(p)], pc'[Other(p)] = pc[Other(p)],
           pc[p] # "done", pc[p] # "put", pc'[p] # "put",
           pc'[p] \in {"recv", "read"} => ~hasSent[p]
    PROVE  \A q \in Peers : Held(q)'
<1>1. Held(p)'
  BY OtherPeer DEF HInv, Held, Empty, Broken
<1>2. Unmoved(Other(p))
  BY DEF Unmoved
<1> QED BY <1>1, <1>2, HeldStep

LEMMA MainThreadHolds ==
    ASSUME HInv, NEW p \in Peers, MainThread(p)
    PROVE  \A q \in Peers : Held(q)'
<1>1. TypeOK /\ Held(p) /\ Other(p) \in Peers /\ Other(p) # p
  BY OtherPeer DEF HInv, IInv
<1>2. CASE Flush(p)
  <2>1. SendData(p, 0, "run") /\ pc[p] = "run" /\ UNCHANGED <<hasSent, lost>>
    BY <1>2 DEF Flush, Calls
  <2> QED BY <2>1, FlushHolds
<1>3. CASE RecvFlush(p)
  <2>1. /\ SendData(p, 0, "run") /\ pc[p] = "run" /\ lost' = lost
        /\ hasSent' = [hasSent EXCEPT ![p] = FALSE]
    BY <1>3 DEF RecvFlush, Calls
  <2>2. hasSent'[Other(p)] = hasSent[Other(p)]
    BY <1>1, <2>1 DEF TypeOK
  <2> QED BY <2>1, <2>2, FlushHolds
<1>4. CASE JoinFlushThread(p)
  <2>1. SendData(p, 0, "run") /\ pc[p] = "join" /\ UNCHANGED <<hasSent, lost>>
    BY <1>4 DEF JoinFlushThread, appVars
  <2> QED BY <2>1, FlushHolds
<1>5. CASE Destroy(p)
  <2>1. SendData(p, 0, "done") /\ pc[p] = "run" /\ UNCHANGED <<hasSent, lost>>
    BY <1>5 DEF Destroy, Destroying, appVars
  <2> QED BY <2>1, FlushHolds
<1>6. CASE StartAsyncFlush(p)
  <2>1. pc[p] = "run" /\ UNCHANGED <<hasSent, lost>>
    BY <1>6 DEF StartAsyncFlush, Calls
  <2>2. CASE SendData(p, 0, "spawn")
    BY <2>1, <2>2, FlushHolds
  <2>3. CASE UNCHANGED <<pc, sendVars>>
    BY <2>1, <2>3, QuietHolds DEF sendVars
  <2> QED BY <1>6, <2>2, <2>3 DEF StartAsyncFlush
<1>7. CASE PutToFlushCtx(p) \/ SendEx(p)
  <2>1. pc[p] = "put" /\ SendRest(p) /\ UNCHANGED <<hasSent, lost>>
    BY <1>7 DEF PutToFlushCtx, SendEx, appVars
  <2> QED BY <2>1, SendRestHolds
<1>8. CASE SendExFails(p)
  <2>1. /\ pc[p] = "put" /\ Broken(p) /\ UNCHANGED <<hasSent, buf, lost>>
        /\ pend' = [pend EXCEPT ![p] = 0] /\ pc' = [pc EXCEPT ![p] = cont[p]]
    BY <1>8 DEF SendExFails, appVars
  <2>2. /\ pc'[p] \in {"run", "spawn", "done"} /\ Unmoved(Other(p))
    BY <1>1, <2>1 DEF TypeOK, Unmoved
  <2>3. Held(p)'
    BY <2>1, <2>2 DEF Held, Broken, Unmoved
  <2> QED BY <2>1, <2>2, <2>3, HeldStep
<1>9. CASE Recv(p)
  <2>1. /\ pc[p] = "run" /\ ~hasSent[p] /\ pc' = [pc EXCEPT ![p] = "recv"]
        /\ UNCHANGED <<hasSent, buf, pend, lost>>
    BY <1>9 DEF Recv, Calls, sendVars
  <2> QED BY <1>1, <2>1, QuietHolds DEF TypeOK
<1>10. CASE RecvTake(p)
  <2>1. /\ pc[p] = "recv" /\ UNCHANGED <<hasSent, buf, pend, lost>>
        /\ \E l \in {"run", "read"} : pc' = [pc EXCEPT ![p] = l]
    BY <1>10 DEF RecvTake, appVars, sendVars
  <2> QED BY <1>1, <2>1, QuietHolds DEF TypeOK, Held
<1>11. CASE RecvFrame(p)
  <2>1. /\ pc[p] \in {"recv", "read"} /\ UNCHANGED <<hasSent, buf, pend, lost>>
        /\ pc' = [pc EXCEPT ![p] = "recv"]
    BY <1>11 DEF RecvFrame, AtNetwork, appVars, sendVars
  <2> QED BY <1>1, <2>1, QuietHolds DEF TypeOK, Held
<1>12. CASE RecvFails(p)
  <2>1. /\ pc[p] \in {"recv", "read"} /\ UNCHANGED <<hasSent, buf, pend, lost>>
        /\ pc' = [pc EXCEPT ![p] = "run"]
    BY <1>12 DEF RecvFails, AtNetwork, sendVars
  <2> QED BY <1>1, <2>1, QuietHolds DEF TypeOK
<1>13. CASE SpawnFlushThread(p)
  <2>1. /\ pc[p] = "spawn" /\ UNCHANGED <<hasSent, buf, pend, lost>>
        /\ pc' = [pc EXCEPT ![p] = "run"]
    BY <1>13 DEF SpawnFlushThread, appVars, sendVars
  <2> QED BY <1>1, <2>1, QuietHolds DEF TypeOK
<1>14. CASE StopAsyncFlush(p)
  <2>1. /\ pc[p] = "run" /\ UNCHANGED <<hasSent, buf, pend, lost>>
        /\ pc' = [pc EXCEPT ![p] = "join"]
    BY <1>14 DEF StopAsyncFlush, Calls, Destroying, sendVars
  <2> QED BY <1>1, <2>1, QuietHolds DEF TypeOK
<1>15. CASE NothingToStop(p)
  <2>1. pc[p] = "run" /\ UNCHANGED <<pc, hasSent, buf, pend, lost>>
    BY <1>15 DEF NothingToStop, Calls, sendVars
  <2> QED BY <2>1, QuietHolds
<1> QED BY <1>2, <1>3, <1>4, <1>5, <1>6, <1>7, <1>8, <1>9, <1>10, <1>11, <1>12, <1>13,
           <1>14, <1>15, SendHolds DEF MainThread
-----------------------------------------------------------------------------
LEMMA HeldInit == Init => HInv
<1> SUFFICES ASSUME Init PROVE \A p \in Peers : Held(p)
  BY InvInit DEF HInv
<1> QED BY DEF Init, Held, Empty

LEMMA HeldNext == HInv /\ [Next]_vars => HInv'
<1> SUFFICES ASSUME HInv, [Next]_vars PROVE \A p \in Peers : Held(p)'
  BY InvNext DEF HInv
<1>1. ASSUME NEW p \in Peers, MainThread(p) PROVE \A q \in Peers : Held(q)'
  BY <1>1, MainThreadHolds
<1>2. ASSUME UNCHANGED <<pc, hasSent, pend, buf, lost>> PROVE \A q \in Peers : Held(q)'
  BY <1>2 DEF HInv, Held, Empty, Broken
<1>3. ASSUME NEW p \in Peers, FlushThread(p) \/ FlushSpuriousWakeup(p)
      PROVE  \A q \in Peers : Held(q)'
  <2>1. UNCHANGED <<pc, hasSent, pend, buf, lost>>
    BY <1>3 DEF FlushThread, FlushCheck, FlushEnter, FlushSend, FlushSpuriousWakeup,
                appVars, sendVars
  <2> QED BY <1>2, <2>1
<1>4. CASE Lose
  <2>1. lost' /\ UNCHANGED <<pc, hasSent>>
    BY <1>4 DEF Lose, appVars
  <2> QED BY <2>1 DEF HInv, Held, Broken
<1>5. CASE Finished \/ UNCHANGED vars
  <2>1. UNCHANGED <<pc, hasSent, pend, buf, lost>>
    BY <1>5 DEF Finished, vars, appVars, sendVars
  <2> QED BY <1>2, <2>1
<1> QED BY <1>1, <1>3, <1>4, <1>5 DEF Next

(* A peer that waits for an answer has sent all of its question: has_sent  *)
(* tells the truth about the send buffer, whatever the sizes of the sends  *)
(* and through every change of mode.                                       *)
THEOREM NothingIsHeldBackWhileWaiting == Spec => []NothingHeldBackWhileWaiting
<1>1. HInv => NothingHeldBackWhileWaiting
  <2> SUFFICES ASSUME HInv, NEW p \in Peers, AtNetwork(p), ~Broken(p) PROVE buf[p] = <<>>
    BY DEF NothingHeldBackWhileWaiting
  <2>1. Held(p) /\ pc[p] \in {"recv", "read"}
    BY DEF HInv, AtNetwork
  <2> QED BY <2>1 DEF Held, Empty
<1>2. Spec => []HInv
  BY HeldInit, HeldNext, PTL DEF Spec
<1> QED BY <1>1, <1>2, PTL
-----------------------------------------------------------------------------
(***************************************************************************)
(* THE BYTES.  The channel is a pair of byte streams: every step of        *)
(* WebSocketIO is a step of ByteChannel or leaves its variables alone, for *)
(* all programs and capacities, with and without loss of the connection.   *)
(*                                                                         *)
(* The invariant says where in its sender's stream each byte is.  A frame  *)
(* is an interval of the stream; the intervals of the frames that are      *)
(* under way adjoin each other, the first one begins where the frame the   *)
(* reader is consuming ends, and the last one ends where the main thread's *)
(* frame or the send buffer begins.                                        *)
(***************************************************************************)

(* The interval of the stream that a frame carries.                        *)
From(f) == f.data[1] - 1

To(f) == From(f) + Len(f.data)

Interval(f) == f.data = Bytes(From(f), Len(f.data))

(* The frames of s carry the bytes between two positions, one frame after  *)
(* the other.                                                              *)
Chain(s, from, to) ==
    /\ from \in Nat /\ to \in Nat /\ from <= to
    /\ s = <<>> => from = to
    /\ s # <<>> => From(s[1]) = from /\ To(s[Len(s)]) = to
    /\ \A i \in 1..Len(s) :
           Interval(s[i]) /\ from <= From(s[i]) /\ To(s[i]) <= to
    /\ \A i, j \in 1..Len(s) : i < j => To(s[i]) <= From(s[j])
    /\ \A i \in 1..Len(s) : i + 1 \in 1..Len(s) => To(s[i]) = From(s[i + 1])

Reach(s, from) == IF s = <<>> THEN from ELSE To(s[Len(s)])

(* Where the frame that p's reader is consuming ends.                      *)
Consumed(c, g) == IF c.info.valid THEN Len(g) + Len(c.info.data) - c.info.offset ELSE Len(g)

Edge(p) == Consumed(ctx[Other(p)], got[Other(p)])

(* The reader of p's bytes has been given a prefix of them, and its cursor *)
(* points into the frame that carries the next one.                        *)
Reader(c, g) ==
    /\ g = Bytes(0, Len(g))
    /\ c.info.valid => /\ c.info.offset <= Len(g)
                       /\ c.info.data = Bytes(Len(g) - c.info.offset, Len(c.info.data))

Reads(p) == Reader(ctx[Other(p)], got[Other(p)])

Pushed(p) == sent[p] - Len(buf[p]) - pend[p]

(* Packed and not in the reader's context yet, but for the main thread's   *)
(* own frame.                                                              *)
Queue(p) == wire[p] \o fhold[p] \o flushq[p]

(* What the main thread has still to hand over: the buffer, or a frame     *)
(* that may be the buffer's and the bytes of the current send behind it.   *)
AtRest(p) ==
    /\ Chain(Queue(p), Edge(p), sent[p] - Len(buf[p]))
    /\ buf[p] = Bytes(sent[p] - Len(buf[p]), Len(buf[p]))

HandingOver(p) ==
    LET f == hand[p][1]
    IN  /\ Chain(Queue(p), Edge(p), sent[p] - pend[p] - Len(f.data))
        /\ f.data = Bytes(sent[p] - pend[p] - Len(f.data), Len(f.data))
        /\ buf[p] \in {<<>>, f.data}

(* On a broken connection only what it still carries can be received.      *)
Arrives(p) ==
    /\ Chain(wire[p], Edge(p), Reach(wire[p], Edge(p)))
    /\ Reach(wire[p], Edge(p)) <= Pushed(p)

Stream(p) ==
    /\ Reads(p)
    /\ Len(buf[p]) + pend[p] <= sent[p]
    /\ IF Broken(p) THEN Arrives(p)
       ELSE IF hand[p] = <<>> THEN AtRest(p) ELSE HandingOver(p)

Asks(p) == pc[p] \notin {"recv", "read"} => want[p] = 0

DInv == IInv /\ \A p \in Peers : Stream(p) /\ Asks(p)
-----------------------------------------------------------------------------
(* Intervals and chains.                                                   *)
LEMMA FrameFacts ==
    ASSUME NEW f \in Frame
    PROVE  /\ f.data \in Seq(Nat) /\ f.data # <<>> /\ f.id \in Nat
           /\ Len(f.data) \in Nat /\ Len(f.data) > 0
           /\ From(f) \in Int /\ To(f) \in Int /\ From(f) < To(f)
<1>1. f.data \in Seq(Nat) /\ f.data # <<>> /\ f.id \in Nat
  BY DEF Frame
<1>2. Len(f.data) \in Nat /\ Len(f.data) > 0
  BY <1>1, EmptySeq, LenProperties
<1>3. f.data[1] \in Nat
  BY <1>1, <1>2, ElementOfSeq
<1> QED BY <1>1, <1>2, <1>3 DEF From, To

(* A frame that carries the n bytes behind position a.                     *)
LEMMA IntervalFrom ==
    ASSUME NEW f \in Frame, NEW a \in Nat, f.data = Bytes(a, Len(f.data))
    PROVE  Interval(f) /\ From(f) = a /\ To(f) = a + Len(f.data)
<1>1. Len(f.data) \in Nat /\ Len(f.data) > 0
  BY FrameFacts
<1>2. f.data[1] = a + 1
  <2> DEFINE n == Len(f.data)
  <2>1. 1 \in 1..n
    BY <1>1
  <2> HIDE DEF n
  <2>2. Bytes(a, n)[1] = a + 1
    BY <2>1 DEF Bytes
  <2> QED BY <2>2 DEF n
<1> QED BY <1>1, <1>2 DEF Interval, From, To

(* A chain without frames.                                                 *)
LEMMA EmptyChain ==
    ASSUME NEW a \in Nat
    PROVE  Chain(<<>>, a, a)
BY DEF Chain

(* The ends of a chain, and how far its frames reach.                      *)
LEMMA ChainFacts ==
    ASSUME NEW s \in Seq(Frame), NEW a, NEW b, Chain(s, a, b)
    PROVE  /\ a \in Nat /\ b \in Nat /\ a <= b
           /\ s = <<>> => a = b
           /\ Reach(s, a) = b
BY DEF Chain, Reach

(* The head of a chain, and the rest of it.                                *)
LEMMA ChainTail ==
    ASSUME NEW s \in Seq(Frame), NEW a, NEW b, Chain(s, a, b), s # <<>>
    PROVE  /\ Head(s) \in Frame /\ From(Head(s)) = a /\ Interval(Head(s))
           /\ To(Head(s)) = a + Len(Head(s).data)
           /\ Tail(s) \in Seq(Frame)
           /\ Chain(Tail(s), To(Head(s)), b)
<1> DEFINE t == Tail(s)  f == Head(s)
<1>1. /\ f \in Frame /\ f = s[1] /\ t \in Seq(Frame) /\ Len(s) \in Nat /\ Len(s) > 0
      /\ Len(t) = Len(s) - 1 /\ \A i \in 1..Len(t) : t[i] = s[i + 1]
  BY HeadTailProperties, EmptySeq, LenProperties
<1>2. \A i \in 1..Len(s) : s[i] \in Frame
  BY ElementOfSeq
<1>3. \A i \in 1..Len(s) : From(s[i]) \in Int /\ To(s[i]) \in Int /\ From(s[i]) < To(s[i])
  BY <1>2, FrameFacts
<1>4. /\ a \in Nat /\ b \in Nat /\ From(s[1]) = a /\ To(s[Len(s)]) = b
      /\ 1 \in 1..Len(s) /\ Interval(s[1]) /\ To(s[1]) <= b
      /\ \A i \in 1..Len(s) : Interval(s[i]) /\ a <= From(s[i]) /\ To(s[i]) <= b
      /\ \A i, j \in 1..Len(s) : i < j => To(s[i]) <= From(s[j])
      /\ \A i \in 1..Len(s) : i + 1 \in 1..Len(s) => To(s[i]) = From(s[i + 1])
  BY <1>1 DEF Chain
<1>5. To(f) = a + Len(f.data) /\ To(f) \in Nat
  BY <1>1, <1>4, FrameFacts DEF To
<1>6. \A i \in 1..Len(t) : i + 1 \in 1..Len(s) /\ 1 < i + 1
  BY <1>1
<1> HIDE DEF t, f
<1>7. t = <<>> => To(f) = b
  <2> SUFFICES ASSUME t = <<>> PROVE To(f) = b
    OBVIOUS
  <2>1. Len(t) = 0
    OBVIOUS
  <2>2. Len(s) = 1
    BY <2>1, <1>1
  <2> QED BY <2>2, <1>1, <1>4
<1>8. t # <<>> => From(t[1]) = To(f) /\ To(t[Len(t)]) = b
  <2> SUFFICES ASSUME t # <<>> PROVE From(t[1]) = To(f) /\ To(t[Len(t)]) = b
    OBVIOUS
  <2>1. 1 \in 1..Len(t) /\ Len(t) \in 1..Len(t) /\ Len(t) + 1 = Len(s)
    BY <1>1, EmptySeq, LenProperties
  <2> QED BY <2>1, <1>1, <1>4, <1>6
<1>9. \A i \in 1..Len(t) : Interval(t[i]) /\ To(f) <= From(t[i]) /\ To(t[i]) <= b
  BY <1>1, <1>4, <1>6
<1>10. \A i, j \in 1..Len(t) : i < j => To(t[i]) <= From(t[j])
  <2> SUFFICES ASSUME NEW i \in 1..Len(t), NEW j \in 1..Len(t), i < j
               PROVE  To(t[i]) <= From(t[j])
    OBVIOUS
  <2>1. i + 1 < j + 1
    BY <1>1
  <2> QED BY <2>1, <1>1, <1>4, <1>6
<1>11. \A i \in 1..Len(t) : i + 1 \in 1..Len(t) => To(t[i]) = From(t[i + 1])
  BY <1>1, <1>4, <1>6
<1>12. Chain(t, To(f), b)
  BY <1>1, <1>4, <1>5, <1>7, <1>8, <1>9, <1>10, <1>11 DEF Chain
<1> QED BY <1>1, <1>4, <1>5, <1>12 DEF t, f

(* One more frame.                                                         *)
LEMMA ChainMore ==
    ASSUME NEW s \in Seq(Frame), NEW a, NEW b, Chain(s, a, b),
           NEW t \in Seq(Frame), Len(t) = 1, t[1].data = Bytes(b, Len(t[1].data))
    PROVE  s \o t \in Seq(Frame) /\ Chain(s \o t, a, b + Len(t[1].data))
<1> DEFINE u == s \o t  f == t[1]  c == b + Len(f.data)  n == Len(s)
<1>1. /\ u \in Seq(Frame) /\ Len(u) = n + 1 /\ u[n + 1] = f
      /\ \A i \in 1..n : u[i] = s[i]
      /\ n \in Nat /\ f \in Frame
  <2>1. f \in Frame
    BY OneElement
  <2>2. n \in Nat
    BY LenProperties
  <2> QED BY <2>1, <2>2, ConcatOne
<1>2. a \in Nat /\ b \in Nat /\ a <= b
  BY DEF Chain
<1>3. /\ Interval(f) /\ From(f) = b /\ To(f) = c /\ Len(f.data) \in Nat /\ Len(f.data) > 0
      /\ c \in Nat /\ b < c
  BY <1>1, <1>2, IntervalFrom, FrameFacts
<1>4. \A i \in 1..n : s[i] \in Frame /\ From(s[i]) \in Int /\ To(s[i]) \in Int
  BY ElementOfSeq, FrameFacts
<1>5. /\ n = 0 => a = b
      /\ n > 0 => From(s[1]) = a /\ To(s[n]) = b
      /\ \A i \in 1..n : Interval(s[i]) /\ a <= From(s[i]) /\ To(s[i]) <= b
      /\ \A i, j \in 1..n : i < j => To(s[i]) <= From(s[j])
      /\ \A i \in 1..n : i + 1 \in 1..n => To(s[i]) = From(s[i + 1])
  BY EmptySeq DEF Chain
<1> HIDE DEF u, f, c, n
<1>6. \A i \in 1..(n + 1) : i \in 1..n \/ i = n + 1
  BY <1>1
<1>7. From(u[1]) = a /\ To(u[n + 1]) = c /\ u # <<>>
  <2>1. CASE n = 0
    BY <2>1, <1>1, <1>3, <1>5, EmptySeq, SMTT(40)
  <2>2. CASE n # 0
    <3>1. 1 \in 1..n
      BY <2>2, <1>1
    <3> QED BY <3>1, <2>2, <1>1, <1>3, <1>5, EmptySeq
  <2> QED BY <2>1, <2>2
<1>8. \A i \in 1..(n + 1) : Interval(u[i]) /\ a <= From(u[i]) /\ To(u[i]) <= c
  <2> SUFFICES ASSUME NEW i \in 1..(n + 1)
               PROVE  Interval(u[i]) /\ a <= From(u[i]) /\ To(u[i]) <= c
    OBVIOUS
  <2>1. CASE i \in 1..n
    <3>1. Interval(s[i]) /\ a <= From(s[i]) /\ To(s[i]) <= b /\ u[i] = s[i]
      BY <2>1, <1>1, <1>5
    <3>2. From(u[i]) \in Int /\ To(u[i]) \in Int
      BY <2>1, <3>1, <1>4
    <3> QED BY <3>1, <3>2, <1>2, <1>3
  <2>2. CASE i = n + 1
    BY <2>2, <1>1, <1>2, <1>3
  <2> QED BY <2>1, <2>2, <1>6
<1>9. \A i, j \in 1..(n + 1) : i < j => To(u[i]) <= From(u[j])
  <2> SUFFICES ASSUME NEW i \in 1..(n + 1), NEW j \in 1..(n + 1), i < j
               PROVE  To(u[i]) <= From(u[j])
    OBVIOUS
  <2>1. i \in 1..n
    BY <1>1
  <2>2. CASE j \in 1..n
    BY <2>1, <2>2, <1>1, <1>5
  <2>3. CASE j = n + 1
    BY <2>1, <2>3, <1>1, <1>3, <1>5
  <2> QED BY <2>2, <2>3, <1>6
<1>10. \A i \in 1..(n + 1) : i + 1 \in 1..(n + 1) => To(u[i]) = From(u[i + 1])
  <2> SUFFICES ASSUME NEW i \in 1..(n + 1), i + 1 \in 1..(n + 1)
               PROVE  To(u[i]) = From(u[i + 1])
    OBVIOUS
  <2>1. i \in 1..n
    BY <1>1
  <2>2. CASE i + 1 \in 1..n
    BY <2>1, <2>2, <1>1, <1>5
  <2>3. CASE i = n
    BY <2>1, <2>3, <1>1, <1>3, <1>5
  <2>4. i + 1 \in 1..n \/ i = n
    BY <1>1, <2>1
  <2> QED BY <2>2, <2>3, <2>4
<1>11. Chain(u, a, c)
  BY <1>1, <1>2, <1>3, <1>7, <1>8, <1>9, <1>10 DEF Chain
<1> QED BY <1>1, <1>11 DEF u, c, f

(* A prefix of a chain is a chain.                                         *)
LEMMA ChainPrefix ==
    ASSUME NEW s \in Seq(Frame), NEW a, NEW b, Chain(s, a, b),
           NEW u \in Seq(Frame), Len(u) <= Len(s), \A i \in 1..Len(u) : u[i] = s[i]
    PROVE  Chain(u, a, Reach(u, a)) /\ Reach(u, a) <= b
<1> DEFINE c == Reach(u, a)  n == Len(u)
<1>1. n \in Nat /\ Len(s) \in Nat /\ \A i \in 1..n : i \in 1..Len(s)
  BY LenProperties
<1>2. \A i \in 1..n : u[i] \in Frame /\ From(u[i]) \in Int /\ To(u[i]) \in Int
                        /\ From(u[i]) < To(u[i])
  BY ElementOfSeq, FrameFacts
<1>3. a \in Nat /\ b \in Nat /\ a <= b
  BY DEF Chain
<1>4. /\ \A i \in 1..n : Interval(u[i]) /\ a <= From(u[i]) /\ To(u[i]) <= b
      /\ \A i, j \in 1..n : i < j => To(u[i]) <= From(u[j])
      /\ \A i \in 1..n : i + 1 \in 1..n => To(u[i]) = From(u[i + 1])
  BY <1>1 DEF Chain
<1>5. CASE u = <<>>
  <2>1. c = a
    BY <1>5 DEF Reach
  <2> QED BY <2>1, <1>3, <1>5, EmptyChain
<1>6. CASE u # <<>>
  <2>1. n > 0 /\ 1 \in 1..n /\ n \in 1..n /\ c = To(u[n])
    BY <1>1, <1>6, EmptySeq DEF Reach
  <2>2. From(u[1]) = a
    <3>1. s # <<>> /\ u[1] = s[1]
      BY <2>1, <1>1, EmptySeq
    <3> QED BY <3>1 DEF Chain
  <2> HIDE DEF c
  <2>3. c \in Nat /\ a <= c /\ c <= b
    <3>1. a <= From(u[n]) /\ From(u[n]) < To(u[n]) /\ To(u[n]) <= b
            /\ From(u[n]) \in Int /\ To(u[n]) \in Int
      BY <2>1, <1>2, <1>4
    <3> QED BY <3>1, <2>1, <1>3
  <2>4. \A i \in 1..n : To(u[i]) <= c
    <3> SUFFICES ASSUME NEW i \in 1..n PROVE To(u[i]) <= c
      OBVIOUS
    <3>1. CASE i = n
      BY <3>1, <2>1, <1>2
    <3>2. CASE i # n
      <4>1. i < n
        BY <3>2, <1>1
      <4>2. To(u[i]) <= From(u[n]) /\ From(u[n]) < To(u[n])
        BY <4>1, <2>1, <1>2, <1>4
      <4> QED BY <4>2, <2>1, <1>2
    <3> QED BY <3>1, <3>2
  <2>5. Chain(u, a, c)
    BY <2>1, <2>2, <2>3, <2>4, <1>3, <1>4, <1>6 DEF Chain
  <2> QED BY <2>3, <2>5 DEF c
<1> QED BY <1>5, <1>6
-----------------------------------------------------------------------------
(* The parts of the type invariant that the steps use.                     *)
LEMMA Types ==
    ASSUME TypeOK, NEW p \in Peers
    PROVE  /\ sent[p] \in Nat /\ pend[p] \in Nat /\ want[p] \in Nat
           /\ buf[p] \in Seq(Nat) /\ Len(buf[p]) \in Nat
           /\ hand[p] \in Seq(Frame) /\ wire[p] \in Seq(Frame)
           /\ fhold[p] \in Seq(Frame) /\ flushq[p] \in Seq(Frame)
           /\ Queue(p) \in Seq(Frame)
           /\ ctx[p] \in RecvContext /\ got[p] \in Seq(Nat) /\ Len(got[p]) \in Nat
           /\ Pushed(p) \in Int
<1>1. /\ sent[p] \in Nat /\ pend[p] \in Nat /\ want[p] \in Nat
      /\ buf[p] \in Seq(Nat) /\ got[p] \in Seq(Nat)
      /\ hand[p] \in Seq(Frame) /\ wire[p] \in Seq(Frame)
      /\ fhold[p] \in Seq(Frame) /\ flushq[p] \in Seq(Frame)
  BY DEF TypeOK
<1>2. Len(buf[p]) \in Nat /\ Len(got[p]) \in Nat
  BY <1>1, LenProperties
<1>3. Queue(p) \in Seq(Frame)
  BY <1>1, ConcatProperties DEF Queue
<1>4. ctx[p] \in RecvContext
  BY ContextType
<1> QED BY <1>1, <1>2, <1>3, <1>4 DEF Pushed

(* The cursor's frame ends behind what the reader has been given.          *)
LEMMA EdgeFacts ==
    ASSUME NEW c \in RecvContext, NEW g \in Seq(Nat), Cursor(c), Reader(c, g)
    PROVE  /\ Consumed(c, g) \in Nat /\ Len(g) <= Consumed(c, g)
           /\ ~c.info.valid => Consumed(c, g) = Len(g)
<1>1. Len(g) \in Nat /\ Len(c.info.data) \in Nat /\ c.info.offset \in Nat
  BY LenProperties DEF RecvContext, RecvInfo
<1> QED BY <1>1 DEF Cursor, Consumed

(* The frame in the main thread's hand is there only while its call lasts. *)
LEMMA HandFacts ==
    ASSUME IInv, NEW p \in Peers
    PROVE  /\ hand[p] = <<>> <=> pc[p] # "put"
           /\ hand[p] = <<>> => pend[p] = 0
           /\ hand[p] # <<>> => Len(hand[p]) = 1 /\ hand[p][1] \in Frame
<1>1. TypeOK /\ Threads(p) /\ hand[p] \in Seq(Frame)
  BY Types DEF IInv, PeerInv
<1>2. CASE pc[p] = "put"
  <2>1. Len(hand[p]) = 1
    BY <1>1, <1>2 DEF Threads
  <2> QED BY <2>1, <1>1, <1>2, OneElement
<1>3. CASE pc[p] # "put"
  BY <1>1, <1>3 DEF Threads
<1> QED BY <1>2, <1>3

(* A concatenation begins with its first part.                             *)
LEMMA ConcatPrefix ==
    ASSUME NEW S, NEW s \in Seq(S), NEW t \in Seq(S)
    PROVE  /\ s \o t \in Seq(S) /\ Len(s) <= Len(s \o t)
           /\ \A i \in 1..Len(s) : (s \o t)[i] = s[i]
<1>1. /\ s \o t \in Seq(S) /\ Len(s \o t) = Len(s) + Len(t)
      /\ \A i \in 1 .. Len(s) + Len(t) :
             (s \o t)[i] = IF i <= Len(s) THEN s[i] ELSE t[i - Len(s)]
  BY ConcatProperties
<1>2. Len(s) \in Nat /\ Len(t) \in Nat
  BY LenProperties
<1> QED BY <1>1, <1>2

(* What has left the send buffer, and what is on its way: in every state   *)
(* the connection carries a piece of the former that begins at the front.  *)
LEMMA PushedBounds ==
    ASSUME IInv, NEW p \in Peers, Stream(p)
    PROVE  /\ Pushed(p) \in Nat /\ Pushed(p) <= sent[p]
           /\ Edge(p) \in Nat /\ Edge(p) <= Pushed(p)
           /\ Arrives(p)
<1> DEFINE q == Other(p)
<1>1. TypeOK /\ q \in Peers /\ Cursor(ctx[q])
  BY OtherPeer DEF IInv, PeerInv
<1>2. Pushed(p) \in Nat /\ Pushed(p) <= sent[p]
  BY <1>1, Types DEF Stream, Pushed
<1>3. Edge(p) \in Nat
  BY <1>1, Types, EdgeFacts DEF Stream, Reads, Edge
<1>4. CASE Broken(p)
  <2>1. Arrives(p)
    BY <1>4 DEF Stream
  <2>2. Edge(p) <= Reach(wire[p], Edge(p)) /\ Reach(wire[p], Edge(p)) \in Nat
    BY <2>1 DEF Arrives, Chain
  <2> QED BY <2>1, <2>2, <1>2, <1>3 DEF Arrives
<1>5. CASE ~Broken(p)
  <2>1. PICK b : Chain(Queue(p), Edge(p), b) /\ b <= Pushed(p)
    <3>1. CASE hand[p] = <<>>
      <4>1. AtRest(p) /\ pend[p] = 0
        BY <3>1, <1>5, HandFacts DEF Stream
      <4>2. sent[p] - Len(buf[p]) <= Pushed(p)
        BY <4>1, <1>1, Types DEF Pushed
      <4> QED BY <4>1, <4>2 DEF AtRest
    <3>2. CASE hand[p] # <<>>
      <4> DEFINE f == hand[p][1]
      <4>1. HandingOver(p) /\ f \in Frame
        BY <3>2, <1>5, HandFacts DEF Stream
      <4>2. Len(f.data) \in Nat /\ (buf[p] = <<>> \/ buf[p] = f.data)
        BY <4>1, FrameFacts DEF HandingOver
      <4> HIDE DEF f
      <4>3. sent[p] \in Nat /\ pend[p] \in Nat /\ Len(buf[p]) \in Nat
              /\ Len(buf[p]) <= Len(f.data)
        BY <4>2, <1>1, Types
      <4>4. sent[p] - pend[p] - Len(f.data) <= Pushed(p)
        BY <4>2, <4>3 DEF Pushed
      <4> QED BY <4>1, <4>4 DEF HandingOver, f
    <3> QED BY <3>1, <3>2
  <2>2. b \in Nat /\ Edge(p) <= b
    BY <2>1 DEF Chain
  <2>3. /\ wire[p] \in Seq(Frame) /\ Queue(p) \in Seq(Frame)
        /\ Len(wire[p]) <= Len(Queue(p))
        /\ \A i \in 1..Len(wire[p]) : wire[p][i] = Queue(p)[i]
    <3>1. /\ wire[p] \in Seq(Frame) /\ fhold[p] \in Seq(Frame) /\ flushq[p] \in Seq(Frame)
          /\ Queue(p) \in Seq(Frame)
      BY <1>1, Types
    <3> DEFINE z == wire[p] \o fhold[p]
    <3>2. /\ z \in Seq(Frame) /\ Len(wire[p]) <= Len(z)
          /\ \A i \in 1..Len(wire[p]) : z[i] = wire[p][i]
      BY <3>1, ConcatPrefix
    <3>3. Queue(p) = z \o flushq[p]
      BY DEF Queue
    <3> HIDE DEF z
    <3>4. /\ Len(z) <= Len(Queue(p))
          /\ \A i \in 1..Len(z) : Queue(p)[i] = z[i]
      BY <3>1, <3>2, <3>3, ConcatPrefix
    <3>5. Len(wire[p]) \in Nat /\ Len(z) \in Nat /\ Len(Queue(p)) \in Nat
      BY <3>1, <3>2, LenProperties
    <3> QED BY <3>1, <3>2, <3>4, <3>5
  <2>4. Chain(wire[p], Edge(p), Reach(wire[p], Edge(p))) /\ Reach(wire[p], Edge(p)) <= b
    BY <2>1, <2>3, ChainPrefix
  <2>5. Reach(wire[p], Edge(p)) \in Nat
    BY <2>4 DEF Chain
  <2> QED BY <2>1, <2>2, <2>4, <2>5, <1>2, <1>3 DEF Arrives
<1> QED BY <1>4, <1>5

(* Nothing is under way at the start.                                      *)
LEMMA StreamInit == ASSUME Init PROVE DInv
<1>1. IInv
  BY InvInit
<1>2. ASSUME NEW p \in Peers PROVE Stream(p) /\ Asks(p)
  <2> DEFINE q == Other(p)
  <2>1. q \in Peers
    BY OtherPeer
  <2>2. /\ pc[p] = "run" /\ sent[p] = 0 /\ buf[p] = <<>> /\ hand[p] = <<>> /\ pend[p] = 0
        /\ flushq[p] = <<>> /\ fhold[p] = <<>> /\ wire[p] = <<>> /\ want[p] = 0
        /\ ctx[q] = EmptyRecvCtx /\ got[q] = <<>> /\ lost = FALSE /\ pc[q] = "run"
    BY <2>1 DEF Init
  <2>3. ~EmptyRecvCtx.info.valid
    BY DEF EmptyRecvCtx, Info
  <2>4. Len(<<>>) = 0 /\ Bytes(0, 0) = <<>>
    BY BytesType, EmptySeq
  <2>5. Reads(p) /\ Edge(p) = 0
    BY <2>2, <2>3, <2>4 DEF Reads, Reader, Edge, Consumed
  <2>6. Queue(p) = <<>>
    BY <2>2 DEF Queue
  <2>7. Chain(<<>>, 0, 0)
    BY EmptyChain
  <2>8. AtRest(p) /\ ~Broken(p)
    BY <2>2, <2>4, <2>5, <2>6, <2>7 DEF AtRest, Broken
  <2> QED BY <2>2, <2>4, <2>5, <2>8 DEF Stream, Asks
<1> QED BY <1>1, <1>2 DEF DInv
-----------------------------------------------------------------------------
(* A direction that a step leaves alone.                                   *)
SenderKeeps(p) ==
    sent'[p] = sent[p] /\ buf'[p] = buf[p] /\ pend'[p] = pend[p] /\ hand'[p] = hand[p]

ReaderKeeps(p) == ctx'[Other(p)] = ctx[Other(p)] /\ got'[Other(p)] = got[Other(p)]

(* A peer whose reading state stays asks for the same bytes.               *)
LEMMA ReaderSame ==
    ASSUME NEW p \in Peers, ReaderKeeps(p)
    PROVE  Edge(p)' = Edge(p) /\ (Reads(p) => Reads(p)')
BY DEF ReaderKeeps, Edge, Reads

(* A stream none of whose parts changes stays as it is.                    *)
LEMMA StreamKept ==
    ASSUME IInv, NEW p \in Peers, Stream(p), SenderKeeps(p), ReaderKeeps(p),
           Broken(p)' => wire'[p] = wire[p],
           ~Broken(p)' => ~Broken(p) /\ Queue(p)' = Queue(p)
    PROVE  Stream(p)'
<1>1. Edge(p)' = Edge(p) /\ Reads(p)' /\ Pushed(p)' = Pushed(p)
  BY ReaderSame DEF Stream, SenderKeeps, Pushed
<1>2. Broken(p)' => Arrives(p)'
  BY <1>1, PushedBounds DEF Arrives
<1>3. ~Broken(p)' => IF hand'[p] = <<>> THEN AtRest(p)' ELSE HandingOver(p)'
  BY <1>1 DEF Stream, AtRest, HandingOver, SenderKeeps
<1> QED BY <1>1, <1>2, <1>3 DEF Stream, SenderKeeps
-----------------------------------------------------------------------------
(* What there is to show of a step: the invariant holds after it, and it   *)
(* is a step of the abstract channel or changes nothing there.             *)
Simulated ==
    /\ \A p \in Peers : Stream(p)' /\ Asks(p)'
    /\ [Channel!Next]_(Channel!vars)

(* A step that moves no byte.                                              *)
LEMMA QuietStep ==
    ASSUME DInv, UNCHANGED <<sent, buf, pend, hand, ctx, got, want, lost>>,
           \A p \in Peers : /\ pc'[p] = pc[p] \/ pc[p] \notin {"recv", "read"}
                            /\ pc[p] = "done" => pc'[p] = "done"
                            /\ Broken(p)' => wire'[p] = wire[p]
                            /\ ~Broken(p)' => Queue(p)' = Queue(p)
    PROVE  Simulated
<1>1. ASSUME NEW p \in Peers PROVE Stream(p)' /\ Asks(p)'
  <2>1. Other(p) \in Peers /\ IInv /\ Stream(p) /\ Asks(p)
    BY OtherPeer DEF DInv
  <2>2. SenderKeeps(p) /\ ReaderKeeps(p)
    BY DEF SenderKeeps, ReaderKeeps
  <2>3. ~Broken(p)' => ~Broken(p)
    BY <2>1 DEF Broken
  <2>4. Stream(p)'
    BY <2>1, <2>2, <2>3, StreamKept
  <2> QED BY <2>1, <2>4 DEF Asks
<1>2. UNCHANGED Channel!vars
  BY DEF Channel!vars
<1> QED BY <1>1, <1>2 DEF Simulated

(* A step in which p hands n bytes over, or some leave its send buffer.    *)
LEMMA SendingStep ==
    ASSUME TypeOK, TypeOK', NEW p \in Peers, NEW n \in Nat,
           sent' = [sent EXCEPT ![p] = @ + n],
           Pushed(p) <= Pushed(p)', Pushed(p)' <= sent'[p],
           Pushed(Other(p))' = Pushed(Other(p)),
           UNCHANGED <<got, want, lost>>
    PROVE  [Channel!Next]_(Channel!vars)
<1> DEFINE bar == [q \in Peers |-> sent[q] - Len(buf[q]) - pend[q]]
           bar1 == [q \in Peers |-> sent'[q] - Len(buf'[q]) - pend'[q]]
<1>1. /\ bar = [q \in Peers |-> Pushed(q)] /\ bar1 = [q \in Peers |-> Pushed(q)']
  BY DEF Pushed
<1>2. /\ Peers = Channel!Peers
      /\ bar[p] = Pushed(p) /\ bar1[p] = Pushed(p)'
      /\ bar1 = [bar EXCEPT ![p] = bar1[p]]
      /\ Pushed(p) \in Int /\ (Pushed(p))' \in Int
  <2>1. Other(p) \in Peers /\ \A q \in Peers : q = p \/ q = Other(p)
    BY OtherPeer
  <2>2. Pushed(p) \in Int /\ (Pushed(p))' \in Int
    <3>1. Pushed(p) \in Int
      BY Types
    <3>2. sent'[p] \in Nat /\ pend'[p] \in Nat /\ buf'[p] \in Seq(Nat)
      BY DEF TypeOK
    <3>3. Len(buf'[p]) \in Nat
      BY <3>2, LenProperties
    <3>4. (Pushed(p))' \in Int
      BY <3>2, <3>3 DEF Pushed
    <3> QED BY <3>1, <3>4
  <2>3. bar[p] = Pushed(p) /\ bar1[p] = Pushed(p)'
    BY <1>1
  <2>4. bar1 = [bar EXCEPT ![p] = bar1[p]]
    <3>1. \A q \in Peers : q # p => bar1[q] = bar[q]
      BY <1>1, <2>1
    <3>2. DOMAIN bar = Peers /\ DOMAIN bar1 = Peers
      OBVIOUS
    <3>3. bar = [q \in Peers |-> bar[q]] /\ bar1 = [q \in Peers |-> bar1[q]]
      OBVIOUS
    <3> HIDE DEF bar, bar1
    <3> QED BY <3>1, <3>2, <3>3
  <2> QED BY <2>2, <2>3, <2>4 DEF Peers, Channel!Peers
<1>3. sent[p] \in Nat /\ sent'[p] = sent[p] + n /\ sent' = [sent EXCEPT ![p] = sent'[p]]
  BY DEF TypeOK
<1> HIDE DEF bar, bar1
<1>4. CASE n > 0
  <2>1. Channel!Write(p)
    BY <1>2, <1>3, <1>4 DEF Channel!Write, Channel!ChangesAt, bar, bar1
  <2> QED BY <2>1, <1>2 DEF Channel!Next
<1>5. CASE n = 0 /\ Pushed(p) < Pushed(p)'
  <2>1. sent' = sent
    BY <1>3, <1>5 DEF TypeOK
  <2>2. Channel!Push(p)
    BY <2>1, <1>2, <1>3, <1>5 DEF Channel!Push, Channel!ChangesAt, bar, bar1
  <2> QED BY <2>2, <1>2 DEF Channel!Next
<1>6. CASE n = 0 /\ Pushed(p) = Pushed(p)'
  <2>1. sent' = sent
    BY <1>3, <1>6 DEF TypeOK
  <2>2. bar1 = bar
    <3>1. bar = [q \in Peers |-> bar[q]]
      BY DEF bar
    <3> QED BY <3>1, <1>2, <1>6
  <2> QED BY <2>1, <2>2 DEF Channel!vars, bar, bar1
<1> QED BY <1>2, <1>4, <1>5, <1>6
-----------------------------------------------------------------------------
(* SENDING.                                                                *)

(* Adjoining pieces of a stream are a longer piece.                        *)
LEMMA BytesConcat ==
    \A a \in Nat, m \in Nat, n \in Nat :
        Bytes(a, m) \o Bytes(a + m, n) = Bytes(a, m + n)
<1> SUFFICES ASSUME NEW a \in Nat, NEW m \in Nat, NEW n \in Nat
             PROVE  Bytes(a, m) \o Bytes(a + m, n) = Bytes(a, m + n)
  OBVIOUS
<1> DEFINE s == Bytes(a, m)  t == Bytes(a + m, n)  u == Bytes(a, m + n)
<1>1. /\ s \in Seq(Nat) /\ Len(s) = m /\ t \in Seq(Nat) /\ Len(t) = n
      /\ u \in Seq(Nat) /\ Len(u) = m + n
  <2>1. a + m \in Nat /\ m + n \in Nat
    OBVIOUS
  <2> QED BY <2>1, BytesType
<1>2. /\ \A i \in 1..m : s[i] = a + i
      /\ \A i \in 1..n : t[i] = a + m + i
      /\ \A i \in 1..(m + n) : u[i] = a + i
  BY DEF Bytes
<1> HIDE DEF s, t, u
<1>3. /\ s \o t \in Seq(Nat) /\ Len(s \o t) = m + n
      /\ \A i \in 1..(m + n) : (s \o t)[i] = IF i <= m THEN s[i] ELSE t[i - m]
  BY <1>1, ConcatProperties
<1>4. \A i \in 1..(m + n) : (s \o t)[i] = u[i]
  <2> SUFFICES ASSUME NEW i \in 1..(m + n) PROVE (s \o t)[i] = u[i]
    OBVIOUS
  <2>1. CASE i <= m
    BY <2>1, <1>2, <1>3
  <2>2. CASE ~(i <= m)
    <3>1. i - m \in 1..n /\ a + m + (i - m) = a + i
      BY <2>2
    <3> QED BY <3>1, <2>2, <1>2, <1>3
  <2> QED BY <2>1, <2>2
<1>5. s \o t = u
  BY <1>1, <1>3, <1>4, SeqEqual
<1> QED BY <1>5 DEF s, t, u

(* The length of a concatenation.                                          *)
LEMMA ConcatLen ==
    ASSUME NEW S, NEW s \in Seq(S), NEW t \in Seq(S)
    PROVE  Len(s \o t) = Len(s) + Len(t)
BY ConcatProperties

(* The frame that the main thread makes of its send buffer.                *)
LEMMA PackHand ==
    ASSUME TypeOK, NEW p \in Peers, NEW payload \in Seq(Nat), payload # <<>>,
           NEW n \in Nat, NEW k, Pack(p, payload, n, k)
    PROVE  /\ hand'[p] # <<>> /\ hand'[p][1].data = payload /\ hand'[p][1] \in Frame
           /\ pend'[p] = n /\ pc'[p] = "put"
           /\ \A q \in Peers \ {p} :
                  hand'[q] = hand[q] /\ pend'[q] = pend[q] /\ pc'[q] = pc[q]
<1> DEFINE f == [id |-> sendId[p] + 1, data |-> payload]
<1>1. f \in Frame /\ f.data = payload
  <2>1. sendId[p] \in Nat
    BY DEF TypeOK
  <2>2. sendId[p] + 1 \in Nat
    BY <2>1
  <2> QED BY <2>2 DEF Frame
<1>2. hand' = [hand EXCEPT ![p] = <<f>>]
  BY DEF Pack
<1> HIDE DEF f
<1>3. <<f>> # <<>> /\ <<f>>[1] = f
  OBVIOUS
<1> QED BY <1>1, <1>2, <1>3 DEF Pack, TypeOK

(* The other direction while p is sending.                                 *)
LEMMA OtherDirection ==
    ASSUME DInv, NEW p \in Peers, pc[p] # "done",
           UNCHANGED <<ctx, got, lost>>, SenderKeeps(Other(p)),
           wire'[Other(p)] = wire[Other(p)],
           fhold'[Other(p)] = fhold[Other(p)], flushq'[Other(p)] = flushq[Other(p)]
    PROVE  Stream(Other(p))'
<1>1. /\ Other(p) \in Peers /\ Other(Other(p)) = p
      /\ IInv /\ Stream(Other(p))
  BY OtherPeer DEF DInv
<1>2. ReaderKeeps(Other(p)) /\ Queue(Other(p))' = Queue(Other(p))
  BY <1>1 DEF ReaderKeeps, Queue
<1>3. ~Broken(Other(p))' => ~Broken(Other(p))
  BY <1>1 DEF Broken
<1> QED BY <1>1, <1>2, <1>3, StreamKept

(* What has left the send buffer is what was sent less what is left there. *)
LEMMA Difference ==
    ASSUME NEW a \in Nat, NEW b \in Nat, NEW c \in Nat, NEW d \in Nat, NEW e \in Nat,
           NEW s, s = a + b + c, d + e <= b + c
    PROVE  d + e <= s /\ a <= s - d - e /\ s - d - e <= s
OBVIOUS

(* What a broken connection carries stays within what has been pushed.     *)
LEMMA ArrivesKept ==
    ASSUME IInv, TypeOK', NEW p \in Peers, Stream(p), wire'[p] = wire[p],
           Edge(p)' = Edge(p), Pushed(p) <= Pushed(p)'
    PROVE  Arrives(p)'
<1>1. Arrives(p) /\ Pushed(p) \in Nat
  BY PushedBounds
<1>2. Reach(wire[p], Edge(p)) \in Nat
  BY <1>1 DEF Arrives, Chain
<1>3. (Pushed(p))' \in Int
  <2>1. sent'[p] \in Nat /\ pend'[p] \in Nat /\ buf'[p] \in Seq(Nat)
    BY DEF TypeOK
  <2>2. Len(buf'[p]) \in Nat
    BY <2>1, LenProperties
  <2> QED BY <2>1, <2>2 DEF Pushed
<1> QED BY <1>1, <1>2, <1>3 DEF Arrives

(* A call that hands bytes over, or flushes what is buffered.              *)
LEMMA SendDataStep ==
    ASSUME DInv, TypeOK', NEW p \in Peers, NEW n \in Nat,
           NEW k \in {"run", "spawn", "done"}, SendData(p, n, k),
           pc[p] \in {"run", "join"},
           UNCHANGED <<flushq, fhold, wire, ctx, got, want, lost>>
    PROVE  Simulated
<1> DEFINE q == Other(p)
<1>1. /\ IInv /\ TypeOK /\ Stream(p) /\ Asks(p) /\ Stream(q) /\ Asks(q)
      /\ q \in Peers /\ q # p /\ \A r \in Peers : r = p \/ r = q
  BY OtherPeer DEF DInv, IInv
<1>2. hand[p] = <<>> /\ pend[p] = 0
  BY <1>1, HandFacts
<1>3. /\ sent[p] \in Nat /\ buf[p] \in Seq(Nat) /\ Len(buf[p]) \in Nat
      /\ Len(buf[p]) <= sent[p]
  <2>1. sent[p] \in Nat /\ buf[p] \in Seq(Nat) /\ Len(buf[p]) \in Nat /\ pend[p] \in Nat
    BY <1>1, Types
  <2>2. Len(buf[p]) + pend[p] <= sent[p]
    BY <1>1 DEF Stream
  <2> QED BY <2>1, <2>2
<1> DEFINE m == Len(buf[p])
<1>50. PICK x \in Nat : x = sent[p] - m /\ sent[p] = x + m
  <2>1. sent[p] - m \in Nat /\ sent[p] = (sent[p] - m) + m
    BY <1>3
  <2> QED BY <2>1
<1>4. sent' = [sent EXCEPT ![p] = @ + n] /\ sent'[p] = sent[p] + n /\ sent'[q] = sent[q]
  BY <1>1 DEF SendData, TypeOK
<1>5. Bytes(sent[p], n) \in Seq(Nat) /\ Len(Bytes(sent[p], n)) = n
        /\ (n > 0 => Bytes(sent[p], n) # <<>>)
  BY <1>3, BytesType
(* The three ways SendData has.                                            *)
<1>6. \/ /\ hand'[p] = <<>> /\ pend'[p] = 0 /\ pc'[p] = k
         /\ buf'[p] = buf[p] \o Bytes(sent[p], n)
         /\ pc'[q] = pc[q] /\ SenderKeeps(q)
      \/ /\ hand'[p] # <<>> /\ hand'[p][1].data = buf[p] /\ pend'[p] = n /\ pc'[p] = "put"
         /\ buf'[p] = buf[p]
         /\ pc'[q] = pc[q] /\ SenderKeeps(q)
      \/ /\ hand'[p] # <<>> /\ hand'[p][1].data = Bytes(sent[p], n)
         /\ pend'[p] = 0 /\ pc'[p] = "put"
         /\ buf'[p] = <<>> /\ buf[p] = <<>>
         /\ pc'[q] = pc[q] /\ SenderKeeps(q)
  <2>1. CASE /\ buf' = [buf EXCEPT ![p] = @ \o Bytes(sent[p], n)]
             /\ pc' = [pc EXCEPT ![p] = k]
             /\ UNCHANGED <<sendId, hand, pend, cont>>
    BY <2>1, <1>1, <1>2, <1>4 DEF TypeOK, SenderKeeps
  <2>2. CASE buf[p] # <<>> /\ Pack(p, buf[p], n, k) /\ UNCHANGED buf
    BY <2>2, <1>1, <1>3, <1>4, PackHand DEF SenderKeeps
  <2>3. CASE /\ buf[p] = <<>> /\ n > 0
             /\ Pack(p, Bytes(sent[p], n), 0, k) /\ UNCHANGED buf
    BY <2>3, <1>1, <1>4, <1>5, PackHand DEF SenderKeeps
  <2> QED BY <2>1, <2>2, <2>3 DEF SendData
<1>7. /\ pc'[q] = pc[q] /\ SenderKeeps(q) /\ pc'[p] \notin {"recv", "read"}
      /\ Broken(p)' = Broken(p)
  <2>1. pc'[q] = pc[q] /\ SenderKeeps(q) /\ pc'[p] \notin {"recv", "read"}
    BY <1>6
  <2> QED BY <2>1 DEF Broken
<1>8. Stream(q)'
  BY <1>1, <1>7, OtherDirection
<1>9. Edge(p)' = Edge(p) /\ Reads(p)' /\ Queue(p)' = Queue(p)
  <2>1. ReaderKeeps(p)
    BY DEF ReaderKeeps
  <2> QED BY <2>1, <1>1, ReaderSame DEF Stream, Queue
<1>10. /\ Pushed(p) = x
       /\ Pushed(p) <= Pushed(p)' /\ Pushed(p)' <= sent'[p]
       /\ Len(buf'[p]) + pend'[p] <= sent'[p]
  <2>1. Len(buf[p] \o Bytes(sent[p], n)) = Len(buf[p]) + n
    BY <1>3, <1>5, ConcatLen
  <2>2. Pushed(p) = x
    BY <1>2, <1>3, <1>50 DEF Pushed
  <2>3. (Pushed(p))' = sent'[p] - Len(buf'[p]) - pend'[p]
    BY DEF Pushed
  <2>4. \/ Len(buf'[p]) = Len(buf[p]) + n /\ pend'[p] = 0
        \/ Len(buf'[p]) = Len(buf[p]) /\ pend'[p] = n
        \/ Len(buf'[p]) = 0 /\ pend'[p] = 0
    BY <1>6, <2>1
  <2>5. Len(buf'[p]) + pend'[p] <= Len(buf[p]) + n
    BY <1>3, <2>4
  <2>6. Len(buf'[p]) \in Nat /\ pend'[p] \in Nat
    BY <1>3, <2>4
  <2>7. sent'[p] = x + m + n /\ m \in Nat
    BY <1>3, <1>50, <1>4
  <2>8. /\ Len(buf'[p]) + pend'[p] <= sent'[p]
        /\ x <= sent'[p] - Len(buf'[p]) - pend'[p]
        /\ sent'[p] - Len(buf'[p]) - pend'[p] <= sent'[p]
    <3>1. PICK d \in Nat, e \in Nat, b \in Nat :
              d = Len(buf'[p]) /\ e = pend'[p] /\ b = Len(buf[p])
      BY <2>6, <2>7
    <3>2. d + e <= b + n /\ sent'[p] = x + b + n
      BY <3>1, <2>5, <2>7
    <3>3. d + e <= sent'[p] /\ x <= sent'[p] - d - e /\ sent'[p] - d - e <= sent'[p]
      BY <3>2, Difference
    <3> QED BY <3>1, <3>3
  <2> QED BY <2>2, <2>3, <2>8
<1>11. [Channel!Next]_(Channel!vars)
  <2>1. Pushed(q)' = Pushed(q)
    BY <1>7 DEF SenderKeeps, Pushed
  <2> QED BY <2>1, <1>1, <1>4, <1>10, SendingStep
<1>12. CASE Broken(p)
  <2>1. Arrives(p)'
    BY <1>1, <1>9, <1>10, ArrivesKept
  <2>2. Stream(p)'
    BY <2>1, <1>7, <1>9, <1>10, <1>12 DEF Stream
  <2> QED BY <2>2, <1>1, <1>7, <1>8, <1>11 DEF Simulated, Asks
<1>13. CASE ~Broken(p)
  <2>1. Chain(Queue(p), Edge(p), x) /\ buf[p] = Bytes(x, Len(buf[p]))
    BY <1>1, <1>2, <1>50, <1>13 DEF Stream, AtRest
  <2>2. IF hand'[p] = <<>> THEN AtRest(p)' ELSE HandingOver(p)'
    <3>1. CASE hand'[p] = <<>> /\ buf'[p] = buf[p] \o Bytes(sent[p], n)
      <4>1. buf'[p] = Bytes(x, Len(buf[p]) + n) /\ Len(buf'[p]) = Len(buf[p]) + n
        <5>1. m \in Nat /\ m + n \in Nat
          BY <1>3
        <5>2. buf[p] = Bytes(x, m) /\ sent[p] = x + m
          BY <2>1, <1>50
        <5> HIDE DEF m
        <5>3. Bytes(x, m) \o Bytes(x + m, n) = Bytes(x, m + n)
          BY <5>1, BytesConcat
        <5>4. Len(Bytes(x, m + n)) = m + n
          BY <5>1, BytesType
        <5> QED BY <3>1, <5>2, <5>3, <5>4 DEF m
      <4>2. sent'[p] - Len(buf'[p]) = x
        BY <4>1, <1>3, <1>50, <1>4
      <4> QED BY <3>1, <4>1, <4>2, <2>1, <1>9 DEF AtRest
    <3>2. CASE hand'[p] # <<>> /\ hand'[p][1].data = buf[p] /\ pend'[p] = n /\ buf'[p] = buf[p]
      <4>1. sent'[p] - pend'[p] - Len(hand'[p][1].data) = x
        BY <3>2, <1>3, <1>50, <1>4
      <4> QED BY <3>2, <4>1, <2>1, <1>9 DEF HandingOver
    <3>3. CASE /\ hand'[p] # <<>> /\ hand'[p][1].data = Bytes(sent[p], n)
               /\ pend'[p] = 0 /\ buf'[p] = <<>> /\ buf[p] = <<>>
      <4>1. x = sent[p]
        <5>1. Len(buf[p]) = 0
          BY <3>3
        <5> QED BY <5>1, <1>3, <1>50
      <4>2. sent'[p] - pend'[p] - Len(hand'[p][1].data) = x
        BY <3>3, <4>1, <1>3, <1>4, <1>5
      <4>3. hand'[p][1].data = Bytes(x, Len(hand'[p][1].data))
        BY <3>3, <4>1, <1>5
      <4> QED BY <3>3, <4>2, <4>3, <2>1, <1>9 DEF HandingOver
    <3> QED BY <3>1, <3>2, <3>3, <1>6
  <2>3. Stream(p)'
    BY <2>2, <1>7, <1>9, <1>10, <1>13 DEF Stream
  <2> QED BY <2>3, <1>1, <1>7, <1>8, <1>11 DEF Simulated, Asks
<1> QED BY <1>12, <1>13

(* A frame leaves the main thread's hand, for the list, the connection or, *)
(* when that is broken, nowhere.                                           *)
LEMMA SendRestStep ==
    ASSUME DInv, TypeOK', NEW p \in Peers, pc[p] = "put", SendRest(p),
           UNCHANGED <<ctx, got, want, lost>>,
           wire'[Other(p)] = wire[Other(p)],
           fhold'[Other(p)] = fhold[Other(p)], flushq'[Other(p)] = flushq[Other(p)],
           ~Broken(p) => Queue(p)' = Queue(p) \o hand[p],
           Broken(p) => wire'[p] = wire[p]
    PROVE  Simulated
<1> DEFINE q == Other(p)  f == hand[p][1]  rest == Bytes(sent[p] - pend[p], pend[p])
<1>1. /\ IInv /\ TypeOK /\ Stream(p) /\ Asks(p) /\ Stream(q) /\ Asks(q)
      /\ q \in Peers /\ q # p /\ \A r \in Peers : r = p \/ r = q
  BY OtherPeer DEF DInv, IInv
<1>2. hand[p] # <<>> /\ Len(hand[p]) = 1 /\ f \in Frame /\ hand[p] \in Seq(Frame)
  BY <1>1, HandFacts, Types
<1>3. PICK s \in Nat, l \in Nat, b \in Nat :
          s = sent[p] /\ l = pend[p] /\ b = Len(buf[p])
  BY <1>1, Types
<1>4. b + l <= s /\ s - l \in Nat
  BY <1>1, <1>3 DEF Stream
<1>5. rest = Bytes(s - l, l) /\ rest \in Seq(Nat) /\ Len(rest) = l /\ (l > 0 => rest # <<>>)
  BY <1>3, <1>4, BytesType
<1> HIDE DEF rest
<1>6. /\ sent' = sent /\ pend'[p] = 0 /\ pc'[q] = pc[q] /\ SenderKeeps(q)
      /\ pc'[p] \notin {"recv", "read"}
      /\ \/ hand'[p] = <<>> /\ buf'[p] = rest
         \/ hand'[p] # <<>> /\ hand'[p][1].data = rest /\ buf'[p] = <<>>
  <2>1. CASE /\ buf' = [buf EXCEPT ![p] = rest]
             /\ hand' = [hand EXCEPT ![p] = <<>>]
             /\ pend' = [pend EXCEPT ![p] = 0]
             /\ pc' = [pc EXCEPT ![p] = cont[p]]
             /\ UNCHANGED <<sent, sendId, cont>>
    <3>1. /\ DOMAIN buf = Peers /\ DOMAIN hand = Peers /\ DOMAIN pend = Peers
          /\ DOMAIN pc = Peers /\ cont[p] \notin {"recv", "read"}
      BY <1>1 DEF TypeOK
    <3> QED BY <2>1, <3>1, <1>1 DEF SenderKeeps
  <2>2. CASE /\ pend[p] > 0
             /\ buf' = [buf EXCEPT ![p] = <<>>]
             /\ Pack(p, rest, 0, cont[p])
             /\ UNCHANGED sent
    <3>1. rest \in Seq(Nat) /\ rest # <<>>
      BY <2>2, <1>3, <1>5
    <3>2. /\ hand'[p] # <<>> /\ hand'[p][1].data = rest /\ pend'[p] = 0 /\ pc'[p] = "put"
          /\ hand'[q] = hand[q] /\ pend'[q] = pend[q] /\ pc'[q] = pc[q]
      BY <2>2, <3>1, <1>1, PackHand
    <3> QED BY <2>2, <3>2, <1>1 DEF TypeOK, SenderKeeps
  <2> QED BY <2>1, <2>2 DEF SendRest, rest
<1>7. Broken(p)' = Broken(p) /\ Stream(q)'
  BY <1>1, <1>6, OtherDirection DEF Broken
<1>8. Edge(p)' = Edge(p) /\ Reads(p)'
  <2>1. ReaderKeeps(p)
    BY DEF ReaderKeeps
  <2> QED BY <2>1, <1>1, ReaderSame DEF Stream
<1>9. PICK c \in Nat : c = Len(buf'[p]) /\ (c = l \/ c = 0)
  BY <1>5, <1>6
<1>10. /\ Pushed(p) <= Pushed(p)' /\ Pushed(p)' <= sent'[p]
       /\ Len(buf'[p]) + pend'[p] <= sent'[p]
  <2>1. Pushed(p) = s - b - l
    BY <1>3 DEF Pushed
  <2>2. (Pushed(p))' = s - c
    BY <1>3, <1>6, <1>9 DEF Pushed
  <2>3. Len(buf'[p]) + pend'[p] = c /\ sent'[p] = s
    BY <1>3, <1>6, <1>9
  <2>4. s - b - l <= s - c /\ s - c <= s /\ c <= s
    BY <1>4, <1>9
  <2> QED BY <2>1, <2>2, <2>3, <2>4
<1>11. [Channel!Next]_(Channel!vars)
  <2>1. Pushed(q)' = Pushed(q)
    BY <1>6 DEF SenderKeeps, Pushed
  <2>2. sent' = [sent EXCEPT ![p] = @ + 0]
    BY <1>1, <1>3, <1>6 DEF TypeOK
  <2> QED BY <2>1, <2>2, <1>1, <1>10, SendingStep
<1>12. CASE Broken(p)
  <2>1. Arrives(p)'
    BY <1>1, <1>8, <1>10, <1>12, ArrivesKept
  <2>2. Stream(p)'
    BY <2>1, <1>7, <1>8, <1>10, <1>12 DEF Stream
  <2> QED BY <2>2, <1>1, <1>6, <1>7, <1>11 DEF Simulated, Asks
<1>13. CASE ~Broken(p)
  <2>1. PICK d \in Nat : d = Len(f.data)
    BY <1>2, FrameFacts
  <2>2. /\ Chain(Queue(p), Edge(p), s - l - d)
        /\ f.data = Bytes(s - l - d, Len(f.data))
    BY <2>1, <1>1, <1>2, <1>3, <1>13 DEF Stream, HandingOver
  <2>3. s - l - d + d = s - l
    OBVIOUS
  <2>4. Chain(Queue(p) \o hand[p], Edge(p), s - l)
    <3>1. Queue(p) \in Seq(Frame)
      BY <1>1, Types
    <3>2. PICK o : o = s - l - d
      OBVIOUS
    <3>3. Chain(Queue(p), Edge(p), o) /\ f.data = Bytes(o, Len(f.data)) /\ o + d = s - l
      BY <3>2, <2>2, <2>3
    <3>4. Chain(Queue(p) \o hand[p], Edge(p), o + Len(f.data))
      BY <3>1, <3>3, <1>2, ChainMore
    <3> QED BY <3>3, <3>4, <2>1
  <2>5. Chain(Queue(p)', Edge(p)', s - l)
    BY <2>4, <1>8, <1>13
  <2>6. CASE hand'[p] = <<>> /\ buf'[p] = rest
    <3>1. sent'[p] - Len(buf'[p]) = s - l
      BY <2>6, <1>3, <1>5, <1>6
    <3>2. AtRest(p)'
      BY <3>1, <2>5, <2>6, <1>5 DEF AtRest
    <3> QED BY <3>2, <2>6, <1>1, <1>6, <1>7, <1>8, <1>10, <1>11, <1>13
            DEF Stream, Simulated, Asks
  <2>7. CASE hand'[p] # <<>> /\ hand'[p][1].data = rest /\ buf'[p] = <<>>
    <3>1. sent'[p] - pend'[p] - Len(hand'[p][1].data) = s - l
      BY <2>7, <1>3, <1>5, <1>6
    <3>2. HandingOver(p)'
      BY <3>1, <2>5, <2>7, <1>5 DEF HandingOver
    <3> QED BY <3>2, <2>7, <1>1, <1>6, <1>7, <1>8, <1>10, <1>11, <1>13
            DEF Stream, Simulated, Asks
  <2> QED BY <2>6, <2>7, <1>6
<1> QED BY <1>12, <1>13

(* A send that fails on a broken connection drops its frame.               *)
LEMMA SendExFailsStep ==
    ASSUME DInv, TypeOK', NEW p \in Peers, SendExFails(p)
    PROVE  Simulated
<1> DEFINE q == Other(p)
<1>1. /\ IInv /\ TypeOK /\ Stream(p) /\ Asks(p) /\ Stream(q) /\ Asks(q)
      /\ q \in Peers /\ q # p /\ \A r \in Peers : r = p \/ r = q
  BY OtherPeer DEF DInv, IInv
<1>2. /\ pc[p] = "put" /\ Broken(p)
      /\ hand' = [hand EXCEPT ![p] = <<>>] /\ pend' = [pend EXCEPT ![p] = 0]
      /\ pc' = [pc EXCEPT ![p] = cont[p]]
      /\ UNCHANGED <<sent, buf, flushq, fhold, wire, ctx, got, want, lost>>
  BY DEF SendExFails, flushVars, recvVars
<1>3. PICK s \in Nat, l \in Nat, b \in Nat :
          s = sent[p] /\ l = pend[p] /\ b = Len(buf[p])
  BY <1>1, Types
<1>4. b + l <= s
  BY <1>1, <1>3 DEF Stream
<1>5. /\ pend'[p] = 0 /\ pc'[q] = pc[q] /\ SenderKeeps(q) /\ pc'[p] \notin {"recv", "read"}
  BY <1>1, <1>2 DEF TypeOK, SenderKeeps
<1>6. Broken(p)' /\ Stream(q)'
  <2>1. Broken(p)'
    BY <1>2, <1>5 DEF Broken
  <2> QED BY <2>1, <1>1, <1>2, <1>5, OtherDirection
<1>7. Edge(p)' = Edge(p) /\ Reads(p)'
  <2>1. ReaderKeeps(p)
    BY <1>2 DEF ReaderKeeps
  <2> QED BY <2>1, <1>1, ReaderSame DEF Stream
<1>8. /\ Pushed(p) <= Pushed(p)' /\ Pushed(p)' <= sent'[p]
      /\ Len(buf'[p]) + pend'[p] <= sent'[p]
  <2>1. Pushed(p) = s - b - l /\ (Pushed(p))' = s - b
    BY <1>2, <1>3, <1>5 DEF Pushed
  <2>2. Len(buf'[p]) + pend'[p] = b /\ sent'[p] = s
    BY <1>2, <1>3, <1>5
  <2>3. s - b - l <= s - b /\ s - b <= s /\ b <= s
    BY <1>4
  <2> QED BY <2>1, <2>2, <2>3
<1>9. [Channel!Next]_(Channel!vars)
  <2>1. Pushed(q)' = Pushed(q)
    BY <1>5 DEF SenderKeeps, Pushed
  <2>2. sent' = [sent EXCEPT ![p] = @ + 0] /\ UNCHANGED <<got, want, lost>>
    BY <1>1, <1>2, <1>3 DEF TypeOK
  <2> QED BY <2>1, <2>2, <1>1, <1>8, SendingStep
<1>10. Stream(p)'
  <2>1. Arrives(p)'
    BY <1>1, <1>2, <1>7, <1>8, ArrivesKept
  <2> QED BY <2>1, <1>6, <1>7, <1>8 DEF Stream
<1> QED BY <1>1, <1>2, <1>5, <1>6, <1>9, <1>10 DEF Simulated, Asks
-----------------------------------------------------------------------------
(* RECEIVING.                                                              *)

(* A call to receive, before it looks for data.                            *)
LEMMA RecvStep ==
    ASSUME DInv, TypeOK', NEW p \in Peers, Recv(p)
    PROVE  Simulated
<1> DEFINE q == Other(p)  n == Head(prog[p]).n
<1>1. /\ IInv /\ TypeOK /\ Asks(p) /\ Asks(q)
      /\ q \in Peers /\ q # p /\ \A r \in Peers : r = p \/ r = q
  BY OtherPeer DEF DInv, IInv
<1>2. /\ pc[p] = "run" /\ pc' = [pc EXCEPT ![p] = "recv"]
      /\ want' = [want EXCEPT ![p] = n]
      /\ UNCHANGED <<sent, buf, hand, pend, flushq, fhold, wire, ctx, got, lost>>
  BY DEF Recv, Calls, sendVars, flushVars
<1> HIDE DEF n
<1>3. ASSUME NEW r \in Peers PROVE Stream(r)'
  <2>1. IInv /\ Stream(r) /\ Other(r) \in Peers
    BY OtherPeer DEF DInv
  <2>2. SenderKeeps(r) /\ ReaderKeeps(r) /\ Queue(r)' = Queue(r) /\ wire'[r] = wire[r]
    BY <1>2 DEF SenderKeeps, ReaderKeeps, Queue
  <2>3. ~Broken(r)' => ~Broken(r)
    BY <1>1, <1>2, <2>1 DEF Broken, TypeOK
  <2> QED BY <2>1, <2>2, <2>3, StreamKept
<1>4. Asks(p)' /\ Asks(q)'
  BY <1>1, <1>2 DEF Asks, TypeOK
<1>5. [Channel!Next]_(Channel!vars)
  <2>1. want[p] = 0 /\ want'[p] = n /\ want' = [want EXCEPT ![p] = want'[p]] /\ n \in Nat
    BY <1>1, <1>2 DEF Asks, TypeOK
  <2>2. CASE n > 0
    <3>1. Channel!Request(p)
      BY <2>1, <2>2, <1>2 DEF Channel!Request, Channel!ChangesAt
    <3> QED BY <3>1 DEF Channel!Next, Peers, Channel!Peers
  <2>3. CASE n = 0
    <3>1. want' = want
      BY <2>1, <2>3, <1>1 DEF TypeOK
    <3> QED BY <3>1, <1>2 DEF Channel!vars
  <2> QED BY <2>1, <2>2, <2>3
<1> QED BY <1>1, <1>3, <1>4, <1>5 DEF Simulated

(* A reader that gives up has been given everything that was pushed, or    *)
(* the connection is lost: a peer that closes has flushed first.           *)
LEMMA RecvFailsStep ==
    ASSUME DInv, TypeOK', NEW p \in Peers, RecvFails(p)
    PROVE  Simulated
<1> DEFINE q == Other(p)
<1>1. /\ IInv /\ TypeOK /\ Asks(p) /\ Asks(q) /\ Stream(q) /\ PeerInv(p) /\ PeerInv(q)
      /\ q \in Peers /\ q # p /\ Other(q) = p /\ \A r \in Peers : r = p \/ r = q
  BY OtherPeer DEF DInv, IInv
<1>2. /\ pc[p] \in {"recv", "read"} /\ pc' = [pc EXCEPT ![p] = "run"]
      /\ want' = [want EXCEPT ![p] = 0] /\ wire[q] = <<>> /\ Broken(p)
      /\ pc[p] = "recv" => ~ctx[p].info.valid
      /\ UNCHANGED <<sent, buf, hand, pend, flushq, fhold, wire, ctx, got, lost>>
  BY DEF RecvFails, AtNetwork, sendVars, flushVars
<1>3. ASSUME NEW r \in Peers PROVE Stream(r)'
  <2>1. IInv /\ Stream(r) /\ Other(r) \in Peers
    BY OtherPeer DEF DInv
  <2>2. SenderKeeps(r) /\ ReaderKeeps(r) /\ Queue(r)' = Queue(r) /\ wire'[r] = wire[r]
    BY <1>2 DEF SenderKeeps, ReaderKeeps, Queue
  <2>3. ~Broken(r)' => ~Broken(r)
    BY <1>1, <1>2, <2>1 DEF Broken, TypeOK
  <2> QED BY <2>1, <2>2, <2>3, StreamKept
<1>4. Asks(p)' /\ Asks(q)'
  BY <1>1, <1>2 DEF Asks, TypeOK
<1>5. lost \/ Pushed(q) = Len(got[p])
  <2> SUFFICES ASSUME ~lost PROVE Pushed(q) = Len(got[p])
    OBVIOUS
  <2>1. pc[q] = "done" /\ ~Broken(q)
    BY <1>1, <1>2 DEF Broken
  <2>2. /\ hand[q] = <<>> /\ pend[q] = 0 /\ flushq[q] = <<>> /\ fhold[q] = <<>>
    BY <2>1, <1>1 DEF PeerInv, Threads
  <2>3. Queue(q) = <<>>
    BY <2>2, <1>2 DEF Queue
  <2>4. Edge(q) = sent[q] - Len(buf[q])
    BY <2>1, <2>2, <2>3, <1>1 DEF Stream, AtRest, Chain
  <2>5. Edge(q) = Len(got[p])
    <3>1. ~ctx[p].info.valid
      BY <1>1, <1>2 DEF PeerInv
    <3> QED BY <3>1, <1>1 DEF Edge, Consumed
  <2>6. Pushed(q) = sent[q] - Len(buf[q])
    <3>1. sent[q] \in Nat /\ Len(buf[q]) \in Nat
      BY <1>1, Types
    <3> QED BY <3>1, <2>2 DEF Pushed
  <2> QED BY <2>4, <2>5, <2>6
<1>6. [Channel!Next]_(Channel!vars)
  <2>1. want[p] \in Nat
    BY <1>1, Types
  <2>2. CASE want[p] > 0
    <3>1. Channel!Other(p) = q /\ p \in Channel!Peers
      BY DEF Channel!Other, Other, Peers, Channel!Peers
    <3>2. lost \/ Channel!Available(p) = 0
      <4>1. Len(got[p]) \in Nat
        BY <1>1, Types
      <4> QED BY <4>1, <3>1, <1>1, <1>5 DEF Channel!Available, Pushed
    <3>3. Channel!Abort(p)
      BY <2>2, <3>2, <1>2 DEF Channel!Abort
    <3> QED BY <3>1, <3>3 DEF Channel!Next
  <2>3. CASE want[p] = 0
    <3>1. want' = want
      BY <2>3, <1>1, <1>2 DEF TypeOK
    <3> QED BY <3>1, <1>2 DEF Channel!vars
  <2> QED BY <2>1, <2>2, <2>3
<1> QED BY <1>1, <1>3, <1>4, <1>6 DEF Simulated

(* A piece of a piece of the stream.                                       *)
LEMMA BytesPiece ==
    \A h \in Nat, m \in Nat, o \in Nat, n \in Nat :
        o <= h /\ o + n <= m => SubSeq(Bytes(h - o, m), o + 1, o + n) = Bytes(h, n)
<1> TAKE h \in Nat, m \in Nat, o \in Nat, n \in Nat
<1>0. HAVE o <= h /\ o + n <= m
<1> DEFINE s == Bytes(h - o, m)  t == Bytes(h, n)  u == SubSeq(s, o + 1, o + n)
<1>1. /\ s \in Seq(Nat) /\ Len(s) = m /\ t \in Seq(Nat) /\ Len(t) = n
  <2>1. h - o \in Nat
    BY <1>0
  <2> QED BY <2>1, BytesType
<1>2. (\A i \in 1..m : s[i] = h - o + i) /\ (\A i \in 1..n : t[i] = h + i)
  BY DEF Bytes
<1> HIDE DEF s, t
<1>3. \A i \in (o + 1) .. (o + n) : s[i] \in Nat
  <2>1. \A i \in (o + 1) .. (o + n) : i \in 1..m
    BY <1>0
  <2> QED BY <2>1, <1>1, ElementOfSeq
<1>4. /\ u \in Seq(Nat) /\ Len(u) = n
      /\ \A i \in 1..n : u[i] = s[o + i]
  <2>1. /\ o + 1 \in Int /\ o + n \in Int /\ (o + n) - (o + 1) + 1 = n
        /\ \A i \in 1..n : (o + 1) + i - 1 = o + i
        /\ (IF o + 1 <= o + n THEN (o + n) - (o + 1) + 1 ELSE 0) = n
    OBVIOUS
  <2>2. /\ u \in Seq(Nat)
        /\ Len(u) = IF o + 1 <= o + n THEN (o + n) - (o + 1) + 1 ELSE 0
        /\ \A i \in 1 .. ((o + n) - (o + 1) + 1) : u[i] = s[(o + 1) + i - 1]
    BY <1>1, <1>3, <2>1, SubSeqProperties
  <2> HIDE DEF u
  <2> QED BY <2>1, <2>2
<1> HIDE DEF u
<1>5. \A i \in 1..n : u[i] = t[i]
  <2> SUFFICES ASSUME NEW i \in 1..n PROVE u[i] = t[i]
    OBVIOUS
  <2>1. o + i \in 1..m /\ h - o + (o + i) = h + i
    BY <1>0
  <2>2. u[i] = s[o + i] /\ s[o + i] = h - o + (o + i) /\ t[i] = h + i
    BY <2>1, <1>2, <1>4
  <2> QED BY <2>1, <2>2
<1>6. u = t
  BY <1>1, <1>4, <1>5, SeqEqual
<1> QED BY <1>6 DEF u, s, t

(* A longer stream begins with the shorter one.                            *)
LEMMA PrefixGrows ==
    ASSUME NEW h \in Nat, NEW n \in Nat
    PROVE  Bytes(0, h) \o Bytes(h, n) = Bytes(0, h + n)
<1>1. 0 \in Nat /\ 0 + h = h
  OBVIOUS
<1>2. Bytes(0, h) \o Bytes(0 + h, n) = Bytes(0, h + n)
  BY <1>1, BytesConcat
<1> QED BY <1>1, <1>2

(* What a reader takes is the next piece of the stream, and the cursor     *)
(* stays in step with it.                                                  *)
LEMMA TakeBytes ==
    ASSUME NEW c \in RecvContext, NEW g \in Seq(Nat), NEW len \in Nat,
           c.info.valid, Cursor(c), Reader(c, g)
    PROVE  \E n \in Nat :
               /\ Len(Taken(c, len)) = n /\ n <= len /\ (len > 0 => n > 0)
               /\ Len(g) + n <= Consumed(c, g)
               /\ g \o Taken(c, len) = Bytes(0, Len(g) + n)
               /\ Reader(RecvFromRecvCtx(c, len), g \o Taken(c, len))
               /\ Consumed(RecvFromRecvCtx(c, len), g \o Taken(c, len)) = Consumed(c, g)
<1>1. /\ c.info.data \in Seq(Nat) /\ c.list \in Seq(Frame)
      /\ Len(c.info.data) \in Nat /\ c.info.offset \in Nat /\ Len(g) \in Nat
  BY LenProperties DEF RecvContext, RecvInfo
<1>2. PICK m \in Nat, o \in Nat, h \in Nat :
          m = Len(c.info.data) /\ o = c.info.offset /\ h = Len(g)
  BY <1>1
<1>3. /\ o < m /\ o <= h /\ c.info.data = Bytes(h - o, m) /\ g = Bytes(0, h)
      /\ Len(c.list) = 1 /\ h - o \in Nat
  BY <1>2 DEF Cursor, Reader
<1>4. c.list # <<>> /\ Tail(c.list) = <<>>
  BY <1>1, <1>3, OneElement
<1>5. PICK n \in Nat : n = MinOf(m - o, len) /\ n <= len /\ n <= m - o
                         /\ (len > 0 => n > 0)
  <2>1. MinOf(m - o, len) = IF m - o < len THEN m - o ELSE len
    BY DEF MinOf
  <2>2. m - o \in Nat /\ m - o > 0
    BY <1>3
  <2> QED BY <2>1, <2>2
<1>6. Taken(c, len) = SubSeq(Bytes(h - o, m), o + 1, o + n)
  BY <1>2, <1>3, <1>5 DEF Taken
<1>7. Taken(c, len) = Bytes(h, n)
  <2>1. o + n <= m
    BY <1>3, <1>5
  <2> QED BY <2>1, <1>3, <1>6, BytesPiece, SMTT(40)
<1>8. Len(Taken(c, len)) = n
  BY <1>7, BytesType
<1> DEFINE taken == Taken(c, len)
<1> HIDE DEF taken
<1>9. g \o taken = Bytes(0, h + n) /\ Len(g \o taken) = h + n
  <2>1. 0 + h = h /\ 0 \in Nat /\ h + n \in Nat
    OBVIOUS
  <2>2. Bytes(0, h) \o Bytes(h, n) = Bytes(0, h + n)
    BY PrefixGrows
  <2>3. Len(Bytes(0, h + n)) = h + n
    BY <2>1, BytesType
  <2> QED BY <2>1, <2>2, <2>3, <1>3, <1>7 DEF taken
<1> DEFINE r == RecvFromRecvCtx(c, len)
           stays == Info(c.info.data, o + n, c.info.prev, TRUE)
           ends == Info(c.info.data, o + n, Head(c.list).id, FALSE)
<1>10. Consumed(c, g) = h + m - o
  BY <1>2 DEF Consumed
<1>11. CASE o + n # m
  <2>1. r = [list |-> c.list, info |-> Validate(stays, c.list)]
    BY <1>2, <1>3, <1>8, <1>11 DEF RecvFromRecvCtx
  <2>2. stays.valid /\ stays.offset = o + n /\ stays.data = c.info.data
    BY DEF Info
  <2> HIDE DEF stays
  <2>3. r.info = stays
    BY <2>1, <2>2 DEF Validate
  <2> HIDE DEF r
  <2>4. o + n <= h + n /\ (h + n) - (o + n) = h - o /\ (h + n) + m - (o + n) = h + m - o
    BY <1>3
  <2>5. Reader(r, g \o taken)
    BY <2>2, <2>3, <2>4, <1>2, <1>3, <1>9 DEF Reader
  <2>6. Consumed(r, g \o taken) = h + m - o
    BY <2>2, <2>3, <2>4, <1>2, <1>9 DEF Consumed
  <2>7. h + n <= h + m - o
    BY <1>3, <1>5
  <2> QED BY <2>5, <2>6, <2>7, <1>2, <1>5, <1>8, <1>9, <1>10 DEF r, taken
<1>12. CASE o + n = m
  <2>1. r = [list |-> <<>>, info |-> Validate(ends, <<>>)]
    BY <1>2, <1>3, <1>4, <1>8, <1>12 DEF RecvFromRecvCtx
  <2>2. ~ends.valid
    BY DEF Info
  <2> HIDE DEF ends
  <2>3. ~r.info.valid
    BY <2>1, <2>2 DEF Validate
  <2> HIDE DEF r
  <2>4. h + n = h + m - o
    BY <1>3, <1>12
  <2>5. Reader(r, g \o taken)
    BY <2>3, <1>9 DEF Reader
  <2>6. Consumed(r, g \o taken) = h + m - o
    BY <2>3, <2>4, <1>9 DEF Consumed
  <2> QED BY <2>4, <2>5, <2>6, <1>2, <1>5, <1>8, <1>9, <1>10 DEF r, taken
<1> QED BY <1>11, <1>12

(* The reader's own direction while it reads.                              *)
LEMMA OwnDirection ==
    ASSUME DInv, NEW p \in Peers, pc[p] # "done",
           pc' = [pc EXCEPT ![p] = pc'[p]], pc'[p] # "done",
           UNCHANGED <<sent, buf, hand, pend, flushq, fhold, lost>>,
           wire'[p] = wire[p],
           ctx'[Other(p)] = ctx[Other(p)], got'[Other(p)] = got[Other(p)]
    PROVE  /\ Stream(p)'
           /\ \A r \in Peers : Broken(r)' = Broken(r)
<1>1. /\ IInv /\ TypeOK /\ Stream(p) /\ Other(p) \in Peers /\ Other(p) # p
      /\ Other(Other(p)) = p /\ \A r \in Peers : r = p \/ r = Other(p)
  BY OtherPeer DEF DInv, IInv
<1>2. pc'[Other(p)] = pc[Other(p)]
  BY <1>1 DEF TypeOK
<1>3. \A r \in Peers : Broken(r)' = Broken(r)
  BY <1>1, <1>2 DEF Broken
<1>4. SenderKeeps(p) /\ ReaderKeeps(p) /\ Queue(p)' = Queue(p)
  BY DEF SenderKeeps, ReaderKeeps, Queue
<1> QED BY <1>1, <1>3, <1>4, StreamKept

(* The reader takes what it wants from the context.                        *)
LEMMA RecvTakeStep ==
    ASSUME DInv, TypeOK', NEW p \in Peers, RecvTake(p)
    PROVE  Simulated
<1> DEFINE q == Other(p)  c == ctx[p]  g == got[p]
           taken == Taken(c, want[p])  r == RecvFromRecvCtx(c, want[p])
<1>1. /\ IInv /\ TypeOK /\ Asks(p) /\ Asks(q) /\ Stream(q) /\ PeerInv(p)
      /\ q \in Peers /\ q # p /\ Other(q) = p /\ \A s \in Peers : s = p \/ s = q
  BY OtherPeer DEF DInv, IInv
<1>2. /\ pc[p] = "recv" /\ c.info.valid
      /\ got' = [got EXCEPT ![p] = g \o taken]
      /\ want' = [want EXCEPT ![p] = want[p] - Len(taken)]
      /\ pc' = [pc EXCEPT ![p] = IF Len(taken) = want[p] THEN "run" ELSE "read"]
      /\ ctx' = [ctx EXCEPT ![p] = r]
      /\ UNCHANGED <<sent, buf, hand, pend, flushq, fhold, wire, lost>>
  BY DEF RecvTake, sendVars, flushVars
<1>3. /\ c \in RecvContext /\ g \in Seq(Nat) /\ want[p] \in Nat /\ Len(g) \in Nat
      /\ Cursor(c) /\ Reader(c, g) /\ Edge(q) = Consumed(c, g)
  BY <1>1, Types DEF PeerInv, Stream, Reads, Edge
<1>4. PICK n \in Nat :
          /\ Len(taken) = n /\ n <= want[p] /\ (want[p] > 0 => n > 0)
          /\ Len(g) + n <= Edge(q)
          /\ g \o taken = Bytes(0, Len(g) + n)
          /\ Reader(r, g \o taken)
          /\ Consumed(r, g \o taken) = Edge(q)
  <2>1. \E n \in Nat :
            /\ Len(Taken(c, want[p])) = n /\ n <= want[p] /\ (want[p] > 0 => n > 0)
            /\ Len(g) + n <= Consumed(c, g)
            /\ g \o Taken(c, want[p]) = Bytes(0, Len(g) + n)
            /\ Reader(RecvFromRecvCtx(c, want[p]), g \o Taken(c, want[p]))
            /\ Consumed(RecvFromRecvCtx(c, want[p]), g \o Taken(c, want[p])) = Consumed(c, g)
    <3> HIDE DEF c, g
    <3> QED BY <1>2, <1>3, TakeBytes
  <2> QED BY <2>1, <1>3
<1> HIDE DEF taken, r
<1>5. /\ got'[p] = g \o taken /\ got'[q] = got[q] /\ ctx'[p] = r /\ ctx'[q] = ctx[q]
      /\ want'[p] = want[p] - n /\ want'[q] = want[q]
      /\ pc'[p] \in {"run", "read"} /\ (pc'[p] = "run" => n = want[p]) /\ pc'[q] = pc[q]
      /\ pc' = [pc EXCEPT ![p] = pc'[p]]
  <2>1. pc'[p] = (IF n = want[p] THEN "run" ELSE "read") /\ pc'[q] = pc[q]
          /\ pc' = [pc EXCEPT ![p] = pc'[p]]
    BY <1>1, <1>2, <1>4 DEF TypeOK
  <2>2. /\ got'[p] = g \o taken /\ got'[q] = got[q] /\ ctx'[p] = r /\ ctx'[q] = ctx[q]
        /\ want'[p] = want[p] - n /\ want'[q] = want[q]
    BY <1>1, <1>2, <1>4 DEF TypeOK
  <2> QED BY <2>1, <2>2
<1>6. Stream(p)' /\ Broken(q)' = Broken(q)
  BY <1>1, <1>2, <1>5, OwnDirection
<1>7. Edge(q)' = Edge(q) /\ Reads(q)' /\ Queue(q)' = Queue(q)
  BY <1>1, <1>2, <1>4, <1>5 DEF Edge, Reads, Queue
<1>8. Stream(q)'
  BY <1>1, <1>2, <1>6, <1>7 DEF Stream, Arrives, AtRest, HandingOver, Pushed
<1>9. Asks(p)' /\ Asks(q)'
  <2>1. pc'[p] = "run" => want'[p] = 0
    BY <1>3, <1>4, <1>5
  <2> QED BY <2>1, <1>1, <1>5 DEF Asks
<1>10. [Channel!Next]_(Channel!vars)
  <2>1. Edge(q) <= Pushed(q) /\ Edge(q) \in Nat /\ Pushed(q) \in Nat
    BY <1>1, PushedBounds
  <2>2. CASE n > 0
    <3>1. /\ Channel!Other(p) = q /\ p \in Channel!Peers
          /\ Channel!Available(p) = Pushed(q) - Len(got[p])
      BY <1>1 DEF Channel!Other, Other, Peers, Channel!Peers, Channel!Available, Pushed
    <3>2. n <= Channel!Available(p)
      BY <3>1, <2>1, <1>3, <1>4
    <3>3. got' = [got EXCEPT ![p] = [i \in 1..(Len(@) + n) |-> i]]
      <4>1. PICK h \in Nat : h = Len(g)
        BY <1>3
      <4>2. Bytes(0, h + n) = [i \in 1..(h + n) |-> i]
        BY <4>1 DEF Bytes
      <4> QED BY <4>1, <4>2, <1>2, <1>4
    <3>4. n \in 1..want[p]
      BY <2>2, <1>3, <1>4
    <3>5. want' = [want EXCEPT ![p] = @ - n]
      BY <1>2, <1>4
    <3>6. Channel!Read(p)
      <4>1. /\ sent' = sent /\ buf' = buf /\ pend' = pend /\ lost' = lost
        BY <1>2
      <4> QED BY <3>2, <3>3, <3>4, <3>5, <4>1 DEF Channel!Read
    <3> QED BY <3>1, <3>6 DEF Channel!Next
  <2>3. CASE n = 0
    <3>1. want' = want
      BY <2>3, <1>1, <1>2, <1>3, <1>4 DEF TypeOK
    <3>2. got' = got
      <4>1. taken = <<>>
        <5>1. taken \in Seq(Nat)
          BY <1>2, <1>3, TakeFromCurrent DEF taken
        <5> QED BY <5>1, <2>3, <1>4, NoLengthNoElements
      <4>2. g \o taken = g
        BY <4>1, <1>3
      <4> QED BY <4>2, <1>1, <1>2 DEF TypeOK
    <3> QED BY <3>1, <3>2, <1>2 DEF Channel!vars
  <2> QED BY <2>2, <2>3
<1> QED BY <1>1, <1>6, <1>8, <1>9, <1>10 DEF Simulated

(* Frames without the first, and more frames behind them.                  *)
LEMMA TailConcat ==
    ASSUME NEW S, NEW s \in Seq(S), NEW t \in Seq(S), s # <<>>
    PROVE  Tail(s \o t) = Tail(s) \o t /\ s \o t # <<>> /\ Head(s \o t) = Head(s)
<1> DEFINE u == s \o t  v == Tail(s) \o t
<1>1. /\ u \in Seq(S) /\ Len(u) = Len(s) + Len(t) /\ Len(s) \in Nat /\ Len(t) \in Nat
      /\ \A i \in 1 .. Len(s) + Len(t) : u[i] = IF i <= Len(s) THEN s[i] ELSE t[i - Len(s)]
  BY ConcatProperties, LenProperties
<1>2. /\ Len(s) > 0 /\ Head(s) = s[1]
      /\ Tail(s) \in Seq(S) /\ Len(Tail(s)) = Len(s) - 1
      /\ \A i \in 1..Len(Tail(s)) : Tail(s)[i] = s[i + 1]
  BY <1>1, HeadTailProperties, EmptySeq
<1>3. /\ v \in Seq(S) /\ Len(v) = Len(Tail(s)) + Len(t)
      /\ \A i \in 1 .. Len(Tail(s)) + Len(t) :
             v[i] = IF i <= Len(Tail(s)) THEN Tail(s)[i] ELSE t[i - Len(Tail(s))]
  BY <1>2, ConcatProperties
<1> HIDE DEF u, v
<1>4. u # <<>> /\ Head(u) = u[1] /\ u[1] = s[1]
  <2>1. u # <<>>
    BY <1>1, <1>2, EmptySeq
  <2>2. 1 \in 1 .. Len(s) + Len(t) /\ 1 <= Len(s)
    BY <1>1, <1>2
  <2> QED BY <2>1, <2>2, <1>1, HeadTailProperties
<1>5. /\ Tail(u) \in Seq(S) /\ Len(Tail(u)) = Len(u) - 1
      /\ \A i \in 1..Len(Tail(u)) : Tail(u)[i] = u[i + 1]
  BY <1>1, <1>4, HeadTailProperties
<1>6. Len(Tail(u)) = Len(v)
  BY <1>1, <1>2, <1>3, <1>5
<1>7. \A i \in 1..Len(v) : Tail(u)[i] = v[i]
  <2> SUFFICES ASSUME NEW i \in 1..Len(v) PROVE Tail(u)[i] = v[i]
    OBVIOUS
  <2>1. Tail(u)[i] = u[i + 1] /\ i + 1 \in 1 .. Len(s) + Len(t)
    BY <1>1, <1>2, <1>3, <1>5, <1>6
  <2>2. CASE i <= Len(Tail(s))
    BY <2>1, <2>2, <1>1, <1>2, <1>3
  <2>3. CASE ~(i <= Len(Tail(s)))
    <3>1. (i + 1) - Len(s) = i - Len(Tail(s)) /\ ~(i + 1 <= Len(s))
      BY <2>3, <1>1, <1>2
    <3> QED BY <2>1, <2>3, <3>1, <1>1, <1>2, <1>3
  <2> QED BY <2>2, <2>3
<1>8. Tail(u) = v
  BY <1>3, <1>5, <1>6, <1>7, SeqEqual
<1> QED BY <1>2, <1>4, <1>8 DEF u, v

(* A frame put into an empty context is the one the cursor points at.      *)
LEMMA PutBytes ==
    ASSUME NEW c \in RecvContext, NEW f \in Frame, NEW g \in Seq(Nat),
           c.list = <<>>, ~c.info.valid, f.id = c.info.prev + 1, Reader(c, g),
           f.data = Bytes(Len(g), Len(f.data))
    PROVE  /\ Reader(PutToRecvCtx(c, f), g)
           /\ Consumed(PutToRecvCtx(c, f), g) = Len(g) + Len(f.data)
<1> DEFINE r == PutToRecvCtx(c, f)  info == Info(f.data, 0, c.info.prev, TRUE)
<1>1. InsertById(c.list, f) = <<f>>
  BY DEF InsertById
<1>2. <<f>> # <<>> /\ Head(<<f>>) = f
  OBVIOUS
<1>3. r.info = info
  BY <1>1, <1>2 DEF PutToRecvCtx, Validate
<1>4. info.valid /\ info.offset = 0 /\ info.data = f.data
  BY DEF Info
<1>5. Len(g) \in Nat /\ Len(f.data) \in Nat
  BY LenProperties, FrameFacts
<1> HIDE DEF info, r
<1>6. Len(g) - 0 = Len(g) /\ 0 <= Len(g) /\ Len(g) + Len(f.data) - 0 = Len(g) + Len(f.data)
  BY <1>5
<1>7. Reader(r, g) /\ Consumed(r, g) = Len(g) + Len(f.data)
  BY <1>3, <1>4, <1>6 DEF Reader, Consumed
<1> QED BY <1>7 DEF r

(* The reader moves one frame from the connection into its context.        *)
LEMMA RecvFrameStep ==
    ASSUME DInv, TypeOK', NEW p \in Peers, RecvFrame(p)
    PROVE  Simulated
<1> DEFINE q == Other(p)  c == ctx[p]  g == got[p]  w == wire[q]  f == Head(w)
           r == PutToRecvCtx(c, f)
<1>1. /\ IInv /\ TypeOK /\ Asks(p) /\ Asks(q) /\ Stream(q) /\ PeerInv(p) /\ PeerInv(q)
      /\ q \in Peers /\ q # p /\ Other(q) = p /\ \A s \in Peers : s = p \/ s = q
  BY OtherPeer DEF DInv, IInv
<1>2. /\ pc[p] \in {"recv", "read"} /\ w # <<>>
      /\ pc[p] = "recv" => ~c.info.valid
      /\ wire' = [wire EXCEPT ![q] = Tail(w)]
      /\ ctx' = [ctx EXCEPT ![p] = r]
      /\ pc' = [pc EXCEPT ![p] = "recv"]
      /\ UNCHANGED <<sent, buf, hand, pend, flushq, fhold, want, got, lost>>
  BY <1>1 DEF RecvFrame, AtNetwork, sendVars, flushVars, TypeOK
<1>3. /\ c \in RecvContext /\ g \in Seq(Nat) /\ Len(g) \in Nat /\ w \in Seq(Frame)
      /\ fhold[q] \in Seq(Frame) /\ flushq[q] \in Seq(Frame)
      /\ Reader(c, g) /\ ~c.info.valid /\ c.list = <<>> /\ Edge(q) = Len(g)
  <2>1. ~c.info.valid
    BY <1>1, <1>2 DEF PeerInv
  <2> QED BY <2>1, <1>1, Types DEF PeerInv, Cursor, Stream, Reads, Edge, Consumed
<1>4. f.id = c.info.prev + 1 /\ f \in Frame
  <2>1. 1 \in 1..Len(w) /\ f = w[1] /\ f \in Frame
    BY <1>2, <1>3, EmptySeq, LenProperties, HeadTailProperties
  <2>2. w[1].id = Arrived(q) + 1
    BY <2>1, <1>1 DEF PeerInv, Arriving
  <2>3. Arrived(q) = c.info.prev
    <3>1. c.info.prev \in Nat /\ Len(c.list) = 0
      BY <1>3 DEF RecvContext, RecvInfo
    <3> QED BY <3>1, <1>1 DEF Arrived
  <2> QED BY <2>1, <2>2, <2>3
<1>5. PICK b : Chain(w, Edge(q), b) /\ b <= Pushed(q) /\ b = Reach(w, Edge(q))
  BY <1>1, PushedBounds DEF Arrives
<1>6. /\ From(f) = Edge(q) /\ To(f) = Edge(q) + Len(f.data) /\ Interval(f)
      /\ Tail(w) \in Seq(Frame) /\ Chain(Tail(w), To(f), b)
  BY <1>2, <1>3, <1>5, ChainTail
<1>7. f.data = Bytes(Len(g), Len(f.data))
  BY <1>3, <1>6 DEF Interval
<1>8. Reader(r, g) /\ Consumed(r, g) = To(f)
  BY <1>3, <1>4, <1>6, <1>7, PutBytes
<1> HIDE DEF r, f, w
<1>9. /\ ctx'[p] = r /\ ctx'[q] = ctx[q] /\ wire'[q] = Tail(w) /\ wire'[p] = wire[p]
      /\ pc' = [pc EXCEPT ![p] = pc'[p]] /\ pc'[p] = "recv" /\ pc'[q] = pc[q]
  BY <1>1, <1>2 DEF TypeOK
<1>10. Stream(p)' /\ Broken(q)' = Broken(q)
  BY <1>1, <1>2, <1>9, OwnDirection
<1>11. Edge(q)' = To(f) /\ Reads(q)'
  BY <1>1, <1>2, <1>8, <1>9 DEF Edge, Reads
<1>12. Queue(q)' = Tail(Queue(q)) /\ Queue(q) # <<>> /\ Head(Queue(q)) = f
  <2> DEFINE z == w \o fhold[q]
  <2>1. z \in Seq(Frame)
    BY <1>3, ConcatProperties
  <2>2. Tail(z) = Tail(w) \o fhold[q] /\ z # <<>> /\ Head(z) = f
    BY <1>2, <1>3, TailConcat DEF w, f
  <2>3. Queue(q) = z \o flushq[q] /\ Queue(q)' = Tail(w) \o fhold[q] \o flushq[q]
    BY <1>2, <1>9 DEF Queue, w
  <2> HIDE DEF z
  <2>4. Tail(z \o flushq[q]) = Tail(z) \o flushq[q] /\ z \o flushq[q] # <<>>
          /\ Head(z \o flushq[q]) = Head(z)
    BY <2>1, <2>2, <1>3, TailConcat
  <2> QED BY <2>2, <2>3, <2>4
<1>13. \A e : Chain(Queue(q), Edge(q), e) => Chain(Queue(q)', Edge(q)', e)
  <2>1. Queue(q) \in Seq(Frame)
    BY <1>1, Types
  <2> QED BY <2>1, <1>11, <1>12, ChainTail
<1>14. Stream(q)'
  <2>1. CASE Broken(q)
    <3>1. Reach(Tail(w), To(f)) = b
      BY <1>6, ChainFacts
    <3>2. Arrives(q)'
      BY <3>1, <1>2, <1>5, <1>6, <1>9, <1>11 DEF Arrives, Pushed
    <3> QED BY <3>2, <2>1, <1>1, <1>2, <1>10, <1>11 DEF Stream
  <2>2. CASE ~Broken(q)
    BY <2>2, <1>1, <1>2, <1>10, <1>11, <1>13 DEF Stream, AtRest, HandingOver
  <2> QED BY <2>1, <2>2
<1>15. Asks(p)' /\ Asks(q)'
  BY <1>1, <1>2, <1>9 DEF Asks
<1>16. UNCHANGED Channel!vars
  BY <1>2 DEF Channel!vars
<1> QED BY <1>1, <1>10, <1>14, <1>15, <1>16 DEF Simulated
-----------------------------------------------------------------------------
(* THE CONNECTION AND THE OTHER STEPS.                                     *)

(* The connection is lost, and a suffix of what it carried with it.        *)
LEMMA LoseStep == ASSUME DInv, TypeOK', Lose PROVE Simulated
<1>1. /\ ~lost /\ lost' = TRUE
      /\ UNCHANGED <<pc, sent, buf, hand, pend, flushq, fhold, ctx, want, got>>
  BY DEF Lose, sendVars, flushVars, recvVars
<1>2. PICK keep \in [Peers -> 0..WireCap] :
          /\ \A p \in Peers : keep[p] <= Len(wire[p])
          /\ wire' = [p \in Peers |-> SubSeq(wire[p], 1, keep[p])]
  BY DEF Lose
<1>3. ASSUME NEW p \in Peers PROVE Stream(p)' /\ Asks(p)'
  <2> DEFINE w == wire[p]  u == wire'[p]
  <2>1. /\ IInv /\ TypeOK /\ Stream(p) /\ Asks(p) /\ w \in Seq(Frame)
        /\ Other(p) \in Peers
    BY Types, OtherPeer DEF DInv, IInv
  <2>2. u = SubSeq(w, 1, keep[p]) /\ keep[p] \in Nat /\ keep[p] <= Len(w) /\ Len(w) \in Nat
    BY <1>2, <2>1, CapAssumption, LenProperties
  <2>3. u \in Seq(Frame) /\ Len(u) <= Len(w) /\ \A i \in 1..Len(u) : u[i] = w[i]
    <3>1. PICK k \in Nat : k = keep[p]
      BY <2>2
    <3>2. \A i \in 1..k : w[i] \in Frame
      BY <3>1, <2>1, <2>2, ElementOfSeq
    <3> HIDE DEF w
    <3>3. /\ SubSeq(w, 1, k) \in Seq(Frame)
          /\ Len(SubSeq(w, 1, k)) = IF 1 <= k THEN k - 1 + 1 ELSE 0
          /\ \A i \in 1 .. (k - 1 + 1) : SubSeq(w, 1, k)[i] = w[1 + i - 1]
      BY <3>1, <3>2, <2>1, SubSeqProperties
    <3>4. k - 1 + 1 = k /\ (IF 1 <= k THEN k - 1 + 1 ELSE 0) = k
            /\ \A i \in 1..k : 1 + i - 1 = i
      OBVIOUS
    <3> QED BY <3>1, <3>3, <3>4, <2>2
  <2>4. /\ Edge(p)' = Edge(p) /\ Reads(p)' /\ Broken(p)' /\ Pushed(p)' = Pushed(p)
    BY <1>1, <2>1 DEF Edge, Reads, Broken, Pushed, Stream
  <2>5. /\ Chain(w, Edge(p), Reach(w, Edge(p))) /\ Reach(w, Edge(p)) <= Pushed(p)
        /\ Pushed(p) \in Nat /\ Reach(w, Edge(p)) \in Nat
    BY <2>1, PushedBounds DEF Arrives, Chain
  <2>6. /\ Chain(u, Edge(p), Reach(u, Edge(p))) /\ Reach(u, Edge(p)) <= Reach(w, Edge(p))
        /\ Reach(u, Edge(p)) \in Nat
    <3>1. /\ Chain(u, Edge(p), Reach(u, Edge(p))) /\ Reach(u, Edge(p)) <= Reach(w, Edge(p))
      BY <2>1, <2>3, <2>5, ChainPrefix
    <3> QED BY <3>1 DEF Chain
  <2>7. Arrives(p)'
    BY <2>4, <2>5, <2>6 DEF Arrives
  <2> QED BY <2>1, <2>4, <2>7, <1>1 DEF Stream, Asks
<1>4. Channel!Lose
  BY <1>1 DEF Channel!Lose
<1> QED BY <1>3, <1>4 DEF Simulated, Channel!Next

(* Nothing appended.                                                       *)
LEMMA NothingBehind ==
    ASSUME NEW S, NEW s \in Seq(S)
    PROVE  s \o <<>> = s /\ s \o <<>> \o <<>> = s
OBVIOUS

(* Concatenation is associative.                                           *)
LEMMA Regroup ==
    \A S : \A s \in Seq(S), t \in Seq(S), u \in Seq(S) : s \o (t \o u) = s \o t \o u
<1> TAKE S
<1> TAKE s \in Seq(S), t \in Seq(S), u \in Seq(S)
<1> QED OBVIOUS

(* The first frame of a queue moves to the sequence ahead of it.           *)
LEMMA HeadMoves ==
    ASSUME NEW S, NEW s \in Seq(S), NEW t \in Seq(S), t # <<>>
    PROVE  s \o <<>> \o t = s \o <<Head(t)>> \o Tail(t)
<1>1. /\ <<Head(t)>> \in Seq(S) /\ Tail(t) \in Seq(S) /\ t = <<Head(t)>> \o Tail(t)
  OBVIOUS
<1>2. s \o (<<Head(t)>> \o Tail(t)) = s \o <<Head(t)>> \o Tail(t)
  BY <1>1, ConcatAssociative
<1> QED BY <1>1, <1>2, NothingBehind

(* The steps of the flush thread move frames along the queue; on a broken  *)
(* connection they drop them.                                              *)
LEMMA FlushThreadStep ==
    ASSUME DInv, NEW p \in Peers, FlushThread(p) \/ FlushSpuriousWakeup(p)
    PROVE  Simulated
<1> DEFINE q == Other(p)
<1>1. /\ IInv /\ TypeOK /\ Threads(p) /\ q \in Peers /\ q # p
      /\ \A r \in Peers : r = p \/ r = q
  BY OtherPeer DEF DInv, IInv, PeerInv
<1>2. /\ wire[p] \in Seq(Frame) /\ fhold[p] \in Seq(Frame) /\ flushq[p] \in Seq(Frame)
  BY <1>1, Types
<1>3. UNCHANGED <<pc, sent, buf, pend, hand, ctx, got, want, lost>>
  BY DEF FlushThread, FlushCheck, FlushEnter, FlushSend, FlushSpuriousWakeup,
         sendVars, recvVars
<1>4. Broken(p)' = Broken(p) /\ Broken(q)' = Broken(q)
  BY <1>3 DEF Broken
<1>5. /\ wire'[q] = wire[q] /\ Queue(q)' = Queue(q)
      /\ Broken(p)' => wire'[p] = wire[p]
      /\ ~Broken(p)' => Queue(p)' = Queue(p)
  <2>1. CASE FlushCheck(p) \/ FlushSpuriousWakeup(p)
    BY <2>1 DEF FlushCheck, FlushSpuriousWakeup, Queue
  <2>2. CASE FlushEnter(p)
    <3>1. /\ fpc[p] = "enter" /\ UNCHANGED wire
          /\ \/ UNCHANGED <<flushq, fhold>>
             \/ /\ flushq[p] # <<>>
                /\ fhold' = [fhold EXCEPT ![p] = <<Head(flushq[p])>>]
                /\ flushq' = [flushq EXCEPT ![p] = Tail(@)]
      BY <2>2 DEF FlushEnter
    <3>2. CASE UNCHANGED <<flushq, fhold>>
      BY <3>1, <3>2 DEF Queue
    <3>3. CASE /\ flushq[p] # <<>>
               /\ fhold' = [fhold EXCEPT ![p] = <<Head(flushq[p])>>]
               /\ flushq' = [flushq EXCEPT ![p] = Tail(@)]
      <4>1. fhold[p] = <<>>
        BY <3>1, <1>1 DEF Threads
      <4>2. /\ fhold'[p] = <<Head(flushq[p])>> /\ flushq'[p] = Tail(flushq[p])
            /\ fhold'[q] = fhold[q] /\ flushq'[q] = flushq[q]
        BY <3>3, <1>1 DEF TypeOK
      <4>3. wire[p] \o <<>> \o flushq[p]
              = wire[p] \o <<Head(flushq[p])>> \o Tail(flushq[p])
        BY <3>3, <1>2, HeadMoves
      <4> QED BY <4>1, <4>2, <4>3, <3>1 DEF Queue
    <3> QED BY <3>1, <3>2, <3>3
  <2>3. CASE FlushSend(p)
    <3>1. /\ UNCHANGED flushq /\ fhold' = [fhold EXCEPT ![p] = <<>>]
          /\ \/ ~Broken(p) /\ wire' = [wire EXCEPT ![p] = @ \o fhold[p]]
             \/ Broken(p) /\ UNCHANGED wire
      BY <2>3 DEF FlushSend
    <3>2. fhold'[p] = <<>> /\ fhold'[q] = fhold[q] /\ wire'[q] = wire[q]
      BY <3>1, <1>1 DEF TypeOK
    <3>3. Queue(q)' = Queue(q)
      BY <3>1, <3>2 DEF Queue
    <3>4. ~Broken(p) => Queue(p)' = Queue(p)
      <4> SUFFICES ASSUME ~Broken(p) PROVE Queue(p)' = Queue(p)
        OBVIOUS
      <4>1. wire'[p] = wire[p] \o fhold[p]
        BY <3>1, <1>1 DEF TypeOK
      <4>2. (wire[p] \o fhold[p]) \o <<>> = wire[p] \o fhold[p]
        <5>1. wire[p] \o fhold[p] \in Seq(Frame)
          BY <1>2, ConcatProperties
        <5> HIDE DEF q
        <5> QED BY <5>1
      <4> QED BY <4>1, <4>2, <3>1, <3>2 DEF Queue
    <3> QED BY <3>1, <3>2, <3>3, <3>4, <1>4
  <2> QED BY <2>1, <2>2, <2>3 DEF FlushThread
<1>6. \A r \in Peers : /\ pc'[r] = pc[r]
                       /\ pc[r] = "done" => pc'[r] = "done"
                       /\ Broken(r)' => wire'[r] = wire[r]
                       /\ ~Broken(r)' => Queue(r)' = Queue(r)
  BY <1>1, <1>3, <1>5
<1> QED BY <1>3, <1>6, QuietStep

(* The steps of a main thread that start or stop the asynchronous flush    *)
(* and send nothing.                                                       *)
LEMMA ControlStep ==
    ASSUME DInv, NEW p \in Peers,
           \/ StopAsyncFlush(p) \/ NothingToStop(p) \/ SpawnFlushThread(p)
           \/ StartAsyncFlush(p) /\ async[p] /\ UNCHANGED <<pc, sendVars>>
    PROVE  Simulated
<1>1. TypeOK /\ \A r \in Peers : Other(r) \in Peers
  BY OtherPeer DEF DInv, IInv
<1>2. /\ UNCHANGED <<sent, buf, pend, hand, flushq, fhold, wire, ctx, got, want, lost>>
      /\ pc' = pc \/ (pc[p] \in {"run", "spawn"} /\ \E k \in {"join", "run"} :
                                                        pc' = [pc EXCEPT ![p] = k])
  BY DEF StopAsyncFlush, NothingToStop, SpawnFlushThread, StartAsyncFlush,
         Calls, Destroying, sendVars, flushVars, recvVars
<1>3. ASSUME NEW r \in Peers
      PROVE  /\ pc'[r] = pc[r] \/ pc[r] \notin {"recv", "read"}
             /\ pc[r] = "done" => pc'[r] = "done"
             /\ Broken(r)' => wire'[r] = wire[r]
             /\ ~Broken(r)' => Queue(r)' = Queue(r)
  BY <1>1, <1>2 DEF TypeOK, Queue
<1> QED BY <1>2, <1>3, QuietStep

(* The calls of a main thread that reach the send path.                    *)
LEMMA CallStep ==
    ASSUME DInv, TypeOK', NEW p \in Peers,
           \/ Send(p) \/ Flush(p) \/ RecvFlush(p) \/ StartAsyncFlush(p)
           \/ JoinFlushThread(p) \/ Destroy(p)
    PROVE  Simulated
<1>1. TypeOK
  BY DEF DInv, IInv
<1>2. CASE Send(p)
  <2>1. /\ pc[p] = "run" /\ prog[p] # <<>> /\ Return(p) /\ SendData(p, Head(prog[p]).n, "run")
        /\ UNCHANGED <<flushq, fhold, wire, ctx, got, want, lost>>
    BY <1>2 DEF Send, Calls, flushVars, recvVars
  <2>2. Head(prog[p]).n \in Nat
    BY <2>1, <1>1, ReturnType DEF Op
  <2> QED BY <2>1, <2>2, SendDataStep
<1>3. CASE Flush(p) \/ RecvFlush(p)
  <2>1. /\ pc[p] = "run" /\ SendData(p, 0, "run")
        /\ UNCHANGED <<flushq, fhold, wire, ctx, got, want, lost>>
    BY <1>3 DEF Flush, RecvFlush, Calls, flushVars, recvVars
  <2> QED BY <2>1, SendDataStep
<1>4. CASE StartAsyncFlush(p)
  <2>1. CASE async[p] /\ UNCHANGED <<pc, sendVars>>
    BY <2>1, <1>4, ControlStep
  <2>2. CASE SendData(p, 0, "spawn")
    <3>1. /\ pc[p] = "run"
          /\ UNCHANGED <<flushq, fhold, wire, ctx, got, want, lost>>
      BY <1>4 DEF StartAsyncFlush, Calls, flushVars, recvVars
    <3> QED BY <2>2, <3>1, SendDataStep
  <2> QED BY <2>1, <2>2, <1>4 DEF StartAsyncFlush
<1>5. CASE JoinFlushThread(p)
  <2>1. /\ pc[p] = "join" /\ SendData(p, 0, "run")
        /\ UNCHANGED <<flushq, fhold, wire, ctx, got, want, lost>>
    BY <1>5 DEF JoinFlushThread, recvVars
  <2> QED BY <2>1, SendDataStep
<1>6. CASE Destroy(p)
  <2>1. /\ pc[p] = "run" /\ SendData(p, 0, "done")
        /\ UNCHANGED <<flushq, fhold, wire, ctx, got, want, lost>>
    BY <1>6 DEF Destroy, Destroying, flushVars, recvVars
  <2> QED BY <2>1, SendDataStep
<1> QED BY <1>2, <1>3, <1>4, <1>5, <1>6

(* The frame in hand goes to the list of the flush thread, or to the       *)
(* connection.                                                             *)
LEMMA HandOverStep ==
    ASSUME DInv, TypeOK', NEW p \in Peers, PutToFlushCtx(p) \/ SendEx(p)
    PROVE  Simulated
<1> DEFINE q == Other(p)
<1>1. /\ IInv /\ TypeOK /\ Threads(p) /\ q \in Peers /\ q # p
  BY OtherPeer DEF DInv, IInv, PeerInv
<1>2. /\ wire[p] \in Seq(Frame) /\ fhold[p] \in Seq(Frame) /\ flushq[p] \in Seq(Frame)
      /\ hand[p] \in Seq(Frame)
  BY <1>1, Types
<1>3. CASE PutToFlushCtx(p)
  <2>1. /\ pc[p] = "put" /\ SendRest(p)
        /\ flushq' = [flushq EXCEPT ![p] = @ \o hand[p]]
        /\ UNCHANGED <<fhold, wire, ctx, got, want, lost>>
    BY <1>3 DEF PutToFlushCtx, recvVars
  <2>2. flushq'[p] = flushq[p] \o hand[p] /\ flushq'[q] = flushq[q]
    BY <2>1, <1>1 DEF TypeOK
  <2>3. Queue(p)' = Queue(p) \o hand[p]
    <3>1. wire[p] \o fhold[p] \in Seq(Frame)
      BY <1>2, ConcatProperties
    <3>2. PICK w \in Seq(Frame), f \in Seq(Frame), h \in Seq(Frame) :
              w = wire[p] \o fhold[p] /\ f = flushq[p] /\ h = hand[p]
      BY <3>1, <1>2
    <3>3. w \o (f \o h) = w \o f \o h
      BY Regroup
    <3>4. (wire[p] \o fhold[p]) \o (flushq[p] \o hand[p])
            = (wire[p] \o fhold[p]) \o flushq[p] \o hand[p]
      BY <3>2, <3>3
    <3> QED BY <3>4, <2>1, <2>2 DEF Queue
  <2> QED BY <2>1, <2>2, <2>3, SendRestStep
<1>4. CASE SendEx(p)
  <2>1. /\ pc[p] = "put" /\ ~async[p] /\ SendRest(p)
        /\ \/ ~Broken(p) /\ wire' = [wire EXCEPT ![p] = @ \o hand[p]]
           \/ Broken(p) /\ UNCHANGED wire
        /\ UNCHANGED <<fhold, flushq, ctx, got, want, lost>>
    BY <1>4 DEF SendEx, flushVars, recvVars
  <2>2. fhold[p] = <<>> /\ flushq[p] = <<>>
    BY <2>1, <1>1 DEF Threads
  <2>3. wire'[q] = wire[q] /\ (Broken(p) => wire'[p] = wire[p])
          /\ (~Broken(p) => wire'[p] = wire[p] \o hand[p])
    <3>1. wire \in [Peers -> Seq(Frame)]
      BY <1>1 DEF TypeOK
    <3> QED BY <2>1, <3>1, <1>1
  <2>4. ~Broken(p) => Queue(p)' = Queue(p) \o hand[p]
    <3>1. wire[p] \o <<>> \o <<>> = wire[p]
            /\ wire[p] \o hand[p] \o <<>> \o <<>> = wire[p] \o hand[p]
      <4>1. wire[p] \o hand[p] \in Seq(Frame)
        BY <1>2, ConcatProperties
      <4> QED BY <4>1, <1>2, NothingBehind
    <3> QED BY <3>1, <2>1, <2>2, <2>3 DEF Queue
  <2> QED BY <2>1, <2>3, <2>4, SendRestStep
<1> QED BY <1>3, <1>4
-----------------------------------------------------------------------------
(* Every step keeps the invariant and simulates a step of the channel.     *)
LEMMA DInvNext == ASSUME DInv, [Next]_vars PROVE DInv' /\ [Channel!Next]_(Channel!vars)
<1>1. IInv' /\ TypeOK'
  BY InvNext DEF DInv, IInv
<1>2. Simulated
  <2>1. ASSUME NEW p \in Peers, MainThread(p) PROVE Simulated
    BY <2>1, <1>1, CallStep, HandOverStep, SendExFailsStep, RecvStep, RecvTakeStep,
       RecvFrameStep, RecvFailsStep, ControlStep DEF MainThread
  <2>2. ASSUME NEW p \in Peers, FlushThread(p) \/ FlushSpuriousWakeup(p) PROVE Simulated
    BY <2>2, FlushThreadStep
  <2>3. CASE Lose
    BY <2>3, <1>1, LoseStep
  <2>4. CASE UNCHANGED vars
    <3>1. UNCHANGED <<pc, sent, buf, pend, hand, flushq, fhold, wire, ctx, got, want, lost>>
      BY <2>4 DEF vars, sendVars, flushVars, recvVars
    <3> QED BY <3>1, QuietStep DEF Queue
  <2> QED BY <2>1, <2>2, <2>3, <2>4 DEF Next, Finished
<1> QED BY <1>1, <1>2 DEF Simulated, DInv

(* The bytes under way are at every moment the piece of their sender's     *)
(* stream between what its reader has been given and what it still holds.  *)
THEOREM StreamsAreKept == Spec => []DInv
<1>1. Init => DInv
  BY StreamInit
<1>2. DInv /\ [Next]_vars => DInv'
  BY DInvNext
<1> QED BY <1>1, <1>2, PTL DEF Spec

(* The safety part of ImplementsByteChannel: a reader is given its peer's  *)
(* bytes in order, without loss, repetition or invention, and only those   *)
(* that have left the send buffer; its request fails only when the         *)
(* connection is lost or when it has been given all of them.               *)
THEOREM ImplementsSafeByteChannel == Spec => Channel!Safe
<1>1. Init => Channel!Init
  <2> SUFFICES ASSUME Init PROVE Channel!Init
    OBVIOUS
  <2>1. \A p \in Peers : sent[p] - Len(buf[p]) - pend[p] = 0
    BY DEF Init
  <2> QED BY <2>1 DEF Init, Channel!Init, Peers, Channel!Peers
<1>2. DInv /\ [Next]_vars => [Channel!Next]_(Channel!vars)
  BY DInvNext
<1> QED BY <1>1, <1>2, StreamsAreKept, PTL DEF Spec, Channel!Safe
-----------------------------------------------------------------------------
(* THE STREAM AS THE RUNS CHECK IT.                                        *)

Payloads(s) == [i \in DOMAIN s |-> s[i].data]

(* The payloads of a sequence of frames.                                   *)
LEMMA PayloadsType ==
    ASSUME NEW s \in Seq(Frame)
    PROVE  /\ Payloads(s) \in Seq(Seq(Nat)) /\ Len(Payloads(s)) = Len(s)
           /\ \A i \in 1..Len(s) : Payloads(s)[i] = s[i].data
<1>1. Len(s) \in Nat /\ DOMAIN s = 1..Len(s)
  BY LenProperties
<1>2. \A i \in 1..Len(s) : s[i].data \in Seq(Nat)
  <2>1. \A i \in 1..Len(s) : s[i] \in Frame
    BY ElementOfSeq
  <2> QED BY <2>1 DEF Frame
<1> QED BY <1>1, <1>2 DEF Payloads

(* The payloads of a concatenation.                                        *)
LEMMA PayloadsConcat ==
    ASSUME NEW s \in Seq(Frame), NEW t \in Seq(Frame)
    PROVE  Payloads(s \o t) = Payloads(s) \o Payloads(t)
<1>1. PICK u \in Seq(Frame) : u = s \o t
  BY ConcatProperties
<1>2. /\ Len(u) = Len(s) + Len(t) /\ Len(s) \in Nat /\ Len(t) \in Nat
      /\ \A i \in 1 .. Len(s) + Len(t) : u[i] = IF i <= Len(s) THEN s[i] ELSE t[i - Len(s)]
  BY <1>1, ConcatProperties, LenProperties
<1>3. PICK v \in Seq(Seq(Nat)) : v = Payloads(s) \o Payloads(t)
  BY PayloadsType, ConcatProperties
<1>4. /\ Len(v) = Len(s) + Len(t)
      /\ \A i \in 1 .. Len(s) + Len(t) :
             v[i] = IF i <= Len(s) THEN Payloads(s)[i] ELSE Payloads(t)[i - Len(s)]
  <2>1. /\ Payloads(s) \in Seq(Seq(Nat)) /\ Len(Payloads(s)) = Len(s)
        /\ Payloads(t) \in Seq(Seq(Nat)) /\ Len(Payloads(t)) = Len(t)
    BY PayloadsType
  <2> QED BY <2>1, <1>3, ConcatProperties
<1>5. \A i \in 1..Len(u) : Payloads(u)[i] = v[i]
  <2> SUFFICES ASSUME NEW i \in 1..Len(u) PROVE Payloads(u)[i] = v[i]
    OBVIOUS
  <2>1. Payloads(u)[i] = u[i].data
    BY PayloadsType
  <2>2. CASE i <= Len(s)
    <3>1. i \in 1..Len(s)
      BY <2>2, <1>2
    <3> QED BY <3>1, <2>1, <2>2, <1>2, <1>4, PayloadsType
  <2>3. CASE ~(i <= Len(s))
    <3>1. i - Len(s) \in 1..Len(t)
      BY <2>3, <1>2
    <3> QED BY <3>1, <2>1, <2>3, <1>2, <1>4, PayloadsType
  <2> QED BY <2>2, <2>3
<1>6. Payloads(u) \in Seq(Seq(Nat)) /\ Len(Payloads(u)) = Len(v)
  BY <1>2, <1>4, PayloadsType
<1>7. Payloads(u) = v
  BY <1>3, <1>5, <1>6, <1>2, <1>4, SeqEqual
<1> QED BY <1>1, <1>3, <1>7

(* The payloads of a chain, one after the other, are the bytes between its *)
(* ends.                                                                   *)
LEMMA ChainFlattened ==
    ASSUME NEW s \in Seq(Frame), NEW a, NEW b, Chain(s, a, b)
    PROVE  FlattenSeq(Payloads(s)) = Bytes(a, b - a)
<1>1. a \in Nat /\ b \in Nat /\ a <= b /\ Len(s) \in Nat
  BY LenProperties DEF Chain
<1>2. PICK d \in Seq(Seq(Nat)) : d = Payloads(s)
  BY PayloadsType
<1>3. Len(d) = Len(s) /\ \A i \in 1..Len(s) : d[i] = s[i].data
  BY <1>2, PayloadsType
<1>4. CASE s = <<>>
  <2>1. d = <<>> /\ b - a = 0
    <3>1. a = b
      BY <1>4 DEF Chain
    <3> QED BY <3>1, <1>1, <1>3, <1>4, EmptySeq
  <2> QED BY <2>1, <1>1, <1>2, FlattenEmpty, NoBytes
<1>5. CASE s # <<>>
  <2>1. Len(s) \in 1..Len(s) /\ Len(d) # 0
    BY <1>1, <1>3, <1>5, EmptySeq
  <2>2. PICK f : IsFlattening(f, d) /\ FlattenSeq(d) = f[Len(d)]
    BY <2>1, <1>1, <1>3, FlattenSeqDef
  <2>3. \A i \in 1..Len(s) : f[i] = IF i = 1 THEN d[i] ELSE f[i - 1] \o d[i]
    BY <2>2, <1>3, FlatteningStep
  <2>4. \A i \in 1..Len(s) :
            /\ s[i] \in Frame /\ Len(s[i].data) \in Nat
            /\ From(s[i]) \in Int /\ To(s[i]) = From(s[i]) + Len(s[i].data)
            /\ d[i] = Bytes(From(s[i]), Len(s[i].data)) /\ a <= From(s[i])
    <3> SUFFICES ASSUME NEW i \in 1..Len(s)
                 PROVE  /\ s[i] \in Frame /\ Len(s[i].data) \in Nat
                        /\ From(s[i]) \in Int /\ To(s[i]) = From(s[i]) + Len(s[i].data)
                        /\ d[i] = Bytes(From(s[i]), Len(s[i].data)) /\ a <= From(s[i])
      OBVIOUS
    <3>1. s[i] \in Frame
      BY ElementOfSeq
    <3>2. Interval(s[i]) /\ a <= From(s[i])
      BY DEF Chain
    <3> QED BY <3>1, <3>2, <1>3, FrameFacts DEF Interval, To
  <2>5. /\ From(s[1]) = a /\ To(s[Len(s)]) = b
        /\ \A i \in 1..Len(s) : i + 1 \in 1..Len(s) => To(s[i]) = From(s[i + 1])
    BY <1>5 DEF Chain
  <2> DEFINE T == {i \in Nat : i \in 1..Len(s) => f[i] = Bytes(a, To(s[i]) - a)}
  <2>6. 1 \in T
    <3>1. 1 \in 1..Len(s)
      BY <2>1, <1>1
    <3>2. To(s[1]) - a = Len(s[1].data)
      BY <3>1, <2>4, <2>5, <1>1
    <3>3. f[1] = Bytes(a, Len(s[1].data))
      BY <3>1, <2>3, <2>4, <2>5
    <3> QED BY <3>2, <3>3
  <2>7. ASSUME NEW i \in T, i \in 1..(Len(s) - 1) PROVE i + 1 \in T
    <3>1. /\ i \in 1..Len(s) /\ i + 1 \in 1..Len(s) /\ i + 1 # 1 /\ (i + 1) - 1 = i
          /\ i + 1 \in Nat
      BY <2>7, <1>1
    <3>2. f[i + 1] = f[i] \o d[i + 1]
      BY <3>1, <2>3
    <3>3. PICK m \in Nat, n \in Nat :
              m = To(s[i]) - a /\ n = Len(s[i + 1].data)
      <4>1. /\ From(s[i]) \in Int /\ Len(s[i].data) \in Nat /\ a <= From(s[i])
            /\ To(s[i]) = From(s[i]) + Len(s[i].data)
        BY <3>1, <2>4
      <4>2. To(s[i]) - a \in Nat
        <5>1. PICK x \in Int, y \in Nat : x = From(s[i]) /\ y = Len(s[i].data)
          BY <4>1
        <5>2. a <= x /\ To(s[i]) = x + y
          BY <4>1, <5>1
        <5> QED BY <5>2, <1>1
      <4> QED BY <4>2, <3>1, <2>4
    <3>4. f[i] = Bytes(a, m)
      BY <3>1, <3>3
    <3>5. d[i + 1] = Bytes(a + m, n) /\ To(s[i + 1]) - a = m + n
      <4>1. From(s[i + 1]) = To(s[i]) /\ To(s[i]) \in Int
        BY <3>1, <2>4, <2>5
      <4>2. From(s[i + 1]) = a + m
        BY <4>1, <3>3, <1>1
      <4>3. d[i + 1] = Bytes(From(s[i + 1]), n) /\ To(s[i + 1]) = From(s[i + 1]) + n
        BY <3>1, <3>3, <2>4
      <4> QED BY <4>2, <4>3, <1>1
    <3>6. f[i + 1] = Bytes(a, m + n)
      <4>1. Bytes(a, m) \o Bytes(a + m, n) = Bytes(a, m + n)
        <5>1. a \in Nat
          BY <1>1
        <5> QED BY <5>1, BytesConcat, Zenon
      <4> QED BY <4>1, <3>2, <3>4, <3>5
    <3> QED BY <3>1, <3>5, <3>6
  <2> HIDE DEF T
  <2>8. 1..Len(s) \subseteq T
    BY <1>1, <2>6, <2>7, InductiveRange
  <2>9. f[Len(s)] = Bytes(a, To(s[Len(s)]) - a)
    BY <2>1, <2>8 DEF T
  <2> QED BY <2>2, <2>5, <2>9, <1>2, <1>3
<1> QED BY <1>4, <1>5

(* At most one frame.                                                      *)
LEMMA OneFlattened ==
    ASSUME NEW s \in Seq(Frame)
    PROVE  /\ s = <<>> => FlattenSeq(Payloads(s)) = <<>>
           /\ Len(s) = 1 => FlattenSeq(Payloads(s)) = s[1].data
<1>1. PICK d \in Seq(Seq(Nat)) : d = Payloads(s)
  BY PayloadsType
<1>2. Len(d) = Len(s) /\ \A i \in 1..Len(s) : d[i] = s[i].data
  BY <1>1, PayloadsType
<1>3. CASE s = <<>>
  <2>1. d = <<>>
    BY <1>2, <1>3, EmptySeq
  <2> QED BY <2>1, <1>1, <1>3, FlattenEmpty
<1>4. CASE Len(s) = 1
  <2>1. d = <<d[1]>> /\ d[1] \in Seq(Nat) /\ d[1] = s[1].data
    <3>1. Len(d) = 1 /\ 1 \in 1..Len(s)
      BY <1>2, <1>4
    <3> QED BY <3>1, <1>2, OneElement
  <2>2. FlattenSeq(<<d[1]>>) = d[1]
    BY <2>1, FlattenOne
  <2>3. s # <<>>
    BY <1>4, OneElement
  <2> QED BY <2>1, <2>2, <2>3, <1>1
<1>5. CASE s # <<>> /\ Len(s) # 1
  BY <1>5
<1> QED BY <1>3, <1>4, <1>5

(* The payloads of three parts.                                            *)
LEMMA PartsFlattened ==
    ASSUME NEW s \in Seq(Frame), NEW t \in Seq(Frame), NEW u \in Seq(Frame)
    PROVE  FlattenSeq(Payloads((s \o t) \o u))
             = (FlattenSeq(Payloads(s)) \o FlattenSeq(Payloads(t))) \o FlattenSeq(Payloads(u))
<1>1. s \o t \in Seq(Frame)
  BY ConcatProperties
<1>2. /\ Payloads(s) \in Seq(Seq(Nat)) /\ Payloads(t) \in Seq(Seq(Nat))
      /\ Payloads(u) \in Seq(Seq(Nat)) /\ Payloads(s \o t) \in Seq(Seq(Nat))
  BY <1>1, PayloadsType
<1>3. FlattenSeq(Payloads(s \o t)) = FlattenSeq(Payloads(s)) \o FlattenSeq(Payloads(t))
  BY <1>2, PayloadsConcat, FlattenConcat
<1>4. FlattenSeq(Payloads((s \o t) \o u))
        = FlattenSeq(Payloads(s \o t)) \o FlattenSeq(Payloads(u))
  <2>1. Payloads((s \o t) \o u) = Payloads(s \o t) \o Payloads(u)
    BY <1>1, PayloadsConcat
  <2> QED BY <2>1, <1>2, FlattenConcat
<1> QED BY <1>3, <1>4

(* The same for the beginning of the stream.                               *)
LEMMA PrefixConcat ==
    \A h \in Nat, n \in Nat : Bytes(0, h) \o Bytes(h, n) = Bytes(0, h + n)
BY PrefixGrows

(* What a piece of a stream holds behind its first bytes.                  *)
LEMMA RestOfPiece ==
    \A h \in Nat, x \in Nat, o \in Nat :
        o <= h /\ o <= x
          => SubSeq(Bytes(h - o, x), o + 1, Len(Bytes(h - o, x))) = Bytes(h, x - o)
<1> TAKE h \in Nat, x \in Nat, o \in Nat
<1>0. HAVE o <= h /\ o <= x
<1>1. Len(Bytes(h - o, x)) = x
  <2>1. h - o \in Nat
    BY <1>0
  <2> QED BY <2>1, BytesType
<1>2. PICK n \in Nat : n = x - o /\ o + n = x
  BY <1>0
<1>3. SubSeq(Bytes(h - o, x), o + 1, o + n) = Bytes(h, n)
  <2>1. /\ h \in Nat /\ x \in Nat /\ o \in Nat /\ n \in Nat
        /\ o <= h /\ o + n <= x
    BY <1>0, <1>2
  <2> QED BY <2>1, BytesPiece, ZenonT(40)
<1> QED BY <1>1, <1>2, <1>3

(* Three sequences between two others.                                     *)
LEMMA FrontRegroup ==
    ASSUME NEW S, NEW a \in Seq(S), NEW b \in Seq(S), NEW c \in Seq(S), NEW d \in Seq(S),
           NEW e \in Seq(S)
    PROVE  (((a \o b) \o c) \o d) \o e = (a \o ((b \o c) \o d)) \o e
OBVIOUS

(* What the reader has been given and what its context still holds: the    *)
(* context holds the bytes of one frame, from the offset of the cursor     *)
(* before the reader's place in the stream on.                             *)
LEMMA ReadBytes ==
    ASSUME DInv, NEW p \in Peers, ~Broken(p)
    PROVE  \E h, o, m, e :
               /\ h \in Nat /\ o \in Nat /\ m \in Nat /\ e \in Nat
               /\ got[Other(p)] = Bytes(0, h)
               /\ o = IF ctx[Other(p)].info.valid THEN ctx[Other(p)].info.offset ELSE 0
               /\ o <= h /\ o <= m /\ e = h - o + m /\ e = Edge(p)
               /\ FlattenSeq(Payloads(ctx[Other(p)].list)) = Bytes(h - o, m)
<1> DEFINE q == Other(p)  c == ctx[q]  g == got[q]
           F(s) == FlattenSeq(Payloads(s))
           partial == IF c.info.valid THEN c.info.offset ELSE 0
<1>1. /\ IInv /\ TypeOK /\ q \in Peers /\ Stream(p) /\ PeerInv(p) /\ PeerInv(q)
  BY OtherPeer DEF DInv, IInv
<1>2. /\ c \in RecvContext /\ Cursor(c) /\ Reader(c, g) /\ g \in Seq(Nat) /\ Len(g) \in Nat
      /\ Queue(p) \in Seq(Frame) /\ hand[p] \in Seq(Frame)
      /\ sent[p] \in Nat /\ pend[p] \in Nat /\ Len(buf[p]) \in Nat
  BY <1>1, Types DEF Stream, Reads, PeerInv
<1>3. c.list \in Seq(Frame) /\ c.info.offset \in Nat /\ Len(c.info.data) \in Nat
  BY <1>2, LenProperties DEF RecvContext, RecvInfo
<1>4. \E h \in Nat, o \in Nat, m \in Nat, e \in Nat :
          /\ h = Len(g) /\ g = Bytes(0, h) /\ partial = o
          /\ o <= h /\ o <= m /\ e = h - o + m /\ e = Edge(p)
          /\ F(c.list) = Bytes(h - o, m)
  <2>1. CASE c.info.valid
    <3>1. /\ Len(c.list) = 1 /\ c.list[1].data = c.info.data
          /\ c.info.offset < Len(c.info.data) /\ c.info.offset <= Len(g)
          /\ c.info.data = Bytes(Len(g) - c.info.offset, Len(c.info.data))
      BY <2>1, <1>2 DEF Cursor, Reader
    <3>2. F(c.list) = c.info.data
      BY <3>1, <1>3, OneFlattened
    <3>3. Edge(p) = Len(g) + Len(c.info.data) - c.info.offset
      BY <2>1 DEF Edge, Consumed
    <3>4. PICK h \in Nat, o \in Nat, m \in Nat :
              h = Len(g) /\ o = c.info.offset /\ m = Len(c.info.data)
      BY <1>2, <1>3
    <3>5. o <= h /\ o <= m /\ Edge(p) = h + m - o
      BY <3>1, <3>3, <3>4
    <3>6. h + m - o = h - o + m /\ h - o + m \in Nat
      BY <3>5
    <3>7. F(c.list) = Bytes(h - o, m) /\ g = Bytes(0, h) /\ partial = o
      BY <3>1, <3>2, <3>4, <2>1, <1>2 DEF Reader
    <3> QED BY <3>4, <3>5, <3>6, <3>7
  <2>2. CASE ~c.info.valid
    <3>1. c.list = <<>> /\ Edge(p) = Len(g) /\ F(c.list) = <<>>
      BY <2>2, <1>2, <1>3, OneFlattened DEF Cursor, Edge, Consumed
    <3>2. PICK h \in Nat : h = Len(g)
      BY <1>2
    <3>3. h - 0 = h /\ h = h - 0 + 0 /\ 0 <= h /\ Bytes(h, 0) = <<>>
      BY NoBytes
    <3>4. F(c.list) = Bytes(h - 0, 0) /\ g = Bytes(0, h) /\ partial = 0
      BY <3>1, <3>2, <3>3, <2>2, <1>2 DEF Reader
    <3> QED BY <3>1, <3>2, <3>3, <3>4
  <2> QED BY <2>1, <2>2
<1> QED BY <1>4

(* What waits between the sender and the reader's context, piece by piece: *)
(* the queues, the frame being handed over, the send buffer and the rest   *)
(* of the current send.                                                    *)
LEMMA WaitingBytes ==
    ASSUME DInv, NEW p \in Peers, ~Broken(p), NEW e \in Nat, e = Edge(p)
    PROVE  \E k, l, n, r :
               /\ k \in Nat /\ l \in Nat /\ n \in Nat /\ r \in Nat
               /\ FlattenSeq(Payloads(Queue(p))) = Bytes(e, k)
               /\ FlattenSeq(Payloads(hand[p])) = Bytes(e + k, l)
               /\ (IF hand[p] = <<>> THEN buf[p] ELSE <<>>) = Bytes(e + k + l, n)
               /\ Bytes(sent[p] - pend[p], pend[p]) = Bytes(e + k + l + n, r)
               /\ sent[p] = e + k + l + n + r
<1> DEFINE q == Other(p)  c == ctx[q]  g == got[q]
           F(s) == FlattenSeq(Payloads(s))
           held == IF hand[p] = <<>> THEN buf[p] ELSE <<>>
           rest == Bytes(sent[p] - pend[p], pend[p])
<1>1. /\ IInv /\ TypeOK /\ q \in Peers /\ Stream(p) /\ PeerInv(p) /\ PeerInv(q)
  BY OtherPeer DEF DInv, IInv
<1>2. /\ c \in RecvContext /\ Cursor(c) /\ Reader(c, g) /\ g \in Seq(Nat) /\ Len(g) \in Nat
      /\ Queue(p) \in Seq(Frame) /\ hand[p] \in Seq(Frame)
      /\ sent[p] \in Nat /\ pend[p] \in Nat /\ Len(buf[p]) \in Nat
  BY <1>1, Types DEF Stream, Reads, PeerInv
<1>3. c.list \in Seq(Frame) /\ c.info.offset \in Nat /\ Len(c.info.data) \in Nat
  BY <1>2, LenProperties DEF RecvContext, RecvInfo
<1>4. CASE hand[p] = <<>>
  <2>1. /\ Chain(Queue(p), e, sent[p] - Len(buf[p])) /\ pend[p] = 0
        /\ buf[p] = Bytes(sent[p] - Len(buf[p]), Len(buf[p]))
    BY <1>4, <1>1, HandFacts DEF Stream, AtRest
  <2>2. PICK k \in Nat, n \in Nat : k = sent[p] - Len(buf[p]) - e /\ n = Len(buf[p])
    <3>1. e <= sent[p] - Len(buf[p])
      BY <2>1 DEF Chain
    <3>2. PICK x \in Int : x = sent[p] - Len(buf[p])
      BY <1>2
    <3>3. x - e \in Nat
      BY <3>1, <3>2
    <3> QED BY <3>2, <3>3, <1>2
  <2>3. F(Queue(p)) = Bytes(e, k)
    BY <2>1, <2>2, <1>2, ChainFlattened
  <2>4. F(hand[p]) = Bytes(e + k, 0)
    <3>1. F(hand[p]) = <<>>
      BY <1>4, <1>2, OneFlattened
    <3>2. e + k \in Nat
      OBVIOUS
    <3> QED BY <3>1, <3>2, NoBytes
  <2>5. e + k + 0 = sent[p] - Len(buf[p]) /\ sent[p] = e + k + 0 + n + 0
    <3>1. PICK s \in Nat : s = sent[p]
      BY <1>2
    <3>2. k = s - n - e
      BY <2>2, <3>1
    <3>3. e + k + 0 = s - n /\ s = e + k + 0 + n + 0
      BY <3>2
    <3> QED BY <2>2, <3>1, <3>3
  <2>6. held = Bytes(e + k + 0, n)
    BY <1>4, <2>1, <2>2, <2>5
  <2>7. rest = Bytes(e + k + 0 + n, 0)
    BY <2>1, <2>5, <1>2
  <2> WITNESS k, 0, n, 0
  <2> QED BY <2>3, <2>4, <2>5, <2>6, <2>7
<1>5. CASE hand[p] # <<>>
  <2>1. Len(hand[p]) = 1 /\ hand[p][1] \in Frame
    BY <1>5, <1>1, HandFacts
  <2>2. PICK f \in Frame : f = hand[p][1]
    BY <2>1
  <2>3. /\ Chain(Queue(p), e, sent[p] - pend[p] - Len(f.data))
        /\ f.data = Bytes(sent[p] - pend[p] - Len(f.data), Len(f.data))
        /\ Len(f.data) \in Nat
    BY <1>5, <2>2, <1>1, FrameFacts DEF Stream, HandingOver
  <2>4. PICK k \in Nat, l \in Nat :
            k = sent[p] - pend[p] - Len(f.data) - e /\ l = Len(f.data)
    <3>1. e <= sent[p] - pend[p] - Len(f.data)
      BY <2>3 DEF Chain
    <3>2. PICK x \in Int : x = sent[p] - pend[p] - Len(f.data)
      BY <2>3, <1>2
    <3>3. x - e \in Nat
      BY <3>1, <3>2
    <3> QED BY <3>2, <3>3, <2>3
  <2>5. F(Queue(p)) = Bytes(e, k)
    BY <2>3, <2>4, <1>2, ChainFlattened
  <2>6. /\ e + k = sent[p] - pend[p] - Len(f.data)
        /\ e + k + l + 0 = sent[p] - pend[p] /\ e + k + l + 0 \in Nat
        /\ sent[p] = e + k + l + 0 + pend[p] /\ e + k + l \in Nat
    <3>1. PICK s \in Nat, r \in Nat, n \in Nat :
              s = sent[p] /\ r = pend[p] /\ n = Len(f.data)
      BY <1>2, <2>3
    <3>2. k = s - r - n - e /\ l = n
      BY <3>1, <2>4
    <3>3. e + k = s - r - n
      BY <3>2
    <3>4. e + k + l + 0 = s - r
      BY <3>2, <3>3
    <3>5. e + k + l + 0 \in Nat /\ e + k + l \in Nat
      OBVIOUS
    <3>6. s = e + k + l + 0 + r
      BY <3>4, <3>5
    <3> QED BY <3>1, <3>3, <3>4, <3>5, <3>6
  <2>7. F(hand[p]) = Bytes(e + k, l)
    BY <2>1, <2>2, <2>3, <2>4, <2>6, <1>2, OneFlattened
  <2>8. held = Bytes(e + k + l, 0)
    BY <1>5, <2>6, NoBytes
  <2>9. rest = Bytes(e + k + l + 0, pend[p])
    BY <2>6
  <2> WITNESS k, l, 0, pend[p]
  <2> QED BY <2>5, <2>6, <2>7, <2>8, <2>9, <1>2
<1> QED BY <1>4, <1>5
(* No byte is lost, repeated or reordered anywhere between the two         *)
(* protocols: what the reader has been given, the payloads under way, the  *)
(* send buffer and the rest of the current send are, one after the other,  *)
(* exactly the bytes handed over.                                          *)
LEMMA AllBytesThere ==
    ASSUME DInv, NEW p \in Peers, ~Broken(p)
    PROVE  LET info    == ctx[Other(p)].info
               unread  == FlattenSeq(Payloads(InFlight(p)))
               partial == IF info.valid THEN info.offset ELSE 0
               held    == IF hand[p] = <<>> THEN buf[p] ELSE <<>>
           IN  got[Other(p)] \o SubSeq(unread, partial + 1, Len(unread)) \o held
                 \o Bytes(sent[p] - pend[p], pend[p])
               = Bytes(0, sent[p])
<1> DEFINE q == Other(p)  c == ctx[q]  g == got[q]
           F(s) == FlattenSeq(Payloads(s))
           unread == F(InFlight(p))
           partial == IF c.info.valid THEN c.info.offset ELSE 0
           held == IF hand[p] = <<>> THEN buf[p] ELSE <<>>
           rest == Bytes(sent[p] - pend[p], pend[p])
<1>1. /\ IInv /\ TypeOK /\ q \in Peers /\ Stream(p) /\ PeerInv(p) /\ PeerInv(q)
  BY OtherPeer DEF DInv, IInv
<1>2. /\ c \in RecvContext /\ Cursor(c) /\ Reader(c, g) /\ g \in Seq(Nat) /\ Len(g) \in Nat
      /\ Queue(p) \in Seq(Frame) /\ hand[p] \in Seq(Frame)
      /\ sent[p] \in Nat /\ pend[p] \in Nat /\ Len(buf[p]) \in Nat
  BY <1>1, Types DEF Stream, Reads, PeerInv
<1>3. c.list \in Seq(Frame) /\ c.info.offset \in Nat /\ Len(c.info.data) \in Nat
  BY <1>2, LenProperties DEF RecvContext, RecvInfo
<1>4. InFlight(p) = (c.list \o Queue(p)) \o hand[p]
  <2>1. PICK x \in Seq(Frame), y1 \in Seq(Frame), y2 \in Seq(Frame), y3 \in Seq(Frame),
             z \in Seq(Frame) :
            x = c.list /\ y1 = wire[p] /\ y2 = fhold[p] /\ y3 = flushq[p] /\ z = hand[p]
    <3>1. /\ wire[p] \in Seq(Frame) /\ fhold[p] \in Seq(Frame) /\ flushq[p] \in Seq(Frame)
      BY <1>1, Types
    <3> QED BY <3>1, <1>2, <1>3
  <2>2. (((x \o y1) \o y2) \o y3) \o z = (x \o ((y1 \o y2) \o y3)) \o z
    OBVIOUS
  <2> QED BY <2>1, <2>2 DEF InFlight, Queue
<1>5. unread = (F(c.list) \o F(Queue(p))) \o F(hand[p])
  <2>1. PICK x \in Seq(Frame), y \in Seq(Frame), z \in Seq(Frame) :
            x = c.list /\ y = Queue(p) /\ z = hand[p]
    BY <1>2, <1>3
  <2>2. F((x \o y) \o z) = (F(x) \o F(y)) \o F(z)
    BY PartsFlattened
  <2> QED BY <2>1, <2>2, <1>4
<1>6. PICK h, o, m, e :
          /\ h \in Nat /\ o \in Nat /\ m \in Nat /\ e \in Nat
          /\ g = Bytes(0, h) /\ o = partial
          /\ o <= h /\ o <= m /\ e = h - o + m /\ e = Edge(p)
          /\ F(c.list) = Bytes(h - o, m)
  BY ReadBytes
<1>7. PICK k, l, n, r :
          /\ k \in Nat /\ l \in Nat /\ n \in Nat /\ r \in Nat
          /\ F(Queue(p)) = Bytes(e, k) /\ F(hand[p]) = Bytes(e + k, l)
          /\ held = Bytes(e + k + l, n) /\ rest = Bytes(e + k + l + n, r)
          /\ sent[p] = e + k + l + n + r
  <2>1. e \in Nat /\ e = Edge(p)
    BY <1>6
  <2> QED BY <2>1, WaitingBytes
<1> HIDE DEF F, unread, partial, held, rest, q, c, g
<1>8. ((Bytes(0, h) \o SubSeq(unread, o + 1, Len(unread)))
          \o Bytes(e + k + l, n)) \o Bytes(e + k + l + n, r)
        = Bytes(0, e + k + l + n + r)
  <2>1. /\ h \in Nat /\ o \in Nat /\ m \in Nat /\ e \in Nat
        /\ k \in Nat /\ l \in Nat /\ n \in Nat /\ r \in Nat
        /\ o <= h /\ o <= m /\ e = h - o + m
    BY <1>6, <1>7
  <2>2. PICK a, x, y :
            /\ a \in Nat /\ x \in Nat /\ y \in Nat
            /\ a = h - o /\ x = m + k + l /\ y = x - o /\ o <= x
            /\ e = a + m /\ h + y = e + k + l
    BY <2>1
  <2>3. unread = Bytes(a, x)
    <3>1. a \in Nat /\ m \in Nat /\ k \in Nat /\ l \in Nat
      BY <2>1, <2>2
    <3>2. PICK j : j \in Nat /\ j = m + k /\ x = j + l /\ e + k = a + j
      BY <3>1, <2>2
    <3>3. Bytes(a, m) \o Bytes(a + m, k) = Bytes(a, m + k)
      <4>1. a \in Nat /\ m \in Nat /\ k \in Nat
        BY <3>1
      <4> QED BY <4>1, BytesConcat, Zenon
    <3>4. Bytes(a, j) \o Bytes(a + j, l) = Bytes(a, j + l)
      <4>1. a \in Nat /\ j \in Nat /\ l \in Nat
        BY <3>1, <3>2
      <4> QED BY <4>1, BytesConcat, Zenon
    <3>5. unread = (Bytes(a, m) \o Bytes(a + m, k)) \o Bytes(a + j, l)
      BY <2>2, <3>2, <1>5, <1>6, <1>7, Zenon
    <3> QED BY <3>2, <3>3, <3>4, <3>5, Zenon
  <2>4. SubSeq(unread, o + 1, Len(unread)) = Bytes(h, y)
    <3>1. h \in Nat /\ x \in Nat /\ o \in Nat /\ o <= h /\ o <= x
      BY <2>1, <2>2
    <3>2. SubSeq(Bytes(h - o, x), o + 1, Len(Bytes(h - o, x))) = Bytes(h, x - o)
      BY <3>1, RestOfPiece, Zenon
    <3> QED BY <3>2, <2>2, <2>3, Zenon
  <2>5. PICK z, w : z \in Nat /\ w \in Nat /\ z = h + y /\ w = z + n
    BY <2>1, <2>2
  <2>6. /\ Bytes(0, h) \o Bytes(h, y) = Bytes(0, z)
        /\ Bytes(0, z) \o Bytes(z, n) = Bytes(0, w)
        /\ Bytes(0, w) \o Bytes(w, r) = Bytes(0, w + r)
    <3>1. h \in Nat /\ y \in Nat /\ z \in Nat /\ n \in Nat /\ w \in Nat /\ r \in Nat
      BY <2>1, <2>2, <2>5
    <3> QED BY <3>1, <2>5, PrefixConcat, Zenon
  <2> QED BY <2>2, <2>4, <2>5, <2>6, Zenon
<1>9. ((g \o SubSeq(unread, partial + 1, Len(unread))) \o held) \o rest = Bytes(0, sent[p])
  BY <1>6, <1>7, <1>8
<1> QED BY <1>9 DEF F, unread, partial, held, rest, q, c, g

(* Nothing the protocols hand over is lost, repeated or reordered on its   *)
(* way, whatever the programs, the capacities and the interleaving.        *)
THEOREM NoByteIsLost == Spec => []NoByteLost
<1>1. DInv => NoByteLost
  BY AllBytesThere DEF NoByteLost, Payloads
<1> QED BY <1>1, StreamsAreKept, PTL
-----------------------------------------------------------------------------
(***************************************************************************)
(* THE END OF A CONNECTION.  A peer whose protocol is over closes the      *)
(* socket, whatever the other one has still to send.  When the two         *)
(* programs agree on the bytes they exchange, the peer that ends first has *)
(* been given everything that the other one will ever hand over, so that   *)
(* nothing is left in a send buffer whose flush fails.                     *)
(***************************************************************************)

(* The function that Amount is defined with: the bytes of the last calls.  *)
Weight(kind, call) == IF call.op = kind THEN call.n ELSE 0

IsAmount(f, kind, calls) ==
    f = [k \in 0..Len(calls) |->
            IF k = 0 THEN 0 ELSE f[k - 1] + Weight(kind, calls[Len(calls) + 1 - k])]

(* These are running sums ...                                              *)
Weights(kind, calls) ==
    [k \in 1..Len(calls) |-> Weight(kind, calls[Len(calls) + 1 - k])]

LEMMA AmountSum ==
    ASSUME NEW kind, NEW calls \in Seq(Op)
    PROVE  \A f : IsAmount(f, kind, calls) <=> IsRunningSum(f, Weights(kind, calls), Len(calls))
<1>1. PICK w : w = Weights(kind, calls)
  OBVIOUS
<1>2. \A k \in 1..Len(calls) : w[k] = Weight(kind, calls[Len(calls) + 1 - k])
  BY <1>1 DEF Weights
<1>3. Len(calls) \in Nat
  BY LenProperties
<1> SUFFICES ASSUME NEW f
             PROVE  IsAmount(f, kind, calls) <=> IsRunningSum(f, w, Len(calls))
  BY <1>1
<1>4. \A k \in 0..Len(calls) :
          (IF k = 0 THEN 0 ELSE f[k - 1] + w[k])
            = (IF k = 0 THEN 0 ELSE f[k - 1] + Weight(kind, calls[Len(calls) + 1 - k]))
  BY <1>2, <1>3
<1> QED BY <1>4 DEF IsAmount, IsRunningSum

(* ... so there are such functions ...                                     *)
LEMMA AmountExists ==
    ASSUME NEW kind, NEW calls \in Seq(Op)
    PROVE  \E f : IsAmount(f, kind, calls)
<1>1. PICK f : IsRunningSum(f, Weights(kind, calls), Len(calls))
  BY LenProperties, RunningSumExists
<1> QED BY <1>1, AmountSum

(* ... and Amount is its last value.                                       *)
LEMMA AmountDef ==
    ASSUME NEW kind, NEW calls \in Seq(Op)
    PROVE  \E f : IsAmount(f, kind, calls) /\ Amount(kind, calls) = f[Len(calls)]
<1> DEFINE f == CHOOSE g : IsAmount(g, kind, calls)
<1>1. IsAmount(f, kind, calls)
  BY AmountExists
<1>2. Amount(kind, calls) = f[Len(calls)]
  BY DEF Amount, IsAmount, Weight
<1> HIDE DEF f
<1> QED BY <1>1, <1>2

LEMMA WeightType ==
    ASSUME NEW call \in Op, NEW kind
    PROVE  Weight(kind, call) \in Nat
<1>1. call.n \in Nat
  BY DEF Op
<1> QED BY <1>1 DEF Weight

LEMMA AmountStep ==
    ASSUME NEW kind, NEW calls \in Seq(Op), NEW f, IsAmount(f, kind, calls)
    PROVE  /\ f[0] = 0
           /\ \A k \in 1..Len(calls) :
                  f[k] = f[k - 1] + Weight(kind, calls[Len(calls) + 1 - k])
           /\ \A k \in 0..Len(calls) : f[k] \in Nat
<1>1. PICK n \in Nat : n = Len(calls)
  BY LenProperties
<1>2. PICK w : w = Weights(kind, calls)
  OBVIOUS
<1>3. \A k \in 1..n : w[k] = Weight(kind, calls[Len(calls) + 1 - k])
  BY <1>1, <1>2 DEF Weights
<1>4. ASSUME NEW k \in 1..n PROVE w[k] \in Nat
  <2>1. Len(calls) + 1 - k \in 1..Len(calls)
    BY <1>1
  <2>2. calls[Len(calls) + 1 - k] \in Op
    BY <2>1, ElementOfSeq
  <2> QED BY <1>3, <2>2, WeightType
<1>5. IsRunningSum(f, w, n)
  BY <1>1, <1>2, AmountSum
<1>6. /\ f[0] = 0
      /\ \A k \in 1..n : f[k] = f[k - 1] + w[k]
      /\ \A k \in 0..n : f[k] \in Nat
  BY <1>4, <1>5, RunningSumStep
<1> QED BY <1>1, <1>3, <1>6

(* What the calls of a program move: the first one, and the rest.          *)
LEMMA AmountFacts ==
    ASSUME NEW kind, NEW calls \in Seq(Op)
    PROVE  /\ Amount(kind, calls) \in Nat
           /\ calls = <<>> => Amount(kind, calls) = 0
           /\ calls # <<>> => Amount(kind, calls)
                                = Amount(kind, Tail(calls)) + Weight(kind, Head(calls))
<1>1. PICK f : IsAmount(f, kind, calls) /\ Amount(kind, calls) = f[Len(calls)]
  BY AmountDef
<1>2. /\ f[0] = 0
      /\ \A k \in 1..Len(calls) : f[k] = f[k - 1] + Weight(kind, calls[Len(calls) + 1 - k])
      /\ \A k \in 0..Len(calls) : f[k] \in Nat
  BY <1>1, AmountStep
<1>3. Len(calls) \in Nat
  BY LenProperties
<1>4. Amount(kind, calls) \in Nat
  <2>1. Len(calls) \in 0..Len(calls)
    BY <1>3
  <2> QED BY <2>1, <1>1, <1>2
<1>5. ASSUME calls = <<>> PROVE Amount(kind, calls) = 0
  <2>1. Len(calls) = 0
    BY <1>5
  <2> QED BY <2>1, <1>1, <1>2
<1>6. ASSUME calls # <<>>
      PROVE  Amount(kind, calls) = Amount(kind, Tail(calls)) + Weight(kind, Head(calls))
  <2>1. /\ Tail(calls) \in Seq(Op) /\ Len(Tail(calls)) = Len(calls) - 1
        /\ Head(calls) = calls[1] /\ Len(calls) # 0
        /\ \A i \in 1..Len(Tail(calls)) : Tail(calls)[i] = calls[i + 1]
    BY <1>6, HeadTailProperties, EmptySeq
  <2>2. PICK n \in Nat : n = Len(Tail(calls)) /\ Len(calls) = n + 1
    <3>1. Len(Tail(calls)) \in Nat /\ Len(calls) = Len(Tail(calls)) + 1
      BY <2>1, <1>3
    <3> QED BY <3>1
  <2>3. PICK g : IsAmount(g, kind, Tail(calls)) /\ Amount(kind, Tail(calls)) = g[n]
    BY <2>1, <2>2, AmountDef
  <2>4. /\ g[0] = 0
        /\ \A k \in 1..n : g[k] = g[k - 1] + Weight(kind, Tail(calls)[n + 1 - k])
    <3>1. PICK t \in Seq(Op) : t = Tail(calls)
      BY <2>1
    <3>2. IsAmount(g, kind, t) /\ Len(t) = n
      BY <3>1, <2>2, <2>3
    <3>3. /\ g[0] = 0
          /\ \A k \in 1..Len(t) : g[k] = g[k - 1] + Weight(kind, t[Len(t) + 1 - k])
          /\ \A k \in 0..Len(t) : g[k] \in Nat
      BY <3>2, AmountStep, Zenon
    <3> QED BY <3>1, <3>2, <3>3
  <2> DEFINE T == {k \in Nat : k \in 0..n => g[k] = f[k]}
  <2>5. 0 \in T
    BY <2>4, <1>2
  <2>6. ASSUME NEW k \in T PROVE k + 1 \in T
    <3> SUFFICES ASSUME k + 1 \in 0..n PROVE g[k + 1] = f[k + 1]
      OBVIOUS
    <3>1. /\ k \in 0..n /\ k + 1 \in 1..n /\ k + 1 \in 1..(n + 1) /\ (k + 1) - 1 = k
          /\ g[k] = f[k]
      OBVIOUS
    <3>2. n + 1 - (k + 1) \in 1..n /\ (n + 1 - (k + 1)) + 1 = (n + 1) + 1 - (k + 1)
      BY <3>1
    <3>3. Tail(calls)[n + 1 - (k + 1)] = calls[(n + 1) + 1 - (k + 1)]
      BY <3>2, <2>1, <2>2
    <3>4. g[k + 1] = g[k] + Weight(kind, Tail(calls)[n + 1 - (k + 1)])
      BY <3>1, <2>4
    <3>5. f[k + 1] = f[k] + Weight(kind, calls[(n + 1) + 1 - (k + 1)])
      BY <3>1, <1>2, <2>2
    <3> QED BY <3>1, <3>3, <3>4, <3>5
  <2>7. T = Nat
    <3> HIDE DEF T
    <3>1. T \in SUBSET Nat
      BY DEF T
    <3> QED BY <3>1, <2>5, <2>6, InductiveSet
  <2>8. g[n] = f[n]
    BY <2>7
  <2>9. f[n + 1] = f[n] + Weight(kind, calls[1])
    <3>1. n + 1 \in 1..(n + 1) /\ (n + 1) - 1 = n /\ (n + 1) + 1 - (n + 1) = 1
      OBVIOUS
    <3> QED BY <3>1, <1>2, <2>2
  <2> QED BY <2>1, <2>2, <2>3, <2>8, <2>9, <1>1
<1> QED BY <1>4, <1>5, <1>6
-----------------------------------------------------------------------------
(* What p's protocol has handed over or will, and what q's has been given, *)
(* is waiting for or will ask for.                                         *)
Sends(p) == sent[p] + Amount("send", prog[p])

Gets(q) == Len(got[q]) + want[q] + Amount("recv", prog[q])

(* As long as p lives, its peer will have been given all that p sends.     *)
Agreed(p) == ~lost /\ pc[p] # "done" => Sends(p) <= Gets(Other(p))

(* The last flush has nothing behind it, and leaves an empty buffer.       *)
Ending(p) ==
    /\ pc[p] = "done" \/ (pc[p] = "put" /\ cont[p] = "done") =>
           prog[p] = <<>> /\ pend[p] = 0
    /\ ~lost /\ pc[p] = "done" => buf[p] = <<>>

CInv == DInv /\ \A p \in Peers : Agreed(p) /\ Ending(p)

LEMMA SidesType ==
    ASSUME TypeOK, NEW p \in Peers
    PROVE  Sends(p) \in Nat /\ Gets(p) \in Nat
<1>1. /\ sent[p] \in Nat /\ want[p] \in Nat /\ Len(got[p]) \in Nat
      /\ prog[p] \in Seq(Op)
  BY LenProperties DEF TypeOK
<1>2. Amount("send", prog[p]) \in Nat /\ Amount("recv", prog[p]) \in Nat
  BY <1>1, AmountFacts
<1>3. Sends(p) \in Nat
  BY <1>1, <1>2 DEF Sends
<1>4. Gets(p) \in Nat
  BY <1>1, <1>2 DEF Gets
<1> QED BY <1>3, <1>4

(* What the other peer's step leaves alone.                                *)
Apart(q) ==
    /\ prog'[q] = prog[q] /\ pc'[q] = pc[q] /\ cont'[q] = cont[q] /\ sent'[q] = sent[q]
    /\ buf'[q] = buf[q] /\ pend'[q] = pend[q] /\ got'[q] = got[q] /\ want'[q] = want[q]

(* What a step of p has to show.                                           *)
Ahead(p) ==
    /\ Apart(Other(p)) /\ lost' = lost
    /\ pc[p] # "done"
    /\ Sends(p)' <= Sends(p)
    /\ ~Broken(p) => Gets(p)' >= Gets(p)
    /\ Ending(p)'

LEMMA GoesAhead ==
    ASSUME CInv, NEW p \in Peers, Ahead(p), TypeOK'
    PROVE  \A q \in Peers : Agreed(q)' /\ Ending(q)'
<1> DEFINE q == Other(p)
<1>1. /\ q \in Peers /\ q # p /\ Other(q) = p
      /\ \A r \in Peers : r = p \/ r = q
  BY OtherPeer
<1>2. Apart(q) /\ lost' = lost /\ pc[p] # "done" /\ TypeOK
  BY DEF Ahead, CInv, DInv, IInv
<1> HIDE DEF q
<1>3. Sends(q)' = Sends(q) /\ Gets(q)' = Gets(q)
  BY <1>2 DEF Apart, Sends, Gets
<1>4. /\ Sends(p) \in Nat /\ Sends(q) \in Nat /\ Gets(p) \in Nat /\ Gets(q) \in Nat
      /\ Sends(p)' \in Nat /\ Gets(p)' \in Nat
  <2>1. Sends(p) \in Nat /\ Sends(q) \in Nat /\ Gets(p) \in Nat /\ Gets(q) \in Nat
    BY <1>1, <1>2, SidesType
  <2>2. sent'[p] \in Nat /\ want'[p] \in Nat /\ got'[p] \in Seq(Nat) /\ prog'[p] \in Seq(Op)
    BY DEF TypeOK
  <2>3. Amount("send", prog'[p]) \in Nat /\ Amount("recv", prog'[p]) \in Nat
    BY <2>2, AmountFacts
  <2>4. Len(got'[p]) \in Nat
    BY <2>2, LenProperties
  <2>5. Sends(p)' \in Nat
    <3>1. Sends(p)' = sent'[p] + Amount("send", prog'[p])
      BY DEF Sends
    <3> QED BY <3>1, <2>2, <2>3
  <2>6. Gets(p)' \in Nat
    <3>1. Gets(p)' = Len(got'[p]) + want'[p] + Amount("recv", prog'[p])
      BY DEF Gets
    <3> QED BY <3>1, <2>2, <2>3, <2>4
  <2> QED BY <2>1, <2>5, <2>6
<1>5. Agreed(p)'
  <2> SUFFICES ASSUME ~lost', pc'[p] # "done" PROVE Sends(p)' <= Gets(q)'
    BY <1>1 DEF Agreed, q
  <2>1. Sends(p) <= Gets(q)
    BY <1>2 DEF CInv, Agreed, q
  <2>2. Sends(p)' <= Sends(p)
    BY DEF Ahead
  <2> QED BY <2>1, <2>2, <1>3, <1>4
<1>6. Agreed(q)'
  <2> SUFFICES ASSUME ~lost', pc'[q] # "done" PROVE Sends(q)' <= Gets(p)'
    BY <1>1 DEF Agreed
  <2>1. ~lost /\ pc[q] # "done"
    BY <1>2 DEF Apart
  <2>2. Sends(q) <= Gets(p)
    BY <2>1, <1>1 DEF CInv, Agreed
  <2>3. Gets(p)' >= Gets(p)
    BY <2>1 DEF Ahead, Broken, q
  <2> QED BY <2>2, <2>3, <1>3, <1>4
<1>7. Ending(q)'
  BY <1>1, <1>2 DEF CInv, Ending, Apart
<1>8. Ending(p)'
  BY DEF Ahead
<1> QED BY <1>1, <1>5, <1>6, <1>7, <1>8
-----------------------------------------------------------------------------
(* A step that neither sends nor ends the protocol, and asks as before.    *)
LEMMA AsBefore ==
    ASSUME CInv, NEW p \in Peers, Apart(Other(p)), lost' = lost,
           pc[p] # "done", pc[p] # "put", pc'[p] # "done", pc'[p] # "put",
           Sends(p)' <= Sends(p), ~Broken(p) => Gets(p)' >= Gets(p)
    PROVE  Ahead(p)
BY DEF Ahead, Ending

(* Where a return from a call leaves the two amounts.                      *)
LEMMA ReturnAmounts ==
    ASSUME TypeOK, NEW p \in Peers, prog[p] # <<>>, Return(p), NEW kind
    PROVE  /\ Head(prog[p]) \in Op /\ prog'[p] \in Seq(Op) /\ prog'[p] = Tail(prog[p])
           /\ prog'[Other(p)] = prog[Other(p)]
           /\ Amount(kind, prog[p]) \in Nat /\ Amount(kind, prog'[p]) \in Nat
           /\ Amount(kind, prog[p]) = Amount(kind, prog'[p]) + Weight(kind, Head(prog[p]))
<1>1. prog \in [Peers -> Seq(Op)] /\ prog[p] \in Seq(Op) /\ Other(p) \in Peers /\ Other(p) # p
  BY OtherPeer DEF TypeOK
<1>2. /\ Head(prog[p]) \in Op /\ Tail(prog[p]) \in Seq(Op)
  BY <1>1, HeadTailProperties, EmptySeq
<1>3. prog'[p] = Tail(prog[p]) /\ prog'[Other(p)] = prog[Other(p)]
  BY <1>1 DEF Return
<1>4. Amount(kind, prog[p]) = Amount(kind, Tail(prog[p])) + Weight(kind, Head(prog[p]))
  BY <1>1, AmountFacts
<1>5. Amount(kind, prog[p]) \in Nat /\ Amount(kind, Tail(prog[p])) \in Nat
  BY <1>1, <1>2, AmountFacts
<1> QED BY <1>1, <1>2, <1>3, <1>4, <1>5

(* The same bytes of a send, counted before and after.                     *)
LEMMA SendDataAhead ==
    ASSUME CInv, NEW p \in Peers, NEW n \in Nat, NEW k \in {"run", "spawn", "done"},
           SendData(p, n, k), pc[p] \in {"run", "join"}, lost' = lost,
           prog'[Other(p)] = prog[Other(p)], got' = got, want' = want,
           n + Amount("send", prog'[p]) <= Amount("send", prog[p]),
           Amount("recv", prog'[p]) = Amount("recv", prog[p]),
           Amount("send", prog'[p]) \in Nat,
           k = "done" => n = 0 /\ prog'[p] = <<>>
    PROVE  Ahead(p)
<1> DEFINE q == Other(p)
<1>1. q \in Peers /\ q # p /\ TypeOK /\ IInv
  BY OtherPeer DEF CInv, DInv, IInv
<1>2. SendTypes /\ hand[p] = <<>> /\ pend[p] = 0
  BY <1>1 DEF IInv, PeerInv, Threads, TypeOK, SendTypes
<1>3. SendTypes' /\ OthersKeep(p) /\ Sending(p, k)
  BY <1>2, SendDataEffect
<1>4. buf'[q] = buf[q]
  BY <1>1 DEF SendData, TypeOK
<1>5. Apart(q)
  BY <1>1, <1>3, <1>4 DEF Apart, OthersKeep
<1>6. Sends(p)' <= Sends(p)
  <2>1. sent'[p] = sent[p] + n
    BY <1>1 DEF SendData, TypeOK
  <2>2. sent[p] \in Nat /\ Amount("send", prog[p]) \in Nat
    BY <1>1, AmountFacts DEF TypeOK
  <2>3. sent'[p] + Amount("send", prog'[p]) <= sent[p] + Amount("send", prog[p])
    BY <2>1, <2>2
  <2> QED BY <2>3 DEF Sends
<1>7. Gets(p)' >= Gets(p)
  <2>1. Gets(p)' = Gets(p)
    BY DEF Gets
  <2>2. Gets(p) \in Nat
    BY <1>1, SidesType
  <2> QED BY <2>1, <2>2
<1>8. Ending(p)'
  <2>1. pc'[p] = "done" \/ (pc'[p] = "put" /\ cont'[p] = "done") => k = "done"
    BY <1>3 DEF Sending
  <2>2. ASSUME k = "done" PROVE /\ prog'[p] = <<>> /\ pend'[p] = 0
                                /\ pc'[p] = "done" => buf'[p] = <<>>
    <3>1. n = 0
      BY <2>2
    <3>2. Empty(p)'
      BY <3>1, <1>1, SendDataHolds
    <3>3. pend'[p] = 0
      BY <3>2, <1>3 DEF Empty, Sending
    <3> QED BY <2>2, <3>2, <3>3 DEF Empty
  <2> QED BY <2>1, <2>2 DEF Ending
<1> QED BY <1>5, <1>6, <1>7, <1>8 DEF Ahead

(* The frame is handed over, and the rest of the call's bytes with it.     *)
LEMMA SendRestAhead ==
    ASSUME CInv, NEW p \in Peers, pc[p] = "put", SendRest(p),
           UNCHANGED <<prog, got, want, lost>>
    PROVE  Ahead(p)
<1> DEFINE q == Other(p)
<1>1. q \in Peers /\ q # p /\ TypeOK /\ IInv
  BY OtherPeer DEF CInv, DInv, IInv
<1>2. /\ SendTypes /\ pend[p] <= sent[p] /\ Ending(p)
      /\ pend[p] \in Nat /\ sent[p] \in Nat /\ cont[p] \in {"run", "spawn", "done"}
  BY <1>1 DEF CInv, IInv, PeerInv, Threads, TypeOK, SendTypes
<1>3. SendTypes' /\ OthersKeep(p) /\ Sending(p, cont[p])
  BY <1>2, SendRestEffect
<1>4. buf'[q] = buf[q] /\ sent' = sent
  BY <1>1 DEF SendRest, TypeOK
<1>5. Apart(q)
  BY <1>1, <1>3, <1>4 DEF Apart, OthersKeep
<1>6. Sends(p)' = Sends(p) /\ Gets(p)' = Gets(p)
  BY <1>4 DEF Sends, Gets
<1>7. Sends(p) \in Nat /\ Gets(p) \in Nat
  BY <1>1, SidesType
<1>8. Ending(p)'
  <2>1. pc'[p] = "done" \/ (pc'[p] = "put" /\ cont'[p] = "done") => cont[p] = "done"
    BY <1>2, <1>3 DEF Sending
  <2>2. ASSUME cont[p] = "done" PROVE /\ prog'[p] = <<>> /\ pend'[p] = 0
                                      /\ buf'[p] = <<>>
    <3>1. prog[p] = <<>> /\ pend[p] = 0
      BY <2>2, <1>2 DEF Ending
    <3>2. /\ buf' = [buf EXCEPT ![p] = Bytes(sent[p] - 0, 0)]
          /\ pend' = [pend EXCEPT ![p] = 0]
      BY <3>1 DEF SendRest
    <3>3. Bytes(sent[p] - 0, 0) = <<>>
      <4>1. sent[p] - 0 \in Nat
        BY <1>2
      <4> QED BY <4>1, NoBytes
    <3> QED BY <3>1, <3>2, <3>3, <1>1 DEF TypeOK
  <2> QED BY <2>1, <2>2 DEF Ending
<1> QED BY <1>5, <1>6, <1>7, <1>8 DEF Ahead
-----------------------------------------------------------------------------
(* A frame that fails while the connection is not lost fails because the   *)
(* other peer has ended; it has been given all there is.                   *)
LEMMA PeerHasAll ==
    ASSUME CInv, NEW p \in Peers, ~lost, pc[p] # "done", pc[Other(p)] = "done"
    PROVE  buf[p] = <<>> /\ pend[p] = 0
<1> DEFINE q == Other(p)
<1>1. q \in Peers /\ TypeOK /\ IInv /\ Cursor(ctx[q]) /\ Stream(p)
  BY OtherPeer DEF CInv, DInv, IInv, PeerInv
<1>2. sent[p] <= Len(got[q])
  <2>1. Sends(p) <= Gets(q)
    BY DEF CInv, Agreed
  <2>2. prog[q] = <<>> /\ want[q] = 0
    BY <1>1 DEF CInv, DInv, Ending, Asks
  <2>3. Amount("recv", prog[q]) = 0 /\ Amount("send", prog[p]) \in Nat
    BY <1>1, <2>2, AmountFacts DEF TypeOK
  <2>4. sent[p] \in Nat /\ Len(got[q]) \in Nat
    BY <1>1, Types
  <2> QED BY <2>1, <2>2, <2>3, <2>4 DEF Sends, Gets
<1>3. Len(got[q]) <= Edge(p) /\ Edge(p) <= Pushed(p) /\ Edge(p) \in Nat
  <2>1. ctx[q] \in RecvContext /\ got[q] \in Seq(Nat)
    BY <1>1, Types
  <2>2. Len(got[q]) <= Consumed(ctx[q], got[q])
    BY <2>1, <1>1, EdgeFacts DEF Stream, Reads
  <2>3. Edge(p) <= Pushed(p) /\ Edge(p) \in Nat
    BY <1>1, PushedBounds
  <2> QED BY <2>2, <2>3 DEF Edge
<1>4. /\ sent[p] \in Nat /\ Len(buf[p]) \in Nat /\ pend[p] \in Nat /\ Len(got[q]) \in Nat
      /\ buf[p] \in Seq(Nat)
  BY <1>1, Types
<1>5. sent[p] <= sent[p] - Len(buf[p]) - pend[p]
  BY <1>2, <1>3, <1>4 DEF Pushed
<1>6. Len(buf[p]) = 0 /\ pend[p] = 0
  BY <1>4, <1>5
<1> QED BY <1>4, <1>6, EmptySeq

LEMMA SendExFailsAhead ==
    ASSUME CInv, NEW p \in Peers, SendExFails(p)
    PROVE  Ahead(p)
<1> DEFINE q == Other(p)
<1>1. q \in Peers /\ q # p /\ TypeOK /\ Ending(p)
  BY OtherPeer DEF CInv, DInv, IInv
<1>2. /\ pc[p] = "put" /\ Broken(p) /\ UNCHANGED <<prog, sent, buf, cont, got, want, lost>>
      /\ pend' = [pend EXCEPT ![p] = 0] /\ pc' = [pc EXCEPT ![p] = cont[p]]
  BY DEF SendExFails, appVars, recvVars
<1>3. /\ pend'[p] = 0 /\ pc'[p] = cont[p] /\ cont[p] \in {"run", "spawn", "done"}
      /\ pend'[q] = pend[q] /\ pc'[q] = pc[q]
  BY <1>1, <1>2 DEF TypeOK
<1>4. Apart(q)
  BY <1>2, <1>3 DEF Apart
<1>5. Sends(p)' = Sends(p) /\ Gets(p)' = Gets(p)
  BY <1>2 DEF Sends, Gets
<1>6. Sends(p) \in Nat /\ Gets(p) \in Nat
  BY <1>1, SidesType
<1>7. Ending(p)'
  <2>1. ASSUME cont[p] = "done" PROVE prog'[p] = <<>>
    BY <1>1, <1>2, <2>1 DEF Ending
  <2>2. ASSUME ~lost PROVE buf'[p] = <<>>
    BY <2>2, <1>1, <1>2, PeerHasAll DEF Broken
  <2> QED BY <1>2, <1>3, <2>1, <2>2 DEF Ending
<1> QED BY <1>2, <1>4, <1>5, <1>6, <1>7 DEF Ahead
-----------------------------------------------------------------------------
(* Receiving.                                                              *)
LEMMA RecvAhead ==
    ASSUME CInv, NEW p \in Peers, Recv(p)
    PROVE  Ahead(p)
<1> DEFINE q == Other(p)
           n == Head(prog[p]).n
<1>1. q \in Peers /\ q # p /\ TypeOK /\ want[p] = 0
  BY OtherPeer DEF CInv, DInv, IInv, Asks, Recv, Calls
<1>2. /\ pc[p] = "run" /\ prog[p] # <<>> /\ Head(prog[p]).op = "recv" /\ Return(p)
      /\ want' = [want EXCEPT ![p] = n] /\ pc' = [pc EXCEPT ![p] = "recv"]
      /\ UNCHANGED <<sent, buf, pend, cont, got, lost>>
  BY DEF Recv, Calls, sendVars
<1>3. /\ Head(prog[p]) \in Op /\ prog'[q] = prog[q]
      /\ Amount("recv", prog'[p]) \in Nat
      /\ Amount("recv", prog[p]) = Amount("recv", prog'[p]) + Weight("recv", Head(prog[p]))
  BY <1>1, <1>2, ReturnAmounts
<1>4. /\ Amount("send", prog'[p]) \in Nat
      /\ Amount("send", prog[p]) = Amount("send", prog'[p]) + Weight("send", Head(prog[p]))
  BY <1>1, <1>2, ReturnAmounts
<1>5. Weight("recv", Head(prog[p])) = n /\ Weight("send", Head(prog[p])) = 0 /\ n \in Nat
  BY <1>2, <1>3 DEF Weight, Op
<1> HIDE DEF n
<1>6. Apart(q)
  BY <1>1, <1>2, <1>3 DEF Apart, TypeOK
<1>7. Sends(p)' <= Sends(p)
  <2>1. sent[p] \in Nat /\ Sends(p)' = Sends(p)
    BY <1>1, <1>2, <1>4, <1>5 DEF Sends, TypeOK
  <2> QED BY <2>1, <1>1, SidesType
<1>8. Gets(p)' >= Gets(p)
  <2>1. Gets(p)' = Len(got[p]) + n + Amount("recv", prog'[p])
    BY <1>1, <1>2 DEF Gets, TypeOK
  <2>2. Gets(p) = Len(got[p]) + 0 + (Amount("recv", prog'[p]) + n)
    BY <1>1, <1>3, <1>5 DEF Gets
  <2>3. Len(got[p]) \in Nat
    BY <1>1, Types
  <2> QED BY <2>1, <2>2, <2>3, <1>3, <1>5
<1>9. pc'[p] = "recv"
  BY <1>1, <1>2 DEF TypeOK
<1> QED BY <1>2, <1>6, <1>7, <1>8, <1>9, AsBefore

LEMMA RecvTakeAhead ==
    ASSUME CInv, NEW p \in Peers, RecvTake(p)
    PROVE  Ahead(p)
<1> DEFINE q == Other(p)
           t == Taken(ctx[p], want[p])
<1>1. /\ q \in Peers /\ q # p /\ TypeOK /\ Cursor(ctx[p]) /\ ctx[p] \in RecvContext
      /\ want[p] \in Nat /\ got[p] \in Seq(Nat)
  BY OtherPeer, Types DEF CInv, DInv, IInv, PeerInv
<1>2. /\ pc[p] = "recv" /\ ctx[p].info.valid
      /\ got' = [got EXCEPT ![p] = @ \o t]
      /\ want' = [want EXCEPT ![p] = @ - Len(t)]
      /\ \E l \in {"run", "read"} : pc' = [pc EXCEPT ![p] = l]
      /\ UNCHANGED <<prog, sent, buf, pend, cont, lost>>
  BY DEF RecvTake, appVars, sendVars
<1>3. t \in Seq(Nat) /\ Len(t) <= want[p] /\ Len(t) \in Nat
  BY <1>1, <1>2, TakeFromCurrent, LenProperties
<1> HIDE DEF t
<1>4. Apart(q)
  BY <1>1, <1>2 DEF Apart, TypeOK
<1>5. Sends(p)' <= Sends(p)
  <2>1. Sends(p)' = Sends(p)
    BY <1>2 DEF Sends
  <2> QED BY <2>1, <1>1, SidesType
<1>6. Gets(p)' >= Gets(p)
  <2>1. Len(got'[p]) = Len(got[p]) + Len(t) /\ Len(got[p]) \in Nat
    <3>1. got'[p] = got[p] \o t
      BY <1>1, <1>2 DEF TypeOK
    <3> QED BY <3>1, <1>1, <1>3, ConcatProperties, LenProperties
  <2>2. want'[p] = want[p] - Len(t)
    BY <1>1, <1>2 DEF TypeOK
  <2>3. Amount("recv", prog'[p]) = Amount("recv", prog[p]) /\ Amount("recv", prog[p]) \in Nat
    BY <1>1, <1>2, AmountFacts DEF TypeOK
  <2>4. Gets(p)' = Len(got'[p]) + want'[p] + Amount("recv", prog'[p])
    BY DEF Gets
  <2>5. Gets(p) = Len(got[p]) + want[p] + Amount("recv", prog[p])
    BY DEF Gets
  <2> QED BY <2>1, <2>2, <2>3, <2>4, <2>5, <1>1, <1>3
<1>7. pc'[p] \in {"run", "read"}
  BY <1>1, <1>2 DEF TypeOK
<1> QED BY <1>2, <1>4, <1>5, <1>6, <1>7, AsBefore

(* The protocol gives up: what it would have sent is not sent any more,    *)
(* and what it would have asked for matters to nobody.                     *)
LEMMA RecvFailsAhead ==
    ASSUME CInv, NEW p \in Peers, RecvFails(p)
    PROVE  Ahead(p)
<1> DEFINE q == Other(p)
<1>1. q \in Peers /\ q # p /\ TypeOK
  BY OtherPeer DEF CInv, DInv, IInv
<1>2. /\ pc[p] \in {"recv", "read"} /\ Broken(p)
      /\ prog' = [prog EXCEPT ![p] = <<>>]
      /\ want' = [want EXCEPT ![p] = 0] /\ pc' = [pc EXCEPT ![p] = "run"]
      /\ UNCHANGED <<sent, buf, pend, cont, got, lost>>
  BY DEF RecvFails, AtNetwork, sendVars
<1>3. prog'[p] = <<>> /\ prog'[q] = prog[q] /\ pc'[p] = "run"
  BY <1>1, <1>2 DEF TypeOK
<1>4. Apart(q)
  BY <1>1, <1>2, <1>3 DEF Apart, TypeOK
<1>5. Sends(p)' <= Sends(p)
  <2>1. sent[p] \in Nat /\ Amount("send", prog[p]) \in Nat
    BY <1>1, AmountFacts DEF TypeOK
  <2>2. Amount("send", prog'[p]) = 0
    BY <1>3, AmountFacts, EmptySeq
  <2>3. Sends(p)' = sent[p] + Amount("send", prog'[p])
    BY <1>2 DEF Sends
  <2>4. Sends(p) = sent[p] + Amount("send", prog[p])
    BY DEF Sends
  <2> QED BY <2>1, <2>2, <2>3, <2>4
<1> QED BY <1>2, <1>3, <1>4, <1>5, AsBefore

(* The steps after which program, amounts and buffer are what they were.   *)
LEMMA ControlAhead ==
    ASSUME CInv, NEW p \in Peers, UNCHANGED <<sent, buf, pend, cont, got, want, lost>>,
           prog'[Other(p)] = prog[Other(p)], pc'[Other(p)] = pc[Other(p)],
           Amount("send", prog'[p]) = Amount("send", prog[p]),
           Amount("recv", prog'[p]) = Amount("recv", prog[p]),
           pc[p] # "done", pc[p] # "put", pc'[p] # "done", pc'[p] # "put"
    PROVE  Ahead(p)
<1>1. Apart(Other(p)) /\ TypeOK
  BY DEF Apart, CInv, DInv, IInv
<1>2. Sends(p)' = Sends(p) /\ Gets(p)' = Gets(p)
  BY DEF Sends, Gets
<1>3. Sends(p) \in Nat /\ Gets(p) \in Nat
  BY <1>1, SidesType
<1> QED BY <1>1, <1>2, <1>3, AsBefore
-----------------------------------------------------------------------------
(* A return from a call that moves no bytes.                               *)
LEMMA OtherCallAmounts ==
    ASSUME TypeOK, NEW p \in Peers, prog[p] # <<>>, Return(p),
           Head(prog[p]).op \notin {"send", "recv"}
    PROVE  /\ prog'[Other(p)] = prog[Other(p)]
           /\ Amount("send", prog'[p]) = Amount("send", prog[p])
           /\ Amount("recv", prog'[p]) = Amount("recv", prog[p])
           /\ Amount("send", prog'[p]) \in Nat
<1>1. /\ prog'[Other(p)] = prog[Other(p)]
      /\ Amount("send", prog'[p]) \in Nat
      /\ Amount("send", prog[p]) = Amount("send", prog'[p]) + Weight("send", Head(prog[p]))
  BY ReturnAmounts
<1>2. /\ Amount("recv", prog'[p]) \in Nat
      /\ Amount("recv", prog[p]) = Amount("recv", prog'[p]) + Weight("recv", Head(prog[p]))
  BY ReturnAmounts
<1>3. Weight("send", Head(prog[p])) = 0 /\ Weight("recv", Head(prog[p])) = 0
  BY DEF Weight
<1> QED BY <1>1, <1>2, <1>3

LEMMA MainThreadAhead ==
    ASSUME CInv, NEW p \in Peers, MainThread(p)
    PROVE  Ahead(p)
<1>1. TypeOK /\ Other(p) \in Peers /\ Other(p) # p
  BY OtherPeer DEF CInv, DInv, IInv
<1>2. Amount("send", prog[p]) \in Nat /\ Amount("recv", prog[p]) \in Nat
  BY <1>1, AmountFacts DEF TypeOK
<1>3. CASE Send(p)
  <2> DEFINE n == Head(prog[p]).n
  <2>1. /\ pc[p] = "run" /\ prog[p] # <<>> /\ Head(prog[p]).op = "send" /\ Return(p)
        /\ SendData(p, n, "run") /\ UNCHANGED <<got, want, lost>>
    BY <1>3 DEF Send, Calls, recvVars
  <2>2. /\ Head(prog[p]) \in Op /\ prog'[Other(p)] = prog[Other(p)]
        /\ Amount("send", prog'[p]) \in Nat
        /\ Amount("send", prog[p]) = Amount("send", prog'[p]) + Weight("send", Head(prog[p]))
    BY <1>1, <2>1, ReturnAmounts
  <2>3. /\ Amount("recv", prog'[p]) \in Nat
        /\ Amount("recv", prog[p]) = Amount("recv", prog'[p]) + Weight("recv", Head(prog[p]))
    BY <1>1, <2>1, ReturnAmounts
  <2>4. Weight("send", Head(prog[p])) = n /\ Weight("recv", Head(prog[p])) = 0 /\ n \in Nat
    BY <2>1, <2>2 DEF Weight, Op
  <2> HIDE DEF n
  <2>5. n + Amount("send", prog'[p]) <= Amount("send", prog[p])
    BY <2>2, <2>4, <1>2
  <2>6. Amount("recv", prog'[p]) = Amount("recv", prog[p])
    BY <2>3, <2>4, <1>2
  <2> QED BY <2>1, <2>2, <2>4, <2>5, <2>6, SendDataAhead
<1>4. ASSUME prog' = prog \/ (/\ prog[p] # <<>> /\ Return(p)
                              /\ Head(prog[p]).op \notin {"send", "recv"})
      PROVE  /\ prog'[Other(p)] = prog[Other(p)]
             /\ Amount("send", prog'[p]) = Amount("send", prog[p])
             /\ Amount("recv", prog'[p]) = Amount("recv", prog[p])
             /\ Amount("send", prog'[p]) \in Nat
  BY <1>1, <1>2, <1>4, OtherCallAmounts
<1>5. ASSUME NEW k \in {"run", "spawn", "done"}, SendData(p, 0, k),
             pc[p] \in {"run", "join"}, UNCHANGED <<got, want, lost>>,
             k = "done" => prog'[p] = <<>>,
             prog' = prog \/ (/\ prog[p] # <<>> /\ Return(p)
                              /\ Head(prog[p]).op \notin {"send", "recv"})
      PROVE  Ahead(p)
  <2>1. /\ prog'[Other(p)] = prog[Other(p)]
        /\ Amount("send", prog'[p]) = Amount("send", prog[p])
        /\ Amount("recv", prog'[p]) = Amount("recv", prog[p])
        /\ Amount("send", prog'[p]) \in Nat
    BY <1>4, <1>5
  <2>2. 0 + Amount("send", prog'[p]) <= Amount("send", prog[p])
    BY <2>1
  <2> QED BY <1>5, <2>1, <2>2, SendDataAhead
<1>6. CASE Flush(p)
  <2>1. /\ pc[p] = "run" /\ prog[p] # <<>> /\ Head(prog[p]).op = "flush" /\ Return(p)
        /\ SendData(p, 0, "run") /\ UNCHANGED <<got, want, lost>>
    BY <1>6 DEF Flush, Calls, recvVars
  <2> QED BY <2>1, <1>5
<1>7. CASE RecvFlush(p)
  <2>1. /\ pc[p] = "run" /\ SendData(p, 0, "run") /\ UNCHANGED <<prog, got, want, lost>>
    BY <1>7 DEF RecvFlush, Calls, recvVars
  <2> QED BY <2>1, <1>5
<1>8. CASE JoinFlushThread(p)
  <2>1. /\ pc[p] = "join" /\ SendData(p, 0, "run") /\ UNCHANGED <<prog, got, want, lost>>
    BY <1>8 DEF JoinFlushThread, appVars, recvVars
  <2> QED BY <2>1, <1>5
<1>9. CASE Destroy(p)
  <2>1. /\ pc[p] = "run" /\ prog[p] = <<>> /\ SendData(p, 0, "done")
        /\ UNCHANGED <<prog, got, want, lost>>
    BY <1>9 DEF Destroy, Destroying, appVars, recvVars
  <2> QED BY <2>1, <1>5
<1>10. CASE StartAsyncFlush(p)
  <2>1. /\ pc[p] = "run" /\ prog[p] # <<>> /\ Head(prog[p]).op = "start" /\ Return(p)
        /\ UNCHANGED <<got, want, lost>>
    BY <1>10 DEF StartAsyncFlush, Calls, recvVars
  <2>2. CASE SendData(p, 0, "spawn")
    BY <2>1, <2>2, <1>5
  <2>3. CASE UNCHANGED <<pc, sendVars>>
    <3>1. UNCHANGED <<pc, sent, buf, pend, cont>>
      BY <2>3 DEF sendVars
    <3> QED BY <2>1, <3>1, <1>4, ControlAhead
  <2> QED BY <1>10, <2>2, <2>3 DEF StartAsyncFlush
<1>11. CASE SpawnFlushThread(p)
  <2>1. /\ pc[p] = "spawn" /\ pc' = [pc EXCEPT ![p] = "run"]
        /\ UNCHANGED <<prog, sent, buf, pend, cont, got, want, lost>>
    BY <1>11 DEF SpawnFlushThread, appVars, sendVars, recvVars
  <2>2. pc'[p] = "run" /\ pc'[Other(p)] = pc[Other(p)]
    BY <1>1, <2>1 DEF TypeOK
  <2> QED BY <2>1, <2>2, ControlAhead
<1>12. CASE StopAsyncFlush(p)
  <2>1. /\ pc[p] = "run" /\ pc' = [pc EXCEPT ![p] = "join"]
        /\ UNCHANGED <<sent, buf, pend, cont, got, want, lost>>
        /\ prog' = prog \/ (/\ prog[p] # <<>> /\ Return(p)
                             /\ Head(prog[p]).op \notin {"send", "recv"})
    BY <1>12 DEF StopAsyncFlush, Calls, Destroying, sendVars, recvVars
  <2>2. pc'[p] = "join" /\ pc'[Other(p)] = pc[Other(p)]
    BY <1>1, <2>1 DEF TypeOK
  <2> QED BY <2>1, <2>2, <1>4, ControlAhead
<1>13. CASE NothingToStop(p)
  <2>1. /\ pc[p] = "run" /\ prog[p] # <<>> /\ Head(prog[p]).op = "stop" /\ Return(p)
        /\ UNCHANGED <<pc, sent, buf, pend, cont, got, want, lost>>
    BY <1>13 DEF NothingToStop, Calls, sendVars, recvVars
  <2> QED BY <2>1, <1>4, ControlAhead
<1>14. CASE RecvFrame(p)
  <2>1. /\ pc[p] \in {"recv", "read"} /\ pc' = [pc EXCEPT ![p] = "recv"]
        /\ UNCHANGED <<prog, sent, buf, pend, cont, got, want, lost>>
    BY <1>14 DEF RecvFrame, AtNetwork, appVars, sendVars
  <2>2. pc'[p] = "recv" /\ pc'[Other(p)] = pc[Other(p)]
    BY <1>1, <2>1 DEF TypeOK
  <2> QED BY <2>1, <2>2, ControlAhead
<1>15. CASE PutToFlushCtx(p) \/ SendEx(p)
  <2>1. pc[p] = "put" /\ SendRest(p) /\ UNCHANGED <<prog, got, want, lost>>
    BY <1>15 DEF PutToFlushCtx, SendEx, appVars, recvVars
  <2> QED BY <2>1, SendRestAhead
<1> QED BY <1>3, <1>6, <1>7, <1>8, <1>9, <1>10, <1>11, <1>12, <1>13, <1>14, <1>15,
           SendExFailsAhead, RecvAhead, RecvTakeAhead, RecvFailsAhead DEF MainThread
-----------------------------------------------------------------------------
LEMMA CInvInit == ASSUME ProgramsAgree, Init PROVE CInv
<1>1. DInv
  BY StreamInit
<1>2. ASSUME NEW p \in Peers PROVE Agreed(p) /\ Ending(p)
  <2> DEFINE q == Other(p)
  <2>1. q \in Peers /\ prog \in Programs
    BY OtherPeer DEF Init
  <2>2. /\ pc[p] = "run" /\ sent[p] = 0 /\ got[q] = <<>> /\ want[q] = 0
    BY <2>1 DEF Init
  <2>3. Amount("send", prog[p]) <= Amount("recv", prog[q])
    BY <2>1 DEF ProgramsAgree
  <2>4. Amount("send", prog[p]) \in Nat /\ Amount("recv", prog[q]) \in Nat
    BY <2>1, <1>1, AmountFacts DEF DInv, IInv, TypeOK
  <2>5. Sends(p) <= Gets(q)
    <3>1. Len(<<>>) = 0
      OBVIOUS
    <3> QED BY <2>2, <2>3, <2>4, <3>1 DEF Sends, Gets
  <2> QED BY <2>2, <2>5 DEF Agreed, Ending
<1> QED BY <1>1, <1>2 DEF CInv

LEMMA CInvNext == ASSUME CInv, [Next]_vars PROVE CInv'
<1>1. DInv' /\ TypeOK'
  BY DInvNext DEF CInv, DInv, IInv
<1> SUFFICES \A q \in Peers : Agreed(q)' /\ Ending(q)'
  BY <1>1 DEF CInv
<1>2. ASSUME NEW p \in Peers, MainThread(p) PROVE \A q \in Peers : Agreed(q)' /\ Ending(q)'
  BY <1>1, <1>2, MainThreadAhead, GoesAhead
<1>3. ASSUME UNCHANGED <<prog, pc, cont, sent, buf, pend, got, want>>, lost' = lost \/ lost'
      PROVE  \A q \in Peers : Agreed(q)' /\ Ending(q)'
  <2> SUFFICES ASSUME NEW q \in Peers PROVE Agreed(q)' /\ Ending(q)'
    OBVIOUS
  <2>1. Agreed(q) /\ Ending(q)
    BY DEF CInv
  <2>2. Sends(q)' = Sends(q) /\ Gets(Other(q))' = Gets(Other(q))
    BY <1>3 DEF Sends, Gets
  <2> QED BY <2>1, <2>2, <1>3 DEF Agreed, Ending
<1>4. ASSUME NEW p \in Peers, FlushThread(p) \/ FlushSpuriousWakeup(p)
      PROVE  \A q \in Peers : Agreed(q)' /\ Ending(q)'
  <2>1. UNCHANGED <<prog, pc, cont, sent, buf, pend, got, want, lost>>
    BY <1>4 DEF FlushThread, FlushCheck, FlushEnter, FlushSend, FlushSpuriousWakeup,
                appVars, sendVars, recvVars
  <2> QED BY <1>3, <2>1
<1>5. CASE Lose
  <2>1. lost' /\ UNCHANGED <<prog, pc, cont, sent, buf, pend, got, want>>
    BY <1>5 DEF Lose, appVars, sendVars, recvVars
  <2> QED BY <1>3, <2>1
<1>6. CASE Finished \/ UNCHANGED vars
  <2>1. UNCHANGED <<prog, pc, cont, sent, buf, pend, got, want, lost>>
    BY <1>6 DEF Finished, vars, appVars, sendVars, recvVars
  <2> QED BY <1>3, <2>1
<1> QED BY <1>2, <1>4, <1>5, <1>6 DEF Next

(* When the destructor of a channel ends, its flush thread is gone with    *)
(* nothing in its list, and, if the connection was not lost, nothing that  *)
(* the protocol handed over is left in the send buffer: for all programs   *)
(* that agree on the bytes they exchange, whichever peer ends first.       *)
THEOREM ClosesAfterFlush ==
    ASSUME ProgramsAgree
    PROVE  Spec => []ClosedAfterFlush
<1>1. Init => CInv
  BY CInvInit
<1>2. CInv /\ [Next]_vars => CInv'
  BY CInvNext
<1>3. CInv => ClosedAfterFlush
  <2> SUFFICES ASSUME CInv, NEW p \in Peers, pc[p] = "done"
               PROVE  /\ fpc[p] = "off" /\ flushq[p] = <<>>
                      /\ ~lost => buf[p] = <<>> /\ pend[p] = 0
    BY DEF ClosedAfterFlush
  <2>1. Threads(p) /\ Ending(p) /\ TypeOK
    BY DEF CInv, DInv, IInv, PeerInv
  <2>2. fpc[p] = "off" /\ flushq[p] = <<>>
    BY <2>1 DEF Threads, TypeOK
  <2> QED BY <2>1, <2>2 DEF Ending
<1> QED BY <1>1, <1>2, <1>3, PTL DEF Spec
=============================================================================

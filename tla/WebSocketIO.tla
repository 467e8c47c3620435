---------------------------- MODULE WebSocketIO ----------------------------
(***************************************************************************)
(* One connection between the two parties of the benchmark: a WebSocketIO  *)
(* on each side (network/websocket_io_channel), the send and receive       *)
(* contexts it owns (network/ws) and the TCP connection between them.      *)
(*                                                                         *)
(* Each peer runs two threads.  The main thread executes the protocol,     *)
(* here a program of sends, receives, flushes and the two calls that start *)
(* and stop the asynchronous flush, and then the destructor.  The flush    *)
(* thread takes packed frames from the flush list and sends them; it keeps *)
(* the list's mutex for the whole of the blocking send.  In asynchronous   *)
(* mode the main thread appends its frames to that list, in synchronous    *)
(* mode it sends them itself.                                              *)
(*                                                                         *)
(* Bytes are named by their position in the stream of their sender; a      *)
(* frame carries its id and its payload.  The connection delivers frames   *)
(* in order, holds at most WireCap of them in each direction (a send       *)
(* blocks when it is full) and may be lost at any time if MayLose.         *)
(***************************************************************************)
EXTENDS RecvCtx, Integers

CONSTANTS
    Server, Client,  \* the two peers
    BufCap,          \* payload capacity of the send buffer, in bytes
    WireCap,         \* frames the connection holds in one direction
    Programs,        \* the pairs of programs the peers may run
    MayLose          \* whether the connection may be lost

Peers == {Server, Client}
Other(p) == IF p = Server THEN Client ELSE Server

Op == [op : {"send", "recv"}, n : Nat]
          \cup [op : {"flush", "stop", "start"}, n : {0}]

ASSUME PeersAssumption == Server # Client
ASSUME CapAssumption == BufCap \in Nat \ {0} /\ WireCap \in Nat \ {0}
ASSUME ProgramsAssumption == Programs \subseteq [Peers -> Seq(Op)]
ASSUME MayLoseAssumption == MayLose \in BOOLEAN

VARIABLES
    prog,      \* the calls a peer's protocol has still to make
    pc,        \* where its main thread is
    cont,      \* where it goes when the send in progress is over
    hasSent,   \* has_sent
    sent,      \* how many bytes the protocol has handed over
    buf,       \* the payload in the send buffer
    sendId,    \* send_id of the send buffer
    hand,      \* the packed frame the main thread is handing over, if any
    pend,      \* bytes of the current send that are not in a frame or buffer yet
    async,     \* send_ctx->async
    flushq,    \* flush_ctx->list
    fpc,       \* where the flush thread is
    fhold,     \* the frame the flush thread is sending, if any
    wire,      \* wire[p]: the frames sent by p and not received yet
    ctx,       \* recv_ctx
    want,      \* bytes the current receive is still waiting for
    got,       \* the bytes the protocol has received
    lost       \* the connection is gone

appVars == <<prog, hasSent>>
sendVars == <<sent, buf, sendId, hand, pend, cont>>
flushVars == <<async, flushq, fpc, fhold>>
recvVars == <<ctx, want, got>>
vars == <<appVars, pc, sendVars, flushVars, wire, recvVars, lost>>

(* A frame is never empty: an empty buffer is not packed.                  *)
Frame == [id : Nat, data : Seq(Nat) \ {<<>>}]

Bytes(from, n) == [i \in 1..n |-> from + i]

(* SendBuffer::can_put, with the offset counted from the payload's start.  *)
CanPut(payload, n) == Len(payload) + n < BufCap

(* The flush list's mutex is held while its thread is in a send.           *)
LockFree(p) == fpc[p] # "send"

(* A send fails, and a receive with nothing in flight ends, when the       *)
(* connection is gone or the other side has closed it.                     *)
Broken(p) == lost \/ pc[Other(p)] = "done"

(* The channel after Init(): handshake done, start_async_flush called on   *)
(* an empty buffer, flush thread started.                                  *)
Init ==
    /\ prog \in Programs
    /\ pc = [p \in Peers |-> "run"]
    /\ cont = [p \in Peers |-> "run"]
    /\ hasSent = [p \in Peers |-> FALSE]
    /\ sent = [p \in Peers |-> 0]
    /\ buf = [p \in Peers |-> <<>>]
    /\ sendId = [p \in Peers |-> 0]
    /\ hand = [p \in Peers |-> <<>>]
    /\ pend = [p \in Peers |-> 0]
    /\ async = [p \in Peers |-> TRUE]
    /\ flushq = [p \in Peers |-> <<>>]
    /\ fpc = [p \in Peers |-> "check"]
    /\ fhold = [p \in Peers |-> <<>>]
    /\ wire = [p \in Peers |-> <<>>]
    /\ ctx = [p \in Peers |-> EmptyRecvCtx]
    /\ want = [p \in Peers |-> 0]
    /\ got = [p \in Peers |-> <<>>]
    /\ lost = FALSE
-----------------------------------------------------------------------------
(* SENDING.                                                                *)

(* Faulty variants, used to see that the checked properties can fail: the  *)
(* temporary buffer of a large send does not advance the id of the         *)
(* standing one; the buffer is not reset after its frame is handed over.   *)
PackKeepingId(p, payload, n, k) ==
    /\ sendId' = [sendId EXCEPT ![p] = IF payload = buf[p] THEN @ + 1 ELSE @]
    /\ hand' = [hand EXCEPT ![p] = <<[id |-> sendId[p] + 1, data |-> payload]>>]
    /\ pend' = [pend EXCEPT ![p] = n]
    /\ cont' = [cont EXCEPT ![p] = k]
    /\ pc' = [pc EXCEPT ![p] = "put"]

SendRestWithoutReset(p) ==
    /\ buf' = [buf EXCEPT ![p] = @ \o Bytes(sent[p] - pend[p], pend[p])]
    /\ hand' = [hand EXCEPT ![p] = <<>>]
    /\ pend' = [pend EXCEPT ![p] = 0]
    /\ pc' = [pc EXCEPT ![p] = cont[p]]
    /\ UNCHANGED <<sent, sendId, cont>>

(* SendBuffer::pack: the next id, and the frame is the main thread's to    *)
(* hand over.  n bytes of the call remain, k is where it continues.        *)
Pack(p, payload, n, k) ==
    /\ sendId' = [sendId EXCEPT ![p] = @ + 1]
    /\ hand' = [hand EXCEPT ![p] = <<[id |-> sendId[p] + 1, data |-> payload]>>]
    /\ pend' = [pend EXCEPT ![p] = n]
    /\ cont' = [cont EXCEPT ![p] = k]
    /\ pc' = [pc EXCEPT ![p] = "put"]

(* SendMessage and AsyncSendMessage up to the first frame they hand over:  *)
(* n bytes go into the buffer if they fit; otherwise the buffer is packed, *)
(* or, when it is empty, a frame of their own made of them.  n = 0 is a    *)
(* flush.                                                                  *)
SendData(p, n, k) ==
    /\ sent' = [sent EXCEPT ![p] = @ + n]
    /\ \/ /\ IF n = 0 THEN buf[p] = <<>> ELSE CanPut(buf[p], n)
          /\ buf' = [buf EXCEPT ![p] = @ \o Bytes(sent[p], n)]
          /\ pc' = [pc EXCEPT ![p] = k]
          /\ UNCHANGED <<sendId, hand, pend, cont>>
       \/ /\ buf[p] # <<>>
          /\ n = 0 \/ ~CanPut(buf[p], n)
          /\ Pack(p, buf[p], n, k)
          /\ UNCHANGED buf
       \/ /\ buf[p] = <<>>
          /\ n > 0 /\ ~CanPut(buf[p], n)
          /\ Pack(p, Bytes(sent[p], n), 0, k)
          /\ UNCHANGED buf

(* The rest of the call once its frame is handed over: reset the buffer,   *)
(* put the remaining bytes into it, or pack them into a frame of their own *)
(* when even the empty buffer is too small.                                *)
SendRest(p) ==
    LET rest == Bytes(sent[p] - pend[p], pend[p])
    IN  \/ /\ pend[p] = 0 \/ CanPut(<<>>, pend[p])
           /\ buf' = [buf EXCEPT ![p] = rest]
           /\ hand' = [hand EXCEPT ![p] = <<>>]
           /\ pend' = [pend EXCEPT ![p] = 0]
           /\ pc' = [pc EXCEPT ![p] = cont[p]]
           /\ UNCHANGED <<sent, sendId, cont>>
        \/ /\ pend[p] > 0 /\ ~CanPut(<<>>, pend[p])
           /\ buf' = [buf EXCEPT ![p] = <<>>]
           /\ Pack(p, rest, 0, cont[p])
           /\ UNCHANGED sent

(* notify_one on the flush list's condition variable.                      *)
Notified(p) == IF fpc[p] = "wait" THEN [fpc EXCEPT ![p] = "enter"] ELSE fpc

(* Asynchronous mode: PutToFlushCtx.                                       *)
PutToFlushCtx(p) ==
    /\ pc[p] = "put" /\ async[p]
    /\ LockFree(p)
    /\ flushq' = [flushq EXCEPT ![p] = @ \o hand[p]]
    /\ fpc' = Notified(p)
    /\ SendRest(p)
    /\ UNCHANGED <<appVars, async, fhold, wire, recvVars, lost>>

(* Synchronous mode: SendEx.  On a broken connection the kernel may still  *)
(* accept the frame, which then goes nowhere.                              *)
SendEx(p) ==
    /\ pc[p] = "put" /\ ~async[p]
    /\ \/ /\ ~Broken(p)
          /\ Len(wire[p]) < WireCap
          /\ wire' = [wire EXCEPT ![p] = @ \o hand[p]]
       \/ Broken(p) /\ UNCHANGED wire
    /\ SendRest(p)
    /\ UNCHANGED <<appVars, flushVars, recvVars, lost>>

(* ... or fails: SendMessage returns -1, which send_data_internal ignores. *)
(* The buffer is not reset and the rest of the call's bytes is dropped.    *)
SendExFails(p) ==
    /\ pc[p] = "put" /\ ~async[p]
    /\ Broken(p)
    /\ hand' = [hand EXCEPT ![p] = <<>>]
    /\ pend' = [pend EXCEPT ![p] = 0]
    /\ pc' = [pc EXCEPT ![p] = cont[p]]
    /\ UNCHANGED <<appVars, sent, buf, sendId, cont, flushVars, wire, recvVars, lost>>
-----------------------------------------------------------------------------
(* THE FLUSH THREAD (async_flush, AsyncFlushMessage).                      *)

(* Faulty variant: the loop ends with the flag, whatever is still queued.  *)
FlushCheckFlagOnly(p) ==
    /\ fpc[p] = "check"
    /\ fpc' = [fpc EXCEPT ![p] = IF async[p] THEN "enter" ELSE "exit"]
    /\ UNCHANGED <<appVars, pc, sendVars, async, flushq, fhold, wire, recvVars, lost>>

(* The loop's condition, read without the mutex.                           *)
FlushCheck(p) ==
    /\ fpc[p] = "check"
    /\ fpc' = [fpc EXCEPT ![p] = IF async[p] \/ flushq[p] # <<>> THEN "enter" ELSE "exit"]
    /\ UNCHANGED <<appVars, pc, sendVars, async, flushq, fhold, wire, recvVars, lost>>

(* With the mutex: wait while asynchronous and the list is empty, else     *)
(* take the head of the list, if it has one, and keep the mutex to send it.*)
FlushEnter(p) ==
    /\ fpc[p] = "enter"
    /\ \/ /\ async[p] /\ flushq[p] = <<>>
          /\ fpc' = [fpc EXCEPT ![p] = "wait"]
          /\ UNCHANGED <<flushq, fhold>>
       \/ /\ flushq[p] # <<>>
          /\ fhold' = [fhold EXCEPT ![p] = <<Head(flushq[p])>>]
          /\ flushq' = [flushq EXCEPT ![p] = Tail(@)]
          /\ fpc' = [fpc EXCEPT ![p] = "send"]
       \/ /\ ~async[p] /\ flushq[p] = <<>>
          /\ fpc' = [fpc EXCEPT ![p] = "check"]
          /\ UNCHANGED <<flushq, fhold>>
    /\ UNCHANGED <<appVars, pc, sendVars, async, wire, recvVars, lost>>

(* wait() may also return without a notification.                          *)
FlushSpuriousWakeup(p) ==
    /\ fpc[p] = "wait"
    /\ fpc' = [fpc EXCEPT ![p] = "enter"]
    /\ UNCHANGED <<appVars, pc, sendVars, async, flushq, fhold, wire, recvVars, lost>>

(* The send returns and the mutex is released; a frame that could not be   *)
(* sent is dropped.                                                        *)
FlushSend(p) ==
    /\ fpc[p] = "send"
    /\ \/ /\ ~Broken(p)
          /\ Len(wire[p]) < WireCap
          /\ wire' = [wire EXCEPT ![p] = @ \o fhold[p]]
       \/ Broken(p) /\ UNCHANGED wire
    /\ fhold' = [fhold EXCEPT ![p] = <<>>]
    /\ fpc' = [fpc EXCEPT ![p] = "check"]
    /\ UNCHANGED <<appVars, pc, sendVars, async, flushq, recvVars, lost>>
-----------------------------------------------------------------------------
(* THE MAIN THREAD'S CALLS.                                                *)

Calls(p, op) == pc[p] = "run" /\ prog[p] # <<>> /\ Head(prog[p]).op = op

Return(p) == prog' = [prog EXCEPT ![p] = Tail(@)]

(* Faulty variants: a send that does not set has_sent, a stop that does    *)
(* not notify, a join that does not wait.                                  *)
SendUnmarked(p) ==
    /\ Calls(p, "send") /\ Return(p)
    /\ SendData(p, Head(prog[p]).n, "run")
    /\ UNCHANGED <<hasSent, flushVars, wire, recvVars, lost>>

StopWithoutNotify(p) ==
    /\ \/ Calls(p, "stop") /\ Return(p)
       \/ pc[p] = "run" /\ prog[p] = <<>> /\ UNCHANGED prog
    /\ async[p]
    /\ LockFree(p)
    /\ async' = [async EXCEPT ![p] = FALSE]
    /\ pc' = [pc EXCEPT ![p] = "join"]
    /\ UNCHANGED <<hasSent, sendVars, flushq, fpc, fhold, wire, recvVars, lost>>

JoinWithoutWaiting(p) ==
    /\ pc[p] = "join"
    /\ SendData(p, 0, "run")
    /\ UNCHANGED <<appVars, flushVars, wire, recvVars, lost>>

(* send_data_internal                                                      *)
Send(p) ==
    /\ Calls(p, "send") /\ Return(p)
    /\ SendData(p, Head(prog[p]).n, "run")
    /\ hasSent' = [hasSent EXCEPT ![p] = @ \/ Head(prog[p]).n > 0]
    /\ UNCHANGED <<flushVars, wire, recvVars, lost>>

(* flush(true): a send of no bytes.                                        *)
Flush(p) ==
    /\ Calls(p, "flush") /\ Return(p)
    /\ SendData(p, 0, "run")
    /\ UNCHANGED <<hasSent, flushVars, wire, recvVars, lost>>

(* recv_data_internal: first flush what has been sent since the last       *)
(* receive, then RecvMessage.                                              *)
RecvFlush(p) ==
    /\ Calls(p, "recv") /\ hasSent[p]
    /\ hasSent' = [hasSent EXCEPT ![p] = FALSE]
    /\ SendData(p, 0, "run")
    /\ UNCHANGED <<prog, flushVars, wire, recvVars, lost>>

Recv(p) ==
    /\ Calls(p, "recv") /\ ~hasSent[p] /\ Return(p)
    /\ want' = [want EXCEPT ![p] = Head(prog[p]).n]
    /\ pc' = [pc EXCEPT ![p] = "recv"]
    /\ UNCHANGED <<hasSent, sendVars, flushVars, wire, ctx, got, lost>>

(* RecvMessage, the top of its loop: take from the current frame.  A call  *)
(* that is not satisfied goes to the network, whatever the list holds.     *)
RecvTake(p) ==
    /\ pc[p] = "recv" /\ ctx[p].info.valid
    /\ LET taken == Taken(ctx[p], want[p])
       IN  /\ got' = [got EXCEPT ![p] = @ \o taken]
           /\ want' = [want EXCEPT ![p] = @ - Len(taken)]
           /\ pc' = [pc EXCEPT ![p] = IF Len(taken) = want[p] THEN "run" ELSE "read"]
    /\ ctx' = [ctx EXCEPT ![p] = RecvFromRecvCtx(@, want[p])]
    /\ UNCHANGED <<appVars, sendVars, flushVars, wire, lost>>

(* About to read a frame from the network.                                 *)
AtNetwork(p) == pc[p] = "read" \/ (pc[p] = "recv" /\ ~ctx[p].info.valid)

(* The bottom of the loop: read one frame and put it into the context.     *)
RecvFrame(p) ==
    /\ AtNetwork(p)
    /\ wire[Other(p)] # <<>>
    /\ wire' = [wire EXCEPT ![Other(p)] = Tail(@)]
    /\ ctx' = [ctx EXCEPT ![p] = PutToRecvCtx(@, Head(wire[Other(p)]))]
    /\ pc' = [pc EXCEPT ![p] = "recv"]
    /\ UNCHANGED <<appVars, sendVars, flushVars, want, got, lost>>

(* The stream ends instead: ThrowConnectionError.  The exception ends the  *)
(* protocol, and its owner destroys the channel.                           *)
RecvFails(p) ==
    /\ AtNetwork(p)
    /\ wire[Other(p)] = <<>> /\ Broken(p)
    /\ prog' = [prog EXCEPT ![p] = <<>>]
    /\ want' = [want EXCEPT ![p] = 0]
    /\ pc' = [pc EXCEPT ![p] = "run"]
    /\ UNCHANGED <<hasSent, sendVars, flushVars, wire, ctx, got, lost>>

(* start_async_flush: nothing to do in asynchronous mode; else flush, set  *)
(* the flag and start the thread.                                          *)
StartAsyncFlush(p) ==
    /\ Calls(p, "start") /\ Return(p)
    /\ \/ async[p] /\ UNCHANGED <<pc, sendVars>>
       \/ ~async[p] /\ SendData(p, 0, "spawn")
    /\ UNCHANGED <<hasSent, flushVars, wire, recvVars, lost>>

SpawnFlushThread(p) ==
    /\ pc[p] = "spawn"
    /\ async' = [async EXCEPT ![p] = TRUE]
    /\ fpc' = [fpc EXCEPT ![p] = "check"]
    /\ pc' = [pc EXCEPT ![p] = "run"]
    /\ UNCHANGED <<appVars, sendVars, flushq, fhold, wire, recvVars, lost>>

(* The protocol is over and the destructor runs.                           *)
Destroying(p) == pc[p] = "run" /\ prog[p] = <<>>

(* stop_async_flush, called by the protocol or by the destructor: clear    *)
(* the flag and notify under the mutex, join the thread, flush.            *)
StopAsyncFlush(p) ==
    /\ \/ Calls(p, "stop") /\ Return(p)
       \/ Destroying(p) /\ UNCHANGED prog
    /\ async[p]
    /\ LockFree(p)
    /\ async' = [async EXCEPT ![p] = FALSE]
    /\ fpc' = Notified(p)
    /\ pc' = [pc EXCEPT ![p] = "join"]
    /\ UNCHANGED <<hasSent, sendVars, flushq, fhold, wire, recvVars, lost>>

NothingToStop(p) ==
    /\ Calls(p, "stop") /\ Return(p)
    /\ ~async[p]
    /\ UNCHANGED <<pc, hasSent, sendVars, flushVars, wire, recvVars, lost>>

JoinFlushThread(p) ==
    /\ pc[p] = "join" /\ fpc[p] = "exit"
    /\ fpc' = [fpc EXCEPT ![p] = "off"]
    /\ SendData(p, 0, "run")
    /\ UNCHANGED <<appVars, async, flushq, fhold, wire, recvVars, lost>>

(* The rest of ~WebSocketIO: a last flush, and the socket is closed.       *)
Destroy(p) ==
    /\ Destroying(p) /\ ~async[p]
    /\ SendData(p, 0, "done")
    /\ UNCHANGED <<appVars, flushVars, wire, recvVars, lost>>
-----------------------------------------------------------------------------
(* The connection goes, with any suffix of what it still carries.          *)
Lose ==
    /\ MayLose /\ ~lost
    /\ lost' = TRUE
    /\ \E keep \in [Peers -> 0..WireCap] :
           /\ \A p \in Peers : keep[p] <= Len(wire[p])
           /\ wire' = [p \in Peers |-> SubSeq(wire[p], 1, keep[p])]
    /\ UNCHANGED <<appVars, pc, sendVars, flushVars, recvVars>>

MainThread(p) ==
    \/ Send(p) \/ Flush(p) \/ RecvFlush(p) \/ Recv(p)
    \/ RecvTake(p) \/ RecvFrame(p) \/ RecvFails(p)
    \/ PutToFlushCtx(p) \/ SendEx(p) \/ SendExFails(p)
    \/ StartAsyncFlush(p) \/ SpawnFlushThread(p)
    \/ StopAsyncFlush(p) \/ NothingToStop(p) \/ JoinFlushThread(p) \/ Destroy(p)

FlushThread(p) == FlushCheck(p) \/ FlushEnter(p) \/ FlushSend(p)

AllDone == \A p \in Peers : pc[p] = "done" /\ fpc[p] = "off"

(* The main thread can go on only when the connection takes a frame: it    *)
(* has one to send, or needs the mutex that a send of the flush thread     *)
(* keeps, or joins that thread.                                            *)
SendBlocked(p) ==
    /\ Len(wire[p]) = WireCap /\ ~Broken(p)
    /\ pc[p] \in {"put", "join"} \/ Calls(p, "stop") \/ Destroying(p)
    /\ IF async[p] \/ pc[p] = "join" THEN fpc[p] = "send" ELSE pc[p] = "put"

(* Both peers send, the connection is full both ways, and nobody reads.    *)
Crossed == \A p \in Peers : SendBlocked(p)

Finished == (AllDone \/ Crossed) /\ UNCHANGED vars

Next ==
    \/ \E p \in Peers : MainThread(p) \/ FlushThread(p) \/ FlushSpuriousWakeup(p)
    \/ Lose
    \/ Finished

(* The operating system runs every thread that can run; a mutex that is    *)
(* free for long enough is obtained.  Nothing makes a wakeup spurious or a *)
(* connection fail.                                                        *)
Fairness == \A p \in Peers : WF_vars(MainThread(p)) /\ WF_vars(FlushThread(p))

Spec == Init /\ [][Next]_vars /\ Fairness
-----------------------------------------------------------------------------
(* PROPERTIES.                                                             *)

(* Every variable has its type.                                            *)
TypeOK ==
    /\ prog \in [Peers -> Seq(Op)]
    /\ pc \in [Peers -> {"run", "put", "recv", "read", "spawn", "join", "done"}]
    /\ cont \in [Peers -> {"run", "spawn", "done"}]
    /\ hasSent \in [Peers -> BOOLEAN]
    /\ sent \in [Peers -> Nat]
    /\ buf \in [Peers -> Seq(Nat)]
    /\ sendId \in [Peers -> Nat]
    /\ hand \in [Peers -> Seq(Frame)]
    /\ pend \in [Peers -> Nat]
    /\ async \in [Peers -> BOOLEAN]
    /\ flushq \in [Peers -> Seq(Frame)]
    /\ fpc \in [Peers -> {"off", "check", "enter", "wait", "send", "exit"}]
    /\ fhold \in [Peers -> Seq(Frame)]
    /\ wire \in [Peers -> Seq(Frame)]
    /\ ctx \in [Peers -> [list : Seq(Frame),
                          info : [data : Seq(Nat), offset : Nat,
                                  prev : Nat, valid : BOOLEAN]]]
    /\ want \in [Peers -> Nat]
    /\ got \in [Peers -> Seq(Nat)]
    /\ lost \in BOOLEAN
-----------------------------------------------------------------------------
(* The frames of p that have an id and are not consumed, oldest first: in  *)
(* the reader's list, in the connection, with the flush thread, in the     *)
(* flush list and with the main thread.                                    *)
InFlight(p) ==
    ctx[Other(p)].list \o wire[p] \o fhold[p] \o flushq[p] \o hand[p]

(* The reader consumes the ids 1, 2, 3, ... and can never skip one, so a   *)
(* gap or a repetition would stall it for ever.  The frames of p carry the *)
(* ids that follow the last one consumed, without gap and in order, and    *)
(* the next frame to be packed carries the next one, although ids are      *)
(* given by two SendBuffers (the standing one and the temporary one of a   *)
(* large send) and frames are sent by two threads.                         *)
FrameIdsContiguous ==
    \A p \in Peers : ~Broken(p) =>
        LET prev == ctx[Other(p)].info.prev
        IN  /\ \A i \in DOMAIN InFlight(p) : InFlight(p)[i].id = prev + i
            /\ sendId[p] = prev + Len(InFlight(p))

(* No byte is lost, repeated or reordered anywhere between the two         *)
(* protocols: what the reader has been given, then the payloads in flight, *)
(* then the send buffer, then the rest of the current send are exactly the *)
(* bytes handed over.  (While the buffer's own frame is being handed over  *)
(* it is still in the buffer too.)                                         *)
NoByteLost ==
    \A p \in Peers : ~Broken(p) =>
        LET info    == ctx[Other(p)].info
            unread  == FlattenSeq([i \in DOMAIN InFlight(p) |-> InFlight(p)[i].data])
            partial == IF info.valid THEN info.offset ELSE 0
            held    == IF hand[p] = <<>> THEN buf[p] ELSE <<>>
        IN  got[Other(p)] \o SubSeq(unread, partial + 1, Len(unread)) \o held
              \o Bytes(sent[p] - pend[p], pend[p])
            = Bytes(0, sent[p])

(* RecvMessage reads the network after every frame it takes from, even if  *)
(* its list holds the next one; it must never block there with a frame     *)
(* in hand.                                                                *)
NoStallWithData == \A p \in Peers : AtNetwork(p) => ctx[p].list = <<>>

(* A peer that waits for an answer has sent its question: has_sent tells   *)
(* the truth about the send buffer.                                        *)
NothingHeldBackWhileWaiting ==
    \A p \in Peers : AtNetwork(p) /\ ~Broken(p) => buf[p] = <<>>

(* The main thread sends on the socket itself only when no flush thread is *)
(* left and no queued frame could be overtaken.                            *)
OneSender ==
    \A p \in Peers : pc[p] = "put" /\ ~async[p] =>
        fpc[p] = "off" /\ flushq[p] = <<>> /\ fhold[p] = <<>>

(* The bytes that the calls of one kind in a program move.                 *)
Amount(kind, calls) ==
    LET last[k \in 0..Len(calls)] ==  \* ... its last k calls
            IF k = 0 THEN 0
            ELSE LET call == calls[Len(calls) + 1 - k]
                 IN  last[k - 1] + (IF call.op = kind THEN call.n ELSE 0)
    IN  last[Len(calls)]

(* The two protocols agree: a peer asks for all that the other one sends.  *)
ProgramsAgree ==
    \A programs \in Programs : \A p \in Peers :
        Amount("send", programs[p]) <= Amount("recv", programs[Other(p)])

(* When the destructor ends, the flush thread is gone and, if the programs *)
(* agree, everything that was handed over has left, unless the connection  *)
(* broke: a peer that is destroyed early does not make the other's fail.   *)
ClosedAfterFlush ==
    \A p \in Peers : pc[p] = "done" =>
        /\ fpc[p] = "off" /\ flushq[p] = <<>>
        /\ ~lost => buf[p] = <<>> /\ pend[p] = 0

(* Both protocols run to their end and both destructors return, with and   *)
(* without loss of the connection: no lost wakeup of the flush thread, no  *)
(* join of a thread that waits, no two peers that wait for each other's    *)
(* bytes.  Because the mutex is kept across the send, two peers that send  *)
(* more than the connection and the flush threads hold before they receive *)
(* block each other; nothing else does.                                    *)
Termination == <>[](AllDone \/ Crossed)

(* The channel implements a pair of byte streams.  A byte is pushed when   *)
(* it has left the send buffer.                                            *)
Channel == INSTANCE ByteChannel WITH
    written <- sent,
    pushed <- [p \in Peers |-> sent[p] - Len(buf[p]) - pend[p]],
    read <- got

ImplementsByteChannel == Channel!Spec
=============================================================================

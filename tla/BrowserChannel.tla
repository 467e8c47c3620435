--------------------------- MODULE BrowserChannel ---------------------------
(***************************************************************************)
(* The receiving side of WebSocketIO in a browser.  Two threads share the  *)
(* receive context: the thread of the benchmark, which waits for the       *)
(* connection (WaitReadyState) and then receives (RecvMessage under        *)
(* __EMSCRIPTEN__), and the main thread of the browser, on which the       *)
(* callbacks of the WebSocket run.  All but one of their accesses are in   *)
(* critical sections of the context's mutex, and one section is one step.  *)
(*                                                                         *)
(* The browser and the peer are not in the repository: the browser tells   *)
(* of the messages in their order, then of the end; a connection may be    *)
(* lost with what is under way on it.  A byte is named by its position in  *)
(* the peer's stream.                                                      *)
(***************************************************************************)
EXTENDS RecvCtx

CONSTANTS
    Programs,  \* what the peer sends and what the benchmark asks for
    MayLose    \* whether the connection may be lost

(* The lengths of the peer's frames, and of the calls of recv_data.        *)
ASSUME ProgramsAssumption ==
    \A pr \in Programs :
        pr.frames \in Seq(Nat \ {0}) /\ pr.requests \in Seq(Nat)
ASSUME MayLoseAssumption == MayLose \in BOOLEAN

VARIABLES
    program,    \* what is sent and asked for
    sent,       \* the frames the peer has sent, and their bytes
    ended,      \* the peer has closed the connection
    net,        \* the messages on their way
    lost,       \* the connection is lost
    readyState, \* of the browser's WebSocket
    ctx,        \* the receive context: list and info
    recv_zero,  \* its flag that nothing more will come
    at,         \* where the thread of the benchmark is
    next,       \* the number of its next receive
    want,       \* the bytes its receive is still waiting for
    read        \* the bytes it has been given

peerVars == <<program, sent, ended>>
browserVars == <<net, lost, readyState>>
ctxVars == <<ctx, recv_zero>>
readerVars == <<at, next, want, read>>
vars == <<peerVars, browserVars, ctxVars, readerVars>>

Init ==
    /\ program \in Programs
    /\ sent = [frames |-> 0, bytes |-> 0] /\ ended = FALSE
    /\ net = <<>> /\ lost = FALSE /\ readyState = "connecting"
    /\ ctx = EmptyRecvCtx /\ recv_zero = FALSE
    /\ at = "connect" /\ next = 1 /\ want = 0 /\ read = <<>>
-----------------------------------------------------------------------------
(* THE PEER AND THE NETWORK.                                               *)

(* Frames are numbered from 1, see FrameIdsContiguous of WebSocketIO.      *)
PeerSend ==
    /\ ~ended /\ sent.frames < Len(program.frames)
    /\ LET id == sent.frames + 1
           length == program.frames[id]
           frame == [id |-> id, data |-> [i \in 1..length |-> sent.bytes + i]]
       IN  /\ sent' = [frames |-> id, bytes |-> sent.bytes + length]
           /\ net' = IF lost THEN net ELSE Append(net, frame)
    /\ UNCHANGED <<program, ended, lost, readyState, ctxVars, readerVars>>

PeerClose ==
    /\ ~ended /\ sent.frames = Len(program.frames)
    /\ ended' = TRUE
    /\ UNCHANGED <<program, sent, browserVars, ctxVars, readerVars>>

Lose ==
    /\ MayLose /\ ~lost /\ readyState \in {"connecting", "open"}
    /\ lost' = TRUE
    /\ \E n \in 0..Len(net) :
           /\ readyState = "connecting" => n = 0
           /\ net' = SubSeq(net, 1, n)
    /\ UNCHANGED <<peerVars, readyState, ctxVars, readerVars>>
-----------------------------------------------------------------------------
(* THE CALLBACKS.                                                          *)

(* No callback runs once the benchmark has deleted the WebSocket.          *)
Deleted == at = "closed"

(* notify_one: the one thread that waits on the context's condition.       *)
Notify == at' = IF at = "asleep" THEN "awake" ELSE at

(* bridge_socket_on_open2 does nothing.                                    *)
OnOpen ==
    /\ ~Deleted /\ readyState = "connecting" /\ ~lost
    /\ readyState' = "open"
    /\ UNCHANGED <<peerVars, net, lost, ctxVars, readerVars>>

(* bridge_socket_on_message2                                               *)
OnMessage ==
    /\ ~Deleted /\ readyState = "open" /\ net # <<>>
    /\ ctx' = PutToRecvCtx(ctx, Head(net))
    /\ net' = Tail(net)
    /\ Notify
    /\ UNCHANGED <<peerVars, lost, readyState, recv_zero, next, want, read>>

(* bridge_socket_on_error2, which a close follows.                         *)
OnError ==
    /\ ~Deleted /\ lost /\ net = <<>> /\ readyState \in {"connecting", "open"}
    /\ readyState' = "failing"
    /\ recv_zero' = TRUE
    /\ Notify
    /\ UNCHANGED <<peerVars, net, lost, ctx, next, want, read>>

(* Faulty variant: a close that does not wake the reader.                  *)
OnCloseSilently ==
    /\ ~Deleted
    /\ \/ readyState = "failing"
       \/ readyState = "open" /\ net = <<>> /\ (ended \/ lost)
    /\ readyState' = "closed"
    /\ recv_zero' = TRUE
    /\ UNCHANGED <<peerVars, net, lost, ctx, readerVars>>

(* bridge_socket_on_close2                                                 *)
OnClose ==
    /\ ~Deleted
    /\ \/ readyState = "failing"
       \/ readyState = "open" /\ net = <<>> /\ (ended \/ lost)
    /\ readyState' = "closed"
    /\ recv_zero' = TRUE
    /\ Notify
    /\ UNCHANGED <<peerVars, net, lost, ctx, next, want, read>>
-----------------------------------------------------------------------------
(* THE THREAD OF THE BENCHMARK.                                            *)

(* WaitReadyState polls until the connection is open or has failed ...     *)
Ready ==
    /\ at = "connect" /\ readyState # "connecting"
    /\ at' = "ready"
    /\ UNCHANGED <<peerVars, browserVars, ctxVars, next, want, read>>

(* ... and looks at recv_zero, without the mutex.                          *)
CheckReady ==
    /\ at = "ready"
    /\ at' = IF recv_zero THEN "failed" ELSE "idle"
    /\ UNCHANGED <<peerVars, browserVars, ctxVars, next, want, read>>

(* recv_data; a receive of no bytes returns at once.                       *)
Recv ==
    /\ at = "idle" /\ next <= Len(program.requests)
    /\ want' = program.requests[next]
    /\ at' = IF want' = 0 THEN "idle" ELSE "recv"
    /\ next' = next + 1
    /\ UNCHANGED <<peerVars, browserVars, ctxVars, read>>

(* One turn of the loop in RecvMessage, with the mutex held: it waits      *)
(* while the successor of the last frame is not there, ...                 *)
Receiving == at \in {"recv", "awake"}

RecvWait ==
    /\ Receiving /\ ~recv_zero /\ ~ctx.info.valid
    /\ at' = "asleep"
    /\ UNCHANGED <<peerVars, browserVars, ctxVars, next, want, read>>

SpuriousWakeup ==
    /\ at = "asleep"
    /\ at' = "awake"
    /\ UNCHANGED <<peerVars, browserVars, ctxVars, next, want, read>>

(* ... throws when there will be none (the faulty variant throws as soon   *)
(* as the end is known), ...                                               *)
RecvThrowEarly ==
    /\ Receiving /\ recv_zero
    /\ at' = "failed" /\ want' = 0
    /\ UNCHANGED <<peerVars, browserVars, ctxVars, next, read>>

RecvThrow ==
    /\ Receiving /\ recv_zero /\ ~ctx.info.valid
    /\ at' = "failed" /\ want' = 0
    /\ UNCHANGED <<peerVars, browserVars, ctxVars, next, read>>

(* ... and takes from this one frame what it holds of that.                *)
RecvTake ==
    /\ Receiving /\ ctx.info.valid
    /\ LET taken == Taken(ctx, want)
       IN  /\ read' = read \o taken
           /\ want' = want - Len(taken)
           /\ at' = IF want' = 0 THEN "idle" ELSE "recv"
    /\ ctx' = RecvFromRecvCtx(ctx, want)
    /\ UNCHANGED <<peerVars, browserVars, recv_zero, next>>

(* The destructor closes and deletes the WebSocket.                        *)
Close ==
    /\ at = "idle" /\ next > Len(program.requests)
    /\ at' = "closed"
    /\ UNCHANGED <<peerVars, browserVars, ctxVars, next, want, read>>
-----------------------------------------------------------------------------
Peer == PeerSend \/ PeerClose
Browser == OnOpen \/ OnMessage \/ OnError \/ OnClose
Reader ==
    \/ Ready \/ CheckReady \/ Recv \/ RecvWait \/ RecvThrow \/ RecvTake \/ Close

Next == Peer \/ Lose \/ Browser \/ SpuriousWakeup \/ Reader

(* The browser runs its callbacks and the benchmark's thread runs; the     *)
(* peer sends what it has to send and closes.                              *)
Spec == Init /\ [][Next]_vars /\ WF_vars(Peer) /\ WF_vars(Browser) /\ WF_vars(Reader)
-----------------------------------------------------------------------------
(* PROPERTIES.                                                             *)

(* Every variable has its type.                                            *)
Frame == [id : Nat, data : Seq(Nat) \ {<<>>}]

TypeOK ==
    /\ program \in Programs
    /\ sent \in [frames : Nat, bytes : Nat] /\ ended \in BOOLEAN
    /\ net \in Seq(Frame) /\ lost \in BOOLEAN
    /\ readyState \in {"connecting", "open", "failing", "closed"}
    /\ ctx \in [list : Seq(Frame),
                info : [data : Seq(Nat), offset : Nat,
                        prev : Nat, valid : BOOLEAN]]
    /\ recv_zero \in BOOLEAN
    /\ at \in {"connect", "ready", "idle", "recv", "asleep", "awake",
               "failed", "closed"}
    /\ next \in Nat \ {0} /\ want \in Nat /\ read \in Seq(Nat)

(* The thread sleeps only while there is nothing for it: each message, the *)
(* error and the close wake it in the critical section that records them,  *)
(* the cursor is on a frame whenever there is one in the list, and no      *)
(* frame waits behind a gap in the ids.                                    *)
SleepsOnlyWithoutFrames == at = "asleep" => ~recv_zero /\ ctx.list = <<>>

(* The benchmark's thread ends, with all it asked for or because no more   *)
(* will come: no wakeup is lost, whether it is a message, an error or a    *)
(* close that the thread is waiting for.                                   *)
Termination ==
    <>[](at = "closed" \/ (at = "failed" /\ want = 0 /\ (lost \/ ended)))

(* What the peer writes reaches the reader as it does on the native        *)
(* channel: in order, without loss or duplication; a receive fails only if *)
(* the connection is lost or all that was sent has been read, though the   *)
(* end may be known before the frames in the list are.                     *)
Directions(v, w) == [p \in {"server", "client"} |-> IF p = "server" THEN v ELSE w]

Stream == INSTANCE ByteChannel WITH
    Server <- "server", Client <- "client",
    written <- Directions(sent.bytes, 0),
    pushed <- Directions(sent.bytes, 0),
    read <- Directions(<<>>, read),
    want <- Directions(0, want),
    lost <- lost

ImplementsByteChannel == Stream!Spec
=============================================================================

---------------------------- MODULE ProxyClient ----------------------------
(***************************************************************************)
(* The proxy client (network/proxy_client): socket calls that a proxy      *)
(* executes, each a request and a reply that carry the call's id.  Four    *)
(* threads share a ProxyClientCtx:                                         *)
(*                                                                         *)
(*   user   makes the calls, reads the received bytes, and destroys;       *)
(*   send   collects the acknowledgements of the user's sends;             *)
(*   recv   keeps one RECV call outstanding and stores what it brings;     *)
(*   net    takes the ids of the calls that wait, in the order they began  *)
(*          to wait, and brings each its reply.                            *)
(*                                                                         *)
(* The proxy and the TLS server behind it are not in the repository: here  *)
(* the proxy answers the requests it has in any order, and the server      *)
(* answers every message with the next element of Responses.  Bytes are    *)
(* named by their position in the server's stream.                         *)
(***************************************************************************)
EXTENDS RecvCtx

CONSTANTS
    Programs,   \* the programs the user may run
    Responses,  \* lengths of the server's answers to the first messages
    MaxRetry,   \* how many RECV calls the proxy answers with EAGAIN
    MaxCalls,   \* bound: no RECV call with a larger id
    MayLose     \* whether the connection to the proxy may be lost

Threads == {"user", "send", "recv", "net"}

Op == [op : {"call", "connect", "send", "await", "recv"}, n : Nat]

ASSUME ProgramsAssumption == Programs \subseteq Seq(Op)
(* connect3 starts the two threads and keeps their handles; Connect() of    *)
(* proxy_client.h is called once.                                          *)
ASSUME ConnectOnceAssumption ==
    \A p \in Programs : \A i, j \in DOMAIN p :
        p[i].op = "connect" /\ p[j].op = "connect" => i = j

ASSUME ResponsesAssumption == Responses \in Seq(Nat)
ASSUME MaxRetryAssumption == MaxRetry \in Nat
ASSUME MaxCallsAssumption == MaxCalls \in Nat
ASSUME MayLoseAssumption == MayLose \in BOOLEAN

VARIABLES
    prog,      \* the calls the user has still to make
    pc,        \* where each thread is
    cur,       \* the call each thread is busy with
    calls,     \* the PosixSocketCallResults, by id
    callq,     \* callIdHeader
    netlist,   \* network_recv_ctx, used in chunk mode
    flags,     \* the flags the destructor clears
    sendList,  \* send_ctx->list
    chunk,     \* the bytes the recv thread has in its buffer
    again,     \* whether its errno is EAGAIN or EINTR
    ctx,       \* recv_ctx->inner_ctx
    chunks,    \* recv_ctx->id
    zero,      \* recv_zero, of inner_ctx and of the ProxyClientCtx
    bytes,     \* recv_bytes and minimal_bytes
    mark,      \* history: bytes counted, and SEND calls made, when
               \* minimal_bytes was set last
    want,      \* bytes the user's receive is still waiting for
    got,       \* the bytes the user has received
    asked,     \* calls whose request the proxy has not answered
    passed,    \* SEND calls whose message the server has
    replies,   \* replies on their way to the client
    server,    \* bytes it has sent and the proxy has passed on; whether it
               \* has closed, and whether the proxy's connection to it failed
    retries,   \* RECV calls answered with EAGAIN so far
    lost,      \* the connection to the proxy is gone
    aborted    \* an exception has left a thread: std::terminate

userVars == <<prog, want, got>>
callVars == <<calls, callq, netlist, flags, sendList>>
recvVars == <<chunk, again, ctx, chunks, zero, bytes, mark>>
proxyVars == <<asked, passed, replies, server, retries, lost>>
vars == <<pc, cur, userVars, callVars, recvVars, proxyVars, aborted>>

NoReply == [id |-> 0, ret |-> "none", data |-> <<>>]

(* done: operationCompleted; listed: in callResultHead.                    *)
Call(kind) ==
    [kind |-> kind, done |-> 0, listed |-> TRUE, freed |-> 0, reply |-> NoReply]

Goto(t, l) == pc' = [pc EXCEPT ![t] = l]

(* After Init(): connected to the proxy, the network thread just started.  *)
Init ==
    /\ prog \in Programs
    /\ pc = [t \in Threads |-> CASE t = "user" -> "run" [] t = "net" -> "start"
                                 [] OTHER -> "off"]
    /\ cur = [t \in Threads |-> 0]
    /\ calls = <<>> /\ callq = <<>> /\ netlist = EmptyRecvCtx
    /\ flags = [waitOperationCompleted |-> TRUE, waitNextCallId |-> TRUE,
                valid |-> TRUE, recvAgain |-> TRUE]
    /\ sendList = <<>>
    /\ chunk = <<>> /\ again = FALSE
    /\ ctx = EmptyRecvCtx /\ chunks = 0
    /\ zero = [inner |-> FALSE, outer |-> FALSE]
    /\ bytes = [recv |-> 0, minimal |-> 0] /\ mark = [counted |-> 0, sends |-> 0]
    /\ want = 0 /\ got = <<>>
    /\ asked = {} /\ passed = {} /\ replies = <<>>
    /\ server = [sent |-> 0, relayed |-> 0, closed |-> FALSE, failed |-> FALSE]
    /\ retries = 0 /\ lost = FALSE /\ aborted = FALSE
-----------------------------------------------------------------------------
(* ONE CALL.                                                               *)

NewId == Len(calls) + 1

(* allocate_call_result, then the request to the proxy.  On a lost         *)
(* connection the kernel may still accept it.                              *)
Request(t, kind, next) ==
    /\ calls' = Append(calls, Call(kind))
    /\ cur' = [cur EXCEPT ![t] = NewId]
    /\ asked' = IF lost THEN asked ELSE asked \cup {NewId}
    /\ Goto(t, next)

(* check_network throws, or SendEx.                                        *)
Broken == zero.inner \/ zero.outer \/ lost

(* allocate_call_result, and the request is never sent.                    *)
AllocateOnly(kind) == calls' = Append(calls, Call(kind))

(* wait_for_call_result, first PutCallId ...                               *)
PutCallId(t) ==
    /\ pc[t] = "put"
    /\ callq' = Append(callq, cur[t])
    /\ Goto(t, "wait")
    /\ UNCHANGED <<cur, userVars, calls, netlist, flags, sendList, recvVars,
                   proxyVars, aborted>>

(* ... then wait until the call is completed ...                           *)
Completed(t) == pc[t] = "wait" /\ calls[cur[t]].done = 1

(* ... or the wait is cancelled, which leaves the result to its reply.     *)
Cancelled(t) ==
    /\ pc[t] = "wait"
    /\ ~flags.waitOperationCompleted /\ calls[cur[t]].done = 0

Freed(id) == calls' = [calls EXCEPT ![id].freed = @ + 1]
-----------------------------------------------------------------------------
(* THE NETWORK THREAD (process_network, BridgeSocketOnMessage).            *)

NetStart ==
    /\ pc["net"] = "start"
    /\ flags' = [flags EXCEPT !.waitNextCallId = TRUE]
    /\ Goto("net", "idle")
    /\ UNCHANGED <<cur, userVars, calls, callq, netlist, sendList, recvVars,
                   proxyVars, aborted>>

NetNext ==
    /\ pc["net"] = "idle"
    /\ \/ /\ callq # <<>>
          /\ cur' = [cur EXCEPT !["net"] = Head(callq)]
          /\ callq' = Tail(callq)
          /\ Goto("net", "match")
       \/ /\ callq = <<>> /\ ~flags.waitNextCallId
          /\ Goto("net", "exit")
          /\ UNCHANGED <<cur, callq>>
    /\ UNCHANGED <<userVars, calls, netlist, flags, sendList, recvVars, proxyVars, aborted>>

(* RecvMessage by id: read and store messages until the one with this id   *)
(* is there.                                                               *)
NetRead ==
    /\ pc["net"] = "match"
    /\ ChunkAt(netlist, cur["net"]) = {}
    /\ replies # <<>>
    /\ netlist' = PutChunk(netlist, Head(replies))
    /\ replies' = Tail(replies)
    /\ UNCHANGED <<pc, cur, userVars, calls, callq, flags, sendList, recvVars,
                   asked, passed, server, retries, lost, aborted>>

(* The read fails, or times out after StopRecv: the thread ends, and wakes *)
(* nobody.                                                                 *)
NetReadFails ==
    /\ pc["net"] = "match"
    /\ ChunkAt(netlist, cur["net"]) = {}
    /\ replies = <<>> /\ (lost \/ ~flags.recvAgain)
    /\ Goto("net", "exit")
    /\ UNCHANGED <<cur, userVars, callVars, recvVars, proxyVars, aborted>>

(* Faulty variant: any stored message will do.                             *)
NetMatchFirst ==
    /\ pc["net"] = "match"
    /\ netlist.list # <<>>
    /\ calls' = [calls EXCEPT ![cur["net"]].listed = FALSE,
                              ![cur["net"]].reply = Head(netlist.list)]
    /\ netlist' = [netlist EXCEPT !.list = Tail(@)]
    /\ Goto("net", "complete")
    /\ UNCHANGED <<cur, userVars, callq, flags, sendList, recvVars, proxyVars, aborted>>

(* pop_call_result, and the reply is attached to the popped result ...     *)
NetMatch ==
    /\ pc["net"] = "match"
    /\ \E i \in ChunkAt(netlist, cur["net"]) :
           calls' = [calls EXCEPT ![cur["net"]].listed = FALSE,
                                  ![cur["net"]].reply = netlist.list[i]]
    /\ netlist' = RemoveChunk(netlist, cur["net"])
    /\ Goto("net", "complete")
    /\ UNCHANGED <<cur, userVars, callq, flags, sendList, recvVars, proxyVars, aborted>>

(* ... and its waiter woken, or, if it has given up, the result freed.     *)
NetComplete ==
    /\ pc["net"] = "complete"
    /\ \/ /\ calls[cur["net"]].done = 0
          /\ calls' = [calls EXCEPT ![cur["net"]].done = 1]
       \/ /\ calls[cur["net"]].done # 0
          /\ Freed(cur["net"])
    /\ Goto("net", "idle")
    /\ UNCHANGED <<cur, userVars, callq, netlist, flags, sendList, recvVars,
                   proxyVars, aborted>>
-----------------------------------------------------------------------------
(* THE SEND THREAD (process_send).                                         *)

SendGet ==
    /\ pc["send"] = "get"
    /\ \/ /\ sendList # <<>>
          /\ cur' = [cur EXCEPT !["send"] = Head(sendList)]
          /\ sendList' = Tail(sendList)
          /\ Goto("send", "put")
       \/ /\ sendList = <<>> /\ ~flags.valid
          /\ Goto("send", "exit")
          /\ UNCHANGED <<cur, sendList>>
    /\ UNCHANGED <<userVars, calls, callq, netlist, flags, recvVars, proxyVars, aborted>>

(* Its wait is never cancelled: the destructor joins it before it cancels. *)
SendAcknowledged ==
    /\ Completed("send")
    /\ Freed(cur["send"])
    /\ Goto("send", "get")
    /\ UNCHANGED <<cur, userVars, callq, netlist, flags, sendList, recvVars,
                   proxyVars, aborted>>
-----------------------------------------------------------------------------
(* THE RECV THREAD (process_recv, do_recv).                                *)

RecvRequest ==
    /\ pc["recv"] = "recv" /\ NewId <= MaxCalls
    /\ Request("recv", "recv", "put")
    /\ UNCHANGED <<userVars, callq, netlist, flags, sendList, recvVars,
                   passed, replies, server, retries, lost, aborted>>

(* SendEx throws, and nothing in the thread catches it.                    *)
RecvRequestThrows ==
    /\ pc["recv"] = "recv" /\ lost /\ NewId <= MaxCalls
    /\ AllocateOnly("recv")
    /\ aborted' = TRUE
    /\ UNCHANGED <<pc, cur, userVars, callq, netlist, flags, sendList, recvVars, proxyVars>>

(* Faulty variant: an error that asks to try again ends the stream.        *)
AfterRecvNoRetry(ret) == IF ret = "data" THEN "store" ELSE "closed"

AfterRecv(ret) ==
    CASE ret = "data" -> "store" [] ret = "again" -> "recv" [] OTHER -> "closed"

RecvResult ==
    /\ Completed("recv")
    /\ LET reply == calls[cur["recv"]].reply
       IN  /\ chunk' = reply.data
           /\ again' = (again \/ reply.ret = "again")
           /\ Goto("recv", AfterRecv(reply.ret))
    /\ Freed(cur["recv"])
    /\ UNCHANGED <<cur, userVars, callq, netlist, flags, sendList, ctx, chunks,
                   zero, bytes, mark, proxyVars, aborted>>

(* Faulty variants of a cancelled wait: the result is freed, or taken off  *)
(* the list of pending ones, although its reply may still come.            *)
RecvCancelledFreeing ==
    /\ Cancelled("recv")
    /\ calls' = [calls EXCEPT ![cur["recv"]].done = 2, ![cur["recv"]].freed = @ + 1]
    /\ Goto("recv", IF again THEN "recv" ELSE "closed")
    /\ UNCHANGED <<cur, userVars, callq, netlist, flags, sendList, recvVars,
                   proxyVars, aborted>>

RecvCancelledUnlisting ==
    /\ Cancelled("recv")
    /\ calls' = [calls EXCEPT ![cur["recv"]].done = 2, ![cur["recv"]].listed = FALSE]
    /\ Goto("recv", IF again THEN "recv" ELSE "closed")
    /\ UNCHANGED <<cur, userVars, callq, netlist, flags, sendList, recvVars,
                   proxyVars, aborted>>

(* A cancelled call returns -1 without an errno of its own: an EAGAIN of   *)
(* an earlier call makes the thread try again.                             *)
RecvCancelled ==
    /\ Cancelled("recv")
    /\ calls' = [calls EXCEPT ![cur["recv"]].done = 2]
    /\ Goto("recv", IF again THEN "recv" ELSE "closed")
    /\ UNCHANGED <<cur, userVars, callq, netlist, flags, sendList, recvVars,
                   proxyVars, aborted>>

(* PutToRecvProxyCtx                                                       *)
RecvStore ==
    /\ pc["recv"] = "store"
    /\ ctx' = PutToRecvCtx(ctx, [id |-> chunks + 1, data |-> chunk])
    /\ chunks' = chunks + 1
    /\ Goto("recv", "count")
    /\ UNCHANGED <<cur, userVars, callVars, chunk, again, zero, bytes, mark, proxyVars, aborted>>

(* OnRecvBytes                                                             *)
RecvCount ==
    /\ pc["recv"] = "count"
    /\ bytes' = [bytes EXCEPT !.recv = @ + Len(chunk)]
    /\ chunk' = <<>>
    /\ Goto("recv", "recv")
    /\ UNCHANGED <<cur, userVars, callVars, again, ctx, chunks, zero, mark, proxyVars, aborted>>

(* The stream has ended: tell the reader, then the one who waits for bytes.*)
RecvClosed ==
    /\ \/ /\ pc["recv"] = "closed"
          /\ zero' = [zero EXCEPT !.inner = TRUE]
          /\ Goto("recv", "wake")
       \/ /\ pc["recv"] = "wake"
          /\ zero' = [zero EXCEPT !.outer = TRUE]
          /\ Goto("recv", "exit")
    /\ UNCHANGED <<cur, userVars, callVars, chunk, again, ctx, chunks, bytes,
                   mark, proxyVars, aborted>>
-----------------------------------------------------------------------------
(* THE USER'S CALLS.                                                       *)

(* The bytes stored for the user and not read yet.                         *)
DataOf(list) == FlattenSeq([i \in DOMAIN list |-> list[i].data])

Unread ==
    LET data == DataOf(ctx.list)
    IN  IF ctx.info.valid THEN SubSeq(data, ctx.info.offset + 1, Len(data)) ELSE data

(* What a wait is measured by: the bytes that OnRecvBytes has counted, all *)
(* that are stored but the ones it is still to be called for; and the SEND *)
(* calls made.                                                             *)
Counted == Len(got \o Unread) - (IF pc["recv"] = "count" THEN Len(chunk) ELSE 0)

SendCalls == {i \in DOMAIN calls : calls[i].kind = "send"}

Sends == Cardinality(SendCalls)

Marked(n) == mark' = IF n > 0 THEN [counted |-> Counted, sends |-> Sends] ELSE mark

Calls(op) == pc["user"] = "run" /\ prog # <<>> /\ Head(prog).op = op

(* An exception ends the user's program; the proxy is destroyed.           *)
Throws ==
    /\ Broken
    /\ prog' = <<>>
    /\ UNCHANGED <<pc, cur, asked>>

(* getaddrinfo3, socket3, shutdown3; connect3.                             *)
UserCall ==
    /\ Calls("call") \/ Calls("connect")
    /\ \/ /\ ~zero.inner /\ ~zero.outer
          /\ Request("user", Head(prog).op, "put")
          /\ prog' = Tail(prog)
       \/ AllocateOnly(Head(prog).op) /\ Throws
    /\ UNCHANGED <<want, got, callq, netlist, flags, sendList, recvVars,
                   passed, replies, server, retries, lost, aborted>>

(* A connect that succeeds starts the other two threads, one that fails    *)
(* throws.                                                                 *)
UserResult ==
    /\ Completed("user")
    /\ LET call == calls[cur["user"]]
       IN  \/ /\ call.kind = "call"
              /\ Goto("user", "run") /\ UNCHANGED prog
           \/ /\ call.kind = "connect" /\ call.reply.ret = "ok"
              /\ pc' = [pc EXCEPT !["user"] = "run", !["send"] = "get", !["recv"] = "recv"]
              /\ UNCHANGED prog
           \/ /\ call.kind = "connect" /\ call.reply.ret = "fail"
              /\ prog' = <<>>
              /\ Goto("user", "run")
    /\ Freed(cur["user"])
    /\ UNCHANGED <<cur, want, got, callq, netlist, flags, sendList, recvVars,
                   proxyVars, aborted>>

(* Faulty variant: the counted bytes of the last answer are not reset.     *)
UserSendWithoutReset ==
    /\ Calls("send")
    /\ bytes' = IF Head(prog).n > 0 THEN [bytes EXCEPT !.minimal = Head(prog).n] ELSE bytes
    /\ Marked(Head(prog).n)
    /\ \/ /\ ~zero.inner /\ ~zero.outer
          /\ Request("user", "send", "list")
          /\ prog' = Tail(prog)
       \/ AllocateOnly("send") /\ Throws
    /\ UNCHANGED <<want, got, callq, netlist, flags, sendList, chunk, again, ctx, chunks,
                   zero, passed, replies, server, retries, lost, aborted>>

(* send3, after SetWaitBytes(n) if n > 0: the request ...                  *)
UserSend ==
    /\ Calls("send")
    /\ bytes' = IF Head(prog).n > 0 THEN [recv |-> 0, minimal |-> Head(prog).n] ELSE bytes
    /\ Marked(Head(prog).n)
    /\ \/ /\ ~zero.inner /\ ~zero.outer
          /\ Request("user", "send", "list")
          /\ prog' = Tail(prog)
       \/ AllocateOnly("send") /\ Throws
    /\ UNCHANGED <<want, got, callq, netlist, flags, sendList, chunk, again, ctx, chunks,
                   zero, passed, replies, server, retries, lost, aborted>>

(* ... whose acknowledgement is the send thread's to collect.              *)
UserSendList ==
    /\ pc["user"] = "list"
    /\ sendList' = Append(sendList, cur["user"])
    /\ Goto("user", "run")
    /\ UNCHANGED <<cur, userVars, calls, callq, netlist, flags, recvVars, proxyVars, aborted>>

(* WaitForBytes                                                            *)
UserAwait ==
    /\ Calls("await")
    /\ zero.outer \/ bytes.recv >= bytes.minimal
    /\ prog' = IF bytes.recv >= bytes.minimal THEN Tail(prog) ELSE <<>>
    /\ UNCHANGED <<pc, cur, want, got, callVars, recvVars, proxyVars, aborted>>

(* recv3 (RecvFromRecvProxyCtx): nothing to do for a receive of no bytes.  *)
UserRecv ==
    /\ Calls("recv")
    /\ prog' = Tail(prog)
    /\ want' = Head(prog).n
    /\ Goto("user", IF Head(prog).n = 0 THEN "run" ELSE "read")
    /\ UNCHANGED <<cur, got, callVars, recvVars, proxyVars, aborted>>

UserRead ==
    /\ pc["user"] = "read"
    /\ \/ /\ ctx.info.valid
          /\ LET taken == Taken(ctx, want)
             IN  /\ got' = got \o taken
                 /\ want' = want - Len(taken)
                 /\ Goto("user", IF Len(taken) = want THEN "run" ELSE "read")
          /\ ctx' = RecvFromRecvCtx(ctx, want)
       \/ /\ ~ctx.info.valid /\ zero.inner
          /\ want' = 0
          /\ Goto("user", "run")
          /\ UNCHANGED <<got, ctx>>
    /\ UNCHANGED <<cur, prog, callVars, chunk, again, chunks, zero, bytes, mark, proxyVars,
                   aborted>>
-----------------------------------------------------------------------------
(* ~ProxyClientCtx                                                         *)

Destroying(label) == pc["user"] = label

(* No further sends; wait for the send thread, if there is one.            *)
DestroySend ==
    /\ Destroying("run") /\ prog = <<>>
    /\ flags' = [flags EXCEPT !.valid = pc["send"] = "off"]
    /\ Goto("user", "join send")
    /\ UNCHANGED <<cur, userVars, calls, callq, netlist, sendList, recvVars,
                   proxyVars, aborted>>

(* Faulty variant: the recv thread is joined without a cancel.             *)
DestroyRecvWithoutCancel ==
    /\ Destroying("join send") /\ pc["send"] \in {"off", "exit"}
    /\ UNCHANGED flags
    /\ Goto("user", "join recv")
    /\ UNCHANGED <<cur, userVars, calls, callq, netlist, sendList, recvVars,
                   proxyVars, aborted>>

(* Cancel the outstanding RECV; wait for the recv thread.                  *)
DestroyRecv ==
    /\ Destroying("join send") /\ pc["send"] \in {"off", "exit"}
    /\ flags' = [flags EXCEPT !.waitOperationCompleted = pc["recv"] = "off"]
    /\ Goto("user", "join recv")
    /\ UNCHANGED <<cur, userVars, calls, callq, netlist, sendList, recvVars,
                   proxyVars, aborted>>

(* Faulty variant: the network thread is not told.                         *)
DestroyNetWithoutNotify ==
    /\ Destroying("join recv") /\ pc["recv"] \in {"off", "exit"}
    /\ flags' = [flags EXCEPT !.recvAgain = FALSE]
    /\ Goto("user", "join net")
    /\ UNCHANGED <<cur, userVars, calls, callq, netlist, sendList, recvVars,
                   proxyVars, aborted>>

(* StopRecv and no further ids; wait for the network thread.               *)
DestroyNet ==
    /\ Destroying("join recv") /\ pc["recv"] \in {"off", "exit"}
    /\ flags' = [flags EXCEPT !.waitNextCallId = FALSE, !.recvAgain = FALSE]
    /\ Goto("user", "join net")
    /\ UNCHANGED <<cur, userVars, calls, callq, netlist, sendList, recvVars,
                   proxyVars, aborted>>

(* Close, and pop_all_call_results frees what is still listed.             *)
DestroyCalls ==
    /\ Destroying("join net") /\ pc["net"] = "exit"
    /\ calls' = [i \in DOMAIN calls |->
                    IF calls[i].listed
                    THEN [calls[i] EXCEPT !.listed = FALSE, !.freed = @ + 1]
                    ELSE calls[i]]
    /\ Goto("user", "done")
    /\ UNCHANGED <<cur, userVars, callq, netlist, flags, sendList, recvVars,
                   proxyVars, aborted>>
-----------------------------------------------------------------------------
(* THE PROXY AND THE SERVER.                                               *)

Reply(id, ret, data) ==
    /\ asked' = asked \ {id}
    /\ replies' = Append(replies, [id |-> id, ret |-> ret, data |-> data])

(* The length of the answer to the k-th message; to those that Responses   *)
(* does not name the server has nothing to say.                            *)
Answer(k) == IF k \in DOMAIN Responses THEN Responses[k] ELSE 0

(* A message reaches the server, which answers it unless it has closed or  *)
(* the connection to it has failed.                                        *)
ProxyPass(id) ==
    /\ id \in asked /\ calls[id].kind = "send" /\ id \notin passed
    /\ passed' = passed \cup {id}
    /\ server' = [server EXCEPT !.sent =
                     IF server.closed \/ server.failed THEN @
                     ELSE @ + Answer(Cardinality(passed) + 1)]
    /\ UNCHANGED <<asked, replies, retries>>

ProxyReply(id) ==
    /\ id \in asked
    /\ \/ calls[id].kind = "call" /\ Reply(id, "ok", <<>>)
       \/ calls[id].kind = "connect" /\ \E ret \in {"ok", "fail"} : Reply(id, ret, <<>>)
       \/ calls[id].kind = "send" /\ id \in passed /\ Reply(id, "ok", <<>>)
    /\ UNCHANGED <<passed, server, retries>>

(* A RECV brings the next bytes, the end of the stream, or EAGAIN.         *)
ProxyRecv(id) ==
    /\ id \in asked /\ calls[id].kind = "recv" /\ ~server.failed
    /\ \/ \E n \in 1..(server.sent - server.relayed) :
              /\ Reply(id, "data", [i \in 1..n |-> server.relayed + i])
              /\ server' = [server EXCEPT !.relayed = @ + n]
              /\ UNCHANGED retries
       \/ /\ server.closed /\ server.sent = server.relayed
          /\ Reply(id, "closed", <<>>)
          /\ UNCHANGED <<server, retries>>
       \/ /\ retries < MaxRetry /\ server.sent = server.relayed
          /\ Reply(id, "again", <<>>)
          /\ retries' = retries + 1
          /\ UNCHANGED server
    /\ UNCHANGED passed

(* Or its connection to the server fails: -1, with an errno that asks for  *)
(* no other try.  What the server has sent and the proxy has not read is   *)
(* gone.                                                                   *)
ProxyRecvFails(id) ==
    /\ id \in asked /\ calls[id].kind = "recv"
    /\ Reply(id, "error", <<>>)
    /\ server' = [server EXCEPT !.failed = TRUE]
    /\ UNCHANGED <<passed, retries>>

ServerCloses ==
    /\ ~server.closed /\ ~server.failed
    /\ server' = [server EXCEPT !.closed = TRUE]
    /\ UNCHANGED <<asked, passed, replies, retries>>

ProxyAnswers == \E id \in asked : ProxyPass(id) \/ ProxyReply(id) \/ ProxyRecv(id)

Proxy ==
    /\ ProxyAnswers \/ ServerCloses \/ \E id \in asked : ProxyRecvFails(id)
    /\ UNCHANGED <<pc, cur, userVars, callVars, recvVars, lost, aborted>>

Lose ==
    /\ MayLose /\ ~lost
    /\ lost' = TRUE
    /\ asked' = {}
    /\ \E n \in 0..Len(replies) : replies' = SubSeq(replies, 1, n)
    /\ UNCHANGED <<pc, cur, userVars, callVars, recvVars, passed, server, retries, aborted>>
-----------------------------------------------------------------------------
User ==
    \/ PutCallId("user") \/ UserCall \/ UserResult \/ UserSend \/ UserSendList
    \/ UserAwait \/ UserRecv \/ UserRead
    \/ DestroySend \/ DestroyRecv \/ DestroyNet \/ DestroyCalls

SendThread == PutCallId("send") \/ SendGet \/ SendAcknowledged

RecvThread ==
    \/ PutCallId("recv") \/ RecvRequest \/ RecvRequestThrows \/ RecvResult
    \/ RecvCancelled \/ RecvStore \/ RecvCount \/ RecvClosed

NetThread ==
    NetStart \/ NetNext \/ NetRead \/ NetReadFails \/ NetMatch \/ NetComplete

(* The proxy is destroyed: nothing of the client runs any more.            *)
Finished == pc["user"] = "done" /\ UNCHANGED vars

Next ==
    \/ ~aborted /\ (User \/ SendThread \/ RecvThread \/ NetThread \/ Proxy \/ Lose)
    \/ Finished

(* Every thread that can run does, and the proxy answers what it can       *)
(* answer.  The server need not close, and no receive need fail.           *)
Fairness ==
    /\ WF_vars(User) /\ WF_vars(SendThread) /\ WF_vars(RecvThread)
    /\ WF_vars(NetThread) /\ WF_vars(Proxy /\ ProxyAnswers)

Spec == Init /\ [][Next]_vars /\ Fairness
-----------------------------------------------------------------------------
(* PROPERTIES.                                                             *)

Reply0 ==
    [id : Nat, ret : {"none", "ok", "fail", "data", "closed", "again", "error"},
     data : Seq(Nat)]

(* Every variable has its type.                                            *)
TypeOK ==
    /\ prog \in Seq(Op) /\ want \in Nat /\ got \in Seq(Nat)
    /\ \A t \in Threads : cur[t] \in 0..Len(calls)
    /\ \A i \in DOMAIN calls :
           calls[i] \in [kind : {"call", "connect", "send", "recv"}, done : 0..2,
                         listed : BOOLEAN, freed : Nat, reply : Reply0]
    /\ callq \in Seq(DOMAIN calls) /\ sendList \in Seq(DOMAIN calls)
    /\ flags \in [waitOperationCompleted : BOOLEAN, waitNextCallId : BOOLEAN,
                  valid : BOOLEAN, recvAgain : BOOLEAN]
    /\ chunk \in Seq(Nat) /\ again \in BOOLEAN /\ chunks \in Nat
    /\ zero \in [inner : BOOLEAN, outer : BOOLEAN]
    /\ bytes \in [recv : Nat, minimal : Nat] /\ mark \in [counted : Int, sends : Nat]
    /\ passed \subseteq DOMAIN calls /\ asked \subseteq DOMAIN calls
    /\ replies \in Seq(Reply0)
    /\ server \in [sent : Nat, relayed : Nat, closed : BOOLEAN, failed : BOOLEAN]
    /\ retries \in 0..MaxRetry /\ lost \in BOOLEAN /\ aborted \in BOOLEAN

(* The bytes of the outstanding RECV, wherever its reply is.               *)
UnderWay ==
    (CASE pc["recv"] = "store"         -> chunk
       [] pc["recv"] \in {"put", "wait"} -> calls[cur["recv"]].reply.data
       [] OTHER                        -> <<>>)
        \o DataOf(netlist.list) \o DataOf(replies)

(* Until the destructor cancels the outstanding RECV, every byte the       *)
(* server has sent and the proxy has passed on is with the user, in the    *)
(* receive context, or under way to it, once and in the server's order,    *)
(* whatever the order in which replies come and threads run.               *)
NoByteLost ==
    ~lost /\ flags.waitOperationCompleted
        => got \o Unread \o UnderWay = [i \in 1..server.relayed |-> i]

(* A receive that comes back short has not overtaken any data: when the    *)
(* end of the stream shows, everything the proxy has passed on is with the *)
(* user or in the receive context, and this is all that the server has     *)
(* sent, unless the proxy's connection to it has failed: an error of a     *)
(* RECV shows to the reader as the end of the stream.                      *)
EndIsTheEnd ==
    pc["user"] \in {"run", "read"} /\ zero.inner =>
        /\ Len(got \o Unread) = server.relayed
        /\ server.failed \/ (server.closed /\ server.sent = server.relayed)

(* The bytes of the server's answers to its first k messages.              *)
AnswersTo(k) ==
    LET total[i \in 0..Len(Responses)] ==
            IF i = 0 THEN 0 ELSE total[i - 1] + Responses[i]
    IN  total[MinOf(k, Len(Responses))]

(* A wait is for the answer of the last message that set minimal_bytes,    *)
(* for every program.  It does not return on bytes that were counted       *)
(* before that message: as many as it asks for have been stored beyond     *)
(* them.  So it is early by no more than the bytes of earlier answers that *)
(* the recv thread had still to count, or the server to send, when the     *)
(* message was sent.  And it is not late: it returns when that many bytes  *)
(* beyond all earlier answers are counted, since the count is reset before *)
(* the request is on its way.                                              *)
WaitIsForItsAnswer ==
    Calls("await") =>
        /\ bytes.recv >= bytes.minimal => Len(got \o Unread) >= mark.counted + bytes.minimal
        /\ Counted >= AnswersTo(mark.sends) + bytes.minimal => bytes.recv >= bytes.minimal

(* Ownership of the call results, which are allocated by one thread,       *)
(* looked up by another and freed by a third: no result is freed twice or  *)
(* while a thread or a queue still refers to it, and none is left when     *)
(* the proxy is destroyed, however a cancel races with a late reply.       *)
InUse ==
    {cur[t] : t \in {u \in Threads : pc[u] \in {"put", "wait", "list", "match", "complete"}}}
        \cup ToSet(callq) \cup ToSet(sendList)

FreedExactlyOnce ==
    /\ \A i \in DOMAIN calls : calls[i].freed <= 1
    /\ pc["user"] # "done" => \A i \in InUse : calls[i].freed = 0
    /\ pc["user"] = "done" => \A i \in DOMAIN calls : calls[i].freed = 1

(* The assertions of BridgeSocketOnMessage: the call a reply is for is     *)
(* among the pending ones, and nobody has completed it before.             *)
AssertionsHold ==
    /\ pc["net"] = "match" => calls[cur["net"]].listed
    /\ pc["net"] = "complete" => calls[cur["net"]].done \in {0, 2}

(* The destructor joins the three threads and returns, whatever is under   *)
(* way when it begins, provided that the server closes some day or a RECV  *)
(* fails: an acknowledgement may be queued behind a RECV that only the     *)
(* server can end, and the destructor waits for the acknowledgements       *)
(* first.                                                                  *)
Termination == <>(server.closed \/ server.failed) => <>(pc["user"] = "done")

(* With the acknowledgements in, the destructor needs nothing more of the  *)
(* server: the outstanding RECV is cancelled.                              *)
CancelEndsReceive ==
    pc["user"] = "join send" /\ pc["send"] \in {"off", "exit"} ~> pc["user"] = "done"
=============================================================================

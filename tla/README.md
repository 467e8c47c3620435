# Verification of the zkTLS benchmark's network code

The repository benchmarks zkTLS protocols.  Its own program is `src/primus/bench`: a
driver for each protocol (`zk_tls`) on top of a network layer (`network`) of some 4,000
lines, hand-written threads, locks and message framing included.  The cryptography is in
libraries that are not part of the repository.  This directory holds TLA+ models of the
network layer and of the drivers on top of it, the TLC runs that check them and TLAPS
proofs of the central ones.

Run, in this directory, `tlc -config <cfg> <module>` for each entry of the table of runs,
and `tlapm` on `SequenceInduction` and each module whose name ends in `Proofs`.

- [Inventory](#inventory)
- [Modules](#modules)
- [Runs](#runs)
- [Fairness](#fairness)
- [Proofs](#proofs)
- [Findings and known limits of the code](#findings-and-known-limits-of-the-code)
- [Not modelled](#not-modelled)
- [Plan](#plan)

## Inventory

`N` stands for `src/primus/bench/network`.

| Component | State | Operations | Works with |
|---|---|---|---|
| WebSocketIO channel (`N/websocket_io_channel`, `N/ws`) | send buffer with its next frame id, flush list, flag `async`, `has_sent`, receive context | `send_data`, `recv_data`, `flush`, `start_async_flush`, `stop_async_flush`, destructor; the flush thread | the bench protocol calls it; a TCP connection to the peer's channel |
| Receive context (`N/ws`) | list of frames sorted by id, cursor into the current frame | `PutToRecvCtx`, `RecvFromRecvCtx`, lookup by id | channel (stream mode) and proxy client (both modes) |
| Proxy client (`N/proxy_client`) | pending call results, ids to wait for, list of unacknowledged sends, receive context, flags of the destructor | `getaddrinfo3`, `socket3`, `connect3`, `send3`, `WaitForBytes`, `recv3`, `shutdown3`, destructor; network, send and recv threads | a proxy executes the calls on real sockets, towards a TLS server |
| WebSocket messages (`N/ws`) | bytes read ahead from the socket, header bytes | `GenWebSocketHeader`, `RecvMessageHeader`, `RecvMessage`, `RecvEx`, masking | under the channel and the proxy client |
| IO manager (`N/io_manager`) | sets of connections by number, their time stamps, numbers in use | `listen`, `init_pado_io`, `accept`, `stop_listen`; the client's `connect_pado_io` | channels that it hands out in sets |
| Exception frequency (`N/io_manager`) | times of the last exceptions | `check_exception_frequency` | the IO manager's listener |
| Connection set-up (`N/ws`, `N/websocket_io_channel`) | listening socket, connection, handshake | `ListenSocket`, `Accept`, `ConnectServer` with retries, request, response and check of the WebSocket handshake | opens each channel of a driver |
| Bench drivers (`zk_tls`, `bench`) | channels, byte counters, JSON result | `createPrimusIO`, one protocol run, exchange of the counter, deletion of the channels | the channel; emp and otls libraries |
| Browser path (`N/ws`, `browser`) | Emscripten's WebSocket, receive context, flag `recv_zero` | callbacks for open, message, error, close; `WaitReadyState`, `RecvMessage` | two threads that share the receive context |
| Sizes on the channel (`N/pado_io_channel.h`) | - | `send_size`, `recv_size` | the IO manager's numbers |
| TLS and file streams (`N/ws.h`) | an OpenSSL session; a file | the interface of `SocketStream` | in place of a TCP socket |
| EmpIO (`N/emp_io_channel`) | a stdio stream | blocking reads and writes | used by no program |
| Helpers, SHA-1, JSON, scripts, data | - | - | - |

How they interact.  A protocol's main thread calls the channel; its bytes are collected
in a send buffer, packed into frames with ascending ids, and appended to a list that the
flush thread empties into the socket (asynchronous mode), or sent directly (synchronous
mode).  The peer's main thread reads frames from the socket into its receive context and
takes bytes off the frame at its cursor.  The proxy client makes calls over one such
connection: user, send and recv thread each send requests and wait under a condition
variable; the network thread reads replies and completes the calls.  The IO manager
groups accepted connections into one set per client through numbers which the client's
threads pass to each other.  A driver opens its channels one after the other, calls the
libraries, sends Bob's byte count to Alice and deletes the channels.  In the browser
(Alice only) the messages arrive in callbacks on the browser's main thread, which fill
the receive context that the benchmark's thread empties.

What is hard, and the properties that make it right:

* Two threads put frames on one connection, ids come from two buffers, and the reader
  can never skip an id.  *Ids are contiguous; one sender at a time; no byte is lost,
  repeated or reordered; the channel is a pair of byte streams.*
* Each protocol blocks for the other, and a buffer may hold what the other waits for.
  *A peer that waits has sent its question and holds no data; everything terminates.*
* Threads are stopped by flags, notifications and joins.  *No wakeup is lost, no join
  waits for ever, nothing queued is dropped, with and without loss of the connection.*
* Replies to the proxy client come in any order, races between a cancel and a late reply
  decide who frees a result.  *Bytes in order; the end of the stream shows last; each
  result is freed exactly once; the destructor returns.*
* The socket hands over bytes in any pieces, and may end anywhere.  *Frames arrive
  intact; only an incomplete one is given up.*
* Connections of several clients arrive in any order, while sets are cleared.  *A set is
  of one client, complete and in its order; each connection has one owner.*
* Whatever one `recv` returns is taken for the peer's handshake, so it may swallow frames
  that came with it, or leave a part of it in the stream.  *No frame is swallowed, except
  where one party speaks first on the channel opened last.*
* The byte count is taken while the count itself travels on one of the counted channels,
  and a socket closed with unread bytes is reset.  *Alice reports what both have sent, to
  the bit; a party that closes has read everything; both processes end, also when either
  dies.*
* In the browser the end of the connection may be known before the last frames are read,
  and a notification may come before the wait.  *No wakeup is lost; the frames in the
  list are read before the end shows; the channel is the same byte stream.*

`PROJECT.json` lists every hazard at its line with the properties that cover it, or the
reason why none does yet.

## Modules

| Module | What it is | Code |
|---|---|---|
| `RecvCtx` | the receive context as operators: sorted insertion, cursor, taking bytes, lookup by id | `ws.cpp` 439-443, 481-619, `ws.h` 197-213 |
| `ByteChannel` | abstract specification of a channel; no code | - |
| `WebSocketIO` | both peers' channels, main and flush threads, and the TCP connection | `websocket_io_channel`, `ws.cpp` 350-440, 636-824, `ws.h` 67-157 |
| `WebSocketIOProofs` | theorems about `WebSocketIO`: first the threads and ids, then the bytes, then the end of a connection | - |
| `ProxyClient` | the proxy client's four threads, the proxy and the server | `proxy_client` |
| `ProxyClientProofs` | theorems about `ProxyClient`: first the call results, then the bytes, then what a wait waits for | - |
| `SequenceInduction` | what `FlattenSeq` yields, by induction; where the parts of a concatenation are; running sums.  Cited by the proofs of the channel, the proxy client, the frames and the drivers | - |
| `WebSocketFrame` | the header's format and its readers, masking, as operators | `ws.cpp` 21-29, 104-247, 325-348, 455-468 |
| `FrameStream` | how messages are found in a stream of bytes | `ws.h` 398-449, 480-510, `ws.cpp` 676-822 |
| `FrameStreamProofs` | theorems about `FrameStream`, `WebSocketFrame` and `PartialMessage` | - |
| `PartialMessage` | the readers of a header on a message of which a prefix is there | `ws.cpp` 103-247 |
| `IOManager` | listener, connection threads and `accept`, numbers sent as sizes | `io_manager.cpp`, `pado_io_channel.h` |
| `ExceptionFrequency` | when the listener aborts the program | `io_manager.cpp` 60-88 |
| `IOManagerProofs` | theorems about `IOManager` | - |
| `ExceptionFrequencyProofs` | theorems about `ExceptionFrequency` | - |
| `BenchDriver` | one benchmark in two processes: channels opened, protocol, report, deletion | `protocol.cpp`, `prot_on_off.cpp`, `prove_proxy_tls.cpp`, `bench.cpp`, `bench.h`, `websocket_io_channel.cpp` 20-144, `ws.cpp` 53-101, 249-310 |
| `BenchDriverProofs` | theorems about `BenchDriver` | - |
| `BrowserChannel` | the receiving channel in the browser: callbacks and the benchmark's thread | `ws.cpp` 769-787, 940-1013, `ws.h` 673-690 |
| `BrowserChannelProofs` | theorems about `BrowserChannel` | - |
| `MC...` | programs, messages and symmetry for TLC | - |

`WebSocketIO`, `ProxyClient` and `BrowserChannel` extend `RecvCtx`; `FrameStream` and
`PartialMessage` extend `WebSocketFrame`; `WebSocketIO` and `BrowserChannel` instantiate
`ByteChannel`, and `BenchDriver` stands on it.  Definitions whose
comment begins with "Faulty variant" are not part of any specification: each replaces
one definition to show that a property can fail.

### WebSocketIO

A peer's main thread executes `prog`, a sequence of calls, then the destructor.  Its
position `pc` is `run` (between calls), `put` (about to hand a packed frame over), `recv`
and `read` (in `RecvMessage`), `spawn`, `join`, `done`.  A send whose frame has to wait
for the flush list's mutex, or for the socket, is cut there: `hand` is the frame, `pend`
the bytes of the call that are not in any frame yet, `cont` where the caller goes on.
`SendData` is what `SendMessage` and `AsyncSendMessage` do before their first frame is
handed over, `SendRest` what they do afterwards; these two functions differ in the code
only in where the frame goes.  The flush thread's position is `fpc`; at `send` it holds the mutex,
as in the code, where the blocking send is inside the critical section.  `async` and the
list are read without the mutex in the loop's condition (`FlushCheck`), which is why that
is an action of its own.

Bytes are named by their position in their sender's stream, so a byte in the wrong place
is visible.  The connection keeps frames in order, holds `WireCap` of them, and can be
lost with any suffix of what it carries.  `FrameStream` justifies moving whole frames.  A
TCP reset after a close with unread data is one instance of `Lose`.

`Crossed` is the one state in which the two channels stop for good with an intact
connection: both flush threads hold their list's mutex in a blocking send, the connection
is full in both directions, and both main threads wait for the mutex.  `Termination` says
that every run ends there or with both destructors returned.

### ProxyClient

User, send, recv and network thread, with a position each.  A call is `Request` (id
allocated, request sent), `PutCallId` (its id is appended to the queue the network thread
serves), then `Completed` or `Cancelled`.  The network thread takes an id from the queue,
reads replies until the one with this id is there (others are kept in `netlist`, a
receive context in chunk mode), finds the pending result (`NetMatch`) and completes it
under the lock (`NetComplete`), or frees it when the waiter has given up.  The recv thread
stores the bytes of a reply in the receive context (`RecvStore`) and counts them in a
separate critical section (`RecvCount`), as the code does.  `DestroySend`,
`DestroyRecv`, `DestroyNet`, `DestroyCalls` are the destructor's four parts, each
followed by a join.  Proxy and server are outside the repository and modelled from what
the client expects of them: any order of replies, any cut of the answers, at most
`MaxRetry` answers EAGAIN, a server that may close at any time or never, and a RECV that
fails with any other error (`ProxyRecvFails`, from then on `server.failed`).  `process_recv`
stores an error as it stores the end of the stream, so a reader cannot tell a connection
that has failed from a server that has closed.  `EndIsTheEnd` says what is left: nothing
that was passed on is missing, and without an error nothing that was sent.

`WaitForBytes` compares two counters, `minimal_bytes`, which `send3` sets, and
`recv_bytes`, which `send3` resets and the recv thread increases after it has stored the
bytes, in a critical section of its own.  `mark` is a history variable: how many bytes were
counted, and how many messages sent, when `send3` last set `minimal_bytes`.
`WaitIsForItsAnswer` is about any user, also one that receives an answer without waiting
for it and sends the next message before its bytes are counted.

### WebSocketFrame, FrameStream, PartialMessage

A message is a header of 2 to 14 bytes and a payload.  `Header` writes and the other
operators read it with the code's arithmetic on bits and bytes.  In `FrameStream` the
connection gives `::recv` any positive number of bytes up to the buffer's size; `Available`
and `Recv` are the two halves of `RecvEx`'s loop, and `Ask` is the next `RecvEx` call of
`RecvMessageHeader` and `RecvMessage`.

### BenchDriver

A party's place `st` is `listen`, `accept`, `respond` for Bob and `connect`, `request`,
`check` for Alice while it opens its channels (`opened` of them so far, `io_opt` first),
then `talk` (the protocol), `exchange` (the counter), `delete`, `done`, or `failed` and
`killed`.  A handshake message is a short sequence of pieces in `hello`; one `recv` takes
any prefix of it, or all of it together with bytes of frames that have been pushed behind
it, which are counted in `swallowed`.  After a torn handshake (`Torn`) nothing is said of
the stream any more: the reader never gets its bytes, which is the model's `Finished`;
`Termination` excuses every such behaviour.

What the libraries say to each other is a parameter: `Dialogues` gives each call a
sequence of messages, each with its sender, channel, length and whether a flush follows.
`CallsOf` lists the calls of each driver in the order of the source.  `FlushAssumption`
states what the drivers expect of the libraries: before a party waits for a message, what
its peer needs to send it has been flushed.  An open channel is the byte stream of
`ByteChannel`, which `WebSocketIO` is shown to implement, so that here a channel is three
counters for each direction: `written`, `pushed`, `got`.

`SumUp`, `SendReport`, `RecvReport` and `Delete` are the ends of the three drivers:
`totalCounter` and `recvCounter` are computed before the report is sent, the latter cut
to 32 bits, and the destructor of each channel flushes it.

### BrowserChannel

The callbacks `OnOpen`, `OnMessage`, `OnError`, `OnClose` run on the browser's main
thread, and each takes the mutex of the receive context once; the benchmark's thread is at
`connect` and `ready` (in `WaitReadyState`, which reads `recv_zero` without the mutex),
`idle`, `recv`, `asleep` or `awake` (on the condition variable), and ends at `closed` or
`failed`.  Spurious wakeups and the loss of the connection may occur at each step.  The
refinement maps the peer to the server of `ByteChannel`.

### IOManager, ExceptionFrequency

Each connection's server thread passes `start`, `init`, `enter`, `send`, `put`, `done`, or
fails, or is at `search` for ever: with every number in use `get_unused_port` does not
return and keeps the mutex of the numbers (`Search`), so that `accept`, which would give one
back, waits for it (`Spinning`); `told` is the number the client's threads pass on.  A set is a
sequence with one empty place for each connection, and one more element when it is complete, as in
the code.  The listener reads the time before it takes the lock (`Connect`,
`ListenClears`); differences of times are modulo `Width`.

`io_manager.cpp` is not in the build's `CMakeLists.txt`; it is modelled as the source has it.

## Runs

Each property of a passing run also has a mutant in `PROJECT.json`: a changed definition
under which TLC finds the property violated.

| Run (cfg) | Shows | Bounds, and why they are enough |
|---|---|---|
| `ws_channel` (`WebSocketIO.cfg`) | ids contiguous, no byte lost, no stall with data, nothing held back while waiting, one sender, everything flushed at the end, termination except in crossing sends, refinement of `ByteChannel` | 107 pairs of programs, which agree on the bytes they exchange (`ProgramsAgree`, evaluated by the run), buffer of 3 bytes, 2 frames on the wire, loss at any step with any suffix.  Messages of 1, 2, 3 and 4 bytes lie on both sides of each comparison with the buffer (`can_put` wants strictly less); exchanges of two messages; receives cut frames at every place; crossing sends fill wire, flush thread and list, up to the limit and beyond it; mode changes come with data in buffer and list |
| `proxy_client` (`ProxyClient.cfg`) | bytes in order, end after the last byte, results freed exactly once, the asserts of `BridgeSocketOnMessage`, destructor returns | four programs: two requests with their answers; a read to the end, with a receive of no bytes; a destructor with an acknowledgement or a RECV under way; a failed or missing connect.  A RECV may fail at any time.  No EAGAIN (`MaxRetry` is 0) and a first call that completes: without these two the destructor may not return, see the findings.  20 RECV calls are never reached |
| `proxy_client_lossy` (`ProxyClientLossy.cfg`) | end and ownership survive the loss of the connection, EAGAIN and errors; a wait is for its own message's answer | one EAGAIN (it stays in `errno`, so one is enough for the loop of further RECVs), ids up to 7.  Three programs: one that receives its first answer without waiting and waits for the second, one that waits, one that never does.  Deadlock is not checked: the code has the hangs listed below |
| `frame_stream` (`FrameStream.cfg`) | messages intact, only incomplete ones given up, never stuck | socket buffer of 7 bytes: smaller than the largest header, larger than a small message, so that each cut occurs; payloads of 0 to 127 bytes with both forms of short headers |
| `partial_message` (`PartialMessage.cfg`) | readers agree with the writer; the two unmasking functions undo each other | all lengths next to each limit; payloads of 0 to 9 bytes cover two words and each rest |
| `partial_message_header` | violation, see the findings | as above |
| `io_manager` (`IOManager.cfg`) | without failures every client's set is accepted | three clients of two connections, a number for each, clock stands still |
| `io_manager_clearing` (`IOManagerClearing.cfg`) | sets of one client, one owner, distinct numbers | two clients that need the same single number, so that one may search for it in vain, three seconds, interval of one second, failures and `stop_listen` at any point; clients are symmetric |
| `exception_frequency` (`ExceptionFrequency.cfg`) | record bounded and made of the latest, no abort without a burst | nine exceptions in eight seconds with count and duration 3: the record is cut twice |
| `exception_burst` | violation, see the findings | as above |
| `bench_driver` (`BenchDriver.cfg`) | no frame swallowed by a handshake, the report is what was sent, nothing unread at a close, both processes end | the three drivers, 67 dialogues of up to four messages with both directions, all channels, flushed or kept in a buffer; `io[0]`, `io[1]` and `io_opt`; `Width` 4, so that the sum wraps; a handshake message may arrive in pieces, and either process may die at each step |
| `browser_channel` (`BrowserChannel.cfg`) | the reader ends, and sleeps only while nothing is there for it; refinement of `ByteChannel` | 315 programs: up to three frames of one or two bytes, up to two receives of 0, 1, 3 or 4 bytes, so that a receive asks for a part of a frame, for several and for more than will come; loss and spurious wakeups at each step |

Constants that are scaled: buffer capacity (bytes instead of kilobytes), socket buffer,
count, duration and interval.  `Width` is smaller than 2^32 (TLC's integers have 32 bits)
and larger than any difference of times that occurs, which is what the assumptions
`TimeAssumption` and `WidthAssumption` ask for.

Deadlock is checked in `ws_channel`, `proxy_client`, `frame_stream` and `bench_driver`,
where the final states are stuttering steps of their own (`Finished`, `Failed`), so that
any other stop is an error.  It is off where the system may stop: the lossy proxy client
(threads that wait for a lost reply), the IO manager (nobody connects any more, or a
crash), the bounded record of exceptions, the browser's channel (both sides have ended)
and the messages in memory.

## Fairness

* `WebSocketIO`: each main thread and each flush thread is weakly fair.  The operating
  system runs threads that can run.  A main thread that needs the mutex competes with a
  flush thread which holds it during a send; the mutex is free each time that thread
  is back at its loop's condition, and in a behaviour in which the flush thread has
  nothing left to send it stays free, so weak fairness is enough.  Nothing is assumed of
  spurious wakeups or of loss.
* `ProxyClient`: the four threads, and the proxy answers what it can answer.  The server
  need not close and no RECV need fail; `Termination` has the condition that one of the two
  happens, because the acknowledgement of a send can be queued behind a RECV that only the
  server can end.  `CancelEndsReceive` needs nothing of the server: once the
  acknowledgements are in, the destructor ends.  Both hold only if no RECV was ever
  answered EAGAIN (`MaxRetry` = 0); after one, the cancelled RECV is retried for ever.
* `FrameStream`: the receiver reads on and the connection delivers what it carries.
  Neither sending nor closing is fair.
* `IOManager`: connections arrive, their threads run (but nothing forces a failure), and
  somebody calls `accept`.
* `BenchDriver`: both processes are weakly fair; nothing makes one die.
* `BrowserChannel`: the peer sends what it has to send and closes, the browser runs its
  callbacks, the benchmark's thread runs.  Loss and spurious wakeups are not fair.

`Answered` in `ByteChannel` is the abstract liveness promise; the refinement run checks
that the code's fairness implies it.

## Proofs

`WebSocketIOProofs` proves for every pair of programs, every `BufCap` and `WireCap`, and
with or without loss:

* `Invariance`: the inductive invariant `IInv`;
* `TypeCorrect`, `NeverStallsWithData`, `OneSenderAtATime`, `FrameIdsAreContiguous`: the
  invariants `TypeOK`, `NoStallWithData`, `OneSender`, `FrameIdsContiguous` that
  `ws_channel` checks on its instance;
* `NothingIsHeldBackWhileWaiting`: the invariant `NothingHeldBackWhileWaiting`;
* `StreamsAreKept` and `ImplementsSafeByteChannel`: the refinement of `ByteChannel` but
  for its liveness (`Channel!Safe`);
* `NoByteIsLost`: the invariant `NoByteLost`, whose bytes under way are the
  concatenation of all payloads, however many frames there are;
* `ClosesAfterFlush`: the invariant `ClosedAfterFlush`, for programs that agree on the
  bytes they exchange.

They rest on `PeersAssumption` (the peers differ), `CapAssumption` (capacities are
positive), `ProgramsAssumption` and `MayLoseAssumption`, which TLC evaluates in the runs.

The argument.  None of these invariants is inductive.  That a reader at the network has
no frame in its list needs the reason: it only reads when its cursor is not on a frame,
and a frame that arrives is always the one the cursor expects, so that the list never
holds a second one (`Cursor`).  That in turn needs the ids on the wire to continue those
that have arrived (`Arriving`), which needs every frame in the hands of the flush thread,
in its list and in the hands of the main thread to continue the chain up to the send
buffer's id (`Leaving`).  A frame may be put on the wire by two threads, and it continues
the chain only if nothing older is left elsewhere: this is what `Threads` says of the
positions of both threads (while `async` is set the flush thread runs; when it has ended
its list is empty; the main thread sends by itself only after the join).  On a broken
connection frames are dropped, and `Leaving` is claimed only while the connection holds;
`Arriving` and `Cursor` are kept by every suffix lost.  The proof that `Next` preserves
`IInv` has one lemma per action (`InvSendData`, `InvPutToFlushCtx`, `InvFlushEnter`, ...),
each with a step per conjunct that the action can disturb; `Undisturbed`, `MainStep` and
`FlushStep` collect what a step of one thread leaves alone.

`NothingHeldBackWhileWaiting` needs an invariant about `has_sent` on top of `IInv`
(`Held`): while it is false the send buffer is empty, or its frame is being handed over
with nothing behind it, and a receive goes to the network only while it is false.  The
one step that clears it, `RecvFlush`, starts exactly such a hand-over; a large send, whose
remaining bytes go back into the buffer, sets it.  A send that fails leaves its buffer
full, hence the claim for an unbroken connection only.

The refinement needs to know where in its sender's stream each byte is, and `IInv` speaks
of ids only.  `DInv` adds it without a fold over payloads: a frame is an interval of the
stream (`Interval`), and a sequence of frames a `Chain` from one position to another in
which each frame begins where the one before it ends.  `Stream` says that the frames
between the reader's context and the main thread are a chain from the end of the frame
that the reader is consuming (`Edge`) to the position where the send buffer, or the frame
in the main thread's hand, begins, and that the reader has been given a prefix; on a
broken connection only that what has arrived, or still can, has been pushed (`Arrives`).
`Asks` says that there is no request outside a receive.  Chains have the three closure
properties that the steps use: a frame is added (`ChainMore`), the head is taken
(`ChainTail`), a suffix is lost (`ChainPrefix`).  Each action has a lemma which shows that
the step keeps `DInv` and simulates one of `ByteChannel` (`Simulated`).

`NoByteLost` says the same with `FlattenSeq` over the payloads.  `SequenceInduction`
proves what that yields.  The library's induction theorems take an operator, which the
provers cannot be given; here the claim is turned into the set of the lengths for which it
holds, and `InductiveSet` (a set with 0 and all successors is `Nat`, from the
well-foundedness of `<`) does the rest.  `FlatteningExists` builds the function that
`FlattenSeq` chooses, `FlattenAppend` and `FlattenConcat` are the two equations the
proofs use.  A `Chain` then flattens to the interval between its ends.

`ClosesAfterFlush` is about a peer whose protocol is over: it closes the socket, whatever
the other one has still to send, and a flush that fails on a closed socket leaves its
bytes in the buffer without the connection being lost.  So the theorem has the hypothesis
`ProgramsAgree`, that a peer asks for all that the other one sends, without which it is
false.  With it, `Agreed` says while a peer lives that the bytes it has sent and will
send are no more than those the other one has got, waits for and will ask for.  When the
other one closes there are only those it has got, so all of them are out of this peer's
channel and none will follow: its last flush finds an empty buffer (`Ending`).
What the calls of a program move (`Amount`) is a running sum; `RunningSumExists` and `RunningSumStep` of `SequenceInduction` say what such
a recursive function yields.

`FrameStreamProofs` proves for all messages of up to `MaxLength` bytes, masked or not,
every `BufferSize`, every way the connection cuts the stream and wherever it ends, that
`StreamInvariant` (the inductive invariant `IInv`), `FrameTypes`, `MessagesArriveIntact`
and `FailsOnlyOnIncomplete` (the invariants `TypeOK`, `FramesIntact`,
`GivesUpOnIncomplete`).  The receiver's `Rest`, what it has not made a message of with what
it has read ahead and what is on the connection, is `Coming`, the concatenation of the
encodings of the messages sent and not received; once the connection has ended, a part may
be missing at the end (`Stream`).  Sending appends to both, `Available` and `Recv` move
bytes inside `Rest` (`AlongMoves`), and `Close` cuts it.  `Stage` says which part of the
next message the current `RecvEx` asks for.  That it asks for the right number is what the
lemmas about the encoding say: the second byte of a message tells the length of its header
(`SecondByteTells`), the header is read as it was written (`HeaderTells`, from
`TwoBytes` and `EightBytes`, which take a length through `ToNetwork` and `ToHost` and
back), unmasking with the same key twice changes nothing (`UnMaskTwice`, from `XorTwice`).
So a complete payload is the next message (`WholeMessage`), and a receiver that can get no
more holds a proper prefix of it (`ShortOfMessage`, one case per stage).  `MaxLength` is
2^31 - 1, the largest length that `RecvMessage` can hold in the `int` it compares with
the payload's length.  The proof rests on `InputsAssumption` and
`BufferSizeAssumption`.

The same lemmas about the encoding prove what the functions promise that read a message
in memory: `FieldsAreReadAsWritten` and `UnmaskingUndoesMasking` (the invariants
`FieldsAgree` and `UnmaskingAgrees` of `PartialMessage`), for every length up to
`MaxLength`, every key and every prefix that holds the header; and `UnmaskingUndoes`, that
one function brings back each byte that the other has masked, for any payload.  They rest
on `LengthsAssumption` and `KeysAssumption`.  The module calls its specification
`PartSpec`, so that one module can extend it and `FrameStream`, and prove about both.

`ExceptionFrequencyProofs` proves for every `Count`, `Duration`, number of exceptions and
bound on the time that `RecordStaysLatest` and `NoAbortWithoutBurst`.  The record is described
element by element as the end of the history; cutting it keeps that (`TruncateEffect`), and a difference taken the wrong way
round modulo `Width` is below `Duration` only when it is zero (`WrappedDifference`), which
is where `WidthAssumption` is needed: without it a difference of almost 2^32 seconds
would pass for a small one.

`IOManagerProofs` proves for every number of clients and of numbers and for sets of up to
256 connections, with failures, clearing and `stop_listen` at any point, `Holders` (the inductive
invariant `IInv`) and from it `TypeCorrect`, `AcceptedSetsAreOfOneClient`,
`NumbersStayDistinct` and `EachHasOneOwner` (the invariants `TypeOK`, `SetsOfOneClient`,
`NumbersAreDistinct`, `OneOwner`).  Numbers are given back and used again, and a thread
writes into the set under the number it was told, so that the argument is about who
*holds* a number: a client does from the moment it gets it until its set has left the map
complete (`Holds`).  Held numbers are marked as used (`Reserved`) and are held by one
client (`Distinct`); each set in the map is exactly what its holder's threads have filed
so far (`Sets`); sets that `accept` returned are complete and not in the map (`Returns`);
and what was filed and is in neither place has been deleted (`Deletions`).  A number is
given back only by `accept`, when the set is complete; by then all of the client's threads
have filed themselves, and the number is nobody's.  The proof has a lemma per action.  It
rests on `NumIOAssumption`, `TimeAssumption` and `PortAssumption`: a number is below 2^16,
so that the four bytes of `send_size` and `recv_size` bring it back unchanged
(`HopIsIdentity`); and a set has at most 256 connections, because `has_number` is a
`uint8_t` (`io_manager.cpp:123`, `311`), and the connection with index 256 would ask for
another number.

`ProxyClientProofs` proves for all programs that connect at most once, all answers of the
proxy in any order, with EAGAINs and with the loss of the connection, `Ownership` (the
inductive invariant `IInv`), `ResultsAreFreedOnce` and `RepliesFindTheirCalls` (the
invariants `FreedExactlyOnce` and `AssertionsHold`).  A result is freed by whichever of
three threads is the last to know of it, so the invariant says of each call where its id
is (`Owned`): with the thread that requested it, in the send thread's list, with a waiter,
in the queue, or at the network thread; which of these exclude each other; what `done` and
`listed` are there; and that `freed` is 0 while the call is listed, being completed or
waited for, and 1 otherwise.  A cancelled wait is the interesting case: the id stays in
the queue or at the network thread without a waiter, `done` is 2, and the network thread,
or the destructor if the reply never comes, frees it.  The destructor's joins (`Joined`)
make its sweep over the listed calls the last access.  The proof rests on
`ProgramsAssumption` and on `ConnectOnceAssumption`: a second `connect3` would start the
send and the recv thread again; `Connect` of `proxy_client.h` calls it once.

Under the same assumptions it proves `StreamOfTheProxy` (the
invariant `DInv` of the bytes) and from it `EveryVariableHasItsType`, `TheEndComesLast`
and `NoByteOfTheServerIsLost` (`TypeOK`, `EndIsTheEnd`, `NoByteLost`).  Replies come in
any order and wait in three places, so the question is why the bytes under way have an
order at all.  `OneReceive`: until it is cancelled the recv thread's call is the only RECV
without a reply.  `OneReply`: every call has one reply at most, at the proxy, among those
put aside, or attached to the call.  `Replied`: only the reply to a RECV carries bytes.
Hence at most one of the replies under way has bytes, the two concatenations of `UnderWay`
are those bytes (`FlattenSingle`), and `Stream` says that they begin where the receive
context ends and reach to what the server has been relayed for.  Without the connection
they may be missing, but none is doubled or moved, and the end is stored only behind the
last byte that was passed on, after a reply to a RECV that said closed or failed: this is
`EndIsTheEnd`.

`WaitsAreForTheirAnswers` is the invariant `WaitIsForItsAnswer`, for every program.  While
`Counted` is the number of bytes that the recv thread has counted so far, `Marks` says that
it is `mark.counted` plus `recv`, whatever has been stored and read in between; so when
`recv` has reached `minimal`, `minimal` bytes beyond those counted at the send are counted,
hence stored.  A wait on the bytes of an answer that was counted is thereby excluded; what
is not, and what the code does, is a wait that returns on bytes that were stored and not
yet counted, or had not arrived, when the message was sent, which is possible for a user
that has not waited for the answer before.  For the other direction `Marks` needs that the
bytes counted at the send are no more than the answers to the messages before it
(`OnlyAnswers`: the server answers only what was sent).

`BenchDriverProofs` first proves for every number of channels, every dialogue, and with or
without split handshakes and deaths that `SetUpInStep` (the inductive invariant `IInv`)
and `NoFrameIsSwallowed` (the invariant `NoFrameSwallowed`).  The argument is about who
may have sent anything when a handshake message is read.  The parties open the channels in
step: Bob is at most one channel ahead of Alice (`InStep`), because Alice's next request
needs her last check, and Bob's response needs her request.  Nobody says anything before
it has opened all of its channels (`SilentBefore`).  So Bob never finds frames behind
Alice's request; Alice finds frames behind his reply only on the last channel, and then
all that has been said was said by Bob alone (`BobAlone`).  `Said` ties what has been
written to the messages passed: if something was pushed on that channel, one of Bob's
first messages, or the report, is on it, which is `BobSpeaksFirst`.

On top of it, `CountsAreKept` (the invariant `RInv` of the bytes) gives `TypeCorrect`,
`ReportsAreRight` and `ClosesQuietly` (`TypeOK`, `ReportsAgree`, `QuietClose`), also when
either process dies at any point.  `Counts` says that what a party has written and got on
a channel is the sum of the parts of the talk up to the message it is at (`SaidBy`), the
report apart, and that nobody gets more than has been pushed, or pushes more than is
written.  That is why one party at the end of the talk is enough: it has got all of the
other's messages, so the other has written them all, although it may still be reading
(`BytesGrow`).  `Reported` and `Read` (the report is on its channel; Alice has taken it
off) are stated by these sums, not by the places of the parties, since a process may die
after either.  Alice cannot have read a report that was not sent (`ReadIsReported`), so
Bob's counters are final when she takes his number.  The total is a fold over the
channels; `SumOfNaturals` and `SumAdds` are the two facts about it, by induction on the
size of a set (`SumFunctionOnSet` chooses the order, and the same one for every function).

The proofs rest on `PartiesAssumption`, `ThreadsAssumption`, `TalkAssumption` and
`WidthAssumption`; `FlushAssumption` and the fairness are for `Termination` only.

`BrowserChannelProofs` proves for all frames and receives, with or without loss and
spurious wakeups, `FramesStayInOrder` (the inductive invariant `IInv`), `TypeCorrect` and
`NoWakeupIsLost` (`TypeOK`, which is a part of it and which no run checks, and the
invariant `SleepsOnlyWithoutFrames`), and
`ImplementsSafeByteChannel`, the refinement of `ByteChannel` but for its liveness.  What
the peer sends is fixed by the program, so each frame's bytes are known from its number
and the lengths before it (`FrameOf`).  `Received` says that the frames in the list,
followed by those on their way, are the next ones after the last that was consumed, that
the cursor is on the head of the list exactly when the list is not empty, and that the
thread has read what lies before it.  A message that arrives is therefore appended and
wakes the thread; the end is known only when nothing is on its way any more (`End`), so
that the thread sees it behind the last frame.  On a connection that is not lost nothing
is missing (`Sent`).  The proof rests on `ProgramsAssumption` and `MayLoseAssumption`.

Model-checked only: liveness under fairness, which is beyond the prover, as is `ENABLED`.
That is `Termination` of the channel, of the proxy client, of the benchmark and of the
browser's reader, `CancelEndsReceive` of the proxy client, `AllReceived` of the frames,
`AllAccepted` of the IO manager, and `Answered` in the two refinements of
`ByteChannel` (`ImplementsByteChannel`), whose safety is proved.  Every invariant and every
safety part of a refinement that a passing run checks is a theorem.

## Findings and known limits of the code

Two runs refute a statement of the code's own comments.

* `partial_message_header`: `WebSocketHasFullHeader` (`ws.cpp:113`) returns a sum where
  it means to compare, so a message with an extended length passes before that length
  has been received, against the comment at `ws.cpp:103`.
* `exception_burst`: `check_exception_frequency` (`io_manager.cpp:75`) subtracts the
  later time from the earlier one without sign; a burst aborts the program only if it
  falls into a single second, against the comment at `io_manager.cpp:74`.

Behaviours that the models have, and that no statement of the repository excludes:

* Proxy client: a lost connection ends the network thread, which wakes nobody, so a user
  in a call, the send thread and the destructor wait for ever.  A RECV cancelled after an
  EAGAIN is retried in a tight loop, because `errno` is not set.  `SendEx` throws in the
  recv thread, which has no handler (`aborted`).  A destructor that runs before the
  network thread has begun waits for ever, since the thread sets `waitNextCallId` itself
  (`NetStart`); the programs begin with a completed call, as every connect does.  An error
  of a RECV shows to the reader as the end of the stream, although bytes of the server may
  be missing (`proxy_client.cpp:329`).  `WaitForBytes` can return
  before the answer is complete if the user has not waited for the answer before: its bytes
  may be counted after `send3` has reset the count (`proxy_client.cpp:703`).
* Channel: the flush list's mutex is held across a blocking send; two peers that both
  send more than the connection and their lists' first frames can hold before they
  receive block each other (`Crossed`), and this is the only way to stop short.  A failed
  send is ignored by its caller and shows at the next receive.
* Set-up: frames that Bob pushes on the last channel before Alice has checked his reply
  can be discarded with it; a handshake message that arrives in two pieces leaves the
  second in the stream of frames; the server's buffer is neither cleared nor terminated
  (`ws.cpp:280`), so the key may be found in what an earlier call left there.
* Drivers: `accept` waits and `connect` retries for ever for a peer that has gone
  (`Stranded`).  No exception is handled and `::send` raises SIGPIPE, so the end of one
  process ends the other.  The counter is sent as 32 bits, so above 4 GB the reported
  number of received bytes is short.  In the browser `_main` returns a pointer into the
  global `result` that the detached thread assigns (`bench.cpp:32`), and the page waits
  for ever for a result if the benchmark throws.
* Browser: `WaitReadyState` reports a failure when the peer has already closed, although
  its frames are in the list.
* IO manager: a connection that files itself after its set was cleared writes through an
  empty vector (`crashed`); numbers of cleared sets are never given back, and with none
  left the search spins with the mutex held; a set entered between the reading of the
  time and the lock looks 2^32 seconds old and is deleted at once.  The checked
  invariants hold in spite of these.

## Not modelled

* Connection set-up: errors of `socket`, `bind` and `listen`; the descriptor that `Close`
  and the destructor both close after a failure; URLs, base64 and SHA-1 of the key, which
  are pure conversions of data the handshake's check does not look at.
* TLS and file streams, recording: OpenSSL calls, and code that is compiled out; the
  reading of messages is that of `FrameStream`.
* The browser's sending side (one call of the browser's API per frame), the page, and the
  proxy client's callbacks in the browser.
* EmpIO (used by no program), the NetIO variant of the build.
* What the emp and otls libraries compute and say: not in the repository; a parameter of
  `BenchDriver`.  Measurement of time and memory, and the JSON result but for its two
  counters.
* Helpers, SHA-1, the vendored JSON library, scripts, the other provers' benchmarks and
  the measured data: no protocol and no concurrency.
* In the models: a `::send` that is accepted only in part, the 120 s receive timeout
  (retried without limit, a stutter), payload lengths of 2^31 and more, and replies of the
  proxy of the wrong size.

## Plan

Done: the channel with its proofs; the proxy client; messages and their reading; the IO
manager and the exception record; the drivers with the set-up of their connections; the
channel in the browser.

To come: `RecvCtx` with frames put in any order, against a reference definition.

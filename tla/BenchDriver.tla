---------------------------- MODULE BenchDriver ----------------------------
(***************************************************************************)
(* One benchmark, from the first connection to the result: the drivers of  *)
(* zk_tls (test_protocol, test_prot_on_off, test_prove_proxy_tls) in two   *)
(* processes, Alice (the prover, who connects) and Bob (the verifier, who  *)
(* listens).                                                               *)
(*                                                                         *)
(* A driver opens its channels one after the other, each with a WebSocket  *)
(* handshake; runs the protocol, which is a sequence of calls to the emp   *)
(* and otls libraries; sends the number of bytes Bob has sent to Alice;    *)
(* and deletes the channels.  Nothing catches an exception: the process of *)
(* a party whose handshake or receive fails is over.                       *)
(*                                                                         *)
(* The libraries are not in the repository.  What a call of theirs says is *)
(* a parameter, a sequence of messages both parties agree on.  An open     *)
(* channel is the byte stream that WebSocketIO.tla is shown to implement   *)
(* (ByteChannel.tla): a message is written, pushed when the send buffer is *)
(* flushed, and read; bytes are counted, not named.                        *)
(***************************************************************************)
EXTENDS Integers, SequencesExt

CONSTANTS
    Alice, Bob,   \* the two parties
    Threads,      \* how many channels io[0], io[1], ...
    Dialogues,    \* what the libraries' calls may say
    Width,        \* 2^32
    MaySplit,     \* whether a handshake message may arrive in pieces
    MayDie        \* whether a party's process may end at any time

Parties == {Alice, Bob}
Peer(p) == IF p = Alice THEN Bob ELSE Alice

(* sizeof(recvCounter)                                                     *)
CounterBytes == 4

(* A channel is named by the distance of its port from the first: io[i] is *)
(* i, and io_opt, which the proxy driver does not have, is Threads.        *)
Opt == Threads
Channels == 0..Threads

(* n bytes from one party to the other, which may be followed by a flush.  *)
Message == [from : Parties, ch : Channels, n : Nat \ {0}, flush : BOOLEAN]

(* What one process does when it gets on the wire: a request has a first   *)
(* line, the key the server looks for, and more; a reply is not looked at. *)
HandshakeRequest == <<"line", "key", "rest">>
HandshakeReply == <<"status", "accept">>
HandshakeLine == {"line", "key", "rest", "status", "accept"}
-----------------------------------------------------------------------------
(* THE PROGRAMS.                                                           *)

Drivers == {"test_protocol", "test_prot_on_off", "test_prove_proxy_tls"}

(* The calls of both versions of full_protocol from the first one in which *)
(* they agree; the two versions (compute_VA_VB stands for the call of      *)
(* either party); and the calls of prove_proxy_tls.                        *)
CommonCalls ==
    <<"compute_pms_online", "compute_extended_master_key",
      "compute_expansion_keys", "compute_client_finished_msg",
      "compute_server_finished_msg", "encrypt_client_finished_msg",
      "decrypt_server_finished_msg", "encrypt", "switch_to_zk", "reveal_pms",
      "prove_and_check_handshake", "prove_record_client",
      "prove_record_server_last", "finalize_check", "sync_zk_gc",
      "switch_to_gc">>

FullProtocol == <<"compute_VA_VB", "compute_pms_offline">> \o CommonCalls
FullProtocolOnline == <<"compute_VA_VB">> \o CommonCalls

ProveProxyTLS ==
    <<"prove_extended_master_key", "prove_expansion_keys",
      "prove_client_finished_msg", "prove_server_finished_msg", "reveal",
      "prove_private_msgs">>

(* The calls of a driver between its clock_start and its report.           *)
CallsOf(driver) ==
    CASE driver = "test_protocol" ->
           <<"setup_protocol">> \o FullProtocol \o <<"finalize_protocol">>
      [] driver = "test_prot_on_off" ->
           <<"setup_protocol", "full_protocol_offline", "compute_pms_offline",
             "switch_to_online">> \o FullProtocolOnline \o <<"finalize_protocol">>
      [] driver = "test_prove_proxy_tls" ->
           <<"setup_proxy_protocol">> \o ProveProxyTLS \o <<"finalize_proxy_protocol">>

Calls == UNION {Range(CallsOf(d)) : d \in Drivers}

(* All that is said in a driver.                                           *)
TalkOf(driver, says) ==
    LET calls == CallsOf(driver)
    IN  FlattenSeq([k \in DOMAIN calls |-> says[calls[k]]])

HasOpt(driver) == driver # "test_prove_proxy_tls"
NumChannels(driver) == IF HasOpt(driver) THEN Threads + 1 ELSE Threads

(* io_opt is opened first.                                                 *)
OpenOrder(driver) ==
    [k \in 1..NumChannels(driver) |->
        IF ~HasOpt(driver) THEN k - 1 ELSE IF k = 1 THEN Opt ELSE k - 2]

(* The libraries flush: before a party waits for a message on a channel it *)
(* has flushed what it sent on the others, by a call of flush or by an     *)
(* earlier receive on the same channel.                                    *)
FlushesBefore(t, p, i, c) ==
    \A j \in 1..(i-1) :
        t[j].from = p /\ t[j].ch # c => \E k \in j..(i-1) :
            t[k].ch = t[j].ch /\ (t[k].from = p => t[k].flush)

WellFlushed(t) ==
    /\ \A i \in DOMAIN t : FlushesBefore(t, Peer(t[i].from), i, t[i].ch)
    /\ FlushesBefore(t, Alice, Len(t) + 1, 0)

ASSUME PartiesAssumption == Alice # Bob
ASSUME ThreadsAssumption == Threads \in Nat \ {0}
ASSUME WidthAssumption == Width \in Nat \ {0}
ASSUME ModesAssumption == MaySplit \in BOOLEAN /\ MayDie \in BOOLEAN
ASSUME TalkAssumption ==
    \A d \in Drivers : \A says \in Dialogues :
        /\ TalkOf(d, says) \in Seq(Message)
        /\ \A i \in DOMAIN TalkOf(d, says) : TalkOf(d, says)[i].ch = Opt => HasOpt(d)
ASSUME FlushAssumption ==
    \A d \in Drivers : \A says \in Dialogues : WellFlushed(TalkOf(d, says))
-----------------------------------------------------------------------------
VARIABLES
    driver, talk,  \* the benchmark, and what is said in it
    st,            \* where a party is
    opened,        \* how many channels it has opened
    listening,     \* the ports Bob listens on
    dialled,       \* the connections Alice has made
    hello,         \* hello[p][c]: what p's handshake message has not been read of
    swallowed,     \* bytes of frames that were read with the peer's handshake
    at,            \* the message a party is at
    written, pushed, got,  \* bytes per party and channel
    total,         \* totalCounter, the field sendBytes of the result
    recvCounter,   \* recvCounter, the field recvBytes of the result
    report,        \* the counter Bob has sent
    closed         \* how many channels a party has deleted

program == <<driver, talk>>
setupVars == <<opened, listening, dialled, hello, swallowed>>
dataVars == <<written, pushed, got>>
resultVars == <<total, recvCounter, report>>
vars == <<program, st, setupVars, at, dataVars, resultVars, closed>>

OpenCount == NumChannels(driver)
LastOpened == OpenOrder(driver)[OpenCount]

PerChannel(S) == [Parties -> [Channels -> S]]
Add(f, p, c, n) == [f EXCEPT ![p][c] = @ + n]

Init ==
    /\ driver \in Drivers
    /\ talk \in {TalkOf(driver, says) : says \in Dialogues}
    /\ st = [p \in Parties |-> IF p = Bob THEN "listen" ELSE "connect"]
    /\ opened = [p \in Parties |-> 0]
    /\ listening = {} /\ dialled = {}
    /\ hello = [p \in Parties |-> [c \in Channels |-> <<>>]]
    /\ swallowed = [p \in Parties |-> [c \in Channels |-> 0]]
    /\ at = [p \in Parties |-> 1]
    /\ written = [p \in Parties |-> [c \in Channels |-> 0]]
    /\ pushed = [p \in Parties |-> [c \in Channels |-> 0]]
    /\ got = [p \in Parties |-> [c \in Channels |-> 0]]
    /\ total = [p \in Parties |-> 0]
    /\ recvCounter = [p \in Parties |-> 0]
    /\ report = 0
    /\ closed = [p \in Parties |-> 0]
-----------------------------------------------------------------------------
(* OPENING A CHANNEL (createPrimusIO).                                     *)

(* The channel that a party is opening.                                    *)
Opening(p) == OpenOrder(driver)[opened[p] + 1]

Move(p, place) == st' = [st EXCEPT ![p] = place]

(* Its process has ended: of an exception, or otherwise.                   *)
Gone(p) == st[p] \in {"failed", "killed"}

(* The channel is open: the next one, or the protocol.                     *)
Opened(p) ==
    /\ opened' = [opened EXCEPT ![p] = @ + 1]
    /\ Move(p, IF opened[p] + 1 = OpenCount THEN "talk"
               ELSE IF p = Bob THEN "listen" ELSE "connect")

(* One recv for the handshake message of the peer: it takes what is there, *)
(* which may be a part of the message, or the message and frames after it. *)
RecvHandshake(p, n) ==
    LET c == Opening(p)
        from == hello[Peer(p)][c]
    IN  /\ n \in 1..Len(from)
        /\ n = Len(from) \/ MaySplit
        /\ \E k \in 0..pushed[Peer(p)][c] :
               /\ k > 0 => n = Len(from)
               /\ swallowed' = [swallowed EXCEPT ![p][c] = k]

Rest(s, n) == SubSeq(s, n + 1, Len(s))

(* The server's constructor: a listening socket for each port ...          *)
Listen ==
    /\ st[Bob] = "listen"
    /\ listening' = listening \cup {Opening(Bob)}
    /\ Move(Bob, "accept")
    /\ UNCHANGED <<program, opened, dialled, hello, swallowed, at, dataVars, resultVars, closed>>

(* ... and accept.                                                         *)
Accept ==
    /\ st[Bob] = "accept" /\ Opening(Bob) \in dialled
    /\ Move(Bob, "respond")
    /\ UNCHANGED <<program, setupVars, at, dataVars, resultVars, closed>>

(* ResponseWebSocketHandshake: the reply goes out if the key is found in   *)
(* what was read.  The buffer is not cleared, so that a key may be found   *)
(* in what an earlier call has left on the stack; else SendHandshake       *)
(* throws.                                                                 *)
Respond ==
    /\ st[Bob] = "respond"
    /\ \E n \in 1..3 :
           /\ RecvHandshake(Bob, n)
           /\ LET c == Opening(Bob)
                  read == [hello EXCEPT ![Alice][c] = Rest(@, n)]
              IN  \/ /\ hello' = [read EXCEPT ![Bob][c] = HandshakeReply]
                     /\ Opened(Bob)
                  \/ /\ \A i \in 1..n : hello[Alice][c][i] # "key"
                     /\ hello' = read
                     /\ Move(Bob, "failed") /\ UNCHANGED opened
    /\ UNCHANGED <<program, listening, dialled, at, dataVars, resultVars, closed>>

(* The client's constructor connects until the server listens.             *)
Connect ==
    /\ st[Alice] = "connect"
    /\ ~Gone(Bob) /\ Opening(Alice) \in listening
    /\ dialled' = dialled \cup {Opening(Alice)}
    /\ Move(Alice, "request")
    /\ UNCHANGED <<program, opened, listening, hello, swallowed, at, dataVars, resultVars, closed>>

(* RequestWebSocketHandshake                                               *)
Request ==
    /\ st[Alice] = "request"
    /\ hello' = [hello EXCEPT ![Alice][Opening(Alice)] = HandshakeRequest]
    /\ Move(Alice, "check")
    /\ UNCHANGED <<program, opened, listening, dialled, swallowed, at, dataVars, resultVars, closed>>

(* CheckWebSocketHandshake: whatever one recv returns is taken for the     *)
(* reply.                                                                  *)
Check ==
    /\ st[Alice] = "check"
    /\ \E n \in 1..2 :
           /\ RecvHandshake(Alice, n)
           /\ hello' = [hello EXCEPT ![Bob][Opening(Alice)] = Rest(@, n)]
    /\ Opened(Alice)
    /\ UNCHANGED <<program, listening, dialled, at, dataVars, resultVars, closed>>
-----------------------------------------------------------------------------
(* THE PROTOCOL AND ITS REPORT.                                            *)

(* The reader of a torn stream starts at something that is not its first   *)
(* frame: it takes other bytes for a header, or misses the first id.  It   *)
(* waits then for what never comes, or until the peer has gone.            *)
Torn(p, c) ==
    \/ swallowed[p][c] > 0
    \/ /\ hello[Peer(p)][c] # <<>>
       /\ st[p] = "failed" \/ \E k \in 1..opened[p] : OpenOrder(driver)[k] = c

(* The message that a party is at, and whether it says or hears it.        *)
ReportMessage == [from |-> Bob, ch |-> 0, n |-> CounterBytes, flush |-> TRUE]

Current(p) == IF st[p] = "exchange" THEN ReportMessage ELSE talk[at[p]]
Speaks(p) == st[p] = "exchange" \/ (st[p] = "talk" /\ at[p] <= Len(talk))
Saying(p) == Speaks(p) /\ Current(p).from = p
Hearing(p) == Speaks(p) /\ Current(p).from # p

(* send_data, which keeps what fits into the send buffer, and a flush if   *)
(* the caller makes one.                                                   *)
SendData(p) ==
    LET m == Current(p)
    IN  /\ Saying(p)
        /\ written' = Add(written, p, m.ch, m.n)
        /\ \E k \in pushed[p][m.ch]..written[p][m.ch] + m.n :
               /\ m.flush => k = written[p][m.ch] + m.n
               /\ pushed' = [pushed EXCEPT ![p][m.ch] = k]
        /\ UNCHANGED got

(* recv_data flushes its channel, then waits for all it asks for.          *)
FlushBeforeHearing(p) ==
    /\ Hearing(p)
    /\ LET c == Current(p).ch
       IN  /\ pushed[p][c] < written[p][c]
           /\ pushed' = [pushed EXCEPT ![p][c] = written[p][c]]
    /\ UNCHANGED <<program, st, setupVars, at, written, got, resultVars, closed>>

(* Faulty variant: a receive that returns without its bytes.               *)
RecvDataShort(p) ==
    LET m == Current(p)
    IN  /\ Hearing(p)
        /\ pushed[p][m.ch] = written[p][m.ch]
        /\ ~Torn(p, m.ch)
        /\ got' = Add(got, p, m.ch, IF got[p][m.ch] + m.n <= pushed[Peer(p)][m.ch]
                                    THEN m.n ELSE 0)
        /\ UNCHANGED <<written, pushed>>

RecvData(p) ==
    LET m == Current(p)
    IN  /\ Hearing(p)
        /\ pushed[p][m.ch] = written[p][m.ch]
        /\ ~Torn(p, m.ch)
        /\ got[p][m.ch] + m.n <= pushed[Peer(p)][m.ch]
        /\ got' = Add(got, p, m.ch, m.n)
        /\ UNCHANGED <<written, pushed>>

(* The next message of the protocol.                                       *)
Protocol(p) ==
    /\ st[p] = "talk"
    /\ SendData(p) \/ RecvData(p)
    /\ at' = [at EXCEPT ![p] = @ + 1]
    /\ UNCHANGED <<program, st, setupVars, resultVars, closed>>

Counted(p, S) == SumFunctionOnSet(written[p], S)

(* Faulty variants: a count that forgets io_opt, as the driver without it  *)
(* may; one that is not cut.                                               *)
SumUpWithoutOpt(p) ==
    /\ st[p] = "talk" /\ at[p] = Len(talk) + 1
    /\ total' = [total EXCEPT ![p] = Counted(p, Channels \ {Opt})]
    /\ recvCounter' = [recvCounter EXCEPT ![p] = total'[p] % Width]
    /\ Move(p, "exchange")
    /\ UNCHANGED <<program, setupVars, at, dataVars, report, closed>>

SumUpUncut(p) ==
    /\ st[p] = "talk" /\ at[p] = Len(talk) + 1
    /\ total' = [total EXCEPT ![p] = Counted(p, Channels)]
    /\ recvCounter' = [recvCounter EXCEPT ![p] = total'[p]]
    /\ Move(p, "exchange")
    /\ UNCHANGED <<program, setupVars, at, dataVars, report, closed>>

(* The protocol is over: the bytes sent on all channels, and their number  *)
(* cut to 32 bits.                                                         *)
SumUp(p) ==
    /\ st[p] = "talk" /\ at[p] = Len(talk) + 1
    /\ total' = [total EXCEPT ![p] = Counted(p, Channels)]
    /\ recvCounter' = [recvCounter EXCEPT ![p] = total'[p] % Width]
    /\ Move(p, "exchange")
    /\ UNCHANGED <<program, setupVars, at, dataVars, report, closed>>

(* Bob sends his number and forgets it, Alice replaces hers by it.         *)
SendReport ==
    /\ st[Bob] = "exchange" /\ SendData(Bob)
    /\ report' = recvCounter[Bob]
    /\ recvCounter' = [recvCounter EXCEPT ![Bob] = 0]
    /\ Move(Bob, "delete")
    /\ UNCHANGED <<program, setupVars, at, total, closed>>

RecvReport ==
    /\ st[Alice] = "exchange" /\ RecvData(Alice)
    /\ recvCounter' = [recvCounter EXCEPT ![Alice] = report]
    /\ Move(Alice, "delete")
    /\ UNCHANGED <<program, setupVars, at, total, report, closed>>

(* Faulty variant: a channel deleted without a last flush.                 *)
DeleteWithoutFlush(p) ==
    /\ st[p] = "delete"
    /\ closed' = [closed EXCEPT ![p] = @ + 1]
    /\ IF closed[p] + 1 = OpenCount THEN Move(p, "done") ELSE UNCHANGED st
    /\ UNCHANGED <<program, setupVars, at, dataVars, resultVars>>

(* The channels are deleted in the order of their ports, each with a last  *)
(* flush.                                                                  *)
Delete(p) ==
    /\ st[p] = "delete"
    /\ pushed' = [pushed EXCEPT ![p][closed[p]] = written[p][closed[p]]]
    /\ closed' = [closed EXCEPT ![p] = @ + 1]
    /\ IF closed[p] + 1 = OpenCount THEN Move(p, "done") ELSE UNCHANGED st
    /\ UNCHANGED <<program, setupVars, at, written, got, resultVars>>
-----------------------------------------------------------------------------
(* FAILURES.                                                               *)

(* The process of a party ends.                                            *)
Die(p) ==
    /\ MayDie /\ st[p] # "done" /\ ~Gone(p)
    /\ Move(p, "killed")
    /\ UNCHANGED <<program, setupVars, at, dataVars, resultVars, closed>>

(* A receive finds the connection closed, by a peer that has gone (what it *)
(* had sent may be lost) or has deleted the channel, and throws; a send to *)
(* a peer that has gone fails, raises SIGPIPE, or goes unnoticed.  Nothing *)
(* handles the exception or the signal.                                    *)
Fail(p) ==
    /\ \/ Gone(Peer(p)) /\ st[p] \in {"respond", "request", "check", "delete"}
       \/ Gone(Peer(p)) /\ Speaks(p)
       \/ /\ Hearing(p)
          /\ LET m == Current(p)
             IN  /\ closed[Peer(p)] > m.ch
                 /\ Torn(p, m.ch) \/ got[p][m.ch] + m.n > pushed[Peer(p)][m.ch]
    /\ Move(p, "failed")
    /\ UNCHANGED <<program, setupVars, at, dataVars, resultVars, closed>>

-----------------------------------------------------------------------------
(* Where a benchmark can stop.  A party that waits for a connection does   *)
(* not learn that the other has gone: connect is retried, accept waits.    *)
Over(p) == st[p] = "done" \/ Gone(p)
Stranded(p) ==
    \/ st[p] = "accept" /\ Gone(Alice) /\ Opening(Bob) \notin dialled
    \/ st[p] = "connect" /\ Gone(Bob)

SomeStreamTorn == \E p \in Parties, c \in Channels : Torn(p, c)

Finished ==
    /\ SomeStreamTorn \/ \A p \in Parties : Over(p) \/ Stranded(p)
    /\ UNCHANGED vars

SetUp(p) ==
    \/ p = Bob /\ (Listen \/ Accept \/ Respond)
    \/ p = Alice /\ (Connect \/ Request \/ Check)

Run(p) ==
    \/ FlushBeforeHearing(p) \/ Protocol(p) \/ SumUp(p) \/ Delete(p)
    \/ p = Bob /\ SendReport
    \/ p = Alice /\ RecvReport

Party(p) == SetUp(p) \/ Run(p) \/ Fail(p)

Next ==
    \/ \E p \in Parties : Party(p) \/ Die(p)
    \/ Finished

(* Both processes run; nothing makes one die.                              *)
Spec == Init /\ [][Next]_vars /\ \A p \in Parties : WF_vars(Party(p))
-----------------------------------------------------------------------------
(* PROPERTIES.                                                             *)

(* Every variable has its type.                                            *)
TypeOK ==
    /\ driver \in Drivers /\ talk \in Seq(Message)
    /\ st \in [Parties -> {"listen", "accept", "respond", "connect", "request", "check",
                           "talk", "exchange", "delete", "done", "failed", "killed"}]
    /\ opened \in [Parties -> 0..OpenCount]
    /\ listening \subseteq Channels /\ dialled \subseteq listening
    /\ hello \in [Parties -> [Channels -> Seq(HandshakeLine)]]
    /\ swallowed \in [Parties -> [Channels -> Nat]]
    /\ at \in [Parties -> 1..Len(talk) + 1]
    /\ written \in [Parties -> [Channels -> Nat]]
    /\ pushed \in [Parties -> [Channels -> Nat]]
    /\ got \in [Parties -> [Channels -> Nat]]
    /\ total \in [Parties -> Nat]
    /\ recvCounter \in [Parties -> 0..Width-1] /\ report \in 0..Width-1
    /\ closed \in [Parties -> 0..OpenCount]

(* Bob has something to say on the channel that is opened last before      *)
(* Alice has said anything on any channel.                                 *)
BobSpeaksFirst ==
    \E i \in 1..Len(talk) + 1 :
        /\ \A j \in 1..i-1 : talk[j].from = Bob
        /\ IF i <= Len(talk) THEN talk[i].from = Bob /\ talk[i].ch = LastOpened
                             ELSE LastOpened = 0

(* CheckWebSocketHandshake discards whatever came with the reply.  It can  *)
(* discard frames on one channel only: Bob does not send before all his    *)
(* channels are open, and he opens each after Alice has checked the one    *)
(* before it; this leaves the last one, if he speaks on it first.  The     *)
(* other handshake never discards any.                                     *)
NoFrameSwallowed ==
    \A p \in Parties, c \in Channels :
        swallowed[p][c] > 0 => p = Alice /\ c = LastOpened /\ BobSpeaksFirst

Sent(p) == Counted(p, Channels)
Received(p) == SumFunctionOnSet(got[p], Channels)

(* What Alice reports: as sent, her own bytes; as received, the bytes that *)
(* came to her before the report itself, which is what Bob says he has     *)
(* sent.  Both hold to the bit, except that the number that travels is     *)
(* modulo 2^32.                                                            *)
ReportsAgree ==
    st[Alice] \in {"delete", "done"} =>
        LET received == Received(Alice) - CounterBytes
        IN  /\ total[Alice] = Sent(Alice) /\ total[Bob] = received
            /\ recvCounter[Alice] = received % Width
            /\ recvCounter[Bob] = 0

(* Closing a socket in which bytes are left unread resets the connection,  *)
(* and the report may be lost that way.  A party that deletes its channels *)
(* has read all that the other has said on them, and the other will say no *)
(* more.                                                                   *)
QuietClose ==
    \A p \in Parties : st[p] \in {"delete", "done"} =>
        \A c \in Channels : got[p][c] = written[Peer(p)][c]

(* Every benchmark ends, on both sides, with its result; if a process has  *)
(* died, the other ends too, or waits for a connection that it will not    *)
(* get; and nothing else happens unless a stream was torn in its           *)
(* handshake.                                                              *)
Termination ==
    <>[](\/ \A p \in Parties : st[p] = "done"
         \/ /\ \E p \in Parties : st[p] = "killed"
            /\ \A p \in Parties : Over(p) \/ Stranded(p)
         \/ SomeStreamTorn)
=============================================================================

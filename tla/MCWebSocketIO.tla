--------------------------- MODULE MCWebSocketIO ---------------------------
(***************************************************************************)
(* Programs for the model checker.  BufCap = 3: one or two bytes fit into  *)
(* the send buffer, three need a frame of their own.  WireCap = 2.         *)
(***************************************************************************)
EXTENDS WebSocketIO, TLC

S(n) == [op |-> "send", n |-> n]
R(n) == [op |-> "recv", n |-> n]
F == [op |-> "flush", n |-> 0]
Stop == [op |-> "stop", n |-> 0]
Start == [op |-> "start", n |-> 0]

(* WebSocketIO::sync, one byte each way.                                   *)
SyncServer == <<S(1), R(1)>>
SyncClient == <<R(1), S(1), F>>

Pair(s, c) == (Server :> s) @@ (Client :> c)

(* Sync, then a request in two sends, read in other pieces than it was     *)
(* written in, and its answer.                                             *)
RequestReply ==
    Pair(SyncServer \o <<S(2), S(2), S(3), R(3)>>,
         SyncClient \o <<R(3), R(4), S(1), S(2), F>>)

(* Both peers send as much as can be under way at once, then receive: the  *)
(* connection is full both ways and one more frame is with each flush      *)
(* thread.                                                                 *)
CrossSend ==
    Pair(<<S(3), S(3), S(3), R(10)>>, <<S(3), S(4), S(3), R(9)>>)

(* Changes of mode with data in the buffer and in the list; a send larger  *)
(* than the buffer behind a partly filled one.                             *)
ModeChange ==
    Pair(<<S(3), S(1), Stop, S(2), S(1), S(3), Stop, R(1), Start, Start, S(2), S(4)>>,
         <<R(10), Stop, S(1), R(6)>>)

(* A receive of nothing, and a program that ends without a flush.          *)
EmptyReceive == Pair(<<S(0), S(1), S(1)>>, <<R(0), R(1), R(1)>>)

(* One frame more than the connection and the threads can hold: the peers  *)
(* may block each other, one in asynchronous mode, or in the join of its   *)
(* flush thread, the other in synchronous mode.                            *)
CrossBlock ==
    Pair(<<S(3), S(3), S(3), S(3), R(9)>>, <<Stop, S(3), S(3), S(3), R(12)>>)

CrossJoin ==
    Pair(<<S(3), S(3), S(3), Stop, R(9)>>, <<Stop, S(3), S(3), S(3), R(9)>>)

(* Both modes, with sends larger than the buffer, towards a peer that      *)
(* answers in between.                                                     *)
TwoModes ==
    Pair(<<S(2), S(3), R(1), S(1), Stop, S(3), S(2)>>, <<R(5), S(1), R(6)>>)

(* Every exchange of two messages of 1, 2 or 4 bytes, and of three of 1 or *)
(* 4 bytes, in which the two programs agree on who sends what.             *)
Exchange(t) ==
    [p \in Peers |-> [i \in DOMAIN t |-> IF t[i].by = p THEN S(t[i].n) ELSE R(t[i].n)]]

Exchanges ==
    {Exchange(t) : t \in [1..2 -> [by : Peers, n : {1, 2, 4}]]
                            \cup [1..3 -> [by : Peers, n : {1, 4}]]}

AllPrograms ==
    {RequestReply, CrossSend, ModeChange, EmptyReceive, CrossBlock, CrossJoin, TwoModes}
        \cup Exchanges

(* No peer closes a connection on which its peer still has to send.        *)
ASSUME AgreementAssumption == ProgramsAgree
=============================================================================

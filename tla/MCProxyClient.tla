--------------------------- MODULE MCProxyClient ---------------------------
(***************************************************************************)
(* Programs for the model checker.  Each begins with a call that completes *)
(* (Socket()), so that the network thread has started before the           *)
(* destructor runs.                                                        *)
(***************************************************************************)
EXTENDS ProxyClient

Call0 == [op |-> "call", n |-> 0]
Connect == [op |-> "connect", n |-> 0]
Send(n) == [op |-> "send", n |-> n]
Await == [op |-> "await", n |-> 0]
Recv(n) == [op |-> "recv", n |-> n]

(* The server's answers.                                                   *)
Answers == <<2, 1>>

(* Socket, connect, two requests and their answers, each awaited first.    *)
TwoRequests ==
    <<Call0, Connect, Send(2), Await, Recv(2), Send(1), Await, Recv(1)>>

(* A receive with no wait, of more than the answer: it ends with the       *)
(* stream.  Then a call, which finds the connection closed.                *)
ReadToTheEnd == <<Call0, Connect, Send(0), Recv(1), Recv(0), Recv(2), Call0>>

(* Destroyed with an acknowledgement, or a RECV, under way; and with no    *)
(* connection.                                                             *)
LeaveEarly == <<Call0, Connect, Send(0), Recv(1)>>
NeverConnected == <<Call0, Call0>>

AllPrograms == {TwoRequests, ReadToTheEnd, LeaveEarly, NeverConnected}

(* The first answer is received with no wait: its bytes may still have to  *)
(* be counted when the second message begins a count of its own.           *)
ReceiveThenAwait == <<Call0, Connect, Send(2), Recv(2), Send(1), Await, Recv(1)>>

OneRequest == <<Call0, Connect, Send(2), Await, Recv(2)>>
NoWait == <<Call0, Connect, Send(0), Recv(1)>>

LossyPrograms == {ReceiveThenAwait, OneRequest, NoWait}
=============================================================================

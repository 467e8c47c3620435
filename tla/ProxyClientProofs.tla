------------------------- MODULE ProxyClientProofs -------------------------
(***************************************************************************)
(* Theorems about ProxyClient, for all programs, answers of the proxy and  *)
(* interleavings, with EAGAINs and with the loss of the connection: who    *)
(* owns the result of a call; what becomes of the bytes; when a wait for   *)
(* the bytes of an answer returns.                                         *)
(*                                                                         *)
(* The results.  A result is allocated by the thread that calls, found by  *)
(* the network thread by the id of the reply, and freed by the thread that *)
(* waits, by the network thread after a cancel, or by the destructor.  The *)
(* invariant says of each call where it is, and that it is freed when it   *)
(* is nowhere.                                                             *)
(*                                                                         *)
(* The bytes.  Until it is cancelled, the recv thread's call is the only   *)
(* RECV that has no reply yet (OneReceive), every call has one reply at    *)
(* most, at the proxy, on its way or attached (OneReply), and only the     *)
(* reply to a RECV carries bytes (Replied).  So the bytes under way are    *)
(* those of one reply, and they are the ones behind what the client has    *)
(* (Stream); that it brings them is lost only with the connection.         *)
(*                                                                         *)
(* The wait for an answer.  What is counted is what was counted when the   *)
(* last message set minimal_bytes, all of it of earlier answers, and       *)
(* recv_bytes (Marks).                                                     *)
(***************************************************************************)
EXTENDS ProxyClient, SequenceInduction, FiniteSetTheorems

Callers == {"user", "send", "recv"}

(* Where the id of a call can be: with the thread that made it, in the     *)
(* send thread's list, with a thread that waits, or at the network thread. *)
Holding(t) == pc[t] \in {"put", "wait", "list"}
Requested(i) == \E t \in Callers : pc[t] \in {"put", "list"} /\ cur[t] = i
Collecting(i) == i \in ToSet(sendList)
Waiting(i) == \E t \in Callers : pc[t] = "wait" /\ cur[t] = i
Queued(i) == i \in ToSet(callq)
Matching(i) == pc["net"] = "match" /\ cur["net"] = i
Completing(i) == pc["net"] = "complete" /\ cur["net"] = i

Positions ==
    /\ pc = [t \in Threads |-> pc[t]] /\ cur = [t \in Threads |-> cur[t]]
    /\ pc["user"] \in {"run", "put", "wait", "list", "read",
                       "join send", "join recv", "join net", "done"}
    /\ pc["send"] \in {"off", "get", "put", "wait", "exit"}
    /\ pc["recv"] \in {"off", "recv", "put", "wait", "store", "count",
                       "closed", "wake", "exit"}
    /\ pc["net"] \in {"start", "idle", "match", "complete", "exit"}

(* A sequence, and no element twice.                                       *)
Distinct(s) ==
    /\ s \in Seq(DOMAIN calls)
    /\ \A a, b \in DOMAIN s : s[a] = s[b] => a = b

Ids ==
    /\ calls \in Seq(ToSet(calls))
    /\ Distinct(callq) /\ Distinct(sendList)
    /\ \A t \in Callers : Holding(t) => cur[t] \in DOMAIN calls
    /\ pc["net"] \in {"match", "complete"} => cur["net"] \in DOMAIN calls

(* No two threads hold one call, and none holds what waits in the list.    *)
Separate ==
    \A t \in Callers : Holding(t) =>
        /\ ~Collecting(cur[t])
        /\ \A u \in Callers : Holding(u) /\ cur[u] = cur[t] => u = t

(* The two threads that connect3 starts are started once.                  *)
Connecting == pc["user"] \in {"put", "wait"} /\ calls[cur["user"]].kind = "connect"

ConnectsNoMore(p) == \A i \in DOMAIN p : p[i].op # "connect"

Started ==
    /\ prog \in Seq(Op)
    /\ \A i, j \in DOMAIN prog : prog[i].op = "connect" /\ prog[j].op = "connect" => i = j
    /\ Connecting => pc["send"] = "off" /\ pc["recv"] = "off"
    /\ Connecting \/ pc["send"] # "off" \/ pc["recv"] # "off" => ConnectsNoMore(prog)

(* The destructor joins them, and then the network thread.                 *)
Joined ==
    /\ pc["user"] \in {"join recv", "join net", "done"} => pc["send"] \in {"off", "exit"}
    /\ pc["user"] \in {"join net", "done"} => pc["recv"] \in {"off", "exit"}
    /\ pc["user"] = "done" => pc["net"] = "exit"

CallType(c) ==
    /\ DOMAIN c = {"kind", "done", "listed", "freed", "reply"}
    /\ c.done \in 0..2 /\ c.listed \in BOOLEAN /\ c.freed \in Nat

(* A call that is requested or waits for its reply is pending, and nobody  *)
(* has completed it; the network thread takes it from the pending ones and *)
(* then completes it.  Until then somebody waits for it, or has given up;  *)
(* and it is freed when nobody is left who would do so.                    *)
Owned(i) ==
    /\ Requested(i) \/ Collecting(i) =>
          /\ calls[i].listed /\ calls[i].done = 0
          /\ ~Queued(i) /\ ~Matching(i) /\ ~Completing(i)
    /\ Queued(i) => calls[i].listed /\ ~Matching(i) /\ ~Completing(i)
    /\ Matching(i) => calls[i].listed
    /\ Completing(i) => ~calls[i].listed
    /\ Queued(i) \/ Matching(i) \/ Completing(i) =>
          /\ calls[i].done # 1
          /\ calls[i].done = 0 => Waiting(i)
    /\ Waiting(i) =>
          /\ calls[i].done # 2
          /\ calls[i].done = 0 => calls[i].listed \/ Completing(i)
    /\ calls[i].done = 1 => ~calls[i].listed
    /\ calls[i].freed = IF calls[i].listed \/ Completing(i) \/ Waiting(i) THEN 0 ELSE 1

IInv ==
    /\ Positions /\ Ids /\ Separate /\ Started /\ Joined
    /\ \A i \in DOMAIN calls : CallType(calls[i])
    /\ IF pc["user"] = "done"
       THEN \A i \in DOMAIN calls : calls[i].freed = 1
       ELSE \A i \in DOMAIN calls : Owned(i)
-----------------------------------------------------------------------------
(* SEQUENCES OF IDS.                                                       *)

LEMMA CallsFacts ==
  ASSUME Ids
  PROVE  Len(calls) \in Nat /\ DOMAIN calls = 1..Len(calls) /\ NewId \notin DOMAIN calls
  BY DEF Ids, NewId

LEMMA SequenceOf ==
  ASSUME NEW S, NEW n \in Nat, NEW s \in [1..n -> S]
  PROVE  s \in Seq(S)
  OBVIOUS

(* A call that is allocated goes behind the others.                        *)
LEMMA Allocated ==
  ASSUME Ids, NEW k, calls' = Append(calls, Call(k))
  PROVE  /\ calls' \in Seq(ToSet(calls'))
         /\ DOMAIN calls' = DOMAIN calls \cup {NewId}
         /\ \A i \in DOMAIN calls : calls'[i] = calls[i]
         /\ calls'[NewId] = Call(k)
<1> DEFINE S == ToSet(calls) \cup {Call(k)}
<1> HIDE DEF S
<1>1. ToSet(calls) \subseteq S /\ Call(k) \in S  BY DEF S
<1>2. calls \in Seq(S)
  BY <1>1 DEF Ids
<1>3. /\ calls' \in Seq(S) /\ Len(calls') = Len(calls) + 1
      /\ \A i \in 1..Len(calls) : calls'[i] = calls[i]
      /\ calls'[Len(calls) + 1] = Call(k)
  BY <1>1, <1>2, AppendProperties
<1>4. DOMAIN calls' = 1..Len(calls) + 1 /\ Len(calls) \in Nat
  BY <1>2, <1>3
<1>5. calls' \in [1..Len(calls') -> S] /\ Len(calls') \in Nat
  BY <1>3, LenProperties
<1>6. calls' \in Seq(ToSet(calls'))
  <2> DEFINE T == ToSet(calls')
  <2>1. calls' \in [1..Len(calls') -> T]
    BY <1>5 DEF ToSet
  <2> QED  BY <1>5, <2>1, SequenceOf
<1> QED
  BY <1>3, <1>4, <1>6, CallsFacts DEF NewId

LEMMA Updated ==
  ASSUME Ids, NEW id \in DOMAIN calls, NEW c, calls' = [calls EXCEPT ![id] = c]
  PROVE  /\ calls' \in Seq(ToSet(calls'))
         /\ DOMAIN calls' = DOMAIN calls
         /\ \A i \in DOMAIN calls : i # id => calls'[i] = calls[i]
         /\ calls'[id] = c
<1>1. Len(calls) \in Nat /\ DOMAIN calls = 1..Len(calls)  BY CallsFacts
<1>2. calls' = [i \in 1..Len(calls) |-> calls'[i]] /\ DOMAIN calls' = 1..Len(calls)
  BY <1>1
<1>3. calls' \in Seq(ToSet(calls'))
  <2> DEFINE T == ToSet(calls')
  <2>1. calls' \in [1..Len(calls) -> T]
    BY <1>2 DEF ToSet
  <2> QED  BY <1>1, <2>1, SequenceOf
<1> QED  BY <1>1, <1>2, <1>3

(* An id goes to the end of a queue, or is taken from its head.            *)
LEMMA Enqueued ==
  ASSUME Ids, NEW s, Distinct(s), NEW id \in DOMAIN calls, id \notin ToSet(s)
  PROVE  Distinct(Append(s, id)) /\ ToSet(Append(s, id)) = ToSet(s) \cup {id}
<1> DEFINE t == Append(s, id)
<1> HIDE DEF t
<1>1. s \in Seq(DOMAIN calls) /\ \A a, b \in DOMAIN s : s[a] = s[b] => a = b
  BY DEF Distinct
<1>2. /\ t \in Seq(DOMAIN calls) /\ Len(t) = Len(s) + 1
      /\ \A i \in 1..Len(s) : t[i] = s[i]
      /\ t[Len(s) + 1] = id
  BY <1>1, AppendProperties DEF t
<1>3. DOMAIN t = DOMAIN s \cup {Len(s) + 1} /\ Len(s) + 1 \notin DOMAIN s /\ DOMAIN s = 1..Len(s)
  BY <1>1, <1>2
<1>4. \A i \in DOMAIN s : s[i] # id
  BY DEF ToSet
<1>5. \A a, b \in DOMAIN t : t[a] = t[b] => a = b
  BY <1>1, <1>2, <1>3, <1>4
<1>6. ToSet(t) = ToSet(s) \cup {id}
  BY <1>2, <1>3 DEF ToSet
<1> QED  BY <1>2, <1>5, <1>6 DEF Distinct, t

LEMMA Dequeued ==
  ASSUME NEW s, Distinct(s), s # <<>>
  PROVE  /\ Distinct(Tail(s)) /\ ToSet(Tail(s)) = ToSet(s) \ {Head(s)}
         /\ Head(s) \in DOMAIN calls /\ Head(s) \in ToSet(s)
<1> DEFINE t == Tail(s)
<1> HIDE DEF t
<1>1. s \in Seq(DOMAIN calls) /\ \A a, b \in DOMAIN s : s[a] = s[b] => a = b
  BY DEF Distinct
<1>2. /\ t \in Seq(DOMAIN calls) /\ Len(t) = Len(s) - 1
      /\ \A i \in 1..Len(t) : t[i] = s[i + 1]
      /\ Head(s) = s[1] /\ Len(s) \in Nat /\ Len(s) # 0
  BY <1>1, HeadTailProperties DEF t
<1>3. DOMAIN t = 1..Len(s) - 1 /\ DOMAIN s = 1..Len(s)
  BY <1>1, <1>2
<1>4. \A a, b \in DOMAIN t : t[a] = t[b] => a = b
  BY <1>1, <1>2, <1>3, SMTT(40)
<1>5. ToSet(t) = ToSet(s) \ {Head(s)}
  <2>1. ASSUME NEW i \in DOMAIN t  PROVE t[i] \in ToSet(s) \ {Head(s)}
    BY <1>1, <1>2, <1>3 DEF ToSet
  <2>2. ASSUME NEW x \in ToSet(s) \ {Head(s)}  PROVE x \in ToSet(t)
    <3>1. PICK i \in DOMAIN s : s[i] = x  BY DEF ToSet
    <3>2. i # 1 /\ i - 1 \in DOMAIN t /\ t[i - 1] = x
      BY <1>2, <1>3, <3>1
    <3> QED  BY <3>2 DEF ToSet
  <2> QED  BY <2>1, <2>2 DEF ToSet
<1>6. Head(s) \in DOMAIN calls /\ Head(s) \in ToSet(s)
  BY <1>1, <1>2, <1>3 DEF ToSet
<1> QED  BY <1>2, <1>4, <1>5, <1>6 DEF Distinct, t
-----------------------------------------------------------------------------
(* STEPS THAT LEAVE THE CALLS ALONE.                                       *)

LEMMA GotoFacts ==
  ASSUME Positions, NEW t \in Threads, NEW l, Goto(t, l)
  PROVE  /\ pc' = [u \in Threads |-> pc'[u]] /\ pc'[t] = l
         /\ \A u \in Threads : u # t => pc'[u] = pc[u]
  BY DEF Positions, Goto

LEMMA NoCalls ==
  <<>> \in Seq(Op) /\ \A i \in DOMAIN <<>> : FALSE
<1>1. DOMAIN <<>> = {}  OBVIOUS
<1>2. <<>> \in Seq(Op)  OBVIOUS
<1> QED  BY <1>1, <1>2

(* The calls that the program has still to make, after one is made.        *)
LEMMA ProgTail ==
  ASSUME Started, prog # <<>>
  PROVE  /\ Tail(prog) \in Seq(Op) /\ Head(prog) = prog[1] /\ Head(prog) \in Op
         /\ \A i \in DOMAIN Tail(prog) :
               i + 1 \in DOMAIN prog /\ i + 1 # 1 /\ Tail(prog)[i] = prog[i + 1]
         /\ \A i, j \in DOMAIN Tail(prog) :
               Tail(prog)[i].op = "connect" /\ Tail(prog)[j].op = "connect" => i = j
         /\ ConnectsNoMore(prog) => ConnectsNoMore(Tail(prog))
         /\ Head(prog).op = "connect" => ~ConnectsNoMore(prog) /\ ConnectsNoMore(Tail(prog))
<1> DEFINE q == Tail(prog)
<1>1. /\ prog \in Seq(Op) /\ DOMAIN prog = 1..Len(prog) /\ Len(prog) \in Nat /\ Len(prog) # 0
      /\ \A i, j \in DOMAIN prog : prog[i].op = "connect" /\ prog[j].op = "connect" => i = j
  BY DEF Started
<1>2. /\ q \in Seq(Op) /\ Head(prog) = prog[1] /\ Head(prog) \in Op
      /\ DOMAIN q = 1..Len(prog) - 1
      /\ \A i \in 1..Len(prog) - 1 : q[i] = prog[i + 1]
  BY <1>1, HeadTailProperties
<1> HIDE DEF q
<1>3. \A i \in DOMAIN q : i + 1 \in DOMAIN prog /\ i + 1 # 1 /\ q[i] = prog[i + 1]
  BY <1>1, <1>2
<1>4. \A i, j \in DOMAIN q : q[i].op = "connect" /\ q[j].op = "connect" => i = j
  BY <1>1, <1>2, <1>3
<1>5. ConnectsNoMore(prog) => ConnectsNoMore(q)
  BY <1>3 DEF ConnectsNoMore
<1>6. Head(prog).op = "connect" => ~ConnectsNoMore(prog) /\ ConnectsNoMore(q)
  BY <1>1, <1>2, <1>3 DEF ConnectsNoMore
<1> QED  BY <1>2, <1>3, <1>4, <1>5, <1>6 DEF q

(* A step that moves no thread to or from a call keeps what is said of the *)
(* calls.                                                                  *)
LEMMA Quiet ==
  ASSUME IInv, pc["user"] # "done",
         UNCHANGED <<cur, calls, callq, sendList>>,
         Positions', Started', Joined', pc'["user"] # "done",
         \A t \in Callers : pc'[t] = pc[t] \/ (~Holding(t) /\ ~Holding(t)'),
         \/ pc'["net"] = pc["net"]
         \/ pc["net"] \notin {"match", "complete"} /\ pc'["net"] \notin {"match", "complete"}
  PROVE  IInv'
<1>1. \A t \in Callers : Holding(t)' = Holding(t)
  BY DEF Holding
<1>2. \A i : /\ Requested(i)' = Requested(i) /\ Waiting(i)' = Waiting(i)
             /\ Collecting(i)' = Collecting(i) /\ Queued(i)' = Queued(i)
  BY DEF Requested, Waiting, Collecting, Queued, Holding, ToSet
<1>3. \A i : Matching(i)' = Matching(i) /\ Completing(i)' = Completing(i)
  BY DEF Matching, Completing
<1>4. Ids'
  BY <1>1 DEF IInv, Ids, Distinct, ToSet
<1>5. Separate'
  BY <1>1, <1>2 DEF IInv, Separate
<1>6. \A i \in DOMAIN calls : Owned(i)'
  BY <1>2, <1>3 DEF IInv, Owned
<1> QED  BY <1>4, <1>5, <1>6 DEF IInv, CallType

(* A thread by itself.                                                     *)
LEMMA QuietNet ==
  ASSUME IInv, pc["user"] # "done", NEW l \in {"idle", "exit"}, Goto("net", l),
         pc["net"] \in {"start", "idle"}, UNCHANGED <<prog, cur, calls, callq, sendList>>
  PROVE  IInv'
<1>1. Positions /\ Started /\ Joined  BY DEF IInv
<1>2. /\ pc' = [u \in Threads |-> pc'[u]] /\ pc'["net"] = l
      /\ \A u \in Threads : u # "net" => pc'[u] = pc[u]
  BY <1>1, GotoFacts DEF Threads
<1>3. pc'["user"] = pc["user"] /\ pc'["send"] = pc["send"] /\ pc'["recv"] = pc["recv"]
  BY <1>2 DEF Threads
<1>4. Positions'  BY <1>1, <1>2, <1>3 DEF Positions
<1>5. Started'  BY <1>1, <1>3 DEF Started, Connecting, ConnectsNoMore
<1>6. Joined'  BY <1>1, <1>3 DEF Joined
<1> QED  BY <1>2, <1>3, <1>4, <1>5, <1>6, Quiet DEF Callers

LEMMA QuietSend ==
  ASSUME IInv, pc["user"] # "done", Goto("send", "exit"), pc["send"] = "get",
         UNCHANGED <<prog, cur, calls, callq, sendList>>
  PROVE  IInv'
<1>1. Positions /\ Started /\ Joined  BY DEF IInv
<1>2. /\ pc' = [u \in Threads |-> pc'[u]] /\ pc'["send"] = "exit"
      /\ \A u \in Threads : u # "send" => pc'[u] = pc[u]
  BY <1>1, GotoFacts DEF Threads
<1>3. pc'["user"] = pc["user"] /\ pc'["net"] = pc["net"] /\ pc'["recv"] = pc["recv"]
  BY <1>2 DEF Threads
<1>4. Positions'  BY <1>1, <1>2, <1>3 DEF Positions
<1>5. Started'  BY <1>1, <1>2, <1>3 DEF Started, Connecting, ConnectsNoMore
<1>6. Joined'  BY <1>1, <1>2, <1>3 DEF Joined
<1>7. ~Holding("send") /\ ~Holding("send")'  BY <1>2 DEF Holding
<1> QED  BY <1>3, <1>4, <1>5, <1>6, <1>7, Quiet DEF Callers

LEMMA QuietRecv ==
  ASSUME IInv, pc["user"] # "done", NEW l \in {"recv", "count", "wake", "exit"},
         Goto("recv", l), pc["recv"] \in {"recv", "store", "count", "closed", "wake"},
         UNCHANGED <<prog, cur, calls, callq, sendList>>
  PROVE  IInv'
<1>1. Positions /\ Started /\ Joined  BY DEF IInv
<1>2. /\ pc' = [u \in Threads |-> pc'[u]] /\ pc'["recv"] = l
      /\ \A u \in Threads : u # "recv" => pc'[u] = pc[u]
  BY <1>1, GotoFacts DEF Threads
<1>3. pc'["user"] = pc["user"] /\ pc'["net"] = pc["net"] /\ pc'["send"] = pc["send"]
  BY <1>2 DEF Threads
<1>4. Positions'  BY <1>1, <1>2, <1>3 DEF Positions
<1>5. Started'  BY <1>1, <1>2, <1>3 DEF Started, Connecting, ConnectsNoMore
<1>6. Joined'  BY <1>1, <1>2, <1>3 DEF Joined
<1>7. ~Holding("recv") /\ ~Holding("recv")'  BY <1>2 DEF Holding
<1> QED  BY <1>3, <1>4, <1>5, <1>6, <1>7, Quiet DEF Callers

LEMMA QuietUser ==
  ASSUME IInv, NEW l \in {"run", "read", "join send", "join recv", "join net"},
         Goto("user", l), pc["user"] \in {"run", "read", "join send", "join recv"},
         prog' = prog \/ (prog # <<>> /\ prog' = Tail(prog)) \/ prog' = <<>>,
         UNCHANGED <<cur, calls, callq, sendList>>, Joined'
  PROVE  IInv'
<1>1. Positions /\ Started /\ Joined  BY DEF IInv
<1>2. /\ pc' = [u \in Threads |-> pc'[u]] /\ pc'["user"] = l
      /\ \A u \in Threads : u # "user" => pc'[u] = pc[u]
  BY <1>1, GotoFacts DEF Threads
<1>3. pc'["recv"] = pc["recv"] /\ pc'["net"] = pc["net"] /\ pc'["send"] = pc["send"]
  BY <1>2 DEF Threads
<1>4. Positions'  BY <1>1, <1>2, <1>3 DEF Positions
<1>5. Started'
  <2>1. ~Connecting'  BY <1>2 DEF Connecting
  <2>2. CASE prog' = prog  BY <1>1, <1>3, <2>1, <2>2 DEF Started, ConnectsNoMore
  <2>3. CASE prog # <<>> /\ prog' = Tail(prog)
    <3>1. /\ prog' \in Seq(Op)
          /\ \A i, j \in DOMAIN prog' :
                prog'[i].op = "connect" /\ prog'[j].op = "connect" => i = j
          /\ ConnectsNoMore(prog) => ConnectsNoMore(prog')
      BY <1>1, <2>3, ProgTail
    <3> QED  BY <1>1, <1>3, <2>1, <3>1 DEF Started, ConnectsNoMore
  <2>4. CASE prog' = <<>>
    <3>1. prog' \in Seq(Op) /\ \A i \in DOMAIN prog' : FALSE
      BY <2>4, NoCalls
    <3> QED  BY <1>3, <2>1, <3>1 DEF Started, ConnectsNoMore
  <2> QED  BY <2>2, <2>3, <2>4
<1>6. ~Holding("user") /\ ~Holding("user")'  BY <1>2 DEF Holding
<1> QED  BY <1>2, <1>3, <1>4, <1>5, <1>6, Quiet DEF Callers

(* Nor do the proxy, the server and the connection.                        *)
LEMMA QuietOthers ==
  ASSUME IInv, UNCHANGED <<pc, prog, cur, calls, callq, sendList>>
  PROVE  IInv'
<1>1. Positions' /\ Joined'
  BY ZenonT(60) DEF IInv, Positions, Joined
<1>2. Ids'
  BY DEF IInv, Ids, Distinct, Holding, ToSet
<1>3. Started'
  BY DEF IInv, Started, Connecting, ConnectsNoMore
<1>4. \A t \in Callers : Holding(t)' = Holding(t)
  BY DEF Holding
<1>5. \A i : /\ Requested(i)' = Requested(i) /\ Waiting(i)' = Waiting(i)
             /\ Collecting(i)' = Collecting(i) /\ Queued(i)' = Queued(i)
             /\ Matching(i)' = Matching(i) /\ Completing(i)' = Completing(i)
  BY DEF Requested, Waiting, Collecting, Queued, ToSet, Matching, Completing
<1>6. Separate'
  BY <1>4, <1>5 DEF IInv, Separate
<1>7. \A i \in DOMAIN calls : CallType(calls[i])'
  BY DEF IInv, CallType
<1>8. pc["user"] # "done" => \A i \in DOMAIN calls : Owned(i)'
  BY <1>5 DEF IInv, Owned
<1> QED  BY <1>1, <1>2, <1>3, <1>6, <1>7, <1>8 DEF IInv
-----------------------------------------------------------------------------
(* STEPS THAT ALLOCATE A CALL OR HAND IT ON.                               *)

LEMMA CallTypes ==
  ASSUME NEW k
  PROVE  CallType(Call(k))
<1>1. DOMAIN Call(k) = {"kind", "done", "listed", "freed", "reply"}
  BY DEF Call
<1>2. Call(k).done = 0 /\ Call(k).listed /\ Call(k).freed = 0
  BY DEF Call
<1> QED  BY <1>1, <1>2 DEF CallType

LEMMA PlacesAreCalls ==
  ASSUME Ids
  PROVE  \A i : (\/ Requested(i) \/ Collecting(i) \/ Waiting(i) \/ Queued(i)
                 \/ Matching(i) \/ Completing(i)) => i \in DOMAIN calls
<1>1. \A i : Requested(i) \/ Waiting(i) => i \in DOMAIN calls
  BY DEF Ids, Requested, Waiting, Holding
<1>2. \A i : Matching(i) \/ Completing(i) => i \in DOMAIN calls
  BY DEF Ids, Matching, Completing
<1>3. \A i : Collecting(i) => i \in DOMAIN calls
  <2>1. sendList \in Seq(DOMAIN calls)  BY DEF Ids, Distinct
  <2> QED  BY <2>1, ElementOfSeq DEF Collecting, ToSet
<1>4. \A i : Queued(i) => i \in DOMAIN calls
  <2>1. callq \in Seq(DOMAIN calls)  BY DEF Ids, Distinct
  <2> QED  BY <2>1, ElementOfSeq DEF Queued, ToSet
<1> QED  BY <1>1, <1>2, <1>3, <1>4

LEMMA QueuesStay ==
  ASSUME Ids, UNCHANGED <<callq, sendList>>, DOMAIN calls \subseteq DOMAIN calls'
  PROVE  Distinct(callq)' /\ Distinct(sendList)'
<1>1. ASSUME NEW s, Distinct(s)
      PROVE  s \in Seq(DOMAIN calls')
  <2>1. s \in Seq(DOMAIN calls)  BY <1>1 DEF Distinct
  <2> DEFINE T == DOMAIN calls'
  <2>2. Len(s) \in Nat /\ s \in [1..Len(s) -> DOMAIN calls]  BY <2>1, LenProperties
  <2>3. s \in [1..Len(s) -> T]  BY <2>2
  <2> QED  BY <2>2, <2>3, SequenceOf
<1> QED  BY <1>1 DEF Ids, Distinct

(* The request of the call is not sent: nobody will use it.                *)
LEMMA AllocatesOnly ==
  ASSUME IInv, pc["user"] # "done", NEW k, AllocateOnly(k),
         UNCHANGED <<pc, cur, callq, sendList>>, prog' = prog \/ prog' = <<>>
  PROVE  IInv'
<1>1. Ids /\ Positions /\ Separate /\ Started /\ Joined
  BY DEF IInv
<1>2. /\ calls' \in Seq(ToSet(calls'))
      /\ DOMAIN calls' = DOMAIN calls \cup {NewId}
      /\ \A i \in DOMAIN calls : calls'[i] = calls[i]
      /\ calls'[NewId] = Call(k)
  BY <1>1, Allocated DEF AllocateOnly
<1>3. NewId \notin DOMAIN calls  BY <1>1, CallsFacts
<1>4. Positions' /\ Joined'  BY <1>1, ZenonT(60) DEF Positions, Joined
<1>5. \A t \in Callers : Holding(t)' = Holding(t)  BY DEF Holding
<1>6. \A i : /\ Requested(i)' = Requested(i) /\ Waiting(i)' = Waiting(i)
             /\ Collecting(i)' = Collecting(i) /\ Queued(i)' = Queued(i)
             /\ Matching(i)' = Matching(i) /\ Completing(i)' = Completing(i)
  BY DEF Requested, Waiting, Collecting, Queued, ToSet, Matching, Completing
<1>7. Ids'
  <2>1. Distinct(callq)' /\ Distinct(sendList)'  BY <1>1, <1>2, QueuesStay
  <2> QED  BY <1>1, <1>2, <1>5, <2>1 DEF Ids
<1>8. Separate'  BY <1>1, <1>5, <1>6 DEF Separate
<1>9. Started'
  <2>1. pc["user"] \in {"put", "wait"} => calls'[cur["user"]] = calls[cur["user"]]
    BY <1>1, <1>2 DEF Ids, Holding, Callers
  <2>2. Connecting' = Connecting  BY <2>1 DEF Connecting
  <2>3. CASE prog' = prog  BY <1>1, <2>2, <2>3 DEF Started, ConnectsNoMore
  <2>4. CASE prog' = <<>>
    <3>1. prog' \in Seq(Op) /\ \A i \in DOMAIN prog' : FALSE
      BY <2>4, NoCalls
    <3> QED  BY <1>1, <2>2, <3>1 DEF Started, ConnectsNoMore
  <2> QED  BY <2>3, <2>4
<1>10. \A i \in DOMAIN calls' : CallType(calls[i])'
  <2>1. CallType(Call(k))  BY CallTypes
  <2> QED  BY <1>2, <2>1 DEF IInv, CallType
<1>11. ASSUME NEW i \in DOMAIN calls'  PROVE Owned(i)'
  <2>1. CASE i \in DOMAIN calls
    BY <1>2, <1>6, <2>1 DEF IInv, Owned
  <2>2. CASE i = NewId
    <3>1. /\ ~Requested(i)' /\ ~Waiting(i)' /\ ~Collecting(i)' /\ ~Queued(i)'
          /\ ~Matching(i)' /\ ~Completing(i)'
      BY <1>1, <1>3, <1>6, <2>2, PlacesAreCalls
    <3>2. calls'[i].listed /\ calls'[i].done = 0 /\ calls'[i].freed = 0
      BY <1>2, <2>2 DEF Call
    <3> QED  BY <3>1, <3>2 DEF Owned
  <2> QED  BY <1>2, <2>1, <2>2
<1> QED  BY <1>4, <1>7, <1>8, <1>9, <1>10, <1>11 DEF IInv

(* The thread that calls holds the new call.                               *)
LEMMA Requests ==
  ASSUME IInv, pc["user"] # "done", NEW t \in {"user", "recv"}, NEW k,
         NEW l \in {"put", "list"}, Request(t, k, l), ~Holding(t),
         UNCHANGED <<callq, sendList>>, Positions', Started', Joined'
  PROVE  IInv'
<1>1. Ids /\ Positions /\ Separate
  BY DEF IInv
<1>2. /\ calls' \in Seq(ToSet(calls'))
      /\ DOMAIN calls' = DOMAIN calls \cup {NewId}
      /\ \A i \in DOMAIN calls : calls'[i] = calls[i]
      /\ calls'[NewId] = Call(k)
  BY <1>1, Allocated DEF Request
<1>3. NewId \notin DOMAIN calls  BY <1>1, CallsFacts
<1>4. /\ pc'[t] = l /\ cur'[t] = NewId
      /\ \A u \in Threads : u # t => pc'[u] = pc[u] /\ cur'[u] = cur[u]
  BY <1>1, GotoFacts DEF Request, Positions, Threads
<1>5. \A u \in Callers : Holding(u)' <=> u = t \/ Holding(u)
  BY <1>4 DEF Holding, Callers, Threads
<1>6. \A i : /\ Requested(i)' <=> i = NewId \/ Requested(i)
             /\ Waiting(i)' <=> Waiting(i)
  BY <1>4 DEF Requested, Waiting, Holding, Callers, Threads
<1>7. \A i : /\ Collecting(i)' = Collecting(i) /\ Queued(i)' = Queued(i)
             /\ Matching(i)' = Matching(i) /\ Completing(i)' = Completing(i)
  BY <1>4 DEF Collecting, Queued, ToSet, Matching, Completing, Threads
<1>8. Ids'
  <2>1. Distinct(callq)' /\ Distinct(sendList)'  BY <1>1, <1>2, QueuesStay
  <2>2. \A u \in Callers : Holding(u)' => cur'[u] \in DOMAIN calls'
    BY <1>1, <1>2, <1>4, <1>5 DEF Ids, Callers, Threads
  <2>3. pc'["net"] \in {"match", "complete"} => cur'["net"] \in DOMAIN calls'
    BY <1>1, <1>2, <1>4 DEF Ids, Threads
  <2> QED  BY <1>2, <2>1, <2>2, <2>3 DEF Ids
<1>9. Separate'
  <2>1. ~Collecting(NewId)  BY <1>1, <1>3, PlacesAreCalls
  <2>2. \A u \in Callers : Holding(u) => cur[u] # NewId
    BY <1>1, <1>3 DEF Ids
  <2> QED  BY <1>1, <1>4, <1>5, <1>7, <2>1, <2>2 DEF Separate, Callers, Threads
<1>10. \A i \in DOMAIN calls' : CallType(calls[i])'
  <2>1. CallType(Call(k))  BY CallTypes
  <2> QED  BY <1>2, <2>1 DEF IInv, CallType
<1>11. ASSUME NEW i \in DOMAIN calls'  PROVE Owned(i)'
  <2>1. CASE i \in DOMAIN calls
    BY <1>2, <1>3, <1>6, <1>7, <2>1 DEF IInv, Owned
  <2>2. CASE i = NewId
    <3>1. /\ ~Waiting(i)' /\ ~Collecting(i)' /\ ~Queued(i)'
          /\ ~Matching(i)' /\ ~Completing(i)'
      BY <1>1, <1>3, <1>6, <1>7, <2>2, PlacesAreCalls
    <3>2. calls'[i].listed /\ calls'[i].done = 0 /\ calls'[i].freed = 0
      BY <1>2, <2>2 DEF Call
    <3> QED  BY <3>1, <3>2 DEF Owned
  <2> QED  BY <1>2, <2>1, <2>2
<1>12. pc'["user"] # "done"
  BY <1>4 DEF Threads
<1> QED  BY <1>8, <1>9, <1>10, <1>11, <1>12 DEF IInv
(* The id is put into the queue, and the thread waits.                     *)
LEMMA InvPutCallId ==
  ASSUME IInv, pc["user"] # "done", NEW t \in Callers, PutCallId(t)
  PROVE  IInv'
<1> DEFINE c == cur[t]
<1>1. Ids /\ Positions /\ Separate /\ Started /\ Joined
  BY DEF IInv
<1>2. /\ pc[t] = "put" /\ callq' = Append(callq, c)
      /\ UNCHANGED <<cur, prog, calls, sendList>>
  BY DEF PutCallId, userVars
<1>3. /\ pc' = [u \in Threads |-> pc'[u]] /\ pc'[t] = "wait"
      /\ \A u \in Threads : u # t => pc'[u] = pc[u]
  BY <1>1, GotoFacts DEF PutCallId, Threads, Callers
<1>4. Positions'
  BY <1>1, <1>2, <1>3 DEF Positions, Threads, Callers
<1>5. Started'
  <2>1. Connecting' = Connecting
    BY <1>2, <1>3 DEF Connecting, Threads, Callers
  <2> QED  BY <1>1, <1>2, <1>3, <2>1 DEF Started, ConnectsNoMore, Threads, Callers
<1>6. Joined'
  BY <1>1, <1>2, <1>3 DEF Joined, Threads, Callers
<1>7. Holding(t) /\ c \in DOMAIN calls /\ Requested(c) /\ ~Collecting(c)
  BY <1>1, <1>2 DEF Holding, Ids, Requested, Separate
<1>8. /\ calls[c].listed /\ calls[c].done = 0
      /\ ~Queued(c) /\ ~Matching(c) /\ ~Completing(c)
  BY <1>7 DEF IInv, Owned
<1>9. Distinct(callq)' /\ ToSet(callq)' = ToSet(callq) \cup {c}
  <2>1. Distinct(callq) /\ c \notin ToSet(callq)  BY <1>1, <1>8 DEF Ids, Queued
  <2>2. Distinct(Append(callq, c)) /\ ToSet(Append(callq, c)) = ToSet(callq) \cup {c}
    BY <1>1, <1>7, <2>1, Enqueued
  <2> QED  BY <1>2, <2>2 DEF Distinct, ToSet
<1>10. \A u \in Callers : Holding(u)' <=> Holding(u)
  BY <1>2, <1>3 DEF Holding, Callers, Threads
<1>11. \A i : /\ Requested(i)' <=> Requested(i) /\ i # c
              /\ Waiting(i)' <=> Waiting(i) \/ i = c
  BY <1>1, <1>2, <1>3 DEF Requested, Waiting, Holding, Separate, Callers, Threads
<1>12. \A i : /\ Collecting(i)' = Collecting(i) /\ (Queued(i)' <=> Queued(i) \/ i = c)
              /\ Matching(i)' = Matching(i) /\ Completing(i)' = Completing(i)
  BY <1>2, <1>3, <1>9 DEF Collecting, Queued, ToSet, Matching, Completing, Threads, Callers
<1>13. Ids'
  BY <1>1, <1>2, <1>3, <1>9, <1>10 DEF Ids, Distinct, Threads, Callers
<1>14. Separate'
  BY <1>1, <1>2, <1>10, <1>12 DEF Separate
<1>15. ASSUME NEW i \in DOMAIN calls  PROVE Owned(i)'
  <2>1. Owned(i)  BY DEF IInv
  <2>2. CASE i = c
    BY <1>2, <1>7, <1>8, <1>11, <1>12, <2>1, <2>2 DEF Owned
  <2>3. CASE i # c
    BY <1>2, <1>11, <1>12, <2>1, <2>3 DEF Owned
  <2> QED  BY <2>2, <2>3
<1>16. pc'["user"] # "done"
  BY <1>3 DEF Threads, Callers
<1> QED  BY <1>2, <1>4, <1>5, <1>6, <1>13, <1>14, <1>15, <1>16 DEF IInv, CallType

(* The send thread's list.                                                 *)
LEMMA InvUserSendList ==
  ASSUME IInv, pc["user"] # "done", UserSendList
  PROVE  IInv'
<1> DEFINE c == cur["user"]
<1>1. Ids /\ Positions /\ Separate /\ Started /\ Joined
  BY DEF IInv
<1>2. /\ pc["user"] = "list" /\ sendList' = Append(sendList, c)
      /\ UNCHANGED <<cur, prog, calls, callq>>
  BY DEF UserSendList, userVars
<1>3. /\ pc' = [u \in Threads |-> pc'[u]] /\ pc'["user"] = "run"
      /\ \A u \in Threads : u # "user" => pc'[u] = pc[u]
  BY <1>1, GotoFacts DEF UserSendList, Threads
<1>4. Positions'
  BY <1>1, <1>2, <1>3 DEF Positions, Threads
<1>5. Started'
  <2>1. ~Connecting' /\ ~Connecting
    BY <1>2, <1>3 DEF Connecting
  <2> QED  BY <1>1, <1>2, <1>3, <2>1 DEF Started, ConnectsNoMore, Threads
<1>6. Joined'
  BY <1>1, <1>2, <1>3 DEF Joined
<1>7. Holding("user") /\ c \in DOMAIN calls /\ Requested(c) /\ ~Collecting(c)
  BY <1>1, <1>2 DEF Holding, Ids, Requested, Separate, Callers
<1>8. Distinct(sendList)' /\ ToSet(sendList)' = ToSet(sendList) \cup {c}
  <2>1. Distinct(sendList) /\ c \notin ToSet(sendList)  BY <1>1, <1>7 DEF Ids, Collecting
  <2>2. Distinct(Append(sendList, c)) /\ ToSet(Append(sendList, c)) = ToSet(sendList) \cup {c}
    BY <1>1, <1>7, <2>1, Enqueued
  <2> QED  BY <1>2, <2>2 DEF Distinct, ToSet
<1>9. \A u \in Callers : Holding(u)' <=> Holding(u) /\ u # "user"
  BY <1>2, <1>3 DEF Holding, Callers, Threads
<1>10. \A i : /\ Requested(i)' <=> Requested(i) /\ i # c
              /\ Waiting(i)' <=> Waiting(i)
  BY <1>1, <1>2, <1>3 DEF Requested, Waiting, Holding, Separate, Callers, Threads
<1>11. \A i : /\ (Collecting(i)' <=> Collecting(i) \/ i = c) /\ Queued(i)' = Queued(i)
              /\ Matching(i)' = Matching(i) /\ Completing(i)' = Completing(i)
  BY <1>2, <1>3, <1>8 DEF Collecting, Queued, ToSet, Matching, Completing, Threads
<1>12. Ids'
  BY <1>1, <1>2, <1>3, <1>8, <1>9 DEF Ids, Distinct, Threads
<1>13. Separate'
  BY <1>1, <1>2, <1>7, <1>9, <1>11 DEF Separate, Callers
<1>14. ASSUME NEW i \in DOMAIN calls  PROVE Owned(i)'
  <2>1. Owned(i)  BY DEF IInv
  <2>2. CASE i = c
    BY <1>2, <1>7, <1>10, <1>11, <2>1, <2>2 DEF Owned
  <2>3. CASE i # c
    BY <1>2, <1>10, <1>11, <2>1, <2>3 DEF Owned
  <2> QED  BY <2>2, <2>3
<1> QED  BY <1>2, <1>3, <1>4, <1>5, <1>6, <1>12, <1>13, <1>14 DEF IInv, CallType

LEMMA InvSendGet ==
  ASSUME IInv, pc["user"] # "done", SendGet
  PROVE  IInv'
<1>0. CASE sendList = <<>>
  BY <1>0, QuietSend DEF SendGet, userVars
<1>1. CASE sendList # <<>>
  <2> DEFINE c == Head(sendList)
  <2>1. Ids /\ Positions /\ Separate /\ Started /\ Joined
    BY DEF IInv
  <2>2. /\ pc["send"] = "get" /\ sendList' = Tail(sendList) /\ Goto("send", "put")
        /\ cur' = [cur EXCEPT !["send"] = c]
        /\ UNCHANGED <<prog, calls, callq>>
    BY <1>1 DEF SendGet, userVars
  <2>3. /\ pc' = [u \in Threads |-> pc'[u]] /\ pc'["send"] = "put"
        /\ \A u \in Threads : u # "send" => pc'[u] = pc[u]
    BY <2>1, <2>2, GotoFacts DEF Threads
  <2>4. /\ cur' = [u \in Threads |-> cur'[u]] /\ cur'["send"] = c
        /\ \A u \in Threads : u # "send" => cur'[u] = cur[u]
    BY <2>1, <2>2 DEF Threads, Positions
  <2>5. Positions'
    BY <2>1, <2>3, <2>4 DEF Positions, Threads
  <2>6. Started'
    BY <2>1, <2>2, <2>3, <2>4 DEF Started, Connecting, ConnectsNoMore, Threads
  <2>7. Joined'
    BY <2>1, <2>2, <2>3 DEF Joined, Threads
  <2>8. /\ Distinct(sendList)' /\ ToSet(sendList)' = ToSet(sendList) \ {c}
        /\ c \in DOMAIN calls /\ Collecting(c)
    <3>1. Distinct(sendList)  BY <2>1 DEF Ids
    <3>2. /\ Distinct(Tail(sendList)) /\ ToSet(Tail(sendList)) = ToSet(sendList) \ {c}
          /\ c \in DOMAIN calls /\ c \in ToSet(sendList)
      BY <1>1, <3>1, Dequeued
    <3> QED  BY <2>2, <3>2 DEF Distinct, ToSet, Collecting
  <2>9. \A u \in Callers : Holding(u)' <=> Holding(u) \/ u = "send"
    BY <2>3 DEF Holding, Callers, Threads
  <2>10. \A i : /\ Requested(i)' <=> Requested(i) \/ i = c
                /\ Waiting(i)' <=> Waiting(i)
    BY <2>2, <2>3, <2>4 DEF Requested, Waiting, Callers, Threads
  <2>11. \A i : /\ (Collecting(i)' <=> Collecting(i) /\ i # c) /\ Queued(i)' = Queued(i)
                /\ Matching(i)' = Matching(i) /\ Completing(i)' = Completing(i)
    <3>1. \A i : Collecting(i)' <=> Collecting(i) /\ i # c
      <4>1. sendList' = Tail(sendList)
        BY <2>2
      <4> QED BY <2>8, <4>1 DEF Collecting
    <3>2. \A i : Queued(i)' = Queued(i)
      BY <2>2 DEF Queued, ToSet
    <3>3. pc'["net"] = pc["net"] /\ cur'["net"] = cur["net"]
      BY <2>2, <2>3, <2>4 DEF Threads
    <3>4. \A i : Matching(i)' = Matching(i) /\ Completing(i)' = Completing(i)
      BY <3>3 DEF Matching, Completing
    <3> QED BY <3>1, <3>2, <3>4
  <2>12. Ids'
    BY <2>1, <2>2, <2>3, <2>4, <2>8, <2>9 DEF Ids, Distinct, Threads, Callers
  <2>13. Separate'
    <3>1. \A u \in Callers : Holding(u) => cur[u] # c
      BY <2>1, <2>8 DEF Separate
    <3> QED  BY <2>1, <2>4, <2>9, <2>11, <3>1 DEF Separate, Callers, Threads
  <2>14. ASSUME NEW i \in DOMAIN calls  PROVE Owned(i)'
    <3>1. Owned(i)  BY DEF IInv
    <3> QED  BY <2>2, <2>8, <2>10, <2>11, <3>1 DEF Owned
  <2> QED
    BY <2>2, <2>3, <2>5, <2>6, <2>7, <2>12, <2>13, <2>14 DEF IInv, CallType, Threads
<1> QED  BY <1>0, <1>1
-----------------------------------------------------------------------------
(* STEPS THAT COMPLETE, CANCEL OR FREE A CALL.                             *)

LEMMA FreedFacts ==
  ASSUME Ids, NEW id \in DOMAIN calls, CallType(calls[id]), Freed(id)
  PROVE  /\ calls' \in Seq(ToSet(calls')) /\ DOMAIN calls' = DOMAIN calls
         /\ \A i \in DOMAIN calls : i # id => calls'[i] = calls[i]
         /\ CallType(calls'[id])
         /\ calls'[id].kind = calls[id].kind /\ calls'[id].done = calls[id].done
         /\ calls'[id].listed = calls[id].listed
         /\ calls'[id].freed = calls[id].freed + 1
<1> DEFINE c == [calls[id] EXCEPT !.freed = calls[id].freed + 1]
<1>1. calls' = [calls EXCEPT ![id] = c]
  BY DEF Freed
<1>2. /\ CallType(c) /\ c.kind = calls[id].kind /\ c.done = calls[id].done
      /\ c.listed = calls[id].listed /\ c.freed = calls[id].freed + 1
  BY DEF CallType
<1> HIDE DEF c
<1> QED  BY <1>1, <1>2, Updated

LEMMA KindsStay ==
  ASSUME Ids, pc'["user"] = pc["user"], cur'["user"] = cur["user"],
         \A i \in DOMAIN calls : calls'[i].kind = calls[i].kind
  PROVE  Connecting' = Connecting
  BY DEF Ids, Connecting, Holding, Callers

(* A completed call is freed by the thread that waited for it.             *)
LEMMA WaiterFrees ==
  ASSUME IInv, pc["user"] # "done", NEW t \in Callers, Completed(t), Freed(cur[t]),
         UNCHANGED <<cur, callq, sendList>>, Positions', Started', Joined',
         ~Holding(t)', pc'["net"] = pc["net"], pc'["user"] # "done",
         \A u \in Callers \ {t} : pc'[u] = pc[u] \/ (~Holding(u) /\ ~Holding(u)')
  PROVE  IInv'
<1> DEFINE c == cur[t]
<1>1. Ids /\ Positions /\ Separate
  BY DEF IInv
<1>2. pc[t] = "wait" /\ Holding(t) /\ c \in DOMAIN calls /\ Waiting(c) /\ calls[c].done = 1
  BY <1>1 DEF Completed, Holding, Ids, Waiting
<1>3. CallType(calls[c]) /\ Owned(c)
  BY <1>2 DEF IInv
<1>4. /\ calls' \in Seq(ToSet(calls')) /\ DOMAIN calls' = DOMAIN calls
      /\ \A i \in DOMAIN calls : i # c => calls'[i] = calls[i]
      /\ CallType(calls'[c]) /\ calls'[c].done = calls[c].done
      /\ calls'[c].listed = calls[c].listed
      /\ calls'[c].freed = calls[c].freed + 1
  BY <1>1, <1>2, <1>3, FreedFacts
<1>5. \A u \in Callers : Holding(u)' <=> Holding(u) /\ u # t
  BY DEF Holding
<1>6. \A i : /\ Requested(i)' <=> Requested(i)
             /\ Waiting(i)' <=> Waiting(i) /\ i # c
  BY <1>1, <1>2, <1>5 DEF Requested, Waiting, Holding, Separate
<1>7. \A i : /\ Collecting(i)' = Collecting(i) /\ Queued(i)' = Queued(i)
             /\ Matching(i)' = Matching(i) /\ Completing(i)' = Completing(i)
  BY DEF Collecting, Queued, ToSet, Matching, Completing
<1>8. Ids'
  BY <1>1, <1>4, <1>5 DEF Ids, Distinct
<1>9. Separate'
  BY <1>1, <1>5, <1>7 DEF Separate
<1>10. ASSUME NEW i \in DOMAIN calls'  PROVE Owned(i)' /\ CallType(calls'[i])
  <2>1. CASE i = c
    <3>1. ~calls[c].listed /\ calls[c].freed = 0 /\ ~Completing(c) /\ ~Matching(c) /\ ~Queued(c)
      BY <1>2, <1>3 DEF Owned
    <3>2. ~Requested(c) /\ ~Collecting(c)
      BY <1>2, <1>3 DEF Owned
    <3> QED  BY <1>2, <1>4, <1>6, <1>7, <2>1, <3>1, <3>2 DEF Owned
  <2>2. CASE i # c
    BY <1>4, <1>6, <1>7, <2>2 DEF IInv, Owned
  <2> QED  BY <2>1, <2>2
<1> QED  BY <1>4, <1>8, <1>9, <1>10 DEF IInv

LEMMA InvSendAcknowledged ==
  ASSUME IInv, pc["user"] # "done", SendAcknowledged
  PROVE  IInv'
<1>1. Ids /\ Positions /\ Started /\ Joined
  BY DEF IInv
<1>2. /\ Completed("send") /\ Freed(cur["send"]) /\ pc["send"] = "wait"
      /\ UNCHANGED <<cur, prog, callq, sendList>>
  BY DEF SendAcknowledged, Completed, userVars
<1>3. /\ pc' = [u \in Threads |-> pc'[u]] /\ pc'["send"] = "get"
      /\ \A u \in Threads : u # "send" => pc'[u] = pc[u]
  BY <1>1, GotoFacts DEF SendAcknowledged, Threads
<1>4. pc'["user"] = pc["user"] /\ pc'["recv"] = pc["recv"] /\ pc'["net"] = pc["net"]
  BY <1>3 DEF Threads
<1>5. Positions'
  BY <1>1, <1>2, <1>3, <1>4 DEF Positions
<1>6. Started'
  <2>1. ~Connecting  BY <1>1, <1>2 DEF Started
  <2>2. cur["send"] \in DOMAIN calls  BY <1>1, <1>2 DEF Ids, Holding, Callers
  <2>3. CallType(calls[cur["send"]])  BY <2>2 DEF IInv
  <2>4. \A i \in DOMAIN calls : calls'[i].kind = calls[i].kind
    BY <1>1, <1>2, <2>2, <2>3, FreedFacts
  <2>5. ~Connecting'  BY <1>1, <1>2, <1>4, <2>1, <2>4, KindsStay
  <2> QED  BY <1>1, <1>2, <1>3, <1>4, <2>1, <2>5 DEF Started, ConnectsNoMore
<1>7. Joined'
  BY <1>1, <1>2, <1>4 DEF Joined
<1>8. ~Holding("send")'  BY <1>3 DEF Holding
<1> QED  BY <1>2, <1>4, <1>5, <1>6, <1>7, <1>8, WaiterFrees DEF Callers

LEMMA InvRecvResult ==
  ASSUME IInv, pc["user"] # "done", RecvResult
  PROVE  IInv'
<1>1. Ids /\ Positions /\ Started /\ Joined
  BY DEF IInv
<1> DEFINE l == AfterRecv(calls[cur["recv"]].reply.ret)
<1>2. /\ Completed("recv") /\ Freed(cur["recv"]) /\ pc["recv"] = "wait" /\ Goto("recv", l)
      /\ UNCHANGED <<cur, prog, callq, sendList>>
  BY DEF RecvResult, Completed, userVars
<1>3. l \in {"store", "recv", "closed"}
  BY DEF AfterRecv
<1> HIDE DEF l
<1>4. /\ pc' = [u \in Threads |-> pc'[u]] /\ pc'["recv"] = l
      /\ \A u \in Threads : u # "recv" => pc'[u] = pc[u]
  BY <1>1, <1>2, GotoFacts DEF Threads
<1>5. pc'["user"] = pc["user"] /\ pc'["send"] = pc["send"] /\ pc'["net"] = pc["net"]
  BY <1>4 DEF Threads
<1>6. Positions'
  BY <1>1, <1>2, <1>3, <1>4, <1>5 DEF Positions
<1>7. Started'
  <2>1. ~Connecting  BY <1>1, <1>2 DEF Started
  <2>2. cur["recv"] \in DOMAIN calls  BY <1>1, <1>2 DEF Ids, Holding, Callers
  <2>3. CallType(calls[cur["recv"]])  BY <2>2 DEF IInv
  <2>4. \A i \in DOMAIN calls : calls'[i].kind = calls[i].kind
    BY <1>1, <1>2, <2>2, <2>3, FreedFacts
  <2>5. ~Connecting'  BY <1>1, <1>2, <1>5, <2>1, <2>4, KindsStay
  <2> QED  BY <1>1, <1>2, <1>3, <1>4, <1>5, <2>1, <2>5 DEF Started, ConnectsNoMore
<1>8. Joined'
  BY <1>1, <1>2, <1>5 DEF Joined
<1>9. ~Holding("recv")'  BY <1>3, <1>4 DEF Holding
<1> QED  BY <1>2, <1>5, <1>6, <1>7, <1>8, <1>9, WaiterFrees DEF Callers

(* The first connect that succeeds starts the two threads.                 *)
LEMMA InvUserResult ==
  ASSUME IInv, pc["user"] # "done", UserResult
  PROVE  IInv'
<1>1. Ids /\ Positions /\ Started /\ Joined
  BY DEF IInv
<1> DEFINE c == calls[cur["user"]]
<1>2. /\ Completed("user") /\ Freed(cur["user"]) /\ pc["user"] = "wait"
      /\ UNCHANGED <<cur, callq, sendList>>
  BY DEF UserResult, Completed
<1>3. \/ Goto("user", "run") /\ (prog' = prog \/ prog' = <<>>)
      \/ /\ Connecting /\ prog' = prog
         /\ pc' = [pc EXCEPT !["user"] = "run", !["send"] = "get", !["recv"] = "recv"]
  BY <1>2 DEF UserResult, Connecting
<1>4. CASE Goto("user", "run") /\ (prog' = prog \/ prog' = <<>>)
  <2>1. /\ pc' = [u \in Threads |-> pc'[u]] /\ pc'["user"] = "run"
        /\ \A u \in Threads : u # "user" => pc'[u] = pc[u]
    BY <1>1, <1>4, GotoFacts DEF Threads
  <2>2. pc'["send"] = pc["send"] /\ pc'["recv"] = pc["recv"] /\ pc'["net"] = pc["net"]
    BY <2>1 DEF Threads
  <2>3. Positions'
    BY <1>1, <1>2, <2>1, <2>2 DEF Positions
  <2>4. Started'
    <3>1. ~Connecting'  BY <2>1 DEF Connecting
    <3>2. CASE prog' = prog  BY <1>1, <2>2, <3>1, <3>2 DEF Started, ConnectsNoMore
    <3>3. CASE prog' = <<>>
      <4>1. prog' \in Seq(Op) /\ \A i \in DOMAIN prog' : FALSE
        BY <3>3, NoCalls
      <4> QED  BY <2>2, <3>1, <4>1 DEF Started, ConnectsNoMore
    <3> QED  BY <1>4, <3>2, <3>3
  <2>5. Joined'  BY <1>2, <2>1, <2>2 DEF Joined
  <2>6. ~Holding("user")'  BY <2>1 DEF Holding
  <2> QED  BY <1>2, <2>1, <2>2, <2>3, <2>4, <2>5, <2>6, WaiterFrees DEF Callers
<1>5. CASE /\ Connecting /\ prog' = prog
           /\ pc' = [pc EXCEPT !["user"] = "run", !["send"] = "get", !["recv"] = "recv"]
  <2>1. /\ pc' = [u \in Threads |-> pc'[u]] /\ pc'["user"] = "run"
        /\ pc'["send"] = "get" /\ pc'["recv"] = "recv" /\ pc'["net"] = pc["net"]
    BY <1>1, <1>5 DEF Positions, Threads
  <2>2. Positions'
    BY <1>1, <1>2, <2>1 DEF Positions
  <2>3. pc["send"] = "off" /\ pc["recv"] = "off" /\ ConnectsNoMore(prog)
    BY <1>1, <1>5 DEF Started
  <2>4. Started'
    <3>1. ~Connecting'  BY <2>1 DEF Connecting
    <3> QED  BY <1>1, <1>5, <2>3, <3>1 DEF Started, ConnectsNoMore
  <2>5. Joined'  BY <2>1 DEF Joined
  <2>6. ~Holding("user")' /\ \A u \in Callers \ {"user"} : ~Holding(u) /\ ~Holding(u)'
    BY <2>1, <2>3 DEF Holding, Callers
  <2> QED  BY <1>2, <2>1, <2>2, <2>4, <2>5, <2>6, WaiterFrees DEF Callers
<1> QED  BY <1>3, <1>4, <1>5

(* A cancelled wait leaves the call to whoever finds its reply, or to the  *)
(* destructor.                                                             *)
LEMMA InvRecvCancelled ==
  ASSUME IInv, pc["user"] # "done", RecvCancelled
  PROVE  IInv'
<1> DEFINE c == cur["recv"]
<1>1. Ids /\ Positions /\ Separate /\ Started /\ Joined
  BY DEF IInv
<1>2. /\ pc["recv"] = "wait" /\ calls[c].done = 0
      /\ calls' = [calls EXCEPT ![c].done = 2]
      /\ Goto("recv", IF again THEN "recv" ELSE "closed")
      /\ UNCHANGED <<cur, prog, callq, sendList>>
  BY DEF RecvCancelled, Cancelled, userVars
<1>3. /\ pc' = [u \in Threads |-> pc'[u]] /\ pc'["recv"] \in {"recv", "closed"}
      /\ \A u \in Threads : u # "recv" => pc'[u] = pc[u]
  BY <1>1, <1>2, GotoFacts DEF Threads
<1>4. pc'["user"] = pc["user"] /\ pc'["send"] = pc["send"] /\ pc'["net"] = pc["net"]
  BY <1>3 DEF Threads
<1>5. Holding("recv") /\ c \in DOMAIN calls /\ Waiting(c)
  BY <1>1, <1>2 DEF Ids, Holding, Waiting, Callers
<1>6. CallType(calls[c]) /\ Owned(c)
  BY <1>5 DEF IInv
<1>7. /\ calls' \in Seq(ToSet(calls')) /\ DOMAIN calls' = DOMAIN calls
      /\ \A i \in DOMAIN calls : i # c => calls'[i] = calls[i]
      /\ CallType(calls'[c]) /\ calls'[c].kind = calls[c].kind /\ calls'[c].done = 2
      /\ calls'[c].listed = calls[c].listed /\ calls'[c].freed = calls[c].freed
  <2> DEFINE x == [calls[c] EXCEPT !.done = 2]
  <2>1. calls' = [calls EXCEPT ![c] = x]
    BY <1>2
  <2>2. /\ CallType(x) /\ x.kind = calls[c].kind /\ x.done = 2
        /\ x.listed = calls[c].listed /\ x.freed = calls[c].freed
    BY <1>6 DEF CallType
  <2> HIDE DEF x
  <2> QED  BY <1>1, <1>5, <2>1, <2>2, Updated
<1>8. Positions'
  BY <1>1, <1>2, <1>3, <1>4 DEF Positions
<1>9. Started'
  <2>1. ~Connecting  BY <1>1, <1>2 DEF Started
  <2>2. ~Connecting'  BY <1>1, <1>2, <1>4, <1>7, <2>1, KindsStay
  <2> QED  BY <1>1, <1>2, <1>3, <1>4, <2>1, <2>2 DEF Started, ConnectsNoMore
<1>10. Joined'
  BY <1>1, <1>2, <1>4 DEF Joined
<1>11. \A u \in Callers : Holding(u)' <=> Holding(u) /\ u # "recv"
  BY <1>3, <1>4 DEF Holding, Callers
<1>12. \A i : /\ Requested(i)' <=> Requested(i)
              /\ Waiting(i)' <=> Waiting(i) /\ i # c
  BY <1>1, <1>2, <1>3, <1>4, <1>5 DEF Requested, Waiting, Holding, Separate, Callers
<1>13. \A i : /\ Collecting(i)' = Collecting(i) /\ Queued(i)' = Queued(i)
              /\ Matching(i)' = Matching(i) /\ Completing(i)' = Completing(i)
  BY <1>2, <1>4 DEF Collecting, Queued, ToSet, Matching, Completing
<1>14. Ids'
  BY <1>1, <1>2, <1>4, <1>7, <1>11 DEF Ids, Distinct
<1>15. Separate'
  BY <1>1, <1>2, <1>11, <1>13 DEF Separate
<1>16. ASSUME NEW i \in DOMAIN calls'  PROVE Owned(i)' /\ CallType(calls'[i])
  <2>1. CASE i = c
    <3>1. ~Requested(c) /\ ~Collecting(c)
      BY <1>1, <1>2, <1>5 DEF Requested, Separate, Holding, Callers
    <3>2. calls[c].listed \/ Completing(c)
      BY <1>2, <1>5, <1>6 DEF Owned
    <3> QED  BY <1>5, <1>6, <1>7, <1>12, <1>13, <2>1, <3>1, <3>2 DEF Owned, CallType
  <2>2. CASE i # c
    BY <1>7, <1>12, <1>13, <2>2 DEF IInv, Owned
  <2> QED  BY <2>1, <2>2
<1> QED  BY <1>4, <1>7, <1>8, <1>9, <1>10, <1>14, <1>15, <1>16 DEF IInv
-----------------------------------------------------------------------------
(* THE NETWORK THREAD.                                                     *)

(* The thread alone moves.                                                 *)
LEMMA NetMoves ==
  ASSUME IInv, pc["user"] # "done", NEW l \in {"idle", "match", "complete", "exit"},
         Goto("net", l), pc["net"] # "exit", \A u \in Callers : cur'[u] = cur[u],
         cur' = [u \in Threads |-> cur'[u]], UNCHANGED <<prog, sendList>>,
         DOMAIN calls' = DOMAIN calls,
         \A i \in DOMAIN calls : calls'[i].kind = calls[i].kind
  PROVE  /\ Positions' /\ Started' /\ Joined' /\ Separate'
         /\ pc'["net"] = l /\ pc'["user"] # "done"
         /\ \A u \in Callers : pc'[u] = pc[u] /\ Holding(u)' = Holding(u)
         /\ \A i : /\ Requested(i)' = Requested(i) /\ Waiting(i)' = Waiting(i)
                   /\ Collecting(i)' = Collecting(i)
<1>1. Ids /\ Positions /\ Separate /\ Started /\ Joined
  BY DEF IInv
<1>2. /\ pc' = [u \in Threads |-> pc'[u]] /\ pc'["net"] = l
      /\ \A u \in Threads : u # "net" => pc'[u] = pc[u]
  BY <1>1, GotoFacts DEF Threads
<1>3. \A u \in Callers : pc'[u] = pc[u]  BY <1>2 DEF Threads, Callers
<1>4. pc'["user"] = pc["user"] /\ pc'["send"] = pc["send"] /\ pc'["recv"] = pc["recv"]
  BY <1>3 DEF Callers
<1>5. Positions'  BY <1>1, <1>2, <1>4 DEF Positions
<1>6. Started'
  <2>1. cur'["user"] = cur["user"]  BY DEF Callers
  <2>2. Connecting' = Connecting  BY <1>1, <1>4, <2>1, KindsStay
  <2> QED  BY <1>1, <1>4, <2>2 DEF Started, ConnectsNoMore
<1>7. Joined'  BY <1>1, <1>4 DEF Joined
<1>8. \A u \in Callers : Holding(u)' = Holding(u)  BY <1>3 DEF Holding
<1>9. \A i : /\ Requested(i)' = Requested(i) /\ Waiting(i)' = Waiting(i)
             /\ Collecting(i)' = Collecting(i)
  BY <1>3 DEF Requested, Waiting, Collecting, ToSet
<1>10. Separate'  BY <1>1, <1>8, <1>9 DEF Separate
<1> QED  BY <1>2, <1>3, <1>4, <1>5, <1>6, <1>7, <1>8, <1>9, <1>10

LEMMA InvNetNext ==
  ASSUME IInv, pc["user"] # "done", NetNext
  PROVE  IInv'
<1>0. CASE callq = <<>>
  BY <1>0, QuietNet DEF NetNext, userVars
<1>1. CASE callq # <<>>
  <2> DEFINE c == Head(callq)
  <2>1. Ids /\ Positions  BY DEF IInv
  <2>2. /\ pc["net"] = "idle" /\ Goto("net", "match")
        /\ cur' = [cur EXCEPT !["net"] = c] /\ callq' = Tail(callq)
        /\ UNCHANGED <<prog, calls, sendList>>
    BY <1>1 DEF NetNext, userVars
  <2>3. /\ cur' = [u \in Threads |-> cur'[u]] /\ cur'["net"] = c
        /\ \A u \in Callers : cur'[u] = cur[u]
    BY <2>1, <2>2 DEF Positions, Threads, Callers
  <2>4. /\ Positions' /\ Started' /\ Joined' /\ Separate'
        /\ pc'["net"] = "match" /\ pc'["user"] # "done"
        /\ \A u \in Callers : pc'[u] = pc[u] /\ Holding(u)' = Holding(u)
        /\ \A i : /\ Requested(i)' = Requested(i) /\ Waiting(i)' = Waiting(i)
                  /\ Collecting(i)' = Collecting(i)
    BY <2>2, <2>3, NetMoves
  <2>5. /\ Distinct(callq)' /\ ToSet(callq)' = ToSet(callq) \ {c}
        /\ c \in DOMAIN calls /\ Queued(c)
    <3>1. Distinct(callq)  BY <2>1 DEF Ids
    <3>2. /\ Distinct(Tail(callq)) /\ ToSet(Tail(callq)) = ToSet(callq) \ {c}
          /\ c \in DOMAIN calls /\ c \in ToSet(callq)
      BY <1>1, <3>1, Dequeued
    <3> QED  BY <2>2, <3>2 DEF Distinct, ToSet, Queued
  <2>6. \A i : /\ Queued(i)' <=> Queued(i) /\ i # c
               /\ Matching(i)' <=> i = c
               /\ ~Completing(i)' /\ ~Completing(i) /\ ~Matching(i)
    BY <2>2, <2>3, <2>4, <2>5 DEF Queued, Matching, Completing
  <2>7. Ids'
    BY <2>1, <2>2, <2>3, <2>4, <2>5 DEF Ids, Distinct
  <2>8. ASSUME NEW i \in DOMAIN calls  PROVE Owned(i)'
    <3>1. Owned(i)  BY DEF IInv
    <3> QED  BY <2>2, <2>4, <2>5, <2>6, <3>1 DEF Owned
  <2> QED  BY <2>2, <2>4, <2>7, <2>8 DEF IInv, CallType
<1> QED  BY <1>0, <1>1

(* The call that the thread gives up stays pending.                        *)
LEMMA InvNetReadFails ==
  ASSUME IInv, pc["user"] # "done", NetReadFails
  PROVE  IInv'
<1>1. Ids /\ Positions  BY DEF IInv
<1>2. /\ pc["net"] = "match" /\ Goto("net", "exit")
      /\ UNCHANGED <<cur, prog, calls, callq, sendList>>
  BY DEF NetReadFails, userVars, callVars
<1>3. /\ Positions' /\ Started' /\ Joined' /\ Separate'
      /\ pc'["net"] = "exit" /\ pc'["user"] # "done"
      /\ \A u \in Callers : pc'[u] = pc[u] /\ Holding(u)' = Holding(u)
      /\ \A i : /\ Requested(i)' = Requested(i) /\ Waiting(i)' = Waiting(i)
                /\ Collecting(i)' = Collecting(i)
  BY <1>1, <1>2, NetMoves DEF Positions
<1>4. \A i : /\ Queued(i)' = Queued(i)
             /\ ~Matching(i)' /\ ~Completing(i)' /\ ~Completing(i)
  BY <1>2, <1>3 DEF Queued, ToSet, Matching, Completing
<1>5. Ids'
  BY <1>1, <1>2, <1>3 DEF Ids, Distinct
<1>6. ASSUME NEW i \in DOMAIN calls  PROVE Owned(i)'
  <2>1. Owned(i)  BY DEF IInv
  <2> QED  BY <1>2, <1>3, <1>4, <2>1 DEF Owned
<1> QED  BY <1>2, <1>3, <1>5, <1>6 DEF IInv, CallType

(* The call leaves the pending ones.                                       *)
LEMMA InvNetMatch ==
  ASSUME IInv, pc["user"] # "done", NetMatch
  PROVE  IInv'
<1> DEFINE c == cur["net"]
<1>1. Ids /\ Positions  BY DEF IInv
<1>2. /\ pc["net"] = "match" /\ Goto("net", "complete")
      /\ \E i \in ChunkAt(netlist, c) :
             calls' = [calls EXCEPT ![c].listed = FALSE, ![c].reply = netlist.list[i]]
      /\ UNCHANGED <<cur, prog, callq, sendList>>
  BY DEF NetMatch, userVars
<1>3. c \in DOMAIN calls /\ Matching(c)
  BY <1>1, <1>2 DEF Ids, Matching
<1>4. CallType(calls[c]) /\ Owned(c)
  BY <1>3 DEF IInv
<1>5. /\ calls' \in Seq(ToSet(calls')) /\ DOMAIN calls' = DOMAIN calls
      /\ \A i \in DOMAIN calls : i # c => calls'[i] = calls[i]
      /\ CallType(calls'[c]) /\ calls'[c].kind = calls[c].kind
      /\ calls'[c].done = calls[c].done
      /\ calls'[c].listed = FALSE /\ calls'[c].freed = calls[c].freed
  <2>1. PICK r : calls' = [calls EXCEPT ![c].listed = FALSE, ![c].reply = r]
    BY <1>2
  <2> DEFINE x == [calls[c] EXCEPT !.listed = FALSE, !.reply = r]
  <2>2. calls' = [calls EXCEPT ![c] = x]
    BY <1>3, <2>1
  <2>3. /\ CallType(x) /\ x.kind = calls[c].kind /\ x.done = calls[c].done
        /\ x.listed = FALSE /\ x.freed = calls[c].freed
    BY <1>4 DEF CallType
  <2> HIDE DEF x
  <2> QED  BY <1>1, <1>3, <2>2, <2>3, Updated
<1>6. \A i \in DOMAIN calls : calls'[i].kind = calls[i].kind
  BY <1>5
<1>7. /\ Positions' /\ Started' /\ Joined' /\ Separate'
      /\ pc'["net"] = "complete" /\ pc'["user"] # "done"
      /\ \A u \in Callers : pc'[u] = pc[u] /\ Holding(u)' = Holding(u)
      /\ \A i : /\ Requested(i)' = Requested(i) /\ Waiting(i)' = Waiting(i)
                /\ Collecting(i)' = Collecting(i)
  BY <1>1, <1>2, <1>5, <1>6, NetMoves DEF Positions
<1>8. \A i : /\ Queued(i)' = Queued(i) /\ (Matching(i) <=> i = c)
             /\ ~Matching(i)' /\ (Completing(i)' <=> i = c) /\ ~Completing(i)
  BY <1>2, <1>7 DEF Queued, ToSet, Matching, Completing
<1>9. Ids'
  BY <1>1, <1>2, <1>3, <1>5, <1>7 DEF Ids, Distinct
<1>10. ASSUME NEW i \in DOMAIN calls'  PROVE Owned(i)' /\ CallType(calls'[i])
  <2>1. CASE i = c
    BY <1>3, <1>4, <1>5, <1>7, <1>8, <2>1 DEF Owned
  <2>2. CASE i # c
    BY <1>5, <1>7, <1>8, <2>2 DEF IInv, Owned
  <2> QED  BY <2>1, <2>2
<1> QED  BY <1>7, <1>9, <1>10 DEF IInv

(* It is completed, or freed if its waiter has given up.                   *)
LEMMA InvNetComplete ==
  ASSUME IInv, pc["user"] # "done", NetComplete
  PROVE  IInv'
<1> DEFINE c == cur["net"]
<1>1. Ids /\ Positions  BY DEF IInv
<1>2. /\ pc["net"] = "complete" /\ Goto("net", "idle")
      /\ \/ calls[c].done = 0 /\ calls' = [calls EXCEPT ![c].done = 1]
         \/ calls[c].done # 0 /\ Freed(c)
      /\ UNCHANGED <<cur, prog, callq, sendList>>
  BY DEF NetComplete, userVars
<1>3. c \in DOMAIN calls /\ Completing(c)
  BY <1>1, <1>2 DEF Ids, Completing
<1>4. CallType(calls[c]) /\ Owned(c)
  BY <1>3 DEF IInv
<1>5. /\ calls' \in Seq(ToSet(calls')) /\ DOMAIN calls' = DOMAIN calls
      /\ \A i \in DOMAIN calls : i # c => calls'[i] = calls[i]
      /\ CallType(calls'[c]) /\ calls'[c].kind = calls[c].kind
      /\ calls'[c].listed = calls[c].listed
      /\ \/ calls[c].done = 0 /\ calls'[c].done = 1 /\ calls'[c].freed = calls[c].freed
         \/ /\ calls[c].done # 0 /\ calls'[c].done = calls[c].done
            /\ calls'[c].freed = calls[c].freed + 1
  <2>1. CASE calls[c].done = 0 /\ calls' = [calls EXCEPT ![c].done = 1]
    <3> DEFINE x == [calls[c] EXCEPT !.done = 1]
    <3>1. calls' = [calls EXCEPT ![c] = x]
      BY <2>1
    <3>2. /\ CallType(x) /\ x.kind = calls[c].kind /\ x.done = 1
          /\ x.listed = calls[c].listed /\ x.freed = calls[c].freed
      BY <1>4 DEF CallType
    <3> HIDE DEF x
    <3> QED  BY <1>1, <1>3, <2>1, <3>1, <3>2, Updated
  <2>2. CASE calls[c].done # 0 /\ Freed(c)
    BY <1>1, <1>3, <1>4, <2>2, FreedFacts
  <2> QED  BY <1>2, <2>1, <2>2
<1>6. \A i \in DOMAIN calls : calls'[i].kind = calls[i].kind
  BY <1>5
<1>7. /\ Positions' /\ Started' /\ Joined' /\ Separate'
      /\ pc'["net"] = "idle" /\ pc'["user"] # "done"
      /\ \A u \in Callers : pc'[u] = pc[u] /\ Holding(u)' = Holding(u)
      /\ \A i : /\ Requested(i)' = Requested(i) /\ Waiting(i)' = Waiting(i)
                /\ Collecting(i)' = Collecting(i)
  BY <1>1, <1>2, <1>5, <1>6, NetMoves DEF Positions
<1>8. \A i : /\ Queued(i)' = Queued(i) /\ ~Matching(i) /\ ~Matching(i)'
             /\ ~Completing(i)' /\ (Completing(i) <=> i = c)
  BY <1>2, <1>7 DEF Queued, ToSet, Matching, Completing
<1>9. Ids'
  BY <1>1, <1>2, <1>5, <1>7 DEF Ids, Distinct
<1>10. ASSUME NEW i \in DOMAIN calls'  PROVE Owned(i)' /\ CallType(calls'[i])
  <2>1. CASE i = c
    <3>1. ~Requested(c) /\ ~Collecting(c) /\ ~Queued(c) /\ ~calls[c].listed
      BY <1>3, <1>4 DEF Owned
    <3>2. calls[c].done # 1 /\ (calls[c].done = 0 => Waiting(c)) /\ (Waiting(c) => calls[c].done # 2)
      BY <1>3, <1>4 DEF Owned
    <3>3. calls[c].done \in 0..2 /\ calls[c].freed = 0
      BY <1>3, <1>4 DEF Owned, CallType
    <3> QED  BY <1>5, <1>7, <1>8, <2>1, <3>1, <3>2, <3>3 DEF Owned
  <2>2. CASE i # c
    BY <1>5, <1>7, <1>8, <2>2 DEF IInv, Owned
  <2> QED  BY <2>1, <2>2
<1> QED  BY <1>7, <1>9, <1>10 DEF IInv
-----------------------------------------------------------------------------
(* THE USER'S CALLS AND THE DESTRUCTOR.                                    *)

LEMMA UserRequests ==
  ASSUME IInv, pc["user"] = "run", prog # <<>>, NEW l \in {"put", "list"},
         Request("user", Head(prog).op, l), prog' = Tail(prog),
         Head(prog).op = "connect" => l = "put", UNCHANGED <<callq, sendList>>
  PROVE  IInv'
<1>1. Ids /\ Positions /\ Started /\ Joined
  BY DEF IInv
<1>2. /\ pc' = [u \in Threads |-> pc'[u]] /\ pc'["user"] = l
      /\ \A u \in Threads : u # "user" => pc'[u] = pc[u]
  BY <1>1, GotoFacts DEF Request, Threads
<1>3. pc'["send"] = pc["send"] /\ pc'["recv"] = pc["recv"] /\ pc'["net"] = pc["net"]
  BY <1>2 DEF Threads
<1>4. cur' = [u \in Threads |-> cur'[u]] /\ cur'["user"] = NewId
  BY <1>1 DEF Request, Positions, Threads
<1>5. Positions'
  BY <1>1, <1>2, <1>3, <1>4 DEF Positions
<1>6. calls'[NewId].kind = Head(prog).op
  BY <1>1, Allocated DEF Request, Call
<1>7. Started'
  <2>1. /\ Tail(prog) \in Seq(Op)
        /\ \A i, j \in DOMAIN Tail(prog) :
              Tail(prog)[i].op = "connect" /\ Tail(prog)[j].op = "connect" => i = j
        /\ ConnectsNoMore(prog) => ConnectsNoMore(Tail(prog))
        /\ Head(prog).op = "connect" => ~ConnectsNoMore(prog) /\ ConnectsNoMore(Tail(prog))
    BY <1>1, ProgTail
  <2>2. Connecting' => Head(prog).op = "connect"
    BY <1>4, <1>6 DEF Connecting
  <2>3. pc["send"] # "off" \/ pc["recv"] # "off" => ConnectsNoMore(prog)
    BY <1>1 DEF Started
  <2>4. Connecting' => pc'["send"] = "off" /\ pc'["recv"] = "off"
    BY <1>3, <2>1, <2>2, <2>3
  <2>5. (Connecting \/ pc["send"] # "off" \/ pc["recv"] # "off" => ConnectsNoMore(prog))'
    BY <1>3, <2>1, <2>2, <2>3 DEF ConnectsNoMore
  <2> QED  BY <2>1, <2>4, <2>5 DEF Started
<1>8. Joined'
  BY <1>2 DEF Joined
<1>9. ~Holding("user")  BY DEF Holding
<1> QED  BY <1>5, <1>7, <1>8, <1>9, Requests

LEMMA InvUserCall ==
  ASSUME IInv, UserCall
  PROVE  IInv'
<1>1. pc["user"] = "run" /\ prog # <<>> /\ UNCHANGED <<callq, sendList>>
  BY DEF UserCall, Calls
<1>2. CASE Request("user", Head(prog).op, "put") /\ prog' = Tail(prog)
  BY <1>1, <1>2, UserRequests
<1>3. CASE AllocateOnly(Head(prog).op) /\ Throws
  BY <1>1, <1>3, AllocatesOnly DEF Throws
<1> QED  BY <1>2, <1>3 DEF UserCall

LEMMA InvUserSend ==
  ASSUME IInv, UserSend
  PROVE  IInv'
<1>1. /\ pc["user"] = "run" /\ prog # <<>> /\ Head(prog).op = "send"
      /\ UNCHANGED <<callq, sendList>>
  BY DEF UserSend, Calls
<1>2. CASE Request("user", "send", "list") /\ prog' = Tail(prog)
  BY <1>1, <1>2, UserRequests
<1>3. CASE AllocateOnly("send") /\ Throws
  BY <1>1, <1>3, AllocatesOnly DEF Throws
<1> QED  BY <1>2, <1>3 DEF UserSend

(* The calls that change no call.                                          *)
LEMMA InvUserReads ==
  ASSUME IInv, UserAwait \/ UserRecv \/ UserRead
  PROVE  IInv'
<1>1. CASE UserAwait
  <2>1. pc["user"] = "run" /\ prog # <<>> /\ Goto("user", "run")
    BY <1>1 DEF UserAwait, Calls, Goto, IInv, Positions, Threads
  <2>2. UNCHANGED <<pc, cur, calls, callq, sendList>> /\ (prog' = Tail(prog) \/ prog' = <<>>)
    BY <1>1 DEF UserAwait, callVars
  <2>3. Joined'  BY <2>2 DEF IInv, Joined
  <2> QED  BY <2>1, <2>2, <2>3, QuietUser
<1>2. CASE UserRecv
  <2>1. /\ pc["user"] = "run" /\ prog # <<>> /\ prog' = Tail(prog)
        /\ Goto("user", "run") \/ Goto("user", "read")
    BY <1>2 DEF UserRecv, Calls
  <2>2. UNCHANGED <<cur, calls, callq, sendList>>
    BY <1>2 DEF UserRecv, callVars
  <2>3. Joined'  BY <2>1 DEF IInv, Joined, Positions, Goto, Threads
  <2> QED  BY <2>1, <2>2, <2>3, QuietUser
<1>3. CASE UserRead
  <2>1. /\ pc["user"] = "read" /\ prog' = prog
        /\ Goto("user", "run") \/ Goto("user", "read")
    BY <1>3 DEF UserRead
  <2>2. UNCHANGED <<cur, calls, callq, sendList>>
    BY <1>3 DEF UserRead, callVars
  <2>3. Joined'  BY <2>1 DEF IInv, Joined, Positions, Goto, Threads
  <2> QED  BY <2>1, <2>2, <2>3, QuietUser
<1> QED  BY <1>1, <1>2, <1>3

LEMMA InvDestroys ==
  ASSUME IInv, DestroySend \/ DestroyRecv \/ DestroyNet
  PROVE  IInv'
<1>1. Positions /\ Joined  BY DEF IInv
<1>2. UNCHANGED <<prog, cur, calls, callq, sendList>>
  BY DEF DestroySend, DestroyRecv, DestroyNet, userVars
<1>3. CASE DestroySend
  <2>1. pc["user"] = "run" /\ Goto("user", "join send")
    BY <1>3 DEF DestroySend, Destroying
  <2>2. Joined'  BY <1>1, <2>1 DEF Joined, Positions, Goto, Threads
  <2> QED  BY <1>2, <2>1, <2>2, QuietUser
<1>4. CASE DestroyRecv
  <2>1. /\ pc["user"] = "join send" /\ Goto("user", "join recv")
        /\ pc["send"] \in {"off", "exit"}
    BY <1>4 DEF DestroyRecv, Destroying
  <2>2. Joined'  BY <1>1, <2>1 DEF Joined, Positions, Goto, Threads
  <2> QED  BY <1>2, <2>1, <2>2, QuietUser
<1>5. CASE DestroyNet
  <2>1. /\ pc["user"] = "join recv" /\ Goto("user", "join net")
        /\ pc["recv"] \in {"off", "exit"}
    BY <1>5 DEF DestroyNet, Destroying
  <2>2. Joined'  BY <1>1, <2>1 DEF Joined, Positions, Goto, Threads
  <2> QED  BY <1>2, <2>1, <2>2, QuietUser
<1> QED  BY <1>3, <1>4, <1>5

(* No thread refers to a call any more: what is pending is freed, and the  *)
(* rest has been.                                                          *)
LEMMA InvDestroyCalls ==
  ASSUME IInv, DestroyCalls
  PROVE  IInv'
<1>1. Ids /\ Positions /\ Separate /\ Started /\ Joined
  BY DEF IInv
<1>2. /\ pc["user"] = "join net" /\ pc["net"] = "exit" /\ Goto("user", "done")
      /\ calls' = [i \in DOMAIN calls |->
                      IF calls[i].listed
                      THEN [calls[i] EXCEPT !.listed = FALSE, !.freed = @ + 1]
                      ELSE calls[i]]
      /\ UNCHANGED <<cur, prog, callq, sendList>>
  BY DEF DestroyCalls, Destroying, userVars
<1>3. /\ pc' = [u \in Threads |-> pc'[u]] /\ pc'["user"] = "done"
      /\ \A u \in Threads : u # "user" => pc'[u] = pc[u]
  BY <1>1, <1>2, GotoFacts DEF Threads
<1>4. pc'["send"] = pc["send"] /\ pc'["recv"] = pc["recv"] /\ pc'["net"] = pc["net"]
  BY <1>3 DEF Threads
<1>5. pc["send"] \in {"off", "exit"} /\ pc["recv"] \in {"off", "exit"}
  BY <1>1, <1>2 DEF Joined
<1>6. Positions'
  BY <1>1, <1>2, <1>3, <1>4 DEF Positions
<1>7. Started'
  <2>1. ~Connecting'  BY <1>3 DEF Connecting
  <2> QED  BY <1>1, <1>2, <1>4, <2>1 DEF Started, ConnectsNoMore
<1>8. Joined'
  BY <1>2, <1>4, <1>5 DEF Joined
<1>9. \A u \in Callers : ~Holding(u) /\ ~Holding(u)'
  BY <1>2, <1>3, <1>4, <1>5 DEF Holding, Callers
<1>10. calls' \in Seq(ToSet(calls')) /\ DOMAIN calls' = DOMAIN calls
  <2> DEFINE T == ToSet(calls')
  <2>1. Len(calls) \in Nat /\ DOMAIN calls = 1..Len(calls)  BY <1>1, CallsFacts
  <2>2. calls' \in [1..Len(calls) -> T]
    BY <1>2, <2>1 DEF ToSet
  <2> QED  BY <2>1, <2>2, SequenceOf
<1>11. Ids'
  BY <1>1, <1>2, <1>4, <1>9, <1>10 DEF Ids, Distinct
<1>12. Separate'
  BY <1>9 DEF Separate
<1>13. ASSUME NEW i \in DOMAIN calls
       PROVE  CallType(calls'[i]) /\ calls'[i].freed = 1
  <2>1. CallType(calls[i]) /\ Owned(i)
    BY <1>2 DEF IInv
  <2>2. ~Completing(i) /\ ~Waiting(i)
    BY <1>2, <1>9 DEF Completing, Waiting, Holding
  <2>3. calls[i].freed = IF calls[i].listed THEN 0 ELSE 1
    BY <2>1, <2>2 DEF Owned
  <2>4. CASE calls[i].listed
    <3>1. calls'[i] = [calls[i] EXCEPT !.listed = FALSE, !.freed = calls[i].freed + 1]
      BY <1>2, <2>4
    <3> QED  BY <2>1, <2>3, <2>4, <3>1 DEF CallType
  <2>5. CASE ~calls[i].listed
    BY <1>2, <2>1, <2>3, <2>5
  <2> QED  BY <2>4, <2>5
<1> QED  BY <1>3, <1>6, <1>7, <1>8, <1>10, <1>11, <1>12, <1>13 DEF IInv
-----------------------------------------------------------------------------
(* THE INVARIANT.                                                          *)

LEMMA InvInit == Init => IInv
<1> SUFFICES ASSUME Init PROVE IInv  OBVIOUS
<1>1. /\ pc["user"] = "run" /\ pc["send"] = "off" /\ pc["recv"] = "off" /\ pc["net"] = "start"
      /\ pc = [t \in Threads |-> pc[t]] /\ cur = [t \in Threads |-> cur[t]]
  BY DEF Init, Threads
<1>2. calls = <<>> /\ callq = <<>> /\ sendList = <<>> /\ prog \in Programs
  BY DEF Init
<1>3. DOMAIN calls = {} /\ calls \in Seq(ToSet(calls))
  <2>1. DOMAIN calls = {}  BY <1>2
  <2>2. calls \in [1..0 -> ToSet(calls)]  BY <2>1, <1>2
  <2> QED  BY <2>1, <2>2, SequenceOf
<1>4. Distinct(callq) /\ Distinct(sendList)
  <2>1. callq \in Seq(DOMAIN calls) /\ sendList \in Seq(DOMAIN calls)
    BY <1>2, EmptySeq
  <2>2. DOMAIN callq = {} /\ DOMAIN sendList = {}  BY <1>2
  <2> QED  BY <2>1, <2>2 DEF Distinct
<1>5. \A t \in Callers : ~Holding(t)
  BY <1>1 DEF Holding, Callers
<1>6. Positions /\ Joined
  BY <1>1 DEF Positions, Joined
<1>7. Ids /\ Separate
  BY <1>1, <1>3, <1>4, <1>5 DEF Ids, Separate
<1>8. Started
  BY <1>1, <1>2, ProgramsAssumption, ConnectOnceAssumption DEF Started, Connecting, ConnectsNoMore
<1> QED  BY <1>1, <1>3, <1>6, <1>7, <1>8 DEF IInv

(* When the destructor has returned, no thread of the client runs.         *)
LEMMA AfterTheEnd ==
  ASSUME IInv, pc["user"] = "done", Next
  PROVE  IInv'
<1>1. /\ pc["user"] = "done" /\ pc["send"] \in {"off", "exit"}
      /\ pc["recv"] \in {"off", "exit"} /\ pc["net"] = "exit"
  BY DEF IInv, Joined
<1>2. ~User
  BY <1>1 DEF User, PutCallId, UserCall, UserResult, Completed, UserSend, UserSendList,
     UserAwait, UserRecv, UserRead, Calls, DestroySend, DestroyRecv, DestroyNet,
     DestroyCalls, Destroying
<1>3. ~SendThread /\ ~RecvThread /\ ~NetThread
  BY <1>1 DEF SendThread, PutCallId, SendGet, SendAcknowledged, Completed,
     RecvThread, RecvRequest, RecvRequestThrows, RecvResult, RecvCancelled, Cancelled,
     RecvStore, RecvCount, RecvClosed,
     NetThread, NetStart, NetNext, NetRead, NetReadFails, NetMatch, NetComplete
<1>4. UNCHANGED <<pc, prog, cur, calls, callq, sendList>>
  BY <1>2, <1>3 DEF Next, Proxy, Lose, Finished, vars, userVars, callVars
<1> QED  BY <1>4, QuietOthers

LEMMA InvUser ==
  ASSUME IInv, pc["user"] # "done", User
  PROVE  IInv'
<1>1. CASE PutCallId("user")  BY <1>1, InvPutCallId DEF Callers
<1>2. CASE UserCall \/ UserSend \/ UserSendList
  BY <1>2, InvUserCall, InvUserSend, InvUserSendList
<1>3. CASE UserResult  BY <1>3, InvUserResult
<1>4. CASE UserAwait \/ UserRecv \/ UserRead  BY <1>4, InvUserReads
<1>5. CASE DestroySend \/ DestroyRecv \/ DestroyNet  BY <1>5, InvDestroys
<1>6. CASE DestroyCalls  BY <1>6, InvDestroyCalls
<1> QED  BY <1>1, <1>2, <1>3, <1>4, <1>5, <1>6 DEF User

LEMMA InvRecvThread ==
  ASSUME IInv, pc["user"] # "done", RecvThread
  PROVE  IInv'
<1>1. CASE PutCallId("recv")  BY <1>1, InvPutCallId DEF Callers
<1>2. CASE RecvRequest
  <2>1. Ids /\ Positions /\ Started /\ Joined  BY DEF IInv
  <2>2. /\ pc["recv"] = "recv" /\ Request("recv", "recv", "put")
        /\ UNCHANGED <<prog, callq, sendList>>
    BY <1>2 DEF RecvRequest, userVars
  <2>3. /\ pc' = [u \in Threads |-> pc'[u]] /\ pc'["recv"] = "put"
        /\ \A u \in Threads : u # "recv" => pc'[u] = pc[u]
    BY <2>1, <2>2, GotoFacts DEF Request, Threads
  <2>4. pc'["user"] = pc["user"] /\ pc'["send"] = pc["send"] /\ pc'["net"] = pc["net"]
    BY <2>3 DEF Threads
  <2>5. cur' = [u \in Threads |-> cur'[u]] /\ cur'["user"] = cur["user"]
    BY <2>1, <2>2 DEF Request, Positions, Threads
  <2>6. Positions'  BY <2>1, <2>3, <2>4, <2>5 DEF Positions
  <2>7. Started'
    <3>1. \A i \in DOMAIN calls : calls'[i] = calls[i]
      BY <2>1, <2>2, Allocated DEF Request
    <3>2. Connecting' = Connecting  BY <2>1, <2>4, <2>5, <3>1, KindsStay
    <3> QED  BY <2>1, <2>2, <2>3, <2>4, <3>2 DEF Started, ConnectsNoMore
  <2>8. Joined'  BY <2>1, <2>2, <2>4 DEF Joined
  <2>9. ~Holding("recv")  BY <2>2 DEF Holding
  <2> QED  BY <2>2, <2>6, <2>7, <2>8, <2>9, Requests
<1>3. CASE RecvRequestThrows
  BY <1>3, AllocatesOnly DEF RecvRequestThrows, userVars
<1>4. CASE RecvResult  BY <1>4, InvRecvResult
<1>5. CASE RecvCancelled  BY <1>5, InvRecvCancelled
<1>6. CASE RecvStore \/ RecvCount \/ RecvClosed
  BY <1>6, QuietRecv DEF RecvStore, RecvCount, RecvClosed, userVars, callVars
<1> QED  BY <1>1, <1>2, <1>3, <1>4, <1>5, <1>6 DEF RecvThread

LEMMA InvNetThread ==
  ASSUME IInv, pc["user"] # "done", NetThread
  PROVE  IInv'
<1>1. CASE NetStart  BY <1>1, QuietNet DEF NetStart, userVars
<1>2. CASE NetRead
  BY <1>2, QuietOthers DEF NetRead, userVars
<1> QED
  BY <1>1, <1>2, InvNetNext, InvNetReadFails, InvNetMatch, InvNetComplete DEF NetThread

LEMMA InvNext == IInv /\ [Next]_vars => IInv'
<1> SUFFICES ASSUME IInv, [Next]_vars PROVE IInv'  OBVIOUS
<1>1. CASE UNCHANGED vars
  BY <1>1, QuietOthers DEF vars, userVars, callVars
<1>2. CASE Next /\ pc["user"] = "done"  BY <1>2, AfterTheEnd
<1>3. CASE Next /\ pc["user"] # "done"
  <2>1. CASE User  BY <1>3, <2>1, InvUser
  <2>2. CASE SendThread
    BY <1>3, <2>2, InvPutCallId, InvSendGet, InvSendAcknowledged DEF SendThread, Callers
  <2>3. CASE RecvThread  BY <1>3, <2>3, InvRecvThread
  <2>4. CASE NetThread  BY <1>3, <2>4, InvNetThread
  <2>5. CASE Proxy \/ Lose
    BY <2>5, QuietOthers DEF Proxy, Lose, userVars, callVars
  <2> QED  BY <1>3, <2>1, <2>2, <2>3, <2>4, <2>5 DEF Next, Finished
<1> QED  BY <1>1, <1>2, <1>3

(* Of every call it is known where it is, and that it is freed exactly     *)
(* when it is nowhere: allocate_call_result, wait_for_call_result,         *)
(* BridgeSocketOnMessage, free_call_result and pop_all_call_results.       *)
THEOREM Ownership == Spec => []IInv
<1>1. Init => IInv  BY InvInit
<1>2. IInv /\ [Next]_vars => IInv'  BY InvNext
<1> QED  BY <1>1, <1>2, PTL DEF Spec

(* No result is freed twice or while a thread or a queue refers to it, and *)
(* none is left when the proxy is destroyed, for all programs and all      *)
(* orders of replies, cancels and losses (free_call_result).               *)
THEOREM ResultsAreFreedOnce == Spec => []FreedExactlyOnce
<1>1. IInv => FreedExactlyOnce
  <2> SUFFICES ASSUME IInv PROVE FreedExactlyOnce  OBVIOUS
  <2>1. Ids  BY DEF IInv
  <2>2. CASE pc["user"] = "done"
    BY <2>2 DEF IInv, FreedExactlyOnce
  <2>3. CASE pc["user"] # "done"
    <3>1. \A i \in DOMAIN calls : Owned(i)  BY <2>3 DEF IInv
    <3>2. \A i \in DOMAIN calls : calls[i].freed <= 1
      BY <3>1 DEF Owned
    <3>3. ASSUME NEW i \in InUse  PROVE calls[i].freed = 0
      <4>1. PICK t \in Threads : \/ pc[t] \in {"put", "wait", "list", "match", "complete"} /\ i = cur[t]
                                 \/ Queued(i) \/ Collecting(i)
        BY <3>3 DEF InUse, Queued, Collecting, Threads
      <4>2. \/ Requested(i) \/ Waiting(i) \/ Matching(i) \/ Completing(i)
            \/ Queued(i) \/ Collecting(i)
        <5>1. Positions  BY DEF IInv
        <5> QED  BY <4>1, <5>1 DEF Requested, Waiting, Matching, Completing, Positions, Threads, Callers
      <4>3. i \in DOMAIN calls  BY <2>1, <4>2, PlacesAreCalls
      <4> QED  BY <3>1, <4>2, <4>3 DEF Owned
    <3> QED  BY <2>3, <3>2, <3>3 DEF FreedExactlyOnce
  <2> QED  BY <2>2, <2>3
<1> QED  BY <1>1, Ownership, PTL

(* The assertions of BridgeSocketOnMessage hold: the call that a reply is  *)
(* for is pending, and nobody has completed it.                            *)
THEOREM RepliesFindTheirCalls == Spec => []AssertionsHold
<1>1. IInv => AssertionsHold
  <2> SUFFICES ASSUME IInv PROVE AssertionsHold  OBVIOUS
  <2>1. CASE pc["net"] \notin {"match", "complete"}
    BY <2>1 DEF AssertionsHold
  <2>2. CASE pc["net"] \in {"match", "complete"}
    <3>1. cur["net"] \in DOMAIN calls /\ pc["user"] # "done"
      BY <2>2 DEF IInv, Ids, Joined
    <3>2. Owned(cur["net"]) /\ CallType(calls[cur["net"]])
      BY <3>1 DEF IInv
    <3> QED  BY <3>2 DEF Owned, CallType, Matching, Completing, AssertionsHold
  <2> QED  BY <2>1, <2>2
<1> QED  BY <1>1, Ownership, PTL
-----------------------------------------------------------------------------
(* LISTS OF REPLIES.                                                       *)

(* No two elements have the same id.                                       *)
IdsDistinct(s) == \A a, b \in DOMAIN s : s[a].id = s[b].id => a = b

(* The elements of a sequence.                                             *)
LEMMA ElementsOf ==
    ASSUME NEW R, NEW s \in Seq(R)
    PROVE  /\ DOMAIN s = 1..Len(s) /\ Len(s) \in Nat
           /\ \A i \in 1..Len(s) : s[i] \in R /\ s[i] \in ToSet(s)
           /\ \A x \in ToSet(s) : x \in R /\ \E i \in 1..Len(s) : x = s[i]
<1>1. DOMAIN s = 1..Len(s) /\ Len(s) \in Nat
  BY LenProperties
<1>2. \A i \in 1..Len(s) : s[i] \in R
  BY ElementOfSeq
<1> QED BY <1>1, <1>2 DEF ToSet

(* The elements of two sequences, one after the other.                     *)
LEMMA ElementsOfConcat ==
    ASSUME NEW R, NEW p \in Seq(R), NEW q \in Seq(R)
    PROVE  /\ p \o q \in Seq(R) /\ ToSet(p \o q) = ToSet(p) \cup ToSet(q)
           /\ IdsDistinct(p \o q) <=>
                 /\ IdsDistinct(p) /\ IdsDistinct(q)
                 /\ \A x \in ToSet(p), y \in ToSet(q) : x.id # y.id
<1>0. PICK t : t = p \o q
  OBVIOUS
<1>1. PICK m \in Nat, n \in Nat : m = Len(p) /\ n = Len(q)
  BY LenProperties
<1>2. /\ t \in Seq(R) /\ Len(t) = m + n
      /\ \A i \in 1..(m + n) : t[i] = IF i <= m THEN p[i] ELSE q[i - m]
  BY <1>0, <1>1, ConcatProperties
<1>3. DOMAIN t = 1..(m + n) /\ DOMAIN p = 1..m /\ DOMAIN q = 1..n
  BY <1>1, <1>2, ElementsOf
<1>4. \A i \in 1..m : i \in 1..(m + n) /\ t[i] = p[i]
  BY <1>2
<1>5. \A i \in 1..n : m + i \in 1..(m + n) /\ t[m + i] = q[i]
  <2> SUFFICES ASSUME NEW i \in 1..n PROVE m + i \in 1..(m + n) /\ t[m + i] = q[i]
    OBVIOUS
  <2>1. m + i \in 1..(m + n) /\ ~(m + i <= m) /\ (m + i) - m = i
    OBVIOUS
  <2> QED BY <2>1, <1>2
<1>6. \A j \in 1..(m + n) : j \in 1..m \/ \E i \in 1..n : j = m + i
  <2> SUFFICES ASSUME NEW j \in 1..(m + n), j \notin 1..m PROVE \E i \in 1..n : j = m + i
    OBVIOUS
  <2>1. j - m \in 1..n /\ j = m + (j - m)
    OBVIOUS
  <2> QED BY <2>1
<1>7. ToSet(t) = ToSet(p) \cup ToSet(q)
  <2>1. ASSUME NEW x \in ToSet(t) PROVE x \in ToSet(p) \cup ToSet(q)
    <3>1. PICK j \in 1..(m + n) : x = t[j]
      BY <2>1, <1>3 DEF ToSet
    <3>2. CASE j \in 1..m
      <4>1. x \in ToSet(p)
        BY <3>1, <3>2, <1>3, <1>4 DEF ToSet
      <4> QED BY <4>1
    <3>3. CASE j \notin 1..m
      <4>1. PICK i \in 1..n : j = m + i
        BY <3>3, <1>6
      <4>2. x = q[i]
        BY <3>1, <4>1, <1>5
      <4>3. x \in ToSet(q)
        BY <4>2, <1>3 DEF ToSet
      <4> QED BY <4>3
    <3> QED BY <3>2, <3>3
  <2>2. ASSUME NEW x \in ToSet(p) PROVE x \in ToSet(t)
    BY <1>3, <1>4 DEF ToSet
  <2>3. ASSUME NEW x \in ToSet(q) PROVE x \in ToSet(t)
    BY <1>3, <1>5 DEF ToSet
  <2> QED BY <2>1, <2>2, <2>3
<1>8. ASSUME IdsDistinct(t)
      PROVE  /\ IdsDistinct(p) /\ IdsDistinct(q)
             /\ \A x \in ToSet(p), y \in ToSet(q) : x.id # y.id
  <2>1. \A a, b \in 1..(m + n) : t[a].id = t[b].id => a = b
    BY <1>3, <1>8 DEF IdsDistinct
  <2>2. \A a, b \in 1..m : p[a].id = p[b].id => a = b
    BY <2>1, <1>4
  <2>3. ASSUME NEW a \in 1..n, NEW b \in 1..n, q[a].id = q[b].id PROVE a = b
    <3>1. m + a = m + b
      BY <2>1, <2>3, <1>5
    <3> QED BY <3>1
  <2>4. ASSUME NEW a \in 1..m, NEW b \in 1..n PROVE p[a].id # q[b].id
    <3>1. a # m + b
      OBVIOUS
    <3> QED BY <3>1, <2>1, <1>4, <1>5
  <2> QED BY <2>2, <2>3, <2>4, <1>3 DEF IdsDistinct, ToSet
<1>9. ASSUME IdsDistinct(p), IdsDistinct(q),
             \A x \in ToSet(p), y \in ToSet(q) : x.id # y.id
      PROVE  IdsDistinct(t)
  <2>1. \A a, b \in 1..m : p[a].id = p[b].id => a = b
    BY <1>3, <1>9 DEF IdsDistinct
  <2>2. \A a, b \in 1..n : q[a].id = q[b].id => a = b
    BY <1>3, <1>9 DEF IdsDistinct
  <2>3. \A a \in 1..m, b \in 1..n : p[a].id # q[b].id
    BY <1>3, <1>9 DEF ToSet
  <2>4. ASSUME NEW a \in 1..(m + n), NEW b \in 1..(m + n), t[a].id = t[b].id PROVE a = b
    <3>1. CASE a \in 1..m /\ b \in 1..m
      BY <3>1, <2>4, <2>1, <1>4
    <3>2. CASE a \in 1..m /\ b \notin 1..m
      <4>1. PICK j \in 1..n : b = m + j
        BY <3>2, <1>6
      <4>2. p[a].id = q[j].id
        BY <3>2, <4>1, <2>4, <1>4, <1>5
      <4> QED BY <3>2, <4>2, <2>3
    <3>3. CASE a \notin 1..m /\ b \in 1..m
      <4>1. PICK i \in 1..n : a = m + i
        BY <3>3, <1>6
      <4>2. q[i].id = p[b].id
        BY <3>3, <4>1, <2>4, <1>4, <1>5
      <4> QED BY <3>3, <4>2, <2>3
    <3>4. CASE a \notin 1..m /\ b \notin 1..m
      <4>1. PICK i \in 1..n, j \in 1..n : a = m + i /\ b = m + j
        BY <3>4, <1>6
      <4>2. i = j
        BY <4>1, <2>4, <2>2, <1>5
      <4> QED BY <4>1, <4>2
    <3> QED BY <3>1, <3>2, <3>3, <3>4
  <2> QED BY <2>4, <1>3 DEF IdsDistinct
<1> QED BY <1>0, <1>2, <1>7, <1>8, <1>9

(* A sequence of one element.                                              *)
LEMMA ElementsOfOne ==
    ASSUME NEW R, NEW x \in R
    PROVE  <<x>> \in Seq(R) /\ ToSet(<<x>>) = {x} /\ IdsDistinct(<<x>>)
<1>1. DOMAIN <<x>> = {1} /\ <<x>>[1] = x /\ <<x>> \in Seq(R)
  OBVIOUS
<1> QED BY <1>1 DEF ToSet, IdsDistinct

(* A part of a sequence, at its front or at its end.                       *)
LEMMA PartOf ==
    ASSUME NEW R, NEW s \in Seq(R), NEW a \in Nat, NEW b \in Nat, a <= b, b <= Len(s)
    PROVE  /\ SubSeq(s, a + 1, b) \in Seq(R) /\ Len(SubSeq(s, a + 1, b)) = b - a
           /\ \A i \in 1..(b - a) : SubSeq(s, a + 1, b)[i] = s[a + i]
<1> DEFINE t == SubSeq(s, a + 1, b)
<1>1. a + 1 \in Int /\ b \in Int /\ Len(s) \in Nat
  BY LenProperties
<1>2. \A i \in (a + 1)..b : s[i] \in R
  <2>1. \A i \in (a + 1)..b : i \in 1..Len(s)
    BY <1>1
  <2> QED BY <2>1, ElementOfSeq
<1>3. /\ t \in Seq(R) /\ Len(t) = IF a + 1 <= b THEN b - (a + 1) + 1 ELSE 0
      /\ \A i \in 1..(b - (a + 1) + 1) : t[i] = s[(a + 1) + i - 1]
  BY <1>1, <1>2, SubSeqProperties
<1> HIDE DEF t
<1>4. (IF a + 1 <= b THEN b - (a + 1) + 1 ELSE 0) = b - a
  OBVIOUS
<1>5. \A i \in 1..(b - a) : i \in 1..(b - (a + 1) + 1) /\ (a + 1) + i - 1 = a + i
  OBVIOUS
<1> QED BY <1>3, <1>4, <1>5 DEF t

(* A sequence in two parts.                                                *)
LEMMA InTwo ==
    ASSUME NEW R, NEW s \in Seq(R), NEW k \in Nat, k <= Len(s)
    PROVE  /\ SubSeq(s, 1, k) \in Seq(R) /\ SubSeq(s, k + 1, Len(s)) \in Seq(R)
           /\ s = SubSeq(s, 1, k) \o SubSeq(s, k + 1, Len(s))
<1>1. PICK n \in Nat : n = Len(s)
  BY LenProperties
<1>2. PICK p \in Seq(R) : /\ p = SubSeq(s, 1, k) /\ Len(p) = k
                         /\ \A i \in 1..k : p[i] = s[i]
  <2>1. 0 \in Nat /\ 0 <= k /\ 0 + 1 = 1 /\ k - 0 = k /\ \A i \in 1..k : 0 + i = i
    OBVIOUS
  <2>2. /\ SubSeq(s, 0 + 1, k) \in Seq(R) /\ Len(SubSeq(s, 0 + 1, k)) = k - 0
        /\ \A i \in 1..(k - 0) : SubSeq(s, 0 + 1, k)[i] = s[0 + i]
    BY <2>1, PartOf
  <2> QED BY <2>1, <2>2
<1>3. PICK q \in Seq(R) : /\ q = SubSeq(s, k + 1, n) /\ Len(q) = n - k
                         /\ \A i \in 1..(n - k) : q[i] = s[k + i]
  <2>1. k <= n /\ n <= Len(s)
    BY <1>1
  <2>2. /\ SubSeq(s, k + 1, n) \in Seq(R) /\ Len(SubSeq(s, k + 1, n)) = n - k
        /\ \A i \in 1..(n - k) : SubSeq(s, k + 1, n)[i] = s[k + i]
    BY <2>1, PartOf
  <2> QED BY <2>2, Zenon
<1>4. PICK t : t = p \o q
  OBVIOUS
<1>5. /\ t \in Seq(R) /\ Len(t) = k + (n - k)
      /\ \A i \in 1..(k + (n - k)) : t[i] = IF i <= k THEN p[i] ELSE q[i - k]
  BY <1>2, <1>3, <1>4, ConcatProperties
<1>6. k + (n - k) = n
  BY <1>1
<1>7. ASSUME NEW i \in 1..n PROVE t[i] = s[i]
  <2>1. CASE i <= k
    BY <2>1, <1>2, <1>5, <1>6
  <2>2. CASE ~(i <= k)
    <3>1. i - k \in 1..(n - k) /\ k + (i - k) = i
      BY <2>2
    <3> QED BY <2>2, <3>1, <1>3, <1>5, <1>6
  <2> QED BY <2>1, <2>2
<1>8. t = s
  BY <1>1, <1>5, <1>6, <1>7, SeqEqual
<1> QED BY <1>1, <1>2, <1>3, <1>4, <1>8

(* In three, the one in the middle a single element.                       *)
LEMMA InThree ==
    ASSUME NEW R, NEW s \in Seq(R), NEW k \in 1..Len(s)
    PROVE  /\ SubSeq(s, 1, k - 1) \in Seq(R) /\ SubSeq(s, k + 1, Len(s)) \in Seq(R)
           /\ s[k] \in R
           /\ s = (SubSeq(s, 1, k - 1) \o <<s[k]>>) \o SubSeq(s, k + 1, Len(s))
<1>1. Len(s) \in Nat /\ k \in Nat /\ k - 1 \in Nat /\ k <= Len(s) /\ k - 1 <= Len(s)
      /\ s[k] \in R
  <2>1. Len(s) \in Nat /\ s[k] \in R
    BY ElementsOf
  <2> QED BY <2>1
<1>2. /\ SubSeq(s, k + 1, Len(s)) \in Seq(R) /\ SubSeq(s, 1, k) \in Seq(R)
      /\ s = SubSeq(s, 1, k) \o SubSeq(s, k + 1, Len(s))
  BY <1>1, InTwo
<1>3. PICK a \in Nat : a = k - 1
  BY <1>1
<1>4. /\ SubSeq(s, 0 + 1, k) \in Seq(R) /\ Len(SubSeq(s, 0 + 1, k)) = k - 0
      /\ \A i \in 1..(k - 0) : SubSeq(s, 0 + 1, k)[i] = s[0 + i]
  BY <1>1, PartOf
<1>5. /\ SubSeq(s, 0 + 1, a) \in Seq(R) /\ Len(SubSeq(s, 0 + 1, a)) = a - 0
      /\ \A i \in 1..(a - 0) : SubSeq(s, 0 + 1, a)[i] = s[0 + i]
  BY <1>1, <1>3, PartOf
<1>6. PICK u \in Seq(R) : u = SubSeq(s, 1, k) /\ Len(u) = a + 1
                            /\ \A i \in 1..(a + 1) : u[i] = s[i]
  <2>1. k - 0 = a + 1 /\ 0 + 1 = 1 /\ \A i \in 1..(a + 1) : 0 + i = i
    BY <1>3
  <2>2. /\ SubSeq(s, 1, k) \in Seq(R) /\ Len(SubSeq(s, 1, k)) = a + 1
        /\ \A i \in 1..(a + 1) : SubSeq(s, 1, k)[i] = s[i]
    BY <2>1, <1>4, Zenon
  <2> QED BY <2>2, Zenon
<1>7. PICK v \in Seq(R) : v = SubSeq(s, 1, k - 1) /\ Len(v) = a
                            /\ \A i \in 1..a : v[i] = s[i]
  <2>1. a - 0 = a /\ 0 + 1 = 1 /\ \A i \in 1..a : 0 + i = i
    OBVIOUS
  <2>2. /\ SubSeq(s, 1, a) \in Seq(R) /\ Len(SubSeq(s, 1, a)) = a
        /\ \A i \in 1..a : SubSeq(s, 1, a)[i] = s[i]
    BY <2>1, <1>5, Zenon
  <2> QED BY <2>2, <1>3, Zenon
<1>8. PICK t : t = Append(v, s[k])
  OBVIOUS
<1>9. /\ t \in Seq(R) /\ Len(t) = a + 1 /\ t = v \o <<s[k]>>
      /\ \A i \in 1..a : t[i] = v[i]
      /\ t[a + 1] = s[k]
  BY <1>1, <1>7, <1>8, AppendProperties, AppendIsConcat
<1>10. \A i \in 1..(a + 1) : t[i] = u[i]
  <2>1. \A i \in 1..(a + 1) : i \in 1..a \/ i = a + 1
    OBVIOUS
  <2>2. u[a + 1] = s[k]
    BY <1>1, <1>3, <1>6
  <2>3. \A i \in 1..a : u[i] = s[i]
    BY <1>6
  <2> QED BY <2>1, <2>2, <2>3, <1>7, <1>9
<1>11. t = u
  BY <1>6, <1>9, <1>10, SeqEqual
<1> QED BY <1>1, <1>2, <1>6, <1>7, <1>9, <1>11

(* An element joins a sequence of others.                                  *)
LEMMA With ==
    ASSUME NEW R, NEW p \in Seq(R), NEW x \in R, NEW q \in Seq(R)
    PROVE  /\ (p \o <<x>>) \o q \in Seq(R)
           /\ ToSet((p \o <<x>>) \o q) = ToSet(p \o q) \cup {x}
           /\ IdsDistinct(p \o q) /\ (\A y \in ToSet(p \o q) : y.id # x.id)
                 => IdsDistinct((p \o <<x>>) \o q)
<1>1. <<x>> \in Seq(R) /\ ToSet(<<x>>) = {x} /\ IdsDistinct(<<x>>)
  BY ElementsOfOne
<1>2. /\ p \o <<x>> \in Seq(R) /\ ToSet(p \o <<x>>) = ToSet(p) \cup ToSet(<<x>>)
      /\ IdsDistinct(p \o <<x>>) <=>
            /\ IdsDistinct(p) /\ IdsDistinct(<<x>>)
            /\ \A z \in ToSet(p), y \in ToSet(<<x>>) : z.id # y.id
  BY <1>1, ElementsOfConcat
<1>3. /\ (p \o <<x>>) \o q \in Seq(R)
      /\ ToSet((p \o <<x>>) \o q) = ToSet(p \o <<x>>) \cup ToSet(q)
      /\ IdsDistinct((p \o <<x>>) \o q) <=>
            /\ IdsDistinct(p \o <<x>>) /\ IdsDistinct(q)
            /\ \A z \in ToSet(p \o <<x>>), y \in ToSet(q) : z.id # y.id
  BY <1>2, ElementsOfConcat
<1>4. /\ ToSet(p \o q) = ToSet(p) \cup ToSet(q)
      /\ IdsDistinct(p \o q) <=>
            /\ IdsDistinct(p) /\ IdsDistinct(q)
            /\ \A z \in ToSet(p), y \in ToSet(q) : z.id # y.id
  BY ElementsOfConcat
<1>5. ASSUME IdsDistinct(p \o q), \A y \in ToSet(p \o q) : y.id # x.id
      PROVE  IdsDistinct((p \o <<x>>) \o q)
  <2>1. IdsDistinct(p \o <<x>>)
    BY <1>1, <1>2, <1>4, <1>5
  <2>2. \A z \in ToSet(p \o <<x>>), y \in ToSet(q) : z.id # y.id
    BY <1>1, <1>2, <1>4, <1>5
  <2> QED BY <2>1, <2>2, <1>3, <1>4, <1>5
<1> QED BY <1>1, <1>2, <1>3, <1>4, <1>5

(* A message inserted by its id is one more element.                       *)
LEMMA Inserted ==
    ASSUME NEW R, NEW s \in Seq(R), NEW f \in R
    PROVE  /\ InsertById(s, f) \in Seq(R)
           /\ ToSet(InsertById(s, f)) = ToSet(s) \cup {f}
           /\ IdsDistinct(s) /\ (\A x \in ToSet(s) : x.id # f.id)
                 => IdsDistinct(InsertById(s, f))
<1> DEFINE larger == {i \in DOMAIN s : f.id < s[i].id}
<1>1. DOMAIN s = 1..Len(s) /\ Len(s) \in Nat
  BY ElementsOf
<1>2. CASE larger = {}
  <2>1. InsertById(s, f) = s \o <<f>>
    <3>1. InsertById(s, f) = Append(s, f)
      BY <1>2 DEF InsertById
    <3> QED BY <3>1, AppendIsConcat
  <2>2. PICK e \in Seq(R) : e = <<>>
    BY EmptySeq
  <2>3. s \o e = s /\ (s \o <<f>>) \o e = s \o <<f>>
    <3>1. s \o <<f>> \in Seq(R)
      BY ElementsOfOne, ConcatProperties
    <3> QED BY <3>1, <2>2, ConcatEmptySeq
  <2>4. /\ (s \o <<f>>) \o e \in Seq(R)
        /\ ToSet((s \o <<f>>) \o e) = ToSet(s \o e) \cup {f}
        /\ IdsDistinct(s \o e) /\ (\A y \in ToSet(s \o e) : y.id # f.id)
              => IdsDistinct((s \o <<f>>) \o e)
    BY With
  <2> QED BY <2>1, <2>3, <2>4
<1>3. CASE larger # {}
  <2>1. PICK k \in larger : \A m \in larger : k <= m
    <3>1. larger \in SUBSET Nat
      BY <1>1
    <3> HIDE DEF larger
    <3> QED BY <3>1, <1>3, LeastMember
  <2>2. Min(larger) \in larger
    <3> HIDE DEF larger
    <3> QED BY <2>1 DEF Min
  <2>3. PICK a \in Nat : a + 1 = Min(larger) /\ a <= Len(s) /\ (a + 1) - 1 = a
    <3>1. Min(larger) \in 1..Len(s)
      BY <2>2, <1>1
    <3> HIDE DEF larger
    <3>2. PICK j \in 1..Len(s) : j = Min(larger)
      BY <3>1
    <3>3. j - 1 \in Nat /\ (j - 1) + 1 = j /\ j - 1 <= Len(s) /\ ((j - 1) + 1) - 1 = j - 1
      BY <1>1
    <3> QED BY <3>2, <3>3
  <2>4. InsertById(s, f) = (SubSeq(s, 1, a) \o <<f>>) \o SubSeq(s, a + 1, Len(s))
    BY <1>3, <2>3 DEF InsertById, InsertAt
  <2>5. /\ SubSeq(s, 1, a) \in Seq(R) /\ SubSeq(s, a + 1, Len(s)) \in Seq(R)
        /\ s = SubSeq(s, 1, a) \o SubSeq(s, a + 1, Len(s))
    BY <2>3, InTwo
  <2>6. PICK p \in Seq(R) : p = SubSeq(s, 1, a)
    BY <2>5
  <2>7. PICK q \in Seq(R) : q = SubSeq(s, a + 1, Len(s))
    BY <2>5
  <2>8. /\ (p \o <<f>>) \o q \in Seq(R)
        /\ ToSet((p \o <<f>>) \o q) = ToSet(p \o q) \cup {f}
        /\ IdsDistinct(p \o q) /\ (\A y \in ToSet(p \o q) : y.id # f.id)
              => IdsDistinct((p \o <<f>>) \o q)
    BY With
  <2>9. s = p \o q /\ InsertById(s, f) = (p \o <<f>>) \o q
    BY <2>4, <2>5, <2>6, <2>7
  <2> QED BY <2>8, <2>9
<1> QED BY <1>2, <1>3

(* An element leaves a sequence of distinct ones, and no other.            *)
LEMMA Without ==
    ASSUME NEW R, NEW p \in Seq(R), NEW x \in R, NEW q \in Seq(R),
           IdsDistinct((p \o <<x>>) \o q)
    PROVE  /\ p \o q \in Seq(R) /\ IdsDistinct(p \o q)
           /\ ToSet((p \o <<x>>) \o q) = ToSet(p \o q) \cup {x}
           /\ \A y \in ToSet(p \o q) : y.id # x.id
<1>1. <<x>> \in Seq(R) /\ ToSet(<<x>>) = {x}
  BY ElementsOfOne
<1>2. /\ p \o <<x>> \in Seq(R) /\ ToSet(p \o <<x>>) = ToSet(p) \cup {x}
      /\ IdsDistinct(p \o <<x>>) => IdsDistinct(p) /\ \A y \in ToSet(p) : y.id # x.id
  <2>1. /\ p \o <<x>> \in Seq(R) /\ ToSet(p \o <<x>>) = ToSet(p) \cup ToSet(<<x>>)
        /\ IdsDistinct(p \o <<x>>) <=>
              /\ IdsDistinct(p) /\ IdsDistinct(<<x>>)
              /\ \A z \in ToSet(p), y \in ToSet(<<x>>) : z.id # y.id
    BY <1>1, ElementsOfConcat
  <2> QED BY <2>1, <1>1
<1>3. /\ ToSet((p \o <<x>>) \o q) = ToSet(p \o <<x>>) \cup ToSet(q)
      /\ IdsDistinct(p \o <<x>>) /\ IdsDistinct(q)
      /\ \A z \in ToSet(p \o <<x>>), y \in ToSet(q) : z.id # y.id
  BY <1>2, ElementsOfConcat
<1>4. /\ p \o q \in Seq(R) /\ ToSet(p \o q) = ToSet(p) \cup ToSet(q)
      /\ IdsDistinct(p \o q) <=>
            /\ IdsDistinct(p) /\ IdsDistinct(q)
            /\ \A z \in ToSet(p), y \in ToSet(q) : z.id # y.id
  BY ElementsOfConcat
<1>5. IdsDistinct(p \o q)
  BY <1>2, <1>3, <1>4
<1>6. \A y \in ToSet(p \o q) : y.id # x.id
  <2>1. \A y \in ToSet(q) : x.id # y.id
    BY <1>2, <1>3
  <2>2. \A y \in ToSet(p) : y.id # x.id
    BY <1>2, <1>3
  <2> QED BY <2>1, <2>2, <1>4
<1> QED BY <1>2, <1>3, <1>4, <1>5, <1>6

(* The one with an id is taken out.                                        *)
LEMMA Removed ==
    ASSUME NEW R, NEW s \in Seq(R), IdsDistinct(s), NEW id,
           NEW k \in DOMAIN s, s[k].id = id,
           NEW t, t = RemoveAt(s, Min({i \in DOMAIN s : s[i].id = id}))
    PROVE  /\ t \in Seq(R) /\ IdsDistinct(t) /\ ToSet(s) = ToSet(t) \cup {s[k]}
           /\ \A y \in ToSet(t) : y.id # id
<1>1. {i \in DOMAIN s : s[i].id = id} = {k}
  BY DEF IdsDistinct
<1>2. DOMAIN s = 1..Len(s) /\ k \in 1..Len(s) /\ Len(s) \in Nat /\ s[k] \in R
  BY ElementsOf
<1>3. Min({k}) = k
  <2>1. k <= k
    BY <1>2
  <2>2. \E x \in {k} : \A y \in {k} : x <= y
    BY <2>1
  <2> QED BY <2>2 DEF Min
<1>4. /\ SubSeq(s, 1, k - 1) \in Seq(R) /\ SubSeq(s, k + 1, Len(s)) \in Seq(R)
      /\ s = (SubSeq(s, 1, k - 1) \o <<s[k]>>) \o SubSeq(s, k + 1, Len(s))
  BY <1>2, InThree
<1>5. PICK p \in Seq(R) : p = SubSeq(s, 1, k - 1)
  BY <1>4
<1>6. PICK q \in Seq(R) : q = SubSeq(s, k + 1, Len(s))
  BY <1>4
<1>7. PICK x \in R : x = s[k] /\ x.id = id
  BY <1>2
<1>8. s = (p \o <<x>>) \o q /\ RemoveAt(s, k) = p \o q
  BY <1>4, <1>5, <1>6, <1>7 DEF RemoveAt
<1>9. IdsDistinct((p \o <<x>>) \o q)
  BY <1>8
<1>10. /\ p \o q \in Seq(R) /\ IdsDistinct(p \o q)
       /\ ToSet((p \o <<x>>) \o q) = ToSet(p \o q) \cup {x}
       /\ \A y \in ToSet(p \o q) : y.id # x.id
  BY <1>9, Without
<1> QED BY <1>1, <1>3, <1>7, <1>8, <1>10

(* The first one is taken.                                                 *)
LEMMA FirstTaken ==
    ASSUME NEW R, NEW s \in Seq(R), IdsDistinct(s), s # <<>>
    PROVE  /\ Tail(s) \in Seq(R) /\ Head(s) \in R /\ IdsDistinct(Tail(s))
           /\ ToSet(s) = ToSet(Tail(s)) \cup {Head(s)}
           /\ \A y \in ToSet(Tail(s)) : y.id # Head(s).id
<1>1. Tail(s) \in Seq(R) /\ Head(s) \in R /\ s = <<Head(s)>> \o Tail(s)
  OBVIOUS
<1>2. PICK h \in R, t \in Seq(R) : h = Head(s) /\ t = Tail(s)
  BY <1>1
<1>3. <<h>> \in Seq(R) /\ ToSet(<<h>>) = {h}
  BY ElementsOfOne
<1>4. /\ ToSet(<<h>> \o t) = ToSet(<<h>>) \cup ToSet(t)
      /\ IdsDistinct(<<h>> \o t) => IdsDistinct(t) /\ \A x \in ToSet(<<h>>), y \in ToSet(t) : x.id # y.id
  BY <1>3, ElementsOfConcat
<1>5. IdsDistinct(<<h>> \o t) /\ s = <<h>> \o t
  BY <1>1, <1>2
<1>6. \A y \in ToSet(t) : y.id # h.id
  BY <1>3, <1>4, <1>5
<1> QED BY <1>1, <1>2, <1>3, <1>4, <1>5, <1>6
-----------------------------------------------------------------------------
(* THE INVARIANT OF THE BYTES.                                             *)

(* The types, part by part, of what the invariant of the ownership does    *)
(* not say.                                                                *)
CallRecord ==
    [kind : {"call", "connect", "send", "recv"}, done : 0..2, listed : BOOLEAN,
     freed : Nat, reply : Reply0]

Stored == [id : Nat, data : Seq(Nat) \ {<<>>}]

RecvContext ==
    [list : Seq(Stored),
     info : [data : Seq(Nat), offset : Nat, prev : Nat, valid : BOOLEAN]]

ServerType == [sent : Nat, relayed : Nat, closed : BOOLEAN, failed : BOOLEAN]

Values ==
    /\ want \in Nat /\ again \in BOOLEAN /\ chunks \in Nat
    /\ flags \in [waitOperationCompleted : BOOLEAN, waitNextCallId : BOOLEAN,
                  valid : BOOLEAN, recvAgain : BOOLEAN]
    /\ zero \in [inner : BOOLEAN, outer : BOOLEAN]
    /\ bytes \in [recv : Nat, minimal : Nat]
    /\ server \in ServerType
    /\ retries \in 0..MaxRetry /\ lost \in BOOLEAN /\ aborted \in BOOLEAN

Places ==
    /\ \A t \in Threads : cur[t] \in 0..Len(calls)
    /\ passed \subseteq DOMAIN calls /\ asked \subseteq DOMAIN calls
    /\ \A i \in DOMAIN calls : calls[i] \in CallRecord

Contents ==
    /\ got \in Seq(Nat) /\ chunk \in Seq(Nat) /\ ctx \in RecvContext
    /\ replies \in Seq(Reply0)
    /\ netlist = [list |-> netlist.list, info |-> netlist.info]
    /\ netlist.list \in Seq(Reply0)

(* The frames in the receive context have consecutive ids up to the last   *)
(* one given out, and the cursor is in the first of them.                  *)
Cursor ==
    LET n == Len(ctx.list)
    IN  /\ n <= chunks
        /\ \A i \in 1..n : ctx.list[i].id = chunks - n + i
        /\ ctx.info.prev = chunks - n
        /\ ctx.info.valid = (n # 0)
        /\ n # 0 => ctx.info.data = ctx.list[1].data /\ ctx.info.offset < Len(ctx.info.data)

(* A call has one reply at most: at the proxy, on its way, or attached.    *)
Unanswered(i) == calls[i].reply = NoReply

Carried == ToSet(replies) \cup ToSet(netlist.list)

OneReply ==
    /\ IdsDistinct(replies) /\ IdsDistinct(netlist.list)
    /\ \A x \in ToSet(replies), y \in ToSet(netlist.list) : x.id # y.id
    /\ \A x \in Carried : x.id \in DOMAIN calls /\ Unanswered(x.id) /\ x.id \notin asked
    /\ \A i \in asked : Unanswered(i)

(* A reply is one that its call can have; data comes only for a RECV.      *)
Fits(x, kind) ==
    /\ x.ret = "data" <=> x.data # <<>>
    /\ x.ret \in IF kind = "recv" THEN {"data", "closed", "again", "error"} ELSE {"ok", "fail"}

Replied ==
    /\ \A x \in Carried : Fits(x, calls[x.id].kind)
    /\ \A i \in DOMAIN calls : Unanswered(i) \/ Fits(calls[i].reply, calls[i].kind)
    /\ \A i \in DOMAIN calls : calls[i].done = 1 => ~Unanswered(i)
    /\ pc["net"] = "complete" => ~Unanswered(cur["net"])

(* Until it is cancelled, the recv thread's call is the only RECV that has *)
(* no reply yet.                                                           *)
Uncancelled == flags.waitOperationCompleted
Outstanding(i) == pc["recv"] \in {"put", "wait"} /\ cur["recv"] = i

OneReceive ==
    Uncancelled /\ ~aborted =>
        \A i \in DOMAIN calls : calls[i].kind = "recv" /\ Unanswered(i) => Outstanding(i)

Receiving ==
    /\ pc["recv"] \in {"put", "wait"} => calls[cur["recv"]].kind = "recv"
    /\ pc["recv"] = "store" => chunk # <<>>

Cancelling == ~Uncancelled => pc["user"] \in {"join recv", "join net", "done"}

(* What the client has of the stream, and what the outstanding RECV will   *)
(* bring or has brought: the bytes behind it.                              *)
Chunk == IF pc["recv"] = "store" THEN chunk ELSE <<>>
Have == (got \o Unread) \o Chunk

First(n) == [i \in 1..n |-> i]
Behind(m, n) == [i \in 1..n |-> m + i]

Closed == server.failed \/ (server.closed /\ server.sent = server.relayed)

Brings(x) ==
    /\ x.data = Behind(Len(Have), server.relayed - Len(Have))
    /\ x.ret \in {"closed", "error"} => Closed

Complete == Len(Have) = server.relayed

OfTheReceive(r) ==
    /\ r \in asked => Complete
    /\ \A x \in Carried : x.id = r => Brings(x)
    /\ ~Unanswered(r) => Brings(calls[r].reply)
    /\ lost \/ r \in asked \/ ~Unanswered(r) \/ \E x \in Carried : x.id = r

Stream ==
    /\ Have = First(Len(Have))
    /\ Len(Have) <= server.relayed /\ server.relayed <= server.sent
    /\ IF pc["recv"] \in {"put", "wait"} THEN OfTheReceive(cur["recv"]) ELSE Complete
    /\ pc["recv"] \in {"closed", "wake", "exit"} => Closed
    /\ zero.inner => pc["recv"] \in {"wake", "exit"}

Types == Values /\ Places /\ Contents
Book == OneReply /\ Replied /\ OneReceive /\ Receiving /\ Cancelling

DInv == Types /\ Cursor /\ Book /\ (Uncancelled => Stream)
-----------------------------------------------------------------------------
(* STEPS OF THE CALLS.                                                     *)

(* The calls there were keep their kinds and replies, and one that becomes *)
(* completed has its reply; those that are new have none.                  *)
Extended ==
    /\ DOMAIN calls \subseteq DOMAIN calls' /\ Len(calls) <= Len(calls')
    /\ \A i \in DOMAIN calls' : calls'[i] \in CallRecord
    /\ \A i \in DOMAIN calls :
           /\ calls'[i].kind = calls[i].kind /\ calls'[i].reply = calls[i].reply
           /\ calls'[i].done = 1 => ~Unanswered(i)
    /\ \A i \in DOMAIN calls' \ DOMAIN calls :
           calls'[i].reply = NoReply /\ calls'[i].done = 0

(* No reply has the type of a reply.                                        *)
LEMMA NoReplyType == NoReply \in Reply0
BY DEF NoReply, Reply0

(* The calls do not change.                                                *)
LEMMA Unextended ==
    ASSUME IInv, Places, Replied, UNCHANGED calls
    PROVE  Extended
<1>1. Len(calls) \in Nat
  BY CallsFacts DEF IInv
<1> QED BY <1>1 DEF Extended, Places, Replied

(* One call changes, and not its kind or its reply.                        *)
LEMMA ExtendedAt ==
    ASSUME IInv, Places, Replied, NEW id \in DOMAIN calls, NEW c \in CallRecord,
           calls' = [calls EXCEPT ![id] = c],
           c.kind = calls[id].kind, c.reply = calls[id].reply, c.done = 1 => ~Unanswered(id)
    PROVE  Extended
<1>1. /\ calls' \in Seq(ToSet(calls')) /\ DOMAIN calls' = DOMAIN calls
      /\ \A i \in DOMAIN calls : i # id => calls'[i] = calls[i]
      /\ calls'[id] = c
  BY Updated DEF IInv
<1>2. Len(calls) \in Nat /\ Len(calls') = Len(calls)
  <2>1. Len(calls) \in Nat /\ DOMAIN calls = 1..Len(calls)
    BY CallsFacts DEF IInv
  <2> QED BY <2>1, <1>1
<1> QED BY <1>1, <1>2 DEF Extended, Places, Replied

(* A result is freed.                                                      *)
LEMMA ExtendedFreed ==
    ASSUME IInv, Places, Replied, NEW id \in DOMAIN calls, Freed(id)
    PROVE  Extended
<1>1. calls[id] \in CallRecord
  BY DEF Places
<1>2. PICK c : c = [calls[id] EXCEPT !.freed = @ + 1]
  OBVIOUS
<1>3. /\ c \in CallRecord /\ c.kind = calls[id].kind /\ c.reply = calls[id].reply
      /\ c.done = calls[id].done
  BY <1>1, <1>2 DEF CallRecord
<1>4. calls' = [calls EXCEPT ![id] = c]
  BY <1>2 DEF Freed
<1>5. c.done = 1 => ~Unanswered(id)
  BY <1>3 DEF Replied
<1> QED BY <1>3, <1>4, <1>5, ExtendedAt

(* A call is allocated.                                                    *)
LEMMA ExtendedAppend ==
    ASSUME IInv, Places, Replied, NEW k \in {"call", "connect", "send", "recv"},
           calls' = Append(calls, Call(k))
    PROVE  /\ Extended /\ DOMAIN calls' = DOMAIN calls \cup {NewId}
           /\ NewId \notin DOMAIN calls /\ calls'[NewId] = Call(k)
           /\ \A i \in DOMAIN calls : calls'[i] = calls[i]
<1>1. /\ calls' \in Seq(ToSet(calls')) /\ DOMAIN calls' = DOMAIN calls \cup {NewId}
      /\ \A i \in DOMAIN calls : calls'[i] = calls[i]
      /\ calls'[NewId] = Call(k)
  BY Allocated DEF IInv
<1>2. Len(calls) \in Nat /\ Len(calls') = Len(calls) + 1 /\ NewId \notin DOMAIN calls
  <2>1. Len(calls) \in Nat /\ DOMAIN calls = 1..Len(calls) /\ NewId \notin DOMAIN calls
    BY CallsFacts DEF IInv
  <2>2. Len(calls') = Len(calls) + 1
    BY <2>1, <1>1 DEF NewId
  <2> QED BY <2>1, <2>2
<1>3. Call(k) \in CallRecord /\ Call(k).reply = NoReply /\ Call(k).done = 0
  BY NoReplyType DEF Call, CallRecord
<1> QED BY <1>1, <1>2, <1>3 DEF Extended, Places, Replied
-----------------------------------------------------------------------------
(* WHAT STAYS.                                                             *)

(* Types of the places.                                                    *)
LEMMA PlacesStay ==
    ASSUME IInv, IInv', Places, Extended, passed' \subseteq DOMAIN calls',
           asked' \subseteq DOMAIN calls',
           \A t \in Threads : cur'[t] = cur[t] \/ cur'[t] \in DOMAIN calls'
    PROVE  Places'
<1>1. Len(calls) \in Nat /\ Len(calls') \in Nat /\ DOMAIN calls' = 1..Len(calls')
  BY CallsFacts DEF IInv, Ids
<1>2. \A t \in Threads : cur'[t] \in 0..Len(calls')
  <2> SUFFICES ASSUME NEW t \in Threads PROVE cur'[t] \in 0..Len(calls')
    OBVIOUS
  <2>1. CASE cur'[t] = cur[t]
    <3>1. cur[t] \in 0..Len(calls) /\ Len(calls) <= Len(calls')
      BY DEF Places, Extended
    <3> QED BY <3>1, <2>1, <1>1
  <2>2. CASE cur'[t] \in DOMAIN calls'
    BY <2>2, <1>1
  <2> QED BY <2>1, <2>2
<1> QED BY <1>2 DEF Places, Extended

(* The replies, of a step that moves none.                                 *)
LEMMA RepliesStay ==
    ASSUME Places, OneReply, Replied, Extended, UNCHANGED <<replies, netlist>>,
           asked' \subseteq asked \cup (DOMAIN calls' \ DOMAIN calls),
           pc'["net"] = "complete" =>
               pc["net"] = "complete" /\ cur'["net"] = cur["net"] /\ cur["net"] \in DOMAIN calls
    PROVE  OneReply' /\ Replied'
<1>1. Carried' = Carried /\ ToSet(replies') = ToSet(replies) /\ ToSet(netlist'.list) = ToSet(netlist.list)
  BY DEF Carried
<1>2. \A x \in Carried : x.id \in DOMAIN calls /\ Unanswered(x.id) /\ x.id \notin asked
  BY DEF OneReply
<1>3. \A i \in DOMAIN calls : Unanswered(i)' = Unanswered(i)
  BY DEF Extended, Unanswered
<1>4. \A i \in DOMAIN calls' \ DOMAIN calls : Unanswered(i)'
  BY DEF Extended, Unanswered
<1>5. \A x \in Carried' : x.id \in DOMAIN calls' /\ Unanswered(x.id)' /\ x.id \notin asked'
  BY <1>1, <1>2, <1>3 DEF Extended
<1>6. \A i \in asked' : Unanswered(i)'
  BY <1>3, <1>4 DEF OneReply, Places
<1>7. OneReply'
  BY <1>1, <1>5, <1>6 DEF OneReply
<1>8. \A x \in Carried' : Fits(x, calls'[x.id].kind)
  BY <1>1, <1>2 DEF Replied, Extended
<1>9. \A i \in DOMAIN calls' : Unanswered(i)' \/ Fits(calls'[i].reply, calls'[i].kind)
  <2>1. \A i \in DOMAIN calls : Unanswered(i)' \/ Fits(calls'[i].reply, calls'[i].kind)
    BY <1>3 DEF Replied, Extended
  <2> QED BY <2>1, <1>4
<1>10. \A i \in DOMAIN calls' : calls'[i].done = 1 => ~Unanswered(i)'
  <2>1. \A i \in DOMAIN calls : calls'[i].done = 1 => ~Unanswered(i)'
    BY <1>3 DEF Extended
  <2>2. \A i \in DOMAIN calls' \ DOMAIN calls : calls'[i].done # 1
    BY DEF Extended
  <2> QED BY <2>1, <2>2
<1>11. pc'["net"] = "complete" => ~Unanswered(cur["net"])'
  BY <1>3 DEF Replied
<1>12. Replied'
  <2>1. pc'["net"] = "complete" => cur'["net"] = cur["net"]
    OBVIOUS
  <2> QED BY <1>8, <1>9, <1>10, <1>11, <2>1 DEF Replied, Unanswered, Fits
<1> QED BY <1>7, <1>12

(* The receive that is outstanding, of a step that neither makes one nor   *)
(* ends it.                                                                *)
SameReceive ==
    /\ cur'["recv"] = cur["recv"]
    /\ pc'["recv"] \in {"put", "wait"} <=> pc["recv"] \in {"put", "wait"}
    /\ pc["recv"] \notin {"put", "wait"} => pc'["recv"] = pc["recv"]

(* The call the recv thread waits for is a call.                            *)
LEMMA ReceiveOf ==
    ASSUME IInv, Outstanding(cur["recv"])
    PROVE  cur["recv"] \in DOMAIN calls
BY DEF Outstanding, IInv, Ids, Holding, Callers

(* The outstanding receive stays the only one.                              *)
LEMMA ReceiveStays ==
    ASSUME IInv, OneReceive, Receiving, Extended, aborted => aborted', SameReceive,
           Uncancelled' => Uncancelled, chunk' = chunk,
           \A i \in DOMAIN calls' \ DOMAIN calls : calls'[i].kind = "recv" => aborted'
    PROVE  OneReceive' /\ Receiving'
<1>1. pc["recv"] \in {"put", "wait"} => cur["recv"] \in DOMAIN calls
  BY ReceiveOf DEF Outstanding
<1>2. Receiving'
  BY <1>1 DEF Receiving, SameReceive, Extended
<1>3. ASSUME Uncancelled', ~aborted', NEW i \in DOMAIN calls',
             calls'[i].kind = "recv", Unanswered(i)'
      PROVE  Outstanding(i)'
  <2>1. i \in DOMAIN calls
    BY <1>3
  <2>2. calls[i].kind = "recv" /\ Unanswered(i)
    BY <1>3, <2>1 DEF Extended, Unanswered
  <2>3. Outstanding(i)
    BY <1>3, <2>1, <2>2 DEF OneReceive
  <2> QED BY <2>3 DEF Outstanding, SameReceive
<1> QED BY <1>2, <1>3 DEF OneReceive

(* The destructor's progress, and the cancel.                              *)
LEMMA CancelStays ==
    ASSUME Cancelling, flags'.waitOperationCompleted = flags.waitOperationCompleted,
           \/ pc'["user"] = pc["user"]
           \/ pc["user"] \notin {"join recv", "join net", "done"}
           \/ pc'["user"] \in {"join recv", "join net", "done"}
    PROVE  Cancelling' /\ (Uncancelled' => Uncancelled)
BY DEF Cancelling, Uncancelled

(* The receive context, of a step that leaves it alone.                     *)
LEMMA CursorStays ==
    ASSUME Cursor, UNCHANGED <<ctx, chunks>>
    PROVE  Cursor'
BY DEF Cursor

(* What the client has, and what is left of it by a step that does not     *)
(* touch it.                                                               *)
LEMMA HaveStays ==
    ASSUME UNCHANGED <<got, ctx, chunk>>,
           pc'["recv"] = pc["recv"] \/ (pc["recv"] # "store" /\ pc'["recv"] # "store")
    PROVE  Have' = Have
BY DEF Have, Unread, DataOf, Chunk

(* The stream, of a step that goes on with the same receive.               *)
LEMMA StreamStays ==
    ASSUME IInv, Stream, Extended, SameReceive, Have' = Have,
           UNCHANGED <<server, zero, lost>>, Carried' = Carried,
           asked \subseteq asked', asked' \subseteq asked \cup (DOMAIN calls' \ DOMAIN calls)
    PROVE  Stream'
<1>1. pc["recv"] \in {"put", "wait"} => cur["recv"] \in DOMAIN calls
  BY ReceiveOf DEF Outstanding
<1>2. Complete' = Complete /\ Closed' = Closed /\ \A x : Brings(x)' = Brings(x)
  BY DEF Complete, Closed, Brings
<1>3. ASSUME NEW r \in DOMAIN calls, OfTheReceive(r) PROVE OfTheReceive(r)'
  <2>1. Unanswered(r)' = Unanswered(r) /\ calls'[r].reply = calls[r].reply
    BY DEF Extended, Unanswered
  <2>2. r \in asked' <=> r \in asked
    OBVIOUS
  <2> QED BY <2>1, <2>2, <1>2, <1>3 DEF OfTheReceive
<1>4. pc'["recv"] \in {"put", "wait"} => OfTheReceive(cur["recv"])'
  BY <1>1, <1>3 DEF Stream, SameReceive
<1>5. pc'["recv"] \notin {"put", "wait"} => pc'["recv"] = pc["recv"] /\ Complete'
  BY <1>2 DEF Stream, SameReceive
<1>6. /\ pc'["recv"] \in {"closed", "wake", "exit"} => Closed'
      /\ zero'.inner => pc'["recv"] \in {"wake", "exit"}
  BY <1>2 DEF Stream, SameReceive
<1>7. Have' = First(Len(Have')) /\ Len(Have') <= server'.relayed /\ server'.relayed <= server'.sent
  BY DEF Stream
<1>8. cur'["recv"] = cur["recv"]
  BY DEF SameReceive
<1> QED BY <1>4, <1>5, <1>6, <1>7, <1>8 DEF Stream, First, OfTheReceive, Brings, Complete, Closed, Unanswered

(* The stream, while no receive is outstanding.                            *)
LEMMA StreamMoves ==
    ASSUME Stream, Have' = Have, server' = server,
           pc["recv"] \notin {"put", "wait"}, pc'["recv"] \notin {"put", "wait"},
           pc'["recv"] \in {"closed", "wake", "exit"} =>
               pc["recv"] \in {"closed", "wake", "exit"},
           zero'.inner => pc'["recv"] \in {"wake", "exit"}
    PROVE  Stream'
<1>1. Complete' = Complete /\ Closed' = Closed
  BY DEF Complete, Closed
<1>2. Complete /\ (pc["recv"] \in {"closed", "wake", "exit"} => Closed)
  BY DEF Stream
<1>3. Have' = First(Len(Have')) /\ Len(Have') <= server'.relayed /\ server'.relayed <= server'.sent
  BY DEF Stream
<1> QED BY <1>1, <1>2, <1>3 DEF Stream, First

(* A step that moves no bytes, no reply and not the receive.               *)
Plain ==
    /\ Extended /\ SameReceive
    /\ UNCHANGED <<got, ctx, chunk, chunks, replies, netlist, passed, server, zero, lost>>
    /\ asked \subseteq asked' /\ asked' \subseteq asked \cup (DOMAIN calls' \ DOMAIN calls)
    /\ \A t \in Threads : cur'[t] = cur[t] \/ cur'[t] \in DOMAIN calls'
    /\ pc'["net"] = "complete" => pc["net"] = "complete" /\ cur'["net"] = cur["net"]
    /\ \A i \in DOMAIN calls' \ DOMAIN calls : calls'[i].kind = "recv" => aborted'
    /\ aborted => aborted'

(* Such a step preserves the invariant.                                     *)
LEMMA PlainStep ==
    ASSUME IInv, IInv', DInv, Plain, Values', Cancelling', Uncancelled' => Uncancelled
    PROVE  DInv'
<1>1. /\ Values /\ Places /\ Contents /\ Cursor /\ OneReply /\ Replied /\ OneReceive
      /\ Receiving /\ Cancelling /\ (Uncancelled => Stream)
  BY DEF DInv, Types, Book
<1>2. Places'
  <2>1. passed' \subseteq DOMAIN calls' /\ asked' \subseteq DOMAIN calls'
    BY <1>1 DEF Plain, Places, Extended
  <2> QED BY <2>1, <1>1, PlacesStay DEF Plain
<1>3. Contents'
  BY <1>1 DEF Plain, Contents
<1>4. Cursor'
  BY <1>1, CursorStays DEF Plain
<1>5. OneReply' /\ Replied'
  <2>1. pc["net"] = "complete" => cur["net"] \in DOMAIN calls
    BY DEF IInv, Ids
  <2> QED BY <2>1, <1>1, RepliesStay DEF Plain
<1>6. OneReceive' /\ Receiving'
  BY <1>1, ReceiveStays DEF Plain
<1>7. Uncancelled' => Stream'
  <2> SUFFICES ASSUME Uncancelled' PROVE Stream'
    OBVIOUS
  <2>1. Have' = Have
    <3>1. pc'["recv"] = pc["recv"] \/ (pc["recv"] # "store" /\ pc'["recv"] # "store")
      BY DEF Plain, SameReceive
    <3> QED BY <3>1, HaveStays DEF Plain
  <2>2. Carried' = Carried
    BY DEF Carried, Plain
  <2> QED BY <2>1, <2>2, <1>1, StreamStays DEF Plain
<1> QED BY <1>2, <1>3, <1>4, <1>5, <1>6, <1>7 DEF DInv, Types, Book

(* Which thread's position a step changes.                                 *)
LEMMA Going ==
    ASSUME IInv, NEW t \in Threads, NEW l, Goto(t, l)
    PROVE  /\ pc'[t] = l
           /\ t # "user" => pc'["user"] = pc["user"]
           /\ t # "send" => pc'["send"] = pc["send"]
           /\ t # "recv" => pc'["recv"] = pc["recv"]
           /\ t # "net" => pc'["net"] = pc["net"]
BY GotoFacts DEF IInv, Threads

(* The types of the variables that change seldom.                           *)
LEMMA ValuesStay ==
    ASSUME Values, UNCHANGED <<want, again, chunks, flags, zero, bytes, server, retries,
                               lost, aborted>>
    PROVE  Values'
BY DEF Values

(* A step of the send thread, of the network thread's queue, or of nobody. *)
LEMMA QuietSteps ==
    ASSUME IInv, IInv', DInv, NEW t \in {"send", "net"}, NEW l \in {"get", "put", "wait", "idle", "match", "exit"},
           Goto(t, l), Extended, DOMAIN calls' = DOMAIN calls,
           \A u \in Threads : cur'[u] = cur[u] \/ (u = t /\ cur'[u] \in DOMAIN calls),
           UNCHANGED <<userVars, netlist, recvVars, proxyVars, aborted>>,
           flags'.waitOperationCompleted = flags.waitOperationCompleted,
           flags' \in [waitOperationCompleted : BOOLEAN, waitNextCallId : BOOLEAN,
                       valid : BOOLEAN, recvAgain : BOOLEAN]
    PROVE  DInv'
<1>1. Values /\ Cancelling
  BY DEF DInv, Types, Book
<1>2. /\ pc'["user"] = pc["user"] /\ pc'["recv"] = pc["recv"]
      /\ pc'["net"] = "complete" => pc["net"] = "complete" /\ t = "send"
  BY Going DEF Threads
<1>3. UNCHANGED <<want, got, chunk, again, ctx, chunks, zero, bytes, asked, passed, replies,
                  server, retries, lost>>
  BY DEF userVars, recvVars, proxyVars
<1>4. Values'
  BY <1>1, <1>3 DEF Values
<1>5. Cancelling' /\ (Uncancelled' => Uncancelled)
  BY <1>1, <1>2, CancelStays
<1>6. cur'["recv"] = cur["recv"] /\ (t = "send" => cur'["net"] = cur["net"])
  BY DEF Threads
<1>7. SameReceive
  BY <1>2, <1>6 DEF SameReceive
<1>8. Plain
  BY <1>2, <1>3, <1>6, <1>7 DEF Plain
<1> QED BY <1>4, <1>5, <1>8, PlainStep

(* Nothing changes.                                                         *)
LEMMA DataStutters ==
    ASSUME IInv, IInv', DInv, UNCHANGED vars
    PROVE  DInv'
<1>1. Values /\ Cancelling /\ Places /\ Replied
  BY DEF DInv, Types, Book
<1>2. /\ UNCHANGED <<pc, cur, calls, want, got, chunk, again, ctx, chunks, zero, bytes,
                     asked, passed, replies, server, retries, lost, aborted, flags, netlist>>
  BY DEF vars, userVars, recvVars, proxyVars, callVars
<1>3. Values'
  BY <1>1, <1>2 DEF Values
<1>4. Cancelling' /\ (Uncancelled' => Uncancelled)
  BY <1>1, <1>2, CancelStays
<1>5. Extended
  BY <1>1, <1>2, Unextended
<1>6. Plain
  BY <1>2, <1>5 DEF Plain, SameReceive
<1> QED BY <1>3, <1>4, <1>6, PlainStep

(* The steps of the send thread.                                           *)
LEMMA DataSendThread ==
    ASSUME IInv, IInv', DInv, SendThread
    PROVE  DInv'
<1>1. Values /\ Cancelling /\ Places /\ Replied
  BY DEF DInv, Types, Book
<1>2. flags \in [waitOperationCompleted : BOOLEAN, waitNextCallId : BOOLEAN,
                 valid : BOOLEAN, recvAgain : BOOLEAN]
  BY <1>1 DEF Values
<1>3. CASE PutCallId("send")
  <2>1. /\ Goto("send", "wait")
        /\ UNCHANGED <<cur, calls, userVars, netlist, recvVars, proxyVars, aborted, flags>>
    BY <1>3 DEF PutCallId
  <2>2. Extended /\ DOMAIN calls' = DOMAIN calls
    BY <1>1, <2>1, Unextended
  <2> QED BY <1>2, <2>1, <2>2, QuietSteps
<1>4. CASE SendGet
  <2>1. /\ \/ Goto("send", "put") /\ cur' = [cur EXCEPT !["send"] = Head(sendList)]
              /\ sendList # <<>>
           \/ Goto("send", "exit") /\ UNCHANGED cur
        /\ UNCHANGED <<calls, userVars, netlist, recvVars, proxyVars, aborted, flags>>
    BY <1>4 DEF SendGet
  <2>2. Extended /\ DOMAIN calls' = DOMAIN calls
    BY <1>1, <2>1, Unextended
  <2>3. \A u \in Threads : cur'[u] = cur[u] \/ (u = "send" /\ cur'[u] \in DOMAIN calls)
    <3>1. sendList # <<>> => Head(sendList) \in DOMAIN calls
      BY Dequeued DEF IInv, Ids
    <3>2. cur = [u \in Threads |-> cur[u]]
      BY DEF IInv, Positions
    <3> QED BY <2>1, <3>1, <3>2
  <2> QED BY <1>2, <2>1, <2>2, <2>3, QuietSteps
<1>5. CASE SendAcknowledged
  <2>1. /\ Goto("send", "get") /\ Freed(cur["send"]) /\ pc["send"] = "wait"
        /\ UNCHANGED <<cur, userVars, netlist, recvVars, proxyVars, aborted, flags>>
    BY <1>5 DEF SendAcknowledged, Completed
  <2>2. cur["send"] \in DOMAIN calls
    BY <2>1 DEF IInv, Ids, Holding, Callers
  <2>3. Extended /\ DOMAIN calls' = DOMAIN calls
    <3>1. Extended
      BY <1>1, <2>1, <2>2, ExtendedFreed
    <3> QED BY <2>1, <3>1 DEF Freed
  <2> QED BY <1>2, <2>1, <2>3, QuietSteps
<1> QED BY <1>3, <1>4, <1>5 DEF SendThread

(* The network thread's steps that move no reply.                          *)
LEMMA DataNetQuiet ==
    ASSUME IInv, IInv', DInv, NetStart \/ NetNext \/ NetReadFails \/ NetComplete
    PROVE  DInv'
<1>1. Values /\ Cancelling /\ Places /\ Replied
  BY DEF DInv, Types, Book
<1>2. flags \in [waitOperationCompleted : BOOLEAN, waitNextCallId : BOOLEAN,
                 valid : BOOLEAN, recvAgain : BOOLEAN]
  BY <1>1 DEF Values
<1>3. CASE NetStart
  <2>1. /\ Goto("net", "idle") /\ flags' = [flags EXCEPT !.waitNextCallId = TRUE]
        /\ UNCHANGED <<cur, calls, userVars, netlist, recvVars, proxyVars, aborted>>
    BY <1>3 DEF NetStart
  <2>2. Extended /\ DOMAIN calls' = DOMAIN calls
    BY <1>1, <2>1, Unextended
  <2>3. /\ flags'.waitOperationCompleted = flags.waitOperationCompleted
        /\ flags' \in [waitOperationCompleted : BOOLEAN, waitNextCallId : BOOLEAN,
                       valid : BOOLEAN, recvAgain : BOOLEAN]
    BY <1>2, <2>1
  <2> QED BY <2>1, <2>2, <2>3, QuietSteps
<1>4. CASE NetNext
  <2>1. /\ \/ Goto("net", "match") /\ cur' = [cur EXCEPT !["net"] = Head(callq)] /\ callq # <<>>
           \/ Goto("net", "exit") /\ UNCHANGED cur
        /\ UNCHANGED <<calls, userVars, netlist, recvVars, proxyVars, aborted, flags>>
    BY <1>4 DEF NetNext
  <2>2. Extended /\ DOMAIN calls' = DOMAIN calls
    BY <1>1, <2>1, Unextended
  <2>3. \A u \in Threads : cur'[u] = cur[u] \/ (u = "net" /\ cur'[u] \in DOMAIN calls)
    <3>1. callq # <<>> => Head(callq) \in DOMAIN calls
      BY Dequeued DEF IInv, Ids
    <3>2. cur = [u \in Threads |-> cur[u]]
      BY DEF IInv, Positions
    <3> QED BY <2>1, <3>1, <3>2
  <2> QED BY <1>2, <2>1, <2>2, <2>3, QuietSteps
<1>5. CASE NetReadFails
  <2>1. /\ Goto("net", "exit")
        /\ UNCHANGED <<cur, calls, userVars, netlist, recvVars, proxyVars, aborted, flags>>
    BY <1>5 DEF NetReadFails, callVars
  <2>2. Extended /\ DOMAIN calls' = DOMAIN calls
    BY <1>1, <2>1, Unextended
  <2> QED BY <1>2, <2>1, <2>2, QuietSteps
<1>6. CASE NetComplete
  <2> DEFINE id == cur["net"]
  <2>1. /\ \/ calls' = [calls EXCEPT ![id].done = 1]
           \/ Freed(id)
        /\ Goto("net", "idle") /\ pc["net"] = "complete"
        /\ UNCHANGED <<cur, userVars, netlist, recvVars, proxyVars, aborted, flags>>
    BY <1>6 DEF NetComplete
  <2>2. id \in DOMAIN calls /\ ~Unanswered(id)
    BY <1>1, <2>1 DEF IInv, Ids, Replied
  <2>3. Extended
    <3>1. CASE Freed(id)
      BY <1>1, <2>2, <3>1, ExtendedFreed
    <3>2. CASE calls' = [calls EXCEPT ![id].done = 1]
      <4>1. PICK c : c = [calls[id] EXCEPT !.done = 1]
        OBVIOUS
      <4>2. c \in CallRecord /\ c.kind = calls[id].kind /\ c.reply = calls[id].reply
        BY <1>1, <2>2, <4>1 DEF Places, CallRecord
      <4>3. calls' = [calls EXCEPT ![id] = c]
        BY <3>2, <4>1
      <4> QED BY <1>1, <2>2, <4>2, <4>3, ExtendedAt
    <3> QED BY <2>1, <3>1, <3>2
  <2>4. DOMAIN calls' = DOMAIN calls
    BY <2>1 DEF Freed
  <2> QED BY <1>2, <2>1, <2>3, <2>4, QuietSteps
<1> QED BY <1>3, <1>4, <1>5, <1>6

(* A reply is read, and stored by the id of its call.                      *)
LEMMA DataNetRead ==
    ASSUME IInv, IInv', DInv, NetRead
    PROVE  DInv'
<1>1. /\ Values /\ Places /\ Contents /\ Cursor /\ OneReply /\ Replied /\ OneReceive
      /\ Receiving /\ Cancelling /\ (Uncancelled => Stream)
  BY DEF DInv, Types, Book
<1>2. /\ replies # <<>> /\ replies' = Tail(replies)
      /\ netlist' = PutChunk(netlist, Head(replies))
      /\ UNCHANGED <<pc, cur, calls, flags, want, got, chunk, again, ctx, chunks, zero, bytes,
                     asked, passed, server, retries, lost, aborted>>
  BY DEF NetRead, userVars, recvVars
<1>3. PICK old \in Seq(Reply0) : old = netlist.list
  BY <1>1 DEF Contents
<1>4. PICK new : new = InsertById(old, Head(replies))
  OBVIOUS
<1>5. /\ netlist'.list = new /\ netlist' = [list |-> netlist'.list, info |-> netlist'.info]
  BY <1>1, <1>2, <1>3, <1>4 DEF PutChunk, Contents
<1>6. /\ Tail(replies) \in Seq(Reply0) /\ Head(replies) \in Reply0 /\ IdsDistinct(Tail(replies))
      /\ ToSet(replies) = ToSet(Tail(replies)) \cup {Head(replies)}
      /\ \A y \in ToSet(Tail(replies)) : y.id # Head(replies).id
  BY <1>1, <1>2, FirstTaken DEF OneReply, Contents
<1>7. /\ new \in Seq(Reply0) /\ ToSet(new) = ToSet(old) \cup {Head(replies)}
      /\ IdsDistinct(new)
  <2>1. PICK f \in Reply0 : f = Head(replies)
    BY <1>6
  <2>2. IdsDistinct(old) /\ \A x \in ToSet(old) : x.id # f.id
    BY <1>1, <1>3, <1>6, <2>1 DEF OneReply
  <2>3. /\ InsertById(old, f) \in Seq(Reply0) /\ ToSet(InsertById(old, f)) = ToSet(old) \cup {f}
        /\ IdsDistinct(InsertById(old, f))
    BY <2>2, Inserted
  <2> QED BY <1>4, <2>1, <2>3
<1>8. Carried' = Carried
  BY <1>2, <1>3, <1>5, <1>6, <1>7 DEF Carried
<1>9. Contents'
  BY <1>1, <1>2, <1>5, <1>6, <1>7 DEF Contents
<1>10. OneReply'
  <2>1. IdsDistinct(replies') /\ IdsDistinct(netlist'.list)
    BY <1>2, <1>5, <1>6, <1>7
  <2>2. \A x \in ToSet(replies'), y \in ToSet(netlist'.list) : x.id # y.id
    BY <1>1, <1>2, <1>3, <1>5, <1>6, <1>7 DEF OneReply
  <2>3. \A x \in Carried' : x.id \in DOMAIN calls' /\ Unanswered(x.id)' /\ x.id \notin asked'
    BY <1>1, <1>2, <1>8 DEF OneReply, Unanswered
  <2>4. \A i \in asked' : Unanswered(i)'
    BY <1>1, <1>2 DEF OneReply, Unanswered
  <2> QED BY <2>1, <2>2, <2>3, <2>4 DEF OneReply
<1>11. Replied'
  BY <1>1, <1>2, <1>8 DEF Replied, Unanswered, Fits
<1>12. Extended
  BY <1>1, <1>2, Unextended
<1>13. SameReceive
  BY <1>2 DEF SameReceive
<1>14. Cancelling' /\ (Uncancelled' => Uncancelled)
  BY <1>1, <1>2, CancelStays
<1>15. OneReceive' /\ Receiving'
  BY <1>1, <1>2, <1>12, <1>13, <1>14, ReceiveStays
<1>16. Uncancelled' => Stream'
  <2> SUFFICES ASSUME Uncancelled' PROVE Stream'
    OBVIOUS
  <2>1. Have' = Have
    BY <1>2, HaveStays
  <2>2. Stream /\ UNCHANGED <<server, zero, lost>> /\ asked' = asked
    BY <1>1, <1>2, <1>14
  <2> QED BY <1>8, <1>12, <1>13, <2>1, <2>2, StreamStays
<1>17. Places'
  BY <1>1, <1>2 DEF Places
<1>18. Values' /\ Cursor'
  BY <1>1, <1>2, ValuesStay, CursorStays
<1> QED BY <1>9, <1>10, <1>11, <1>14, <1>15, <1>16, <1>17, <1>18 DEF DInv, Types, Book

(* A reply is taken out of the list and attached to its call.              *)
LEMMA DataNetMatch ==
    ASSUME IInv, IInv', DInv, NetMatch
    PROVE  DInv'
<1>0. PICK id : id = cur["net"]
  OBVIOUS
<1>1. /\ Values /\ Places /\ Contents /\ Cursor /\ OneReply /\ Replied /\ OneReceive
      /\ Receiving /\ Cancelling /\ (Uncancelled => Stream)
  BY DEF DInv, Types, Book
<1>2. /\ pc["net"] = "match" /\ Goto("net", "complete")
      /\ netlist' = RemoveChunk(netlist, id)
      /\ UNCHANGED <<cur, flags, want, got, chunk, again, ctx, chunks, zero, bytes,
                     asked, passed, replies, server, retries, lost, aborted>>
  BY <1>0 DEF NetMatch, userVars, recvVars, proxyVars
<1>3. PICK k \in ChunkAt(netlist, id) :
          calls' = [calls EXCEPT ![id].listed = FALSE, ![id].reply = netlist.list[k]]
  BY <1>0 DEF NetMatch
<1>4. PICK old \in Seq(Reply0) : old = netlist.list
  BY <1>1 DEF Contents
<1>5. k \in DOMAIN old /\ old[k].id = id
  BY <1>3, <1>4 DEF ChunkAt
<1>6. PICK x \in Reply0 : x = old[k] /\ x.id = id /\ x \in ToSet(old)
  BY <1>5, ElementsOf
<1>7. PICK new : new = RemoveAt(old, Min({i \in DOMAIN old : old[i].id = id}))
  OBVIOUS
<1>8. /\ new \in Seq(Reply0) /\ IdsDistinct(new) /\ ToSet(old) = ToSet(new) \cup {x}
      /\ \A y \in ToSet(new) : y.id # id
  <2>1. IdsDistinct(old)
    BY <1>1, <1>4 DEF OneReply
  <2>2. /\ new \in Seq(Reply0) /\ IdsDistinct(new) /\ ToSet(old) = ToSet(new) \cup {old[k]}
        /\ \A y \in ToSet(new) : y.id # id
    BY <2>1, <1>5, <1>7, Removed
  <2> QED BY <2>2, <1>6
<1>9. netlist'.list = new /\ netlist' = [list |-> netlist'.list, info |-> netlist'.info]
  BY <1>1, <1>2, <1>4, <1>7 DEF RemoveChunk, ChunkAt, Contents
<1>10. /\ id \in DOMAIN calls /\ Unanswered(id) /\ id \notin asked /\ x \in Carried
       /\ \A z \in ToSet(replies) : z.id # id
       /\ Carried = Carried' \cup {x} /\ \A z \in Carried' : z.id # id
  BY <1>1, <1>2, <1>4, <1>6, <1>7, <1>8, <1>9 DEF OneReply, Carried
<1>11. PICK c \in CallRecord :
           /\ calls' = [calls EXCEPT ![id] = c] /\ c.kind = calls[id].kind
           /\ c.reply = x /\ c.done = calls[id].done
  <2>1. PICK c : c = [calls[id] EXCEPT !.listed = FALSE, !.reply = x]
    OBVIOUS
  <2>2. /\ c \in CallRecord /\ c.kind = calls[id].kind /\ c.reply = x /\ c.done = calls[id].done
    BY <1>1, <1>10, <2>1 DEF Places, CallRecord
  <2>3. calls' = [calls EXCEPT ![id] = c]
    BY <1>3, <1>4, <1>6, <2>1
  <2> QED BY <2>2, <2>3
<1>12. /\ DOMAIN calls' = DOMAIN calls /\ Len(calls') = Len(calls)
       /\ \A i \in DOMAIN calls : i # id => calls'[i] = calls[i]
       /\ calls'[id] = c
  <2>1. /\ calls' \in Seq(ToSet(calls')) /\ DOMAIN calls' = DOMAIN calls
        /\ \A i \in DOMAIN calls : i # id => calls'[i] = calls[i]
        /\ calls'[id] = c
    BY <1>10, <1>11, Updated DEF IInv
  <2>2. Len(calls) \in Nat /\ DOMAIN calls = 1..Len(calls)
    BY CallsFacts DEF IInv
  <2> QED BY <2>1, <2>2
<1>13. Fits(x, calls[id].kind) /\ ~Unanswered(id)'
  <2>1. Fits(x, calls[id].kind)
    BY <1>1, <1>6, <1>10 DEF Replied
  <2>2. x # NoReply
    BY <2>1 DEF Fits, NoReply
  <2> QED BY <2>1, <2>2, <1>11, <1>12 DEF Unanswered
<1>14. \A i \in DOMAIN calls : /\ calls'[i].kind = calls[i].kind
                               /\ i # id => Unanswered(i)' = Unanswered(i)
  BY <1>11, <1>12 DEF Unanswered
<1>15. OneReply'
  <2>1. IdsDistinct(replies') /\ IdsDistinct(netlist'.list)
    BY <1>1, <1>2, <1>7, <1>8, <1>9 DEF OneReply
  <2>2. \A z \in ToSet(replies'), y \in ToSet(netlist'.list) : z.id # y.id
    BY <1>1, <1>2, <1>4, <1>7, <1>8, <1>9 DEF OneReply
  <2>3. \A y \in Carried' : y.id \in DOMAIN calls' /\ Unanswered(y.id)' /\ y.id \notin asked'
    BY <1>1, <1>2, <1>10, <1>12, <1>14 DEF OneReply
  <2>4. \A i \in asked' : Unanswered(i)'
    BY <1>1, <1>2, <1>10, <1>14 DEF OneReply, Places
  <2> QED BY <2>1, <2>2, <2>3, <2>4 DEF OneReply
<1>16. Replied'
  <2>1. \A y \in Carried' : Fits(y, calls'[y.id].kind)
    BY <1>1, <1>10, <1>14 DEF Replied, OneReply
  <2>2. \A i \in DOMAIN calls' : Unanswered(i)' \/ Fits(calls'[i].reply, calls'[i].kind)
    BY <1>1, <1>11, <1>12, <1>13, <1>14 DEF Replied
  <2>3. \A i \in DOMAIN calls' : calls'[i].done = 1 => ~Unanswered(i)'
    BY <1>1, <1>12, <1>13, <1>14 DEF Replied
  <2>4. ~Unanswered(cur["net"])'
    <3>1. cur'["net"] = id
      BY <1>0, <1>2
    <3> QED BY <3>1, <1>13 DEF Unanswered
  <2> QED BY <2>1, <2>2, <2>3, <2>4 DEF Replied, Unanswered, Fits
<1>17. pc'["recv"] = pc["recv"] /\ pc'["user"] = pc["user"] /\ cur'["recv"] = cur["recv"]
  BY <1>2, Going DEF Threads
<1>18. Cancelling' /\ (Uncancelled' => Uncancelled)
  BY <1>1, <1>2, <1>17, CancelStays
<1>19. OneReceive' /\ Receiving'
  <2>1. \A i \in DOMAIN calls' : Unanswered(i)' => Unanswered(i)
    BY <1>12, <1>13, <1>14
  <2>2. OneReceive'
    BY <1>1, <1>2, <1>12, <1>14, <1>17, <1>18, <2>1 DEF OneReceive, Outstanding
  <2>3. pc["recv"] \in {"put", "wait"} => cur["recv"] \in DOMAIN calls
    BY ReceiveOf DEF Outstanding
  <2>4. Receiving'
    BY <1>1, <1>2, <1>14, <1>17, <2>3 DEF Receiving
  <2> QED BY <2>2, <2>4
<1>20. Uncancelled' => Stream'
  <2> SUFFICES ASSUME Uncancelled' PROVE Stream'
    OBVIOUS
  <2>1. Stream
    BY <1>1, <1>18
  <2>2. Have' = Have
    BY <1>2, <1>17, HaveStays
  <2>3. Complete' = Complete /\ Closed' = Closed /\ \A y : Brings(y)' = Brings(y)
    BY <1>2, <2>2 DEF Complete, Closed, Brings
  <2>4. ASSUME NEW r \in DOMAIN calls, OfTheReceive(r) PROVE OfTheReceive(r)'
    <3>1. CASE r = id
      <4>1. r \notin asked' /\ calls'[r].reply = x /\ Brings(x) /\ ~Unanswered(r)'
        BY <1>2, <1>6, <1>10, <1>11, <1>12, <1>13, <2>4, <3>1 DEF OfTheReceive, Unanswered
      <4> QED BY <1>10, <2>3, <3>1, <4>1 DEF OfTheReceive
    <3>2. CASE r # id
      <4>1. Unanswered(r)' = Unanswered(r) /\ calls'[r].reply = calls[r].reply
        BY <1>12, <1>14, <2>4, <3>2
      <4>2. \A y : y.id = r => (y \in Carried' <=> y \in Carried)
        BY <1>6, <1>10, <3>2
      <4> QED BY <1>2, <2>3, <2>4, <4>1, <4>2 DEF OfTheReceive
    <3> QED BY <3>1, <3>2
  <2>5. pc["recv"] \in {"put", "wait"} => cur["recv"] \in DOMAIN calls
    BY ReceiveOf DEF Outstanding
  <2>6. IF pc'["recv"] \in {"put", "wait"} THEN OfTheReceive(cur["recv"])' ELSE Complete'
    BY <1>17, <2>1, <2>3, <2>4, <2>5 DEF Stream
  <2>7. /\ Have' = First(Len(Have')) /\ Len(Have') <= server'.relayed /\ server'.relayed <= server'.sent
        /\ pc'["recv"] \in {"closed", "wake", "exit"} => Closed'
        /\ zero'.inner => pc'["recv"] \in {"wake", "exit"}
    BY <1>2, <1>17, <2>1, <2>2, <2>3 DEF Stream
  <2> QED BY <2>6, <2>7 DEF Stream, First, OfTheReceive, Complete, Closed, Brings, Unanswered
<1>21. Places'
  BY <1>1, <1>2, <1>12 DEF Places
<1>22. Contents'
  BY <1>1, <1>2, <1>9, <1>8 DEF Contents
<1>23. Values' /\ Cursor'
  BY <1>1, <1>2, ValuesStay, CursorStays
<1> QED BY <1>15, <1>16, <1>18, <1>19, <1>20, <1>21, <1>22, <1>23 DEF DInv, Types, Book

(* The steps of the network thread.                                         *)
LEMMA DataNetThread ==
    ASSUME IInv, IInv', DInv, NetThread
    PROVE  DInv'
BY DataNetQuiet, DataNetRead, DataNetMatch DEF NetThread
-----------------------------------------------------------------------------
(* THE BYTES OF A LIST OF MESSAGES.                                        *)

Datas(s) == [i \in DOMAIN s |-> s[i].data]

(* The payloads of the messages, a sequence of sequences of bytes.          *)
LEMMA DatasType ==
    ASSUME NEW R, \A x \in R : x.data \in Seq(Nat), NEW s \in Seq(R)
    PROVE  /\ Datas(s) \in Seq(Seq(Nat)) /\ Len(Datas(s)) = Len(s)
           /\ \A i \in 1..Len(s) : Datas(s)[i] = s[i].data
           /\ DataOf(s) = FlattenSeq(Datas(s)) /\ DataOf(s) \in Seq(Nat)
<1>1. Len(s) \in Nat /\ DOMAIN s = 1..Len(s)
  BY LenProperties
<1>2. \A i \in 1..Len(s) : s[i].data \in Seq(Nat)
  BY ElementOfSeq
<1>3. /\ Datas(s) \in Seq(Seq(Nat)) /\ Len(Datas(s)) = Len(s)
      /\ \A i \in 1..Len(s) : Datas(s)[i] = s[i].data
  BY <1>1, <1>2 DEF Datas
<1>4. DataOf(s) = FlattenSeq(Datas(s))
  BY DEF DataOf, Datas
<1>5. FlattenSeq(Datas(s)) \in Seq(Nat)
  BY <1>3, FlattenType
<1> QED BY <1>3, <1>4, <1>5

(* No message has no bytes.                                                 *)
LEMMA DataOfNone == DataOf(<<>>) = <<>>
<1>1. Datas(<<>>) = <<>>
  BY DEF Datas
<1>2. DataOf(<<>>) = FlattenSeq(Datas(<<>>))
  BY DEF DataOf, Datas
<1> QED BY <1>1, <1>2, FlattenEmpty

(* The bytes of one message.                                                *)
LEMMA DataOfOne ==
    ASSUME NEW R, \A x \in R : x.data \in Seq(Nat), NEW f \in R
    PROVE  DataOf(<<f>>) = f.data
<1>1. Datas(<<f>>) = <<f.data>>
  BY DEF Datas
<1>2. DataOf(<<f>>) = FlattenSeq(Datas(<<f>>))
  BY DEF DataOf, Datas
<1>3. FlattenSeq(<<f.data>>) = f.data
  BY FlattenOne
<1> QED BY <1>1, <1>2, <1>3

(* One message more.                                                       *)
LEMMA DataOfAppend ==
    ASSUME NEW R, \A x \in R : x.data \in Seq(Nat), NEW s \in Seq(R), NEW f \in R
    PROVE  DataOf(Append(s, f)) = DataOf(s) \o f.data
<1>1. PICK t \in Seq(R) : t = Append(s, f)
  BY AppendProperties
<1>2. /\ Len(t) = Len(s) + 1 /\ Len(s) \in Nat /\ t[Len(s) + 1] = f
      /\ \A i \in 1..Len(s) : t[i] = s[i]
  BY <1>1, AppendProperties, LenProperties
<1>3. /\ Datas(s) \in Seq(Seq(Nat)) /\ Len(Datas(s)) = Len(s)
      /\ \A i \in 1..Len(s) : Datas(s)[i] = s[i].data
      /\ DataOf(s) = FlattenSeq(Datas(s))
  BY DatasType
<1>4. /\ Datas(t) \in Seq(Seq(Nat)) /\ Len(Datas(t)) = Len(t)
      /\ \A i \in 1..Len(t) : Datas(t)[i] = t[i].data
      /\ DataOf(t) = FlattenSeq(Datas(t))
  BY DatasType
<1>5. PICK u \in Seq(Seq(Nat)) :
          /\ u = Append(Datas(s), f.data) /\ Len(u) = Len(s) + 1 /\ u[Len(s) + 1] = f.data
          /\ \A i \in 1..Len(s) : u[i] = Datas(s)[i]
  <2>1. PICK d \in Seq(Seq(Nat)) : d = Datas(s) /\ Len(d) = Len(s)
    BY <1>3
  <2>2. PICK y \in Seq(Nat) : y = f.data
    OBVIOUS
  <2>3. /\ Append(d, y) \in Seq(Seq(Nat)) /\ Len(Append(d, y)) = Len(d) + 1
        /\ Append(d, y)[Len(d) + 1] = y
        /\ \A i \in 1..Len(d) : Append(d, y)[i] = d[i]
    BY AppendProperties
  <2> QED BY <2>1, <2>2, <2>3
<1>6. \A i \in 1..Len(t) : Datas(t)[i] = u[i]
  <2>1. \A i \in 1..Len(t) : i \in 1..Len(s) \/ i = Len(s) + 1
    BY <1>2
  <2> QED BY <2>1, <1>2, <1>3, <1>4, <1>5
<1>7. Datas(t) = u
  BY <1>2, <1>4, <1>5, <1>6, SeqEqual
<1>8. FlattenSeq(Append(Datas(s), f.data)) = FlattenSeq(Datas(s)) \o f.data
  BY <1>3, FlattenAppend
<1> QED BY <1>1, <1>3, <1>4, <1>5, <1>7, <1>8

(* The first message, and the rest.                                        *)
LEMMA DataOfTail ==
    ASSUME NEW R, \A x \in R : x.data \in Seq(Nat), NEW s \in Seq(R), s # <<>>
    PROVE  DataOf(s) = Head(s).data \o DataOf(Tail(s))
<1>1. PICK h \in R, t \in Seq(R) : h = Head(s) /\ t = Tail(s)
  BY HeadTailProperties
<1>2. /\ Head(s) = s[1] /\ Len(t) = Len(s) - 1 /\ Len(s) \in Nat /\ Len(s) > 0
      /\ \A i \in 1..Len(t) : t[i] = s[i + 1]
  BY <1>1, HeadTailProperties, LenProperties, EmptySeq
<1>3. /\ Datas(s) \in Seq(Seq(Nat)) /\ Len(Datas(s)) = Len(s)
      /\ \A i \in 1..Len(s) : Datas(s)[i] = s[i].data
      /\ DataOf(s) = FlattenSeq(Datas(s))
  BY DatasType
<1>4. /\ Datas(t) \in Seq(Seq(Nat)) /\ Len(Datas(t)) = Len(t)
      /\ \A i \in 1..Len(t) : Datas(t)[i] = t[i].data
      /\ DataOf(t) = FlattenSeq(Datas(t))
  BY DatasType
<1>5. PICK e \in Seq(Seq(Nat)) : e = <<h.data>> /\ Len(e) = 1 /\ e[1] = h.data
  <2>1. PICK y \in Seq(Nat) : y = h.data
    OBVIOUS
  <2>2. <<y>> \in Seq(Seq(Nat)) /\ Len(<<y>>) = 1 /\ <<y>>[1] = y
    OBVIOUS
  <2> QED BY <2>1, <2>2
<1>6. PICK u \in Seq(Seq(Nat)) :
          /\ u = e \o Datas(t) /\ Len(u) = 1 + Len(t)
          /\ \A i \in 1..(1 + Len(t)) : u[i] = IF i <= 1 THEN e[i] ELSE Datas(t)[i - 1]
  <2>1. PICK d \in Seq(Seq(Nat)) : d = Datas(t) /\ Len(d) = Len(t)
    BY <1>4
  <2>2. /\ e \o d \in Seq(Seq(Nat)) /\ Len(e \o d) = Len(e) + Len(d)
        /\ \A i \in 1..(Len(e) + Len(d)) :
               (e \o d)[i] = IF i <= Len(e) THEN e[i] ELSE d[i - Len(e)]
    BY ConcatProperties
  <2> QED BY <2>1, <2>2, <1>5
<1>7. \A i \in 1..Len(s) : Datas(s)[i] = u[i]
  <2> SUFFICES ASSUME NEW i \in 1..Len(s) PROVE Datas(s)[i] = u[i]
    OBVIOUS
  <2>1. CASE i = 1
    BY <2>1, <1>1, <1>2, <1>3, <1>5, <1>6
  <2>2. CASE i # 1
    <3>1. i - 1 \in 1..Len(t) /\ (i - 1) + 1 = i /\ ~(i <= 1) /\ i \in 1..(1 + Len(t))
      BY <2>2, <1>2
    <3>2. PICK j \in Nat : j = i - 1
      BY <3>1
    <3>3. j \in 1..Len(t) /\ j + 1 = i
      BY <3>1, <3>2
    <3>4. u[i] = Datas(t)[j]
      BY <3>1, <3>2, <1>6
    <3>5. Datas(t)[j] = t[j].data
      BY <3>3, <1>4
    <3>6. t[j] = s[i]
      BY <3>3, <1>2
    <3>7. Datas(s)[i] = s[i].data
      BY <1>3
    <3> QED BY <3>4, <3>5, <3>6, <3>7
  <2> QED BY <2>1, <2>2
<1>8. Datas(s) = u
  <2>1. Len(u) = Len(s)
    BY <1>2, <1>6
  <2> QED BY <2>1, <1>3, <1>6, <1>7, SeqEqual
<1>9. FlattenSeq(e \o Datas(t)) = FlattenSeq(e) \o FlattenSeq(Datas(t))
  BY <1>4, FlattenConcat
<1>10. FlattenSeq(e) = h.data
  BY <1>5, FlattenOne
<1> QED BY <1>1, <1>3, <1>4, <1>6, <1>8, <1>9, <1>10

(* Where at most one message carries bytes, they are all there is.         *)
LEMMA DataOfSingle ==
    ASSUME NEW R, \A x \in R : x.data \in Seq(Nat), NEW s \in Seq(R), NEW k \in Nat,
           \A i \in 1..Len(s) : i # k => s[i].data = <<>>
    PROVE  DataOf(s) = IF k \in 1..Len(s) THEN s[k].data ELSE <<>>
<1>1. PICK d \in Seq(Seq(Nat)) :
          /\ d = Datas(s) /\ Len(d) = Len(s) /\ \A i \in 1..Len(s) : d[i] = s[i].data
          /\ DataOf(s) = FlattenSeq(d)
  BY DatasType
<1>2. \A i \in 1..Len(d) : i # k => d[i] = <<>>
  BY <1>1
<1>3. FlattenSeq(d) = IF k \in 1..Len(d) THEN d[k] ELSE <<>>
  BY <1>2, FlattenSingle
<1> QED BY <1>1, <1>3
-----------------------------------------------------------------------------
(* THE RECEIVE CONTEXT.                                                    *)

UnreadOf(c) ==
    IF c.info.valid THEN SubSeq(DataOf(c.list), c.info.offset + 1, Len(DataOf(c.list)))
                    ELSE DataOf(c.list)

CursorOf(c, k) ==
    LET n == Len(c.list)
    IN  /\ n <= k
        /\ \A i \in 1..n : c.list[i].id = k - n + i
        /\ c.info.prev = k - n
        /\ c.info.valid = (n # 0)
        /\ n # 0 => c.info.data = c.list[1].data /\ c.info.offset < Len(c.info.data)

(* A sequence without its first o elements.                                *)
From(s, o) == SubSeq(s, o + 1, Len(s))

(* Its type, length and elements.                                           *)
LEMMA FromFacts ==
    ASSUME NEW S, NEW s \in Seq(S), NEW o \in Nat, o <= Len(s)
    PROVE  /\ From(s, o) \in Seq(S) /\ Len(From(s, o)) = Len(s) - o
           /\ \A i \in 1..(Len(s) - o) : From(s, o)[i] = s[o + i]
<1>1. PICK n \in Nat : n = Len(s)
  BY LenProperties
<1>2. o <= n /\ n <= Len(s)
  BY <1>1
<1>3. /\ SubSeq(s, o + 1, n) \in Seq(S) /\ Len(SubSeq(s, o + 1, n)) = n - o
      /\ \A i \in 1..(n - o) : SubSeq(s, o + 1, n)[i] = s[o + i]
  BY <1>2, PartOf
<1> QED BY <1>1, <1>3 DEF From

(* Without none of them.                                                    *)
LEMMA FromNone ==
    ASSUME NEW S, NEW s \in Seq(S)
    PROVE  From(s, 0) = s
<1>1. PICK n \in Nat : n = Len(s)
  BY LenProperties
<1>2. PICK t \in Seq(S) : t = From(s, 0) /\ Len(t) = n /\ \A i \in 1..n : t[i] = s[i]
  <2>1. 0 <= Len(s) /\ 0 \in Nat
    BY <1>1
  <2>2. /\ From(s, 0) \in Seq(S) /\ Len(From(s, 0)) = Len(s) - 0
        /\ \A i \in 1..(Len(s) - 0) : From(s, 0)[i] = s[0 + i]
    BY <2>1, FromFacts
  <2>3. n - 0 = n /\ \A i \in 1..n : 0 + i = i
    OBVIOUS
  <2> QED BY <2>2, <2>3, <1>1
<1>3. t = s
  BY <1>1, <1>2, SeqEqual
<1> QED BY <1>2, <1>3

(* More behind it.                                                         *)
LEMMA FromConcat ==
    ASSUME NEW S, NEW s \in Seq(S), NEW t \in Seq(S), NEW o \in Nat, o <= Len(s)
    PROVE  From(s \o t, o) = From(s, o) \o t
<1>1. PICK m \in Nat, n \in Nat : m = Len(s) /\ n = Len(t)
  BY LenProperties
<1>2. PICK k \in Nat : k = m - o
  <2>1. o <= m
    BY <1>1
  <2>2. m - o \in Nat
    BY <2>1
  <2> QED BY <2>2
<1>3. PICK u \in Seq(S) : /\ u = s \o t /\ Len(u) = m + n
                         /\ \A i \in 1..(m + n) : u[i] = IF i <= m THEN s[i] ELSE t[i - m]
  <2>1. /\ s \o t \in Seq(S) /\ Len(s \o t) = Len(s) + Len(t)
        /\ \A i \in 1..(Len(s) + Len(t)) :
               (s \o t)[i] = IF i <= Len(s) THEN s[i] ELSE t[i - Len(s)]
    BY ConcatProperties
  <2> QED BY <2>1, <1>1
<1>4. PICK v \in Seq(S) : /\ v = From(s, o) /\ Len(v) = k
                         /\ \A i \in 1..k : v[i] = s[o + i]
  <2>1. /\ From(s, o) \in Seq(S) /\ Len(From(s, o)) = Len(s) - o
        /\ \A i \in 1..(Len(s) - o) : From(s, o)[i] = s[o + i]
    BY FromFacts
  <2> QED BY <2>1, <1>1, <1>2
<1>5. PICK w \in Seq(S) : /\ w = v \o t /\ Len(w) = k + n
                         /\ \A i \in 1..(k + n) :
                                w[i] = IF i <= k THEN v[i] ELSE t[i - k]
  <2>1. /\ v \o t \in Seq(S) /\ Len(v \o t) = Len(v) + Len(t)
        /\ \A i \in 1..(Len(v) + Len(t)) :
               (v \o t)[i] = IF i <= Len(v) THEN v[i] ELSE t[i - Len(v)]
    BY ConcatProperties
  <2> QED BY <2>1, <1>1, <1>4
<1>6. PICK x \in Seq(S) : /\ x = From(u, o) /\ Len(x) = (m + n) - o
                         /\ \A i \in 1..((m + n) - o) : x[i] = u[o + i]
  <2>1. o <= Len(u)
    BY <1>1, <1>3
  <2>2. /\ From(u, o) \in Seq(S) /\ Len(From(u, o)) = Len(u) - o
        /\ \A i \in 1..(Len(u) - o) : From(u, o)[i] = u[o + i]
    BY <2>1, FromFacts
  <2> QED BY <2>2, <1>3
<1>7. Len(x) = Len(w) /\ (m + n) - o = k + n
  BY <1>5, <1>6, <1>2
<1>8. ASSUME NEW i \in 1..((m + n) - o) PROVE x[i] = w[i]
  <2>0. o <= m
    BY <1>1
  <2>1. o + i \in 1..(m + n) /\ i \in 1..(k + n)
    BY <2>0, <1>2
  <2>2. CASE i <= k
    <3>1. i \in 1..k /\ o + i <= m
      BY <2>0, <2>2, <1>2
    <3> QED BY <2>1, <2>2, <3>1, <1>3, <1>4, <1>5, <1>6, ZenonT(60)
  <2>3. CASE ~(i <= k)
    <3>1. ~(o + i <= m) /\ (o + i) - m = i - k
      BY <2>0, <2>3, <1>2
    <3> QED BY <2>1, <2>3, <3>1, <1>3, <1>5, <1>6
  <2> QED BY <2>2, <2>3
<1>9. x = w
  BY <1>5, <1>6, <1>7, <1>8, SeqEqual
<1> QED BY <1>3, <1>4, <1>5, <1>6, <1>9

(* A piece and what is behind it.                                          *)
LEMMA FromSplit ==
    ASSUME NEW S, NEW s \in Seq(S), NEW o \in Nat, NEW n \in Nat, o + n <= Len(s)
    PROVE  /\ SubSeq(s, o + 1, o + n) \in Seq(S) /\ Len(SubSeq(s, o + 1, o + n)) = n
           /\ SubSeq(s, o + 1, o + n) \o From(s, o + n) = From(s, o)
<1>1. PICK m \in Nat : m = Len(s)
  BY LenProperties
<1>2. PICK b \in Nat : b = o + n /\ o <= b /\ b <= m /\ b - o = n /\ o <= m
  BY <1>1
<1>3. PICK k \in Nat : k = m - b
  <2>1. m - b \in Nat
    BY <1>2
  <2> QED BY <2>1
<1>4. PICK p \in Seq(S) : /\ p = SubSeq(s, o + 1, b) /\ Len(p) = n
                         /\ \A i \in 1..n : p[i] = s[o + i]
  <2>1. /\ SubSeq(s, o + 1, b) \in Seq(S) /\ Len(SubSeq(s, o + 1, b)) = b - o
        /\ \A i \in 1..(b - o) : SubSeq(s, o + 1, b)[i] = s[o + i]
    <3>1. b <= Len(s) /\ o <= b
      BY <1>1, <1>2
    <3> QED BY <3>1, PartOf
  <2> QED BY <2>1, <1>2
<1>5. PICK q \in Seq(S) : /\ q = From(s, b) /\ Len(q) = k
                         /\ \A i \in 1..k : q[i] = s[b + i]
  <2>1. /\ From(s, b) \in Seq(S) /\ Len(From(s, b)) = Len(s) - b
        /\ \A i \in 1..(Len(s) - b) : From(s, b)[i] = s[b + i]
    BY <1>1, <1>2, FromFacts
  <2> QED BY <2>1, <1>1, <1>3
<1>6. PICK x \in Seq(S) : /\ x = From(s, o) /\ Len(x) = m - o
                         /\ \A i \in 1..(m - o) : x[i] = s[o + i]
  <2>1. /\ From(s, o) \in Seq(S) /\ Len(From(s, o)) = Len(s) - o
        /\ \A i \in 1..(Len(s) - o) : From(s, o)[i] = s[o + i]
    BY <1>1, <1>2, FromFacts
  <2> QED BY <2>1, <1>1
<1>7. PICK y \in Seq(S) : /\ y = p \o q /\ Len(y) = n + k
                         /\ \A i \in 1..(n + k) :
                                y[i] = IF i <= n THEN p[i] ELSE q[i - n]
  <2>1. /\ p \o q \in Seq(S) /\ Len(p \o q) = Len(p) + Len(q)
        /\ \A i \in 1..(Len(p) + Len(q)) :
               (p \o q)[i] = IF i <= Len(p) THEN p[i] ELSE q[i - Len(p)]
    BY ConcatProperties
  <2> QED BY <2>1, <1>4, <1>5, ZenonT(60)
<1>8. n + k = m - o /\ Len(y) = Len(x)
  BY <1>2, <1>6, <1>7, <1>3
<1>9. ASSUME NEW i \in 1..(m - o) PROVE y[i] = x[i]
  <2>1. CASE i <= n
    <3>1. i \in 1..n
      BY <2>1
    <3> QED BY <2>1, <3>1, <1>4, <1>6, <1>7, <1>8
  <2>2. CASE ~(i <= n)
    <3>1. i - n \in 1..k /\ b + (i - n) = o + i
      BY <2>2, <1>2, <1>3
    <3> QED BY <2>2, <3>1, <1>5, <1>6, <1>7, <1>8, ZenonT(60)
  <2> QED BY <2>1, <2>2
<1>10. y = x
  BY <1>6, <1>7, <1>8, <1>9, SeqEqual
<1> QED BY <1>2, <1>4, <1>5, <1>6, <1>7, <1>10

(* The parts of a context, and what is unread in it: the rest of the       *)
(* cursor's message, and the other messages.                               *)
LEMMA StoredData == \A x \in Stored : x.data \in Seq(Nat) /\ x.id \in Nat /\ Len(x.data) \in Nat
                                        /\ Len(x.data) > 0
<1> TAKE x \in Stored
<1>1. x.data \in Seq(Nat) /\ x.id \in Nat /\ x.data # <<>>
  BY DEF Stored
<1> QED BY <1>1, LenProperties, EmptySeq

(* For a context whose ids follow each other.                               *)
LEMMA ContextFacts ==
    ASSUME NEW c \in RecvContext, NEW k \in Nat, CursorOf(c, k)
    PROVE  /\ c.list \in Seq(Stored) /\ Len(c.list) \in Nat
           /\ c.info.data \in Seq(Nat) /\ c.info.offset \in Nat /\ c.info.prev \in Nat
           /\ DataOf(c.list) \in Seq(Nat)
           /\ ~c.info.valid => c.list = <<>> /\ UnreadOf(c) = <<>>
           /\ c.info.valid => /\ c.list # <<>> /\ Head(c.list) = c.list[1]
                              /\ Tail(c.list) \in Seq(Stored)
                              /\ DataOf(Tail(c.list)) \in Seq(Nat)
                              /\ c.info.data = Head(c.list).data
                              /\ c.info.offset < Len(c.info.data)
                              /\ DataOf(c.list) = c.info.data \o DataOf(Tail(c.list))
                              /\ UnreadOf(c) = From(c.info.data, c.info.offset)
                                                  \o DataOf(Tail(c.list))
           /\ UnreadOf(c) \in Seq(Nat)
<1>1. /\ c.list \in Seq(Stored) /\ Len(c.list) \in Nat
      /\ c.info.data \in Seq(Nat) /\ c.info.offset \in Nat /\ c.info.prev \in Nat
  BY LenProperties DEF RecvContext
<1>2. \A x \in Stored : x.data \in Seq(Nat)
  BY StoredData
<1>3. DataOf(c.list) \in Seq(Nat)
  BY <1>1, <1>2, DatasType
<1>4. CASE ~c.info.valid
  <2>1. c.list = <<>>
    BY <1>1, <1>4, EmptySeq DEF CursorOf
  <2>2. UnreadOf(c) = <<>>
    BY <2>1, <1>4, DataOfNone DEF UnreadOf
  <2>3. <<>> \in Seq(Nat)
    OBVIOUS
  <2> QED BY <1>1, <1>3, <1>4, <2>1, <2>2, <2>3
<1>5. CASE c.info.valid
  <2>1. /\ c.list # <<>> /\ c.info.data = c.list[1].data
        /\ c.info.offset < Len(c.info.data)
    <3>1. Len(c.list) # 0
      BY <1>5 DEF CursorOf
    <3>2. c.list # <<>>
      BY <3>1
    <3> QED BY <3>1, <3>2 DEF CursorOf
  <2>2. /\ Head(c.list) = c.list[1] /\ Tail(c.list) \in Seq(Stored)
    BY <1>1, <2>1, HeadTailProperties
  <2>3. DataOf(Tail(c.list)) \in Seq(Nat)
    BY <1>2, <2>2, DatasType
  <2>4. DataOf(c.list) = c.info.data \o DataOf(Tail(c.list))
    <3>1. DataOf(c.list) = Head(c.list).data \o DataOf(Tail(c.list))
      BY <1>1, <1>2, <2>1, DataOfTail
    <3> QED BY <3>1, <2>1, <2>2
  <2>5. PICK d \in Seq(Nat), t \in Seq(Nat), o \in Nat :
            d = c.info.data /\ t = DataOf(Tail(c.list)) /\ o = c.info.offset
    BY <1>1, <2>3
  <2>6. o <= Len(d)
    BY <2>1, <2>5, LenProperties
  <2>7. From(d \o t, o) = From(d, o) \o t /\ From(d, o) \in Seq(Nat)
    BY <2>6, FromConcat, FromFacts
  <2>8. UnreadOf(c) = From(d \o t, o)
    BY <1>5, <2>4, <2>5 DEF UnreadOf, From
  <2>9. From(d, o) \o t \in Seq(Nat)
    BY <2>7, ConcatProperties
  <2> QED BY <1>1, <1>3, <1>5, <2>1, <2>2, <2>3, <2>4, <2>5, <2>7, <2>8, <2>9
<1> QED BY <1>4, <1>5

(* How a context is put together.                                           *)
LEMMA ContextType ==
    \A list \in Seq(Stored), data \in Seq(Nat), offset \in Nat, prev \in Nat, valid \in BOOLEAN :
        [list |-> list,
         info |-> [data |-> data, offset |-> offset, prev |-> prev, valid |-> valid]]
            \in RecvContext
BY DEF RecvContext

(* Bytes behind bytes behind bytes.                                         *)
LEMMA ConcatThree ==
    \A a, b, c \in Seq(Nat) : a \o (b \o c) = (a \o b) \o c
<1> TAKE a, b, c \in Seq(Nat)
<1> QED BY SMTT(30)

(* PutToRecvProxyCtx: the message goes behind the others.                  *)
LEMMA PutUnread ==
    ASSUME NEW c \in RecvContext, NEW k \in Nat, CursorOf(c, k),
           NEW d \in Seq(Nat), d # <<>>,
           NEW r, r = PutToRecvCtx(c, [id |-> k + 1, data |-> d])
    PROVE  /\ r \in RecvContext /\ CursorOf(r, k + 1)
           /\ UnreadOf(r) = UnreadOf(c) \o d
<1>1. PICK f \in Stored : f = [id |-> k + 1, data |-> d] /\ f.id = k + 1 /\ f.data = d
  BY DEF Stored
<1>2. PICK s \in Seq(Stored), n \in Nat : s = c.list /\ n = Len(s)
  BY ContextFacts
<1>3. n <= k /\ \A i \in 1..n : s[i].id = k - n + i
  BY <1>2 DEF CursorOf
<1>4. InsertById(s, f) = Append(s, f)
  <2>1. \A i \in DOMAIN s : ~(f.id < s[i].id)
    <3>1. DOMAIN s = 1..n
      BY <1>2
    <3>2. \A i \in 1..n : ~(k + 1 < k - n + i)
      OBVIOUS
    <3> QED BY <3>1, <3>2, <1>1, <1>3
  <2>2. {i \in DOMAIN s : f.id < s[i].id} = {}
    BY <2>1
  <2> QED BY <2>2 DEF InsertById
<1>5. PICK u \in Seq(Stored) :
          /\ u = Append(s, f) /\ Len(u) = n + 1 /\ u[n + 1] = f
          /\ \A i \in 1..n : u[i] = s[i]
  <2>1. /\ Append(s, f) \in Seq(Stored) /\ Len(Append(s, f)) = Len(s) + 1
        /\ Append(s, f)[Len(s) + 1] = f
        /\ \A i \in 1..Len(s) : Append(s, f)[i] = s[i]
    BY AppendProperties
  <2> QED BY <2>1, <1>2
<1>6. PICK m \in Nat, l \in Nat : m = n + 1 /\ l = k + 1 /\ l - m = k - n
  <2>1. n + 1 \in Nat /\ k + 1 \in Nat /\ (k + 1) - (n + 1) = k - n
    OBVIOUS
  <2> QED BY <2>1
<1>7. r = [list |-> u, info |-> Validate(c.info, u)]
  BY <1>1, <1>2, <1>4, <1>5 DEF PutToRecvCtx
<1>8. u # <<>> /\ Head(u) = u[1]
  <2>1. u # <<>>
    BY <1>5, SMTT(30)
  <2> QED BY <2>1, HeadTailProperties
<1>9. m <= l /\ m # 0 /\ Len(u) = m /\ \A i \in 1..m : u[i].id = l - m + i
  <2>1. \A i \in 1..m : i \in 1..n \/ i = m
    BY <1>6
  <2>2. \A i \in 1..n : u[i].id = l - m + i
    BY <1>3, <1>5, <1>6
  <2>3. u[m].id = l - m + m
    BY <1>1, <1>5, <1>6
  <2>4. \A i \in 1..m : u[i].id = l - m + i
    BY <2>1, <2>2, <2>3, Zenon
  <2>5. m <= l /\ m # 0
    BY <1>3, <1>6
  <2> QED BY <1>5, <1>6, <2>4, <2>5
<1>10. DataOf(u) = DataOf(s) \o d
  BY <1>1, <1>5, StoredData, DataOfAppend
<1>11. CASE c.info.valid
  <2>1. r.info = c.info /\ r.list = u
    BY <1>7, <1>11 DEF Validate
  <2>2. r \in RecvContext
    BY <1>7, <2>1 DEF RecvContext
  <2>3. n # 0 /\ u[1] = s[1]
    <3>1. n # 0
      BY <1>2, <1>11 DEF CursorOf
    <3> QED BY <3>1, <1>5
  <2>4. CursorOf(r, k + 1)
    <3>1. /\ c.info.prev = k - n /\ c.info.data = s[1].data
          /\ c.info.offset < Len(c.info.data)
      BY <1>2, <2>3 DEF CursorOf
    <3>2. /\ r.info.prev = l - m /\ r.info.valid = (m # 0)
          /\ r.info.data = r.list[1].data /\ r.info.offset < Len(r.info.data)
      BY <1>9, <1>11, <1>6, <2>1, <2>3, <3>1
    <3>3. CursorOf(r, l)
      BY <1>9, <2>1, <3>2 DEF CursorOf
    <3> QED BY <1>6, <3>3
  <2>5. PICK x \in Seq(Nat), o \in Nat : x = DataOf(s) /\ o = c.info.offset /\ o <= Len(x)
    <3>1. /\ DataOf(s) \in Seq(Nat) /\ c.info.offset \in Nat /\ c.info.data \in Seq(Nat)
          /\ DataOf(Tail(s)) \in Seq(Nat) /\ c.info.offset < Len(c.info.data)
          /\ DataOf(s) = c.info.data \o DataOf(Tail(s))
      BY <1>2, <1>11, ContextFacts
    <3>2. PICK y \in Seq(Nat), z \in Seq(Nat) : y = c.info.data /\ z = DataOf(Tail(s))
      BY <3>1
    <3>3. Len(y \o z) = Len(y) + Len(z) /\ Len(y) \in Nat /\ Len(z) \in Nat
      BY ConcatProperties, LenProperties
    <3>4. c.info.offset <= Len(y \o z)
      BY <3>1, <3>2, <3>3, SMTT(40)
    <3> QED BY <3>1, <3>2, <3>4
  <2>6. From(x \o d, o) = From(x, o) \o d
    BY <2>5, FromConcat
  <2>7. UnreadOf(c) = From(x, o) /\ UnreadOf(r) = From(x \o d, o)
    BY <1>2, <1>10, <1>11, <2>1, <2>5 DEF UnreadOf, From
  <2> QED BY <2>2, <2>4, <2>6, <2>7
<1>12. CASE ~c.info.valid
  <2>1. s = <<>> /\ UnreadOf(c) = <<>> /\ n = 0
    <3>1. c.list = <<>> /\ UnreadOf(c) = <<>>
      BY <1>12, ContextFacts
    <3> QED BY <1>2, <3>1
  <2>2. c.info.prev = k - 0 /\ c.info.prev + 1 = f.id /\ u[1] = f
    BY <1>1, <1>2, <1>5, <2>1 DEF CursorOf
  <2>3. r.list = u /\ r.info = Info(d, 0, c.info.prev, TRUE)
    <3>1. r.list = u /\ r.info = Validate(c.info, u)
      BY <1>7
    <3>2. Head(u) = f /\ Head(u).id = c.info.prev + 1 /\ Head(u).data = d
      BY <1>1, <1>8, <2>2
    <3> QED BY <1>8, <1>12, <3>1, <3>2 DEF Validate
  <2>4. r \in RecvContext
    <3>1. c.info.prev \in Nat
      BY ContextFacts
    <3>2. PICK q \in Nat : q = c.info.prev
      BY <3>1
    <3>3. r = [list |-> u,
               info |-> [data |-> d, offset |-> 0, prev |-> q, valid |-> TRUE]]
      BY <1>7, <2>3, <3>2 DEF Info
    <3> QED BY <3>3, ContextType
  <2>5. CursorOf(r, k + 1)
    <3>1. Len(d) \in Nat /\ 0 < Len(d)
      BY LenProperties, EmptySeq
    <3>2. /\ r.info.data = d /\ r.info.offset = 0 /\ r.info.prev = c.info.prev
          /\ r.info.valid = TRUE
      BY <2>3 DEF Info
    <3>3. c.info.prev = l - m
      BY <1>6, <2>1, <2>2
    <3>4. CursorOf(r, l)
      BY <1>1, <1>9, <2>2, <2>3, <3>1, <3>2, <3>3, ZenonT(60) DEF CursorOf
    <3> QED BY <1>6, <3>4
  <2>6. DataOf(u) = d
    <3>1. DataOf(s) = <<>> /\ <<>> \o d = d
      BY <2>1, DataOfNone, ConcatEmptySeq
    <3> QED BY <3>1, <1>10
  <2>7. UnreadOf(r) = From(d, 0) /\ From(d, 0) = d
    BY <2>3, <2>6, FromNone, SMTT(30) DEF UnreadOf, From, Info
  <2>8. <<>> \o d = d
    BY ConcatEmptySeq
  <2> QED BY <2>1, <2>4, <2>5, <2>7, <2>8
<1> QED BY <1>11, <1>12

(* RecvFromRecvProxyCtx: what the caller is given is taken from the front. *)
LEMMA ReadUnread ==
    ASSUME NEW c \in RecvContext, NEW k \in Nat, CursorOf(c, k), c.info.valid,
           NEW w \in Nat, NEW r, r = RecvFromRecvCtx(c, w)
    PROVE  /\ r \in RecvContext /\ CursorOf(r, k)
           /\ Taken(c, w) \in Seq(Nat) /\ Len(Taken(c, w)) <= w
           /\ Taken(c, w) \o UnreadOf(r) = UnreadOf(c)
<1>1. PICK s \in Seq(Stored), d \in Seq(Nat), o \in Nat, p \in Nat :
          s = c.list /\ d = c.info.data /\ o = c.info.offset /\ p = c.info.prev
  BY ContextFacts
<1>2. PICK n \in Nat, x \in Nat : n = Len(s) /\ x = Len(d)
  BY LenProperties
<1>3. PICK rest \in Seq(Nat) : rest = DataOf(Tail(s))
  BY <1>1, ContextFacts
<1>4. /\ s # <<>> /\ Head(s) = s[1] /\ Tail(s) \in Seq(Stored) /\ d = s[1].data /\ o < x
      /\ UnreadOf(c) = From(d, o) \o rest
  BY <1>1, <1>2, <1>3, ContextFacts
<1>5. n # 0 /\ n <= k /\ p = k - n /\ \A i \in 1..n : s[i].id = k - n + i
  BY <1>1, <1>2, <1>4, EmptySeq DEF CursorOf
<1>6. PICK y \in Nat : y = MinOf(x - o, w) /\ y <= w /\ o + y <= x
  <2>1. x - o \in Nat
    BY <1>4
  <2>2. MinOf(x - o, w) \in Nat /\ MinOf(x - o, w) <= w /\ MinOf(x - o, w) <= x - o
    BY <2>1 DEF MinOf
  <2> QED BY <2>2
<1>7. PICK t \in Seq(Nat) :
          t = Taken(c, w) /\ Len(t) = y /\ t \o From(d, o + y) = From(d, o)
  <2>1. Taken(c, w) = SubSeq(d, o + 1, o + y)
    BY <1>1, <1>2, <1>6 DEF Taken
  <2>2. /\ SubSeq(d, o + 1, o + y) \in Seq(Nat) /\ Len(SubSeq(d, o + 1, o + y)) = y
        /\ SubSeq(d, o + 1, o + y) \o From(d, o + y) = From(d, o)
    <3>1. o + y <= Len(d)
      BY <1>2, <1>6
    <3> QED BY <3>1, FromSplit
  <2> QED BY <2>1, <2>2
<1>8. PICK b \in Nat : b = o + y /\ b <= x
  BY <1>6
<1>9. CASE b # x
  <2>1. b < x /\ ~(o < x /\ b = x)
    BY <1>8, <1>9
  <2>2. r = [list |-> s, info |-> Validate(Info(d, b, p, TRUE), s)]
    BY <1>1, <1>2, <1>7, <1>8, <2>1 DEF RecvFromRecvCtx
  <2>3. r = [list |-> s, info |-> [data |-> d, offset |-> b, prev |-> p, valid |-> TRUE]]
    BY <2>2 DEF Validate, Info
  <2>4. r \in RecvContext
    BY <2>3, ContextType, ZenonT(60)
  <2>5. CursorOf(r, k)
    <3>1. r.list = s /\ r.info.data = d /\ r.info.offset = b /\ r.info.prev = p /\ r.info.valid = TRUE
      BY <2>3
    <3> QED BY <1>2, <1>4, <1>5, <2>1, <3>1 DEF CursorOf
  <2>6. UnreadOf(r) = From(d, b) \o rest
    <3>1. PICK z \in RecvContext : z = r
      BY <2>4
    <3>2. CursorOf(z, k)
      BY <2>5, <3>1
    <3>3. z.info.valid => UnreadOf(z) = From(z.info.data, z.info.offset) \o DataOf(Tail(z.list))
      BY <3>2, ContextFacts
    <3>4. z.list = s /\ z.info.data = d /\ z.info.offset = b /\ z.info.valid = TRUE
      BY <2>3, <3>1
    <3>5. UnreadOf(z) = From(z.info.data, z.info.offset) \o DataOf(Tail(z.list))
      BY <3>3, <3>4
    <3>6. UnreadOf(z) = From(d, b) \o DataOf(Tail(s))
      BY <3>4, <3>5, Zenon
    <3> QED BY <1>3, <3>1, <3>6, Zenon
  <2>7. From(d, b) \in Seq(Nat)
    BY <1>2, <1>8, FromFacts
  <2>8. t \o (From(d, b) \o rest) = (t \o From(d, b)) \o rest
    <3>1. PICK z \in Seq(Nat) : z = From(d, b)
      BY <2>7
    <3>2. t \o (z \o rest) = (t \o z) \o rest
      BY ConcatThree
    <3> QED BY <3>1, <3>2
  <2> QED BY <1>4, <1>6, <1>7, <1>8, <2>4, <2>5, <2>6, <2>8
<1>10. CASE b = x
  <2>1. PICK u \in Seq(Stored), m \in Nat :
            /\ u = Tail(s) /\ m = n - 1 /\ Len(u) = m /\ \A i \in 1..m : u[i] = s[i + 1]
    <3>1. n - 1 \in Nat
      BY <1>5
    <3>2. /\ Tail(s) \in Seq(Stored) /\ Len(Tail(s)) = n - 1
          /\ \A i \in 1..Len(Tail(s)) : Tail(s)[i] = s[i + 1]
      BY <1>2, <1>4, HeadTailProperties
    <3> QED BY <3>1, <3>2
  <2>2. PICK q \in Nat : q = k - m /\ q = s[1].id
    <3>1. s[1].id = k - n + 1
      BY <1>5
    <3>2. k - n + 1 = k - m /\ k - m \in Nat
      BY <1>5, <2>1
    <3> QED BY <3>1, <3>2
  <2>3. r = [list |-> u, info |-> Validate(Info(d, b, q, FALSE), u)]
    <3>1. (o < Len(d) /\ b = Len(d)) = TRUE
      BY <1>2, <1>4, <1>10
    <3> QED BY <1>1, <1>4, <1>7, <1>8, <2>1, <2>2, <3>1 DEF RecvFromRecvCtx
  <2>4. m <= k /\ \A i \in 1..m : u[i].id = k - m + i
    <3>1. \A i \in 1..m : i + 1 \in 1..n /\ k - n + (i + 1) = k - m + i
      BY <2>1
    <3>2. \A i \in 1..m : u[i].id = k - m + i
      BY <1>5, <2>1, <3>1
    <3>3. m <= k
      BY <1>5, <2>1
    <3> QED BY <3>2, <3>3
  <2>5. t = From(d, o)
    <3>1. From(d, x) \in Seq(Nat) /\ Len(From(d, x)) = 0
      <4>1. x <= Len(d) /\ x - x = 0
        BY <1>2
      <4> QED BY <1>2, <4>1, FromFacts
    <3>2. From(d, x) = <<>> /\ t \o <<>> = t
      BY <3>1, EmptySeq, ConcatEmptySeq
    <3> QED BY <1>7, <1>8, <1>10, <3>2
  <2>6. CASE m = 0
    <3>1. u = <<>>
      BY <2>1, <2>6, EmptySeq
    <3>2. r = [list |-> u, info |-> [data |-> d, offset |-> b, prev |-> q, valid |-> FALSE]]
      BY <2>3, <3>1 DEF Validate, Info
    <3>3. r \in RecvContext
      BY <3>2, ContextType, ZenonT(60)
    <3>4. CursorOf(r, k)
      <4>1. r.list = u /\ r.info.prev = q /\ r.info.valid = FALSE
        BY <3>2
      <4> QED BY <2>1, <2>2, <2>4, <2>6, <4>1 DEF CursorOf
    <3>5. UnreadOf(r) = <<>> /\ rest = <<>>
      <4>1. PICK z \in RecvContext : z = r
        BY <3>3
      <4>2. CursorOf(z, k)
        BY <3>4, <4>1
      <4>3. ~z.info.valid => UnreadOf(z) = <<>>
        BY <4>2, ContextFacts
      <4>4. ~z.info.valid
        BY <3>2, <4>1
      <4>5. UnreadOf(r) = <<>>
        BY <4>1, <4>3, <4>4, Zenon
      <4>6. rest = <<>>
        BY <1>3, <2>1, <3>1, DataOfNone, Zenon
      <4> QED BY <4>5, <4>6
    <3> QED BY <1>4, <1>6, <1>7, <2>5, <3>3, <3>4, <3>5
  <2>7. CASE m # 0
    <3>1. u # <<>> /\ Head(u) = u[1] /\ u[1] \in Stored /\ u[1].id = q + 1
      <4>1. 1 \in 1..m /\ k - m + 1 = q + 1 /\ u # <<>>
        <5>1. 1 \in 1..m /\ k - m + 1 = q + 1
          BY <2>2, <2>7
        <5>2. u # <<>>
          BY <2>1, <2>7
        <5> QED BY <5>1, <5>2
      <4>2. u[1].id = q + 1 /\ u[1] \in Stored
        BY <2>1, <2>4, <4>1, ElementOfSeq
      <4> QED BY <4>1, <4>2, HeadTailProperties
    <3>2. PICK f \in Stored : f = u[1]
      BY <3>1
    <3>3. PICK e \in Seq(Nat) : e = f.data /\ 0 < Len(e)
      BY StoredData
    <3>4. r = [list |-> u, info |-> [data |-> e, offset |-> 0, prev |-> q, valid |-> TRUE]]
      <4>1. Validate(Info(d, b, q, FALSE), u) = Info(e, 0, q, TRUE)
        BY <3>1, <3>2, <3>3 DEF Validate, Info
      <4> QED BY <2>3, <4>1 DEF Info
    <3>5. r \in RecvContext
      <4>1. TRUE \in BOOLEAN /\ 0 \in Nat
        OBVIOUS
      <4>2. [list |-> u, info |-> [data |-> e, offset |-> 0, prev |-> q, valid |-> TRUE]]
                \in RecvContext
        BY <4>1, ContextType, Zenon
      <4> QED BY <3>4, <4>2, Zenon
    <3>6. CursorOf(r, k)
      <4>1. r.list = u /\ r.info.prev = q /\ r.info.valid = TRUE /\ r.info.data = e /\ r.info.offset = 0
        BY <3>4
      <4> QED BY <2>1, <2>2, <2>4, <2>7, <3>2, <3>3, <4>1, ZenonT(60) DEF CursorOf
    <3>7. UnreadOf(r) = rest
      <4>1. UnreadOf(r) = From(DataOf(u), 0)
        BY <3>4 DEF UnreadOf, From
      <4> QED BY <1>3, <2>1, <4>1, FromNone
    <3> QED BY <1>4, <1>6, <1>7, <2>5, <3>5, <3>6, <3>7
  <2> QED BY <2>6, <2>7
<1> QED BY <1>9, <1>10
-----------------------------------------------------------------------------
(* THE RECV THREAD.                                                        *)

(* Unread and Cursor speak of the context of the client.                    *)
LEMMA ContextNow ==
    /\ Unread = UnreadOf(ctx) /\ Unread' = UnreadOf(ctx')
    /\ Cursor <=> CursorOf(ctx, chunks)
    /\ Cursor' <=> CursorOf(ctx', chunks')
BY DEF Unread, UnreadOf, Cursor, CursorOf, DataOf

(* What the client has is a sequence of bytes.                              *)
LEMMA HaveType ==
    ASSUME Values, Contents, Cursor
    PROVE  /\ Unread \in Seq(Nat) /\ Chunk \in Seq(Nat) /\ Have \in Seq(Nat)
           /\ got \o Unread \in Seq(Nat) /\ Len(Have) \in Nat
<1>1. PICK c \in RecvContext, k \in Nat : c = ctx /\ k = chunks
  BY DEF Values, Contents
<1>2. CursorOf(c, k)
  BY <1>1, ContextNow
<1>3. Unread \in Seq(Nat)
  BY <1>1, <1>2, ContextFacts, ContextNow
<1>4. Chunk \in Seq(Nat) /\ got \in Seq(Nat)
  BY DEF Contents, Chunk
<1>5. got \o Unread \in Seq(Nat)
  BY <1>3, <1>4, ConcatProperties
<1>6. (got \o Unread) \o Chunk \in Seq(Nat)
  BY <1>4, <1>5, ConcatProperties
<1> QED BY <1>3, <1>4, <1>5, <1>6, LenProperties DEF Have

(* Pieces of the stream.                                                   *)
LEMMA PieceType ==
    \A m \in Nat, n \in Nat :
        /\ Behind(m, n) \in Seq(Nat) /\ Len(Behind(m, n)) = n
        /\ \A i \in 1..n : Behind(m, n)[i] = m + i
        /\ First(n) \in Seq(Nat) /\ Len(First(n)) = n
        /\ \A i \in 1..n : First(n)[i] = i
<1> TAKE m \in Nat, n \in Nat
<1> QED BY DEF Behind, First

(* A piece that begins where the other ends continues it.                   *)
LEMMA PiecesMeet ==
    \A m \in Nat, n \in Nat : First(m) \o Behind(m, n) = First(m + n)
<1> TAKE m \in Nat, n \in Nat
<1>1. PICK a \in Seq(Nat), b \in Seq(Nat) :
          a = First(m) /\ b = Behind(m, n)
  BY PieceType
<1>2. /\ Len(a) = m /\ Len(b) = n /\ \A i \in 1..m : a[i] = i
      /\ \A i \in 1..n : b[i] = m + i
  BY <1>1, PieceType
<1>3. PICK c \in Seq(Nat) : /\ c = a \o b /\ Len(c) = m + n
                           /\ \A i \in 1..(m + n) : c[i] = IF i <= m THEN a[i] ELSE b[i - m]
  <2>1. /\ a \o b \in Seq(Nat) /\ Len(a \o b) = Len(a) + Len(b)
        /\ \A i \in 1..(Len(a) + Len(b)) :
               (a \o b)[i] = IF i <= Len(a) THEN a[i] ELSE b[i - Len(a)]
    BY ConcatProperties
  <2> QED BY <2>1, <1>2
<1>4. PICK k \in Nat : k = m + n
  OBVIOUS
<1>5. PICK d \in Seq(Nat) : d = First(k) /\ Len(d) = k /\ \A i \in 1..k : d[i] = i
  BY PieceType
<1>6. ASSUME NEW i \in 1..k PROVE c[i] = d[i]
  <2>1. CASE i <= m
    <3>1. i \in 1..m
      BY <2>1
    <3> QED BY <2>1, <3>1, <1>2, <1>3, <1>4, <1>5
  <2>2. CASE ~(i <= m)
    <3>1. i - m \in 1..n /\ m + (i - m) = i
      BY <2>2, <1>4
    <3> QED BY <2>2, <3>1, <1>2, <1>3, <1>4, <1>5, SMTT(30)
  <2> QED BY <2>1, <2>2
<1>7. c = d
  BY <1>3, <1>4, <1>5, <1>6, SeqEqual
<1> QED BY <1>1, <1>3, <1>4, <1>5, <1>7

(* A piece of no bytes.                                                     *)
LEMMA NoPiece == \A m \in Nat : Behind(m, 0) = <<>>
<1> TAKE m \in Nat
<1>1. Behind(m, 0) \in Seq(Nat) /\ Len(Behind(m, 0)) = 0
  BY PieceType
<1> QED BY <1>1, EmptySeq

(* A step after which no receive is outstanding, and no reply has moved.   *)
LEMMA BookMoves ==
    ASSUME IInv, IInv', DInv, Extended, DOMAIN calls' = DOMAIN calls,
           UNCHANGED <<cur, netlist, replies, asked, passed, aborted>>,
           pc'["net"] = pc["net"], pc'["recv"] \notin {"put", "wait"},
           pc'["recv"] = "store" => chunk' # <<>>,
           Cancelling', Uncancelled' => Uncancelled,
           Uncancelled /\ pc["recv"] \in {"put", "wait"} => ~Unanswered(cur["recv"])
    PROVE  Places' /\ Book'
<1>1. /\ Values /\ Places /\ Contents /\ Cursor /\ OneReply /\ Replied /\ OneReceive
      /\ Receiving /\ Cancelling
  BY DEF DInv, Types, Book
<1>2. Places'
  <2>1. passed' \subseteq DOMAIN calls' /\ asked' \subseteq DOMAIN calls'
    BY <1>1 DEF Places
  <2> QED BY <2>1, <1>1, PlacesStay
<1>3. OneReply' /\ Replied'
  <2>1. pc["net"] = "complete" => cur["net"] \in DOMAIN calls
    BY DEF IInv, Ids
  <2> QED BY <2>1, <1>1, RepliesStay
<1>4. OneReceive'
  <2> SUFFICES ASSUME Uncancelled', ~aborted', NEW i \in DOMAIN calls',
                      calls'[i].kind = "recv", Unanswered(i)'
               PROVE  FALSE
    BY DEF OneReceive
  <2>1. i \in DOMAIN calls /\ calls[i].kind = "recv" /\ Unanswered(i)
    BY DEF Extended, Unanswered
  <2>2. Outstanding(i)
    BY <1>1, <2>1 DEF OneReceive
  <2> QED BY <2>1, <2>2 DEF Outstanding
<1>5. Receiving'
  BY DEF Receiving
<1> QED BY <1>2, <1>3, <1>4, <1>5 DEF Book

(* The next RECV is requested.                                             *)
LEMMA DataRecvRequest ==
    ASSUME IInv, IInv', DInv, RecvRequest
    PROVE  DInv'
<1>0. PICK id : id = NewId
  OBVIOUS
<1>1. /\ Values /\ Places /\ Contents /\ Cursor /\ OneReply /\ Replied /\ OneReceive
      /\ Receiving /\ Cancelling /\ (Uncancelled => Stream)
  BY DEF DInv, Types, Book
<1>2. /\ pc["recv"] = "recv" /\ Goto("recv", "put") /\ cur' = [cur EXCEPT !["recv"] = id]
      /\ calls' = Append(calls, Call("recv"))
      /\ asked' = IF lost THEN asked ELSE asked \cup {id}
      /\ UNCHANGED <<netlist, flags, want, got, chunk, again, ctx, chunks, zero, bytes,
                     passed, replies, server, retries, lost, aborted>>
  BY <1>0 DEF RecvRequest, Request, userVars, recvVars
<1>3. /\ Extended /\ DOMAIN calls' = DOMAIN calls \cup {id}
      /\ id \notin DOMAIN calls /\ calls'[id] = Call("recv")
      /\ \A i \in DOMAIN calls : calls'[i] = calls[i]
  BY <1>0, <1>1, <1>2, ExtendedAppend
<1>4. /\ pc'["recv"] = "put" /\ pc'["user"] = pc["user"] /\ pc'["net"] = pc["net"]
  BY <1>2, Going DEF Threads
<1>5. /\ cur'["recv"] = id /\ \A t \in Threads : t # "recv" => cur'[t] = cur[t]
  BY <1>2 DEF IInv, Positions, Threads
<1>6. Unanswered(id)'
  BY <1>3 DEF Unanswered, Call
<1>7. Places'
  <2>1. passed' \subseteq DOMAIN calls' /\ asked' \subseteq DOMAIN calls'
    BY <1>1, <1>2, <1>3 DEF Places
  <2>2. \A t \in Threads : cur'[t] = cur[t] \/ cur'[t] \in DOMAIN calls'
    BY <1>3, <1>5
  <2> QED BY <2>1, <2>2, <1>1, <1>3, PlacesStay
<1>8. OneReply' /\ Replied'
  <2>1. pc["net"] = "complete" => cur["net"] \in DOMAIN calls
    BY DEF IInv, Ids
  <2>2. asked' \subseteq asked \cup (DOMAIN calls' \ DOMAIN calls)
    BY <1>2, <1>3
  <2>3. cur'["net"] = cur["net"]
    BY <1>5 DEF Threads
  <2> QED BY <2>1, <2>2, <2>3, <1>1, <1>2, <1>3, <1>4, RepliesStay
<1>9. Cancelling' /\ (Uncancelled' => Uncancelled)
  BY <1>1, <1>2, <1>4, CancelStays
<1>10. OneReceive'
  <2> SUFFICES ASSUME Uncancelled', ~aborted', NEW i \in DOMAIN calls',
                      calls'[i].kind = "recv", Unanswered(i)'
               PROVE  Outstanding(i)'
    BY DEF OneReceive
  <2>1. CASE i = id
    BY <2>1, <1>4, <1>5 DEF Outstanding
  <2>2. CASE i # id
    <3>1. i \in DOMAIN calls /\ calls[i].kind = "recv" /\ Unanswered(i)
      BY <1>3, <2>2 DEF Unanswered
    <3>2. Outstanding(i)
      BY <1>1, <1>2, <1>9, <3>1 DEF OneReceive
    <3> QED BY <1>2, <3>2 DEF Outstanding
  <2> QED BY <2>1, <2>2
<1>11. Receiving'
  BY <1>3, <1>4, <1>5 DEF Receiving, Call
<1>12. Uncancelled' => Stream'
  <2> SUFFICES ASSUME Uncancelled' PROVE Stream'
    OBVIOUS
  <2>1. Stream
    BY <1>1, <1>9
  <2>2. Have' = Have
    BY <1>2, <1>4, HaveStays
  <2>3. Complete /\ ~zero.inner
    BY <1>2, <2>1 DEF Stream
  <2>4. Carried' = Carried /\ \A x \in Carried' : x.id # id
    BY <1>1, <1>2, <1>3 DEF Carried, OneReply
  <2>5. OfTheReceive(cur["recv"])'
    <3>1. Complete'
      BY <1>2, <2>2, <2>3 DEF Complete
    <3>2. lost' \/ id \in asked'
      BY <1>2
    <3>3. OfTheReceive(id)'
      BY <1>6, <2>4, <3>1, <3>2 DEF OfTheReceive
    <3> QED BY <1>5, <3>3 DEF OfTheReceive, Unanswered
  <2>6. /\ Have' = First(Len(Have')) /\ Len(Have') <= server'.relayed /\ server'.relayed <= server'.sent
        /\ pc'["recv"] \in {"closed", "wake", "exit"} => Closed'
        /\ ~zero'.inner
    BY <1>2, <1>4, <2>1, <2>2, <2>3 DEF Stream
  <2> QED BY <1>4, <2>5, <2>6 DEF Stream, First, OfTheReceive, Complete, Closed, Brings, Unanswered
<1>13. Contents'
  BY <1>1, <1>2 DEF Contents
<1>14. Values' /\ Cursor'
  BY <1>1, <1>2, ValuesStay, CursorStays
<1> QED BY <1>7, <1>8, <1>9, <1>10, <1>11, <1>12, <1>13, <1>14 DEF DInv, Types, Book

(* The recv thread has the result of its call.                             *)
LEMMA DataRecvResult ==
    ASSUME IInv, IInv', DInv, RecvResult
    PROVE  DInv'
<1>0. PICK r : r = cur["recv"]
  OBVIOUS
<1>1. /\ Values /\ Places /\ Contents /\ Cursor /\ OneReply /\ Replied /\ OneReceive
      /\ Receiving /\ Cancelling /\ (Uncancelled => Stream)
  BY DEF DInv, Types, Book
<1>2. PICK x : x = calls[r].reply
  OBVIOUS
<1>3. /\ pc["recv"] = "wait" /\ calls[r].done = 1 /\ chunk' = x.data
      /\ again' = (again \/ x.ret = "again") /\ Goto("recv", AfterRecv(x.ret)) /\ Freed(r)
      /\ UNCHANGED <<cur, netlist, flags, want, got, ctx, chunks, zero, bytes,
                     asked, passed, replies, server, retries, lost, aborted>>
  BY <1>0, <1>2 DEF RecvResult, Completed, userVars, proxyVars
<1>4. r \in DOMAIN calls
  BY <1>0, <1>3, ReceiveOf DEF Outstanding
<1>5. /\ ~Unanswered(r) /\ calls[r].kind = "recv" /\ x \in Reply0 /\ Fits(x, "recv")
  <2>1. ~Unanswered(r)
    BY <1>1, <1>3, <1>4 DEF Replied
  <2>2. calls[r].kind = "recv"
    BY <1>0, <1>1, <1>3 DEF Receiving
  <2>3. x \in Reply0
    BY <1>1, <1>2, <1>4 DEF Places, CallRecord
  <2> QED BY <1>1, <1>2, <1>4, <2>1, <2>2, <2>3 DEF Replied
<1>6. Extended /\ DOMAIN calls' = DOMAIN calls
  <2>1. Extended
    BY <1>1, <1>3, <1>4, ExtendedFreed
  <2> QED BY <1>3, <2>1 DEF Freed
<1>7. /\ x.ret = "data" => AfterRecv(x.ret) = "store"
      /\ x.ret = "again" => AfterRecv(x.ret) = "recv"
      /\ x.ret \in {"closed", "error"} => AfterRecv(x.ret) = "closed"
      /\ x.ret \in {"data", "closed", "again", "error"}
      /\ x.ret = "data" <=> x.data # <<>>
  BY <1>5 DEF AfterRecv, Fits
<1>8. /\ pc'["recv"] = AfterRecv(x.ret) /\ pc'["user"] = pc["user"] /\ pc'["net"] = pc["net"]
  BY <1>3, Going DEF Threads
<1>9. /\ pc'["recv"] \notin {"put", "wait"}
      /\ pc'["recv"] = "store" => chunk' # <<>>
      /\ pc'["recv"] = "store" <=> x.ret = "data"
      /\ pc'["recv"] \in {"closed", "wake", "exit"} => x.ret \in {"closed", "error"}
  BY <1>3, <1>7, <1>8
<1>10. Cancelling' /\ (Uncancelled' => Uncancelled)
  BY <1>1, <1>3, <1>8, CancelStays
<1>11. Places' /\ Book'
  <2>1. ~Unanswered(cur["recv"])
    BY <1>0, <1>5
  <2>2. UNCHANGED <<cur, netlist, replies, asked, passed, aborted>>
    BY <1>3
  <2>3. pc'["net"] = pc["net"] /\ pc'["recv"] \notin {"put", "wait"}
    BY <1>8, <1>9
  <2>4. pc'["recv"] = "store" => chunk' # <<>>
    BY <1>9
  <2> QED BY <2>1, <2>2, <2>3, <2>4, <1>6, <1>10, BookMoves
<1>12. Contents' /\ Values' /\ Cursor'
  <2>1. x.data \in Seq(Nat) /\ again' \in BOOLEAN
    BY <1>1, <1>3, <1>5 DEF Reply0, Values
  <2>2. Contents' /\ Values'
    BY <1>1, <1>3, <2>1 DEF Contents, Values
  <2> QED BY <1>1, <1>3, <2>2, CursorStays
<1>13. Uncancelled' => Stream'
  <2> SUFFICES ASSUME Uncancelled' PROVE Stream'
    OBVIOUS
  <2>1. Stream /\ OfTheReceive(r) /\ Brings(x)
    BY <1>0, <1>1, <1>2, <1>3, <1>5, <1>10 DEF Stream, OfTheReceive
  <2>2. PICK h \in Nat, n \in Nat, m \in Nat :
            h = Len(Have) /\ n = server.relayed /\ m = n - h
    <3>1. Len(Have) \in Nat /\ server.relayed \in Nat /\ Len(Have) <= server.relayed
      BY <1>1, <2>1, HaveType DEF ServerType, Values, Stream
    <3>2. server.relayed - Len(Have) \in Nat
      BY <3>1
    <3> QED BY <3>1, <3>2
  <2>3. x.data = Behind(h, m) /\ Have = First(h) /\ h + m = n
    BY <2>1, <2>2 DEF Brings, Stream
  <2>4. Chunk' = x.data
    <3>1. CASE x.ret = "data"
      BY <1>3, <1>9, <3>1 DEF Chunk
    <3>2. CASE x.ret # "data"
      BY <1>7, <1>9, <3>2 DEF Chunk
    <3> QED BY <3>1, <3>2
  <2>5. Have = got \o Unread
    <3>1. Chunk = <<>>
      BY <1>3 DEF Chunk
    <3>2. PICK a \in Seq(Nat) : a = got \o Unread
      BY <1>1, HaveType
    <3>3. a \o <<>> = a
      BY ConcatEmptySeq
    <3> QED BY <3>1, <3>2, <3>3 DEF Have
  <2>6. Have' = First(n)
    <3>1. Unread' = Unread
      BY <1>3 DEF Unread, DataOf
    <3>2. Have' = Have \o x.data
      BY <1>3, <2>4, <2>5, <3>1 DEF Have
    <3> QED BY <2>3, <3>2, PiecesMeet
  <2>7. Len(Have') = n /\ First(n) = First(Len(Have'))
    BY <2>6, PieceType
  <2>8. x.ret \in {"closed", "error"} => Closed'
    BY <1>3, <2>1 DEF Brings, Closed
  <2>9. /\ server'.relayed = n /\ server'.relayed <= server'.sent /\ n <= n
        /\ zero'.inner => zero.inner
        /\ ~zero.inner
    BY <1>3, <2>1, <2>2 DEF Stream
  <2>10. Complete'
    BY <2>7, <2>9 DEF Complete
  <2>11. pc'["recv"] \in {"closed", "wake", "exit"} => Closed'
    BY <1>9, <2>8
  <2>12. Have' = First(Len(Have'))
    BY <2>6, <2>7
  <2>13. Len(Have') <= server'.relayed /\ ~zero'.inner
    BY <2>7, <2>9
  <2> QED BY <1>9, <2>9, <2>10, <2>11, <2>12, <2>13 DEF Stream, First, Complete, Closed
<1> QED BY <1>11, <1>12, <1>13 DEF DInv, Types

(* The recv thread's call is cancelled.                                    *)
LEMMA DataRecvCancelled ==
    ASSUME IInv, IInv', DInv, RecvCancelled
    PROVE  DInv'
<1>0. PICK r : r = cur["recv"]
  OBVIOUS
<1>1. /\ Values /\ Places /\ Contents /\ Cursor /\ OneReply /\ Replied /\ OneReceive
      /\ Receiving /\ Cancelling
  BY DEF DInv, Types, Book
<1>2. PICK l \in {"recv", "closed"} :
          /\ pc["recv"] = "wait" /\ ~flags.waitOperationCompleted /\ Goto("recv", l)
          /\ calls' = [calls EXCEPT ![r].done = 2]
          /\ UNCHANGED <<cur, netlist, flags, want, got, chunk, again, ctx, chunks, zero, bytes,
                         asked, passed, replies, server, retries, lost, aborted>>
  BY <1>0 DEF RecvCancelled, Cancelled, userVars, proxyVars, recvVars
<1>3. r \in DOMAIN calls
  BY <1>0, <1>2, ReceiveOf DEF Outstanding
<1>4. Extended /\ DOMAIN calls' = DOMAIN calls
  <2>1. PICK c : c = [calls[r] EXCEPT !.done = 2]
    OBVIOUS
  <2>2. /\ c \in CallRecord /\ c.kind = calls[r].kind /\ c.reply = calls[r].reply /\ c.done # 1
    BY <1>1, <1>3, <2>1 DEF Places, CallRecord
  <2>3. calls' = [calls EXCEPT ![r] = c]
    BY <1>2, <2>1
  <2>4. Extended
    BY <1>1, <1>3, <2>2, <2>3, ExtendedAt
  <2> QED BY <2>3, <2>4
<1>5. pc'["recv"] = l /\ pc'["user"] = pc["user"] /\ pc'["net"] = pc["net"]
  BY <1>2, Going DEF Threads
<1>6. Cancelling' /\ (Uncancelled' => Uncancelled) /\ ~Uncancelled
  BY <1>1, <1>2, <1>5, CancelStays DEF Uncancelled
<1>7. Places' /\ Book'
  <2>1. UNCHANGED <<cur, netlist, replies, asked, passed, aborted>>
    BY <1>2
  <2>2. pc'["recv"] \notin {"put", "wait", "store"}
    BY <1>5
  <2> QED BY <2>1, <2>2, <1>4, <1>5, <1>6, BookMoves
<1>8. Contents' /\ Values' /\ Cursor'
  BY <1>1, <1>2, ValuesStay, CursorStays DEF Contents
<1> QED BY <1>6, <1>7, <1>8 DEF DInv, Types

(* A step of the recv thread between two calls.                            *)
LEMMA RecvMoves ==
    ASSUME IInv, IInv', DInv, Contents', Values', Cursor',
           NEW l \in {"recv", "count", "wake", "exit"}, Goto("recv", l),
           pc["recv"] \notin {"put", "wait"},
           UNCHANGED <<cur, calls, netlist, replies, asked, passed, server, flags, aborted>>,
           Have' = Have,
           l \in {"wake", "exit"} => pc["recv"] \in {"closed", "wake"},
           l \notin {"wake", "exit"} /\ zero'.inner => zero.inner /\ pc["recv"] \notin {"wake", "exit"}
    PROVE  DInv'
<1>1. /\ Places /\ Replied /\ Cancelling /\ (Uncancelled => Stream)
  BY DEF DInv, Types, Book
<1>2. pc'["recv"] = l /\ pc'["user"] = pc["user"] /\ pc'["net"] = pc["net"]
  BY Going DEF Threads
<1>3. Extended /\ DOMAIN calls' = DOMAIN calls
  BY <1>1, Unextended
<1>4. Cancelling' /\ (Uncancelled' => Uncancelled)
  BY <1>1, <1>2, CancelStays
<1>5. Places' /\ Book'
  <2>1. UNCHANGED <<cur, netlist, replies, asked, passed, aborted>>
    OBVIOUS
  <2>2. pc'["recv"] \notin {"put", "wait", "store"}
    BY <1>2
  <2> QED BY <2>1, <2>2, <1>2, <1>3, <1>4, BookMoves
<1>6. Uncancelled' => Stream'
  <2> SUFFICES ASSUME Uncancelled' PROVE Stream'
    OBVIOUS
  <2>1. Stream
    BY <1>1, <1>4
  <2>2. pc'["recv"] \notin {"put", "wait"}
    BY <1>2
  <2>3. pc'["recv"] \in {"closed", "wake", "exit"} => pc["recv"] \in {"closed", "wake", "exit"}
    BY <1>2
  <2>4. zero'.inner => pc'["recv"] \in {"wake", "exit"}
    BY <1>2, <2>1 DEF Stream
  <2>5. server' = server
    OBVIOUS
  <2> QED BY <2>1, <2>2, <2>3, <2>4, <2>5, StreamMoves
<1> QED BY <1>5, <1>6 DEF DInv, Types

(* The bytes of the RECV are stored.                                       *)
LEMMA DataRecvStore ==
    ASSUME IInv, IInv', DInv, RecvStore
    PROVE  DInv'
<1>0. PICK z : z = ctx'
  OBVIOUS
<1>1. /\ Values /\ Places /\ Contents /\ Cursor /\ Receiving
  BY DEF DInv, Types, Book
<1>2. /\ pc["recv"] = "store" /\ Goto("recv", "count")
      /\ ctx' = PutToRecvCtx(ctx, [id |-> chunks + 1, data |-> chunk])
      /\ chunks' = chunks + 1
      /\ UNCHANGED <<cur, calls, netlist, flags, want, got, chunk, again, zero, bytes,
                     asked, passed, replies, server, retries, lost, aborted>>
  BY DEF RecvStore, userVars, callVars, proxyVars
<1>3. PICK c \in RecvContext, k \in Nat, d \in Seq(Nat), g \in Seq(Nat) :
          c = ctx /\ k = chunks /\ d = chunk /\ g = got
  BY <1>1 DEF Values, Contents
<1>4. d # <<>>
  BY <1>1, <1>2, <1>3 DEF Receiving
<1>5. CursorOf(c, k)
  BY <1>1, <1>3, ContextNow
<1>6. z \in RecvContext /\ CursorOf(z, k + 1) /\ UnreadOf(z) = UnreadOf(c) \o d
  <2>1. z = PutToRecvCtx(c, [id |-> k + 1, data |-> d])
    BY <1>0, <1>2, <1>3
  <2> QED BY <1>4, <1>5, <2>1, PutUnread, ZenonT(60)
<1>7. Contents' /\ Values' /\ Cursor'
  <2>1. Contents'
    BY <1>0, <1>1, <1>2, <1>3, <1>6 DEF Contents
  <2>2. Values'
    BY <1>1, <1>2 DEF Values
  <2>3. Cursor'
    BY <1>0, <1>2, <1>3, <1>6, ContextNow
  <2> QED BY <2>1, <2>2, <2>3
<1>8. pc'["recv"] = "count"
  BY <1>2, Going DEF Threads
<1>9. Have' = Have
  <2>1. PICK u \in Seq(Nat) : u = UnreadOf(c)
    BY <1>5, ContextFacts
  <2>2. Have = (g \o u) \o d
    BY <1>2, <1>3, <2>1, ContextNow DEF Have, Chunk
  <2>3. Have' = (g \o (u \o d)) \o <<>>
    BY <1>0, <1>2, <1>3, <1>6, <1>8, <2>1, ContextNow DEF Have, Chunk
  <2>4. g \o (u \o d) = (g \o u) \o d /\ g \o u \in Seq(Nat)
    BY ConcatThree, ConcatProperties
  <2>5. (g \o u) \o d \in Seq(Nat)
    BY <2>4, ConcatProperties
  <2>6. PICK h \in Seq(Nat) : h = (g \o u) \o d
    BY <2>5
  <2>7. h \o <<>> = h
    BY ConcatEmptySeq
  <2> QED BY <2>2, <2>3, <2>4, <2>6, <2>7
<1> QED BY <1>2, <1>7, <1>9, RecvMoves

(* The stored bytes are counted.                                           *)
LEMMA DataRecvCount ==
    ASSUME IInv, IInv', DInv, RecvCount
    PROVE  DInv'
<1>1. /\ Values /\ Places /\ Contents /\ Cursor /\ Receiving
  BY DEF DInv, Types, Book
<1>2. /\ pc["recv"] = "count" /\ Goto("recv", "recv")
      /\ bytes' = [bytes EXCEPT !.recv = @ + Len(chunk)] /\ chunk' = <<>>
      /\ UNCHANGED <<cur, calls, netlist, flags, want, got, again, ctx, chunks, zero,
                     asked, passed, replies, server, retries, lost, aborted>>
  BY DEF RecvCount, userVars, callVars, proxyVars
<1>3. Contents' /\ Values' /\ Cursor'
  <2>1. Contents'
    BY <1>1, <1>2 DEF Contents
  <2>2. Values'
    <3>1. Len(chunk) \in Nat
      BY <1>1 DEF Contents
    <3> QED BY <1>1, <1>2, <3>1 DEF Values
  <2> QED BY <1>1, <1>2, <2>1, <2>2, CursorStays
<1>4. pc'["recv"] = "recv"
  BY <1>2, Going DEF Threads
<1>5. Have' = Have
  BY <1>2, <1>4 DEF Have, Unread, DataOf, Chunk
<1> QED BY <1>2, <1>3, <1>5, RecvMoves

(* The stream has ended.                                                   *)
LEMMA DataRecvClosed ==
    ASSUME IInv, IInv', DInv, RecvClosed
    PROVE  DInv'
<1>1. /\ Values /\ Places /\ Contents /\ Cursor /\ Receiving
  BY DEF DInv, Types, Book
<1>2. PICK l \in {"wake", "exit"} :
          /\ pc["recv"] \in {"closed", "wake"} /\ Goto("recv", l)
          /\ \/ zero' = [zero EXCEPT !.inner = TRUE]
             \/ zero' = [zero EXCEPT !.outer = TRUE]
          /\ UNCHANGED <<cur, calls, netlist, flags, want, got, chunk, again, ctx, chunks, bytes,
                         asked, passed, replies, server, retries, lost, aborted>>
  BY DEF RecvClosed, userVars, callVars, proxyVars
<1>3. Contents' /\ Values' /\ Cursor'
  BY <1>1, <1>2, CursorStays DEF Contents, Values
<1>4. pc'["recv"] = l
  BY <1>2, Going DEF Threads
<1>5. Have' = Have
  BY <1>2, <1>4, HaveStays
<1> QED BY <1>2, <1>3, <1>5, RecvMoves

(* A thread other than the network thread gets in the queue.               *)
LEMMA DataPutCallId ==
    ASSUME IInv, IInv', DInv, NEW t \in Callers, PutCallId(t)
    PROVE  DInv'
<1>1. Values /\ Cancelling /\ Places /\ Replied
  BY DEF DInv, Types, Book
<1>2. /\ pc[t] = "put" /\ Goto(t, "wait")
      /\ UNCHANGED <<cur, calls, netlist, flags, want, got, chunk, again, ctx, chunks, zero, bytes,
                     asked, passed, replies, server, retries, lost, aborted>>
  BY DEF PutCallId, userVars, recvVars, proxyVars
<1>3. /\ t # "user" => pc'["user"] = pc["user"]
      /\ pc'["net"] = pc["net"] /\ pc'[t] = "wait"
      /\ t # "recv" => pc'["recv"] = pc["recv"]
  BY <1>2, Going DEF Threads, Callers
<1>4. Cancelling' /\ (Uncancelled' => Uncancelled)
  <2>1. pc'["user"] = pc["user"] \/ pc["user"] \notin {"join recv", "join net", "done"}
    BY <1>2, <1>3
  <2> QED BY <1>1, <1>2, <2>1, CancelStays
<1>5. Values'
  BY <1>1, <1>2, ValuesStay
<1>6. Extended
  BY <1>1, <1>2, Unextended
<1>7. SameReceive
  BY <1>2, <1>3 DEF SameReceive
<1>8. Plain
  BY <1>2, <1>3, <1>6, <1>7 DEF Plain
<1> QED BY <1>4, <1>5, <1>8, PlainStep

(* The request is not sent, and the exception ends the thread.             *)
LEMMA DataRecvRequestThrows ==
    ASSUME IInv, IInv', DInv, RecvRequestThrows
    PROVE  DInv'
<1>1. Values /\ Cancelling /\ Places /\ Replied
  BY DEF DInv, Types, Book
<1>2. /\ calls' = Append(calls, Call("recv")) /\ aborted'
      /\ UNCHANGED <<pc, cur, netlist, flags, want, got, chunk, again, ctx, chunks, zero, bytes,
                     asked, passed, replies, server, retries, lost>>
  BY DEF RecvRequestThrows, AllocateOnly, userVars, recvVars, proxyVars
<1>3. Extended
  BY <1>1, <1>2, ExtendedAppend
<1>4. Cancelling' /\ (Uncancelled' => Uncancelled)
  BY <1>1, <1>2, CancelStays
<1>5. Values'
  <2>1. aborted' \in BOOLEAN
    BY DEF RecvRequestThrows
  <2> QED BY <1>1, <1>2, <2>1 DEF Values
<1>6. Plain
  BY <1>2, <1>3 DEF Plain, SameReceive
<1> QED BY <1>4, <1>5, <1>6, PlainStep

(* The steps of the recv thread.                                           *)
LEMMA DataRecvThread ==
    ASSUME IInv, IInv', DInv, RecvThread
    PROVE  DInv'
BY DataPutCallId, DataRecvRequest, DataRecvRequestThrows, DataRecvResult, DataRecvCancelled,
   DataRecvStore, DataRecvCount, DataRecvClosed DEF RecvThread, Callers
-----------------------------------------------------------------------------
(* THE USER.                                                               *)

(* A call is allocated, and requested or not.                              *)
LEMMA UserAllocates ==
    ASSUME IInv, IInv', DInv, NEW k \in {"call", "connect", "send"}, NEW l \in {"put", "list"},
           pc["user"] = "run", calls' = Append(calls, Call(k)),
           \/ /\ cur' = [cur EXCEPT !["user"] = NewId] /\ Goto("user", l)
              /\ asked' = IF lost THEN asked ELSE asked \cup {NewId}
           \/ UNCHANGED <<pc, cur, asked>>,
           UNCHANGED <<netlist, flags, want, got, chunk, again, ctx, chunks, zero,
                       passed, replies, server, retries, lost, aborted>>,
           bytes' \in [recv : Nat, minimal : Nat]
    PROVE  DInv'
<1>0. PICK id : id = NewId
  OBVIOUS
<1>1. Values /\ Cancelling /\ Places /\ Replied
  BY DEF DInv, Types, Book
<1>2. /\ Extended /\ DOMAIN calls' = DOMAIN calls \cup {id}
      /\ id \notin DOMAIN calls /\ calls'[id] = Call(k)
  BY <1>0, <1>1, ExtendedAppend
<1>3. /\ pc'["recv"] = pc["recv"] /\ pc'["net"] = pc["net"]
      /\ pc'["user"] \in {"run", l}
  BY Going DEF Threads
<1>4. /\ \A t \in Threads : cur'[t] = cur[t] \/ cur'[t] \in DOMAIN calls'
      /\ cur'["recv"] = cur["recv"] /\ cur'["net"] = cur["net"]
  BY <1>0, <1>2 DEF IInv, Positions, Threads
<1>5. Cancelling' /\ (Uncancelled' => Uncancelled)
  <2>1. pc["user"] \notin {"join recv", "join net", "done"}
    OBVIOUS
  <2> QED BY <1>1, <2>1, CancelStays
<1>6. Values'
  BY <1>1 DEF Values
<1>7. SameReceive
  BY <1>3, <1>4 DEF SameReceive
<1>8. asked \subseteq asked' /\ asked' \subseteq asked \cup (DOMAIN calls' \ DOMAIN calls)
  BY <1>0, <1>2
<1>9. \A i \in DOMAIN calls' \ DOMAIN calls : calls'[i].kind # "recv"
  BY <1>2 DEF Call
<1>10. Plain
  BY <1>2, <1>3, <1>4, <1>7, <1>8, <1>9 DEF Plain
<1> QED BY <1>5, <1>6, <1>10, PlainStep

(* The user's calls and sends.                                             *)
LEMMA DataUserRequests ==
    ASSUME IInv, IInv', DInv, UserCall \/ UserSend
    PROVE  DInv'
<1>1. bytes \in [recv : Nat, minimal : Nat]
  BY DEF DInv, Types, Values
<1>2. PICK k : k = Head(prog).op
  OBVIOUS
<1>3. CASE UserCall
  <2>1. /\ pc["user"] = "run" /\ k \in {"call", "connect"} /\ calls' = Append(calls, Call(k))
        /\ \/ /\ cur' = [cur EXCEPT !["user"] = NewId] /\ Goto("user", "put")
              /\ asked' = IF lost THEN asked ELSE asked \cup {NewId}
           \/ UNCHANGED <<pc, cur, asked>>
        /\ UNCHANGED <<netlist, flags, want, got, chunk, again, ctx, chunks, zero, bytes,
                       passed, replies, server, retries, lost, aborted>>
    BY <1>2, <1>3 DEF UserCall, Calls, Request, AllocateOnly, Throws, recvVars
  <2>2. bytes' \in [recv : Nat, minimal : Nat]
    BY <1>1, <2>1
  <2> QED BY <2>1, <2>2, UserAllocates
<1>4. CASE UserSend
  <2>1. /\ pc["user"] = "run" /\ calls' = Append(calls, Call("send"))
        /\ \/ /\ cur' = [cur EXCEPT !["user"] = NewId] /\ Goto("user", "list")
              /\ asked' = IF lost THEN asked ELSE asked \cup {NewId}
           \/ UNCHANGED <<pc, cur, asked>>
        /\ UNCHANGED <<netlist, flags, want, got, chunk, again, ctx, chunks, zero,
                       passed, replies, server, retries, lost, aborted>>
    BY <1>4 DEF UserSend, Calls, Request, AllocateOnly, Throws
  <2>2. bytes' \in [recv : Nat, minimal : Nat]
    <3>1. prog # <<>> /\ Started
      BY <1>4 DEF UserSend, Calls, IInv
    <3>2. Head(prog).n \in Nat
      BY <3>1, ProgTail DEF Op
    <3>3. bytes' = IF Head(prog).n > 0 THEN [recv |-> 0, minimal |-> Head(prog).n] ELSE bytes
      BY <1>4 DEF UserSend
    <3> QED BY <1>1, <3>2, <3>3
  <2> QED BY <2>1, <2>2, UserAllocates
<1> QED BY <1>3, <1>4

(* A step of the user that makes no call and moves no bytes.               *)
LEMMA UserMoves ==
    ASSUME IInv, IInv', DInv, NEW l, Goto("user", l) \/ UNCHANGED pc,
           UNCHANGED <<cur, calls, netlist, got, chunk, again, ctx, chunks, zero, bytes,
                       asked, passed, replies, server, retries, lost, aborted>>,
           want' \in Nat,
           flags' \in [waitOperationCompleted : BOOLEAN, waitNextCallId : BOOLEAN,
                       valid : BOOLEAN, recvAgain : BOOLEAN],
           Cancelling', Uncancelled' => Uncancelled
    PROVE  DInv'
<1>1. Values /\ Places /\ Replied
  BY DEF DInv, Types, Book
<1>2. Values'
  BY <1>1 DEF Values
<1>3. pc'["recv"] = pc["recv"] /\ pc'["net"] = pc["net"]
  BY Going DEF Threads
<1>4. Extended
  BY <1>1, Unextended
<1>5. SameReceive
  BY <1>3 DEF SameReceive
<1>6. Plain
  BY <1>3, <1>4, <1>5 DEF Plain
<1> QED BY <1>2, <1>6, PlainStep

(* The user's steps that begin or end a call and move no bytes.             *)
LEMMA DataUserQuiet ==
    ASSUME IInv, IInv', DInv, UserSendList \/ UserAwait \/ UserRecv
    PROVE  DInv'
<1>1. Values /\ Cancelling
  BY DEF DInv, Types, Book
<1>2. PICK l \in {"run", "read"} :
          /\ Goto("user", l) \/ UNCHANGED pc
          /\ pc["user"] \in {"run", "list"}
          /\ UNCHANGED <<cur, calls, netlist, flags, got, chunk, again, ctx, chunks, zero, bytes,
                         asked, passed, replies, server, retries, lost, aborted>>
  BY DEF UserSendList, UserAwait, UserRecv, Calls, userVars, callVars, recvVars, proxyVars
<1>3. want' \in Nat
  <2>1. CASE UserSendList \/ UserAwait
    BY <1>1, <2>1 DEF UserSendList, UserAwait, userVars, Values
  <2>2. CASE UserRecv
    <3>1. prog # <<>> /\ Started
      BY <2>2 DEF UserRecv, Calls, IInv
    <3>2. Head(prog).n \in Nat
      BY <3>1, ProgTail DEF Op
    <3> QED BY <2>2, <3>2 DEF UserRecv
  <2> QED BY <2>1, <2>2
<1>4. Cancelling' /\ (Uncancelled' => Uncancelled)
  <2>1. pc["user"] \notin {"join recv", "join net", "done"}
    BY <1>2
  <2> QED BY <1>1, <1>2, <2>1, CancelStays
<1>5. flags' \in [waitOperationCompleted : BOOLEAN, waitNextCallId : BOOLEAN,
                 valid : BOOLEAN, recvAgain : BOOLEAN]
  BY <1>1, <1>2 DEF Values
<1> QED BY <1>2, <1>3, <1>4, <1>5, UserMoves

(* The destructor's steps before the last.                                 *)
LEMMA DataDestroyers ==
    ASSUME IInv, IInv', DInv, DestroySend \/ DestroyRecv \/ DestroyNet
    PROVE  DInv'
<1>1. Values /\ Cancelling
  BY DEF DInv, Types, Book
<1>2. PICK l \in {"join send", "join recv", "join net"} :
          /\ Goto("user", l)
          /\ UNCHANGED <<cur, calls, netlist, want, got, chunk, again, ctx, chunks, zero, bytes,
                         asked, passed, replies, server, retries, lost, aborted>>
          /\ \/ /\ flags'.waitOperationCompleted = flags.waitOperationCompleted
                /\ pc["user"] = "run" \/ l = "join net"
             \/ pc["user"] = "join send" /\ l = "join recv"
  BY <1>1 DEF DestroySend, DestroyRecv, DestroyNet, Destroying, userVars, recvVars, proxyVars, Values
<1>3. flags' \in [waitOperationCompleted : BOOLEAN, waitNextCallId : BOOLEAN,
                 valid : BOOLEAN, recvAgain : BOOLEAN]
  BY <1>1 DEF DestroySend, DestroyRecv, DestroyNet, Values
<1>4. pc'["user"] = l
  BY <1>2, Going DEF Threads
<1>5. Cancelling' /\ (Uncancelled' => Uncancelled)
  <2>1. CASE flags'.waitOperationCompleted = flags.waitOperationCompleted /\ pc["user"] = "run"
    BY <1>1, <2>1, CancelStays
  <2>2. CASE flags'.waitOperationCompleted = flags.waitOperationCompleted /\ l = "join net"
    BY <1>1, <1>4, <2>2, CancelStays
  <2>3. CASE pc["user"] = "join send" /\ l = "join recv"
    BY <1>1, <1>4, <2>3 DEF Cancelling
  <2> QED BY <1>2, <2>1, <2>2, <2>3
<1>6. want' \in Nat
  BY <1>1, <1>2 DEF Values
<1> QED BY <1>2, <1>3, <1>5, <1>6, UserMoves

(* The destructor frees what is still pending.                             *)
LEMMA DataDestroyCalls ==
    ASSUME IInv, IInv', DInv, DestroyCalls
    PROVE  DInv'
<1>1. Values /\ Cancelling /\ Places /\ Replied
  BY DEF DInv, Types, Book
<1>2. /\ Goto("user", "done")
      /\ UNCHANGED <<cur, netlist, flags, want, got, chunk, again, ctx, chunks, zero, bytes,
                     asked, passed, replies, server, retries, lost, aborted>>
  BY DEF DestroyCalls, userVars, recvVars, proxyVars
<1>3. calls' = [i \in DOMAIN calls |->
                    IF calls[i].listed
                    THEN [calls[i] EXCEPT !.listed = FALSE, !.freed = @ + 1]
                    ELSE calls[i]]
  BY DEF DestroyCalls
<1>4. DOMAIN calls' = DOMAIN calls
  BY <1>3
<1>5. \A i \in DOMAIN calls :
          /\ calls'[i] \in CallRecord /\ calls'[i].kind = calls[i].kind
          /\ calls'[i].reply = calls[i].reply /\ calls'[i].done = calls[i].done
  <2> SUFFICES ASSUME NEW i \in DOMAIN calls
               PROVE  /\ calls'[i] \in CallRecord /\ calls'[i].kind = calls[i].kind
                      /\ calls'[i].reply = calls[i].reply /\ calls'[i].done = calls[i].done
    OBVIOUS
  <2>1. calls[i] \in CallRecord
    BY <1>1 DEF Places
  <2>2. calls'[i] = IF calls[i].listed
                    THEN [calls[i] EXCEPT !.listed = FALSE, !.freed = @ + 1]
                    ELSE calls[i]
    BY <1>3
  <2>3. PICK c \in CallRecord : c = calls[i]
    BY <2>1
  <2>4. PICK d : d = [c EXCEPT !.listed = FALSE, !.freed = @ + 1]
    OBVIOUS
  <2>5. d \in CallRecord /\ d.kind = c.kind /\ d.reply = c.reply /\ d.done = c.done
    <3>1. PICK e : e = [c EXCEPT !.listed = FALSE]
      OBVIOUS
    <3>2. /\ e \in CallRecord /\ e.kind = c.kind /\ e.reply = c.reply /\ e.done = c.done
          /\ e.freed = c.freed
      BY <3>1 DEF CallRecord
    <3>3. d = [e EXCEPT !.freed = e.freed + 1]
      BY <2>4, <3>1, <3>2
    <3> QED BY <3>2, <3>3 DEF CallRecord
  <2>6. calls'[i] = c \/ calls'[i] = d
    BY <2>2, <2>3, <2>4
  <2> QED BY <2>3, <2>5, <2>6
<1>6. Extended
  <2>1. Len(calls) \in Nat /\ Len(calls) <= Len(calls')
    <3>1. Len(calls) \in Nat /\ DOMAIN calls = 1..Len(calls)
      BY CallsFacts DEF IInv
    <3>2. Len(calls') \in Nat /\ DOMAIN calls' = 1..Len(calls')
      BY CallsFacts DEF IInv, Ids
    <3> QED BY <3>1, <3>2, <1>4
  <2> QED BY <1>1, <1>4, <1>5, <2>1 DEF Extended, Replied
<1>7. pc'["recv"] = pc["recv"] /\ pc'["net"] = pc["net"] /\ pc'["user"] = "done"
  BY <1>2, Going DEF Threads
<1>8. Cancelling' /\ (Uncancelled' => Uncancelled)
  BY <1>1, <1>2, <1>7, CancelStays
<1>9. Values'
  BY <1>1, <1>2, ValuesStay
<1>10. SameReceive
  BY <1>2, <1>7 DEF SameReceive
<1>11. Plain
  BY <1>2, <1>4, <1>6, <1>7, <1>10 DEF Plain
<1> QED BY <1>8, <1>9, <1>11, PlainStep

(* The user reads stored bytes.                                            *)
LEMMA DataUserReads ==
    ASSUME IInv, IInv', DInv, ctx.info.valid, NEW l \in {"run", "read"}, Goto("user", l),
           pc["user"] = "read",
           got' = got \o Taken(ctx, want), want' = want - Len(Taken(ctx, want)),
           ctx' = RecvFromRecvCtx(ctx, want),
           UNCHANGED <<cur, calls, netlist, flags, chunk, again, chunks, zero, bytes,
                       asked, passed, replies, server, retries, lost, aborted>>
    PROVE  DInv'
<1>0. PICK z : z = ctx'
  OBVIOUS
<1>1. /\ Values /\ Places /\ Contents /\ Cursor /\ OneReply /\ Replied /\ OneReceive
      /\ Receiving /\ Cancelling /\ (Uncancelled => Stream)
  BY DEF DInv, Types, Book
<1>2. PICK c \in RecvContext, k \in Nat, w \in Nat, g \in Seq(Nat) :
          c = ctx /\ k = chunks /\ w = want /\ g = got
  BY <1>1 DEF Values, Contents
<1>3. CursorOf(c, k)
  BY <1>1, <1>2, ContextNow
<1>4. PICK t \in Seq(Nat) : t = Taken(c, w) /\ Len(t) <= w /\ Len(t) \in Nat /\ w - Len(t) \in Nat
  <2>1. c.info.valid
    BY <1>2
  <2>2. PICK r : r = RecvFromRecvCtx(c, w)
    OBVIOUS
  <2>3. Taken(c, w) \in Seq(Nat) /\ Len(Taken(c, w)) <= w
    BY <1>3, <2>1, <2>2, ReadUnread
  <2>4. PICK n \in Nat : n = Len(Taken(c, w))
    BY <2>3, LenProperties
  <2>5. n <= w
    BY <2>3, <2>4
  <2>6. w - n \in Nat
    BY <2>5
  <2> QED BY <2>3, <2>4, <2>6
<1>5. z \in RecvContext /\ CursorOf(z, k) /\ t \o UnreadOf(z) = UnreadOf(c)
  <2>1. c.info.valid /\ z = RecvFromRecvCtx(c, w)
    BY <1>0, <1>2
  <2> QED BY <1>3, <1>4, <2>1, ReadUnread
<1>6. Have' = Have
  <2>1. PICK u \in Seq(Nat) : u = UnreadOf(z)
    BY <1>5, ContextFacts
  <2>2. (g \o t) \o u = g \o (t \o u)
    BY ConcatThree
  <2>3. Chunk' = Chunk
    <3>1. pc'["recv"] = pc["recv"]
      BY Going DEF Threads
    <3> QED BY <3>1 DEF Chunk
  <2>4. Have = (g \o (t \o u)) \o Chunk
    BY <1>0, <1>2, <1>5, <2>1, ContextNow DEF Have
  <2>5. Have' = ((g \o t) \o u) \o Chunk
    BY <1>0, <1>2, <1>4, <2>1, <2>3, ContextNow DEF Have
  <2> QED BY <2>2, <2>4, <2>5
<1>7. Contents' /\ Values' /\ Cursor'
  <2>1. g \o t \in Seq(Nat)
    BY ConcatProperties
  <2>2. Contents'
    BY <1>0, <1>1, <1>2, <1>4, <1>5, <2>1 DEF Contents
  <2>3. want' \in Nat
    BY <1>2, <1>4
  <2>4. Values'
    BY <1>1, <2>3 DEF Values
  <2>5. Cursor'
    BY <1>0, <1>2, <1>5, ContextNow
  <2> QED BY <2>2, <2>4, <2>5
<1>8. pc'["recv"] = pc["recv"] /\ pc'["net"] = pc["net"] /\ pc'["user"] = l
  BY Going DEF Threads
<1>9. Extended
  BY <1>1, Unextended
<1>10. SameReceive
  BY <1>8 DEF SameReceive
<1>11. Cancelling' /\ (Uncancelled' => Uncancelled)
  <2>1. pc["user"] \notin {"join recv", "join net", "done"}
    OBVIOUS
  <2> QED BY <1>1, <2>1, CancelStays
<1>12. Places'
  BY <1>1 DEF Places
<1>13. OneReply' /\ Replied'
  <2>1. pc["net"] = "complete" => cur["net"] \in DOMAIN calls
    BY DEF IInv, Ids
  <2> QED BY <2>1, <1>1, <1>8, <1>9, RepliesStay
<1>14. OneReceive' /\ Receiving'
  BY <1>1, <1>9, <1>10, <1>11, ReceiveStays
<1>15. Uncancelled' => Stream'
  <2> SUFFICES ASSUME Uncancelled' PROVE Stream'
    OBVIOUS
  <2>1. Carried' = Carried /\ Stream /\ asked' = asked
    BY <1>1, <1>11 DEF Carried
  <2>2. UNCHANGED <<server, zero, lost>>
    OBVIOUS
  <2> QED BY <2>1, <2>2, <1>6, <1>9, <1>10, StreamStays
<1> QED BY <1>7, <1>11, <1>12, <1>13, <1>14, <1>15 DEF DInv, Types, Book

(* recv3 takes what is stored, or finds the end of the stream.              *)
LEMMA DataUserRead ==
    ASSUME IInv, IInv', DInv, UserRead
    PROVE  DInv'
<1>1. Values /\ Cancelling
  BY DEF DInv, Types, Book
<1>2. /\ pc["user"] = "read"
      /\ UNCHANGED <<cur, calls, netlist, flags, chunk, again, chunks, zero, bytes,
                     asked, passed, replies, server, retries, lost, aborted>>
  BY DEF UserRead, callVars, proxyVars
<1>3. CASE ctx.info.valid
  <2>1. PICK l \in {"run", "read"} : Goto("user", l)
    BY <1>3 DEF UserRead
  <2>2. /\ got' = got \o Taken(ctx, want) /\ want' = want - Len(Taken(ctx, want))
        /\ ctx' = RecvFromRecvCtx(ctx, want)
    BY <1>3 DEF UserRead
  <2> QED BY <1>2, <1>3, <2>1, <2>2, DataUserReads
<1>4. CASE ~ctx.info.valid
  <2>1. Goto("user", "run") /\ want' = 0 /\ UNCHANGED <<got, ctx>>
    BY <1>4 DEF UserRead
  <2>2. Cancelling' /\ (Uncancelled' => Uncancelled)
    <3>1. pc["user"] \notin {"join recv", "join net", "done"}
      BY <1>2
    <3> QED BY <1>1, <1>2, <3>1, CancelStays
  <2>3. /\ want' \in Nat
        /\ flags' \in [waitOperationCompleted : BOOLEAN, waitNextCallId : BOOLEAN,
                       valid : BOOLEAN, recvAgain : BOOLEAN]
    BY <1>1, <1>2, <2>1 DEF Values
  <2> QED BY <1>2, <2>1, <2>2, <2>3, UserMoves
<1> QED BY <1>3, <1>4

(* The user has the result of its call; after a connect the other threads  *)
(* start.                                                                  *)
LEMMA DataUserResult ==
    ASSUME IInv, IInv', DInv, UserResult
    PROVE  DInv'
<1>0. PICK u : u = cur["user"]
  OBVIOUS
<1>1. /\ Values /\ Places /\ Contents /\ Cursor /\ OneReply /\ Replied /\ OneReceive
      /\ Receiving /\ Cancelling /\ (Uncancelled => Stream)
  BY DEF DInv, Types, Book
<1>2. /\ pc["user"] = "wait" /\ Freed(u)
      /\ UNCHANGED <<cur, netlist, flags, want, got, chunk, again, ctx, chunks, zero, bytes,
                     asked, passed, replies, server, retries, lost, aborted>>
  BY <1>0 DEF UserResult, Completed, recvVars, proxyVars
<1>3. u \in DOMAIN calls
  BY <1>0, <1>2 DEF IInv, Ids, Holding, Callers
<1>4. Extended /\ DOMAIN calls' = DOMAIN calls
  <2>1. Extended
    BY <1>1, <1>2, <1>3, ExtendedFreed
  <2> QED BY <1>2, <2>1 DEF Freed
<1>5. Cancelling' /\ (Uncancelled' => Uncancelled)
  <2>1. pc["user"] \notin {"join recv", "join net", "done"}
    BY <1>2
  <2> QED BY <1>1, <1>2, <2>1, CancelStays
<1>6. Values'
  BY <1>1, <1>2, ValuesStay
<1>7. CASE Goto("user", "run")
  <2>1. pc'["recv"] = pc["recv"] /\ pc'["net"] = pc["net"]
    BY <1>7, Going DEF Threads
  <2>2. SameReceive
    BY <1>2, <2>1 DEF SameReceive
  <2>3. Plain
    BY <1>2, <1>4, <2>1, <2>2 DEF Plain
  <2> QED BY <1>5, <1>6, <2>3, PlainStep
<1>8. CASE /\ calls[u].kind = "connect"
           /\ pc' = [pc EXCEPT !["user"] = "run", !["send"] = "get", !["recv"] = "recv"]
  <2>1. pc["recv"] = "off"
    BY <1>0, <1>2, <1>8 DEF IInv, Started, Connecting
  <2>2. pc'["recv"] = "recv" /\ pc'["net"] = pc["net"]
    BY <1>8, ZenonT(60) DEF IInv, Positions, Threads
  <2>3. Places' /\ Book'
    <3>1. UNCHANGED <<cur, netlist, replies, asked, passed, aborted>>
      BY <1>2
    <3>2. pc'["recv"] \notin {"put", "wait", "store"} /\ pc["recv"] \notin {"put", "wait"}
      BY <2>1, <2>2
    <3> QED BY <1>4, <1>5, <2>2, <3>1, <3>2, BookMoves
  <2>4. Contents' /\ Cursor'
    BY <1>1, <1>2, CursorStays DEF Contents
  <2>5. Have' = Have
    BY <1>2, <2>1, <2>2, HaveStays
  <2>6. Uncancelled' => Stream'
    <3> SUFFICES ASSUME Uncancelled' PROVE Stream'
      OBVIOUS
    <3>1. Stream /\ server' = server
      BY <1>1, <1>2, <1>5
    <3>2. ~zero'.inner
      BY <1>2, <2>1, <3>1 DEF Stream
    <3> QED BY <2>1, <2>2, <2>5, <3>1, <3>2, StreamMoves
  <2> QED BY <1>6, <2>3, <2>4, <2>6 DEF DInv, Types
<1>9. \/ Goto("user", "run")
      \/ /\ calls[u].kind = "connect"
         /\ pc' = [pc EXCEPT !["user"] = "run", !["send"] = "get", !["recv"] = "recv"]
  BY <1>0 DEF UserResult
<1> QED BY <1>7, <1>8, <1>9

(* The steps of the user.                                                  *)
LEMMA DataUser ==
    ASSUME IInv, IInv', DInv, User
    PROVE  DInv'
BY DataPutCallId, DataUserRequests, DataUserResult, DataUserQuiet, DataUserRead,
   DataDestroyers, DataDestroyCalls DEF User, Callers
-----------------------------------------------------------------------------
(* THE PROXY AND THE SERVER.                                               *)

(* What the client has does not change.                                    *)
Aside ==
    UNCHANGED <<pc, cur, want, got, calls, netlist, flags, chunk, again, ctx, chunks, zero,
                bytes, aborted>>

(* What such a step cannot touch.                                           *)
LEMMA AsideFacts ==
    ASSUME IInv, IInv', DInv, Aside, passed' \subseteq DOMAIN calls, asked' \subseteq asked
    PROVE  /\ Places' /\ Cursor' /\ OneReceive' /\ Receiving' /\ Cancelling'
           /\ Uncancelled' = Uncancelled /\ Have' = Have
<1>1. Places /\ Cursor /\ OneReceive /\ Receiving /\ Cancelling
  BY DEF DInv, Types, Book
<1>2. Places'
  BY <1>1 DEF Aside, Places
<1>3. Cursor'
  BY <1>1, CursorStays DEF Aside
<1>4. OneReceive' /\ Receiving' /\ Cancelling' /\ Uncancelled' = Uncancelled
  BY <1>1 DEF Aside, OneReceive, Receiving, Cancelling, Uncancelled, Outstanding, Unanswered
<1>5. Have' = Have
  BY HaveStays DEF Aside
<1> QED BY <1>2, <1>3, <1>4, <1>5

(* The server has got a message, or closes.                                *)
LEMMA ServerMoves ==
    ASSUME IInv, IInv', DInv, Aside, passed' \subseteq DOMAIN calls,
           UNCHANGED <<asked, replies, retries, lost>>,
           server' \in ServerType,
           server'.relayed = server.relayed, server.sent <= server'.sent,
           Closed => Closed'
    PROVE  DInv'
<1>1. /\ Values /\ Places /\ Contents /\ Cursor /\ OneReply /\ Replied /\ OneReceive
      /\ Receiving /\ Cancelling /\ (Uncancelled => Stream)
  BY DEF DInv, Types, Book
<1>2. Values' /\ Contents'
  BY <1>1 DEF Aside, Values, Contents
<1>3. OneReply' /\ Replied'
  BY <1>1 DEF Aside, OneReply, Replied, Carried, Unanswered, Fits
<1>4. /\ Places' /\ Cursor' /\ OneReceive' /\ Receiving' /\ Cancelling'
      /\ Uncancelled' = Uncancelled /\ Have' = Have
  <2>1. asked' \subseteq asked
    OBVIOUS
  <2> QED BY <2>1, AsideFacts
<1>5. Uncancelled' => Stream'
  <2> SUFFICES ASSUME Uncancelled' PROVE Stream'
    OBVIOUS
  <2>1. Stream
    BY <1>1, <1>4
  <2>2. Complete' = Complete /\ \A x : Brings(x) => Brings(x)'
    BY <1>4 DEF Complete, Brings
  <2>3. Carried' = Carried /\ cur' = cur /\ pc' = pc /\ zero' = zero
    BY DEF Aside, Carried
  <2>4. ASSUME NEW r, OfTheReceive(r) PROVE OfTheReceive(r)'
    <3>1. Unanswered(r)' = Unanswered(r) /\ calls'[r].reply = calls[r].reply
      BY DEF Aside, Unanswered
    <3> QED BY <2>2, <2>3, <2>4, <3>1 DEF OfTheReceive
  <2>5. IF pc'["recv"] \in {"put", "wait"} THEN OfTheReceive(cur["recv"])' ELSE Complete'
    BY <2>1, <2>2, <2>3, <2>4 DEF Stream
  <2>6. server'.relayed <= server'.sent
    <3>1. /\ server.sent \in Nat /\ server'.sent \in Nat /\ server.relayed \in Nat
          /\ server.relayed <= server.sent
      BY <1>1, <2>1 DEF ServerType, Values, Stream
    <3> QED BY <3>1
  <2>7. /\ Have' = First(Len(Have')) /\ Len(Have') <= server'.relayed
        /\ pc'["recv"] \in {"closed", "wake", "exit"} => Closed'
        /\ zero'.inner => pc'["recv"] \in {"wake", "exit"}
    BY <1>4, <2>1, <2>3 DEF Stream
  <2> QED BY <2>5, <2>6, <2>7 DEF Stream, First, OfTheReceive, Complete, Closed, Brings, Unanswered
<1> QED BY <1>2, <1>3, <1>4, <1>5 DEF DInv, Types, Book

(* The server has a message, or closes.                                     *)
LEMMA DataServer ==
    ASSUME IInv, IInv', DInv, Aside, UNCHANGED lost,
           ServerCloses \/ \E id \in asked : ProxyPass(id)
    PROVE  DInv'
<1>1. /\ passed \subseteq DOMAIN calls /\ asked \subseteq DOMAIN calls
      /\ server \in ServerType
  BY DEF DInv, Types, Values, Places
<1>2. CASE ServerCloses
  <2>1. /\ server' = [server EXCEPT !.closed = TRUE] /\ ~server.closed /\ ~server.failed
        /\ UNCHANGED <<asked, passed, replies, retries>>
    BY <1>2 DEF ServerCloses
  <2>2. /\ server' \in ServerType
        /\ server'.relayed = server.relayed /\ server'.sent = server.sent
        /\ server.sent <= server'.sent
    <3>1. PICK s \in Nat : s = server.sent /\ s <= s
      BY <1>1 DEF ServerType
    <3> QED BY <1>1, <2>1, <3>1 DEF ServerType
  <2>3. Closed => Closed'
    BY <2>1 DEF Closed
  <2> QED BY <1>1, <2>1, <2>2, <2>3, ServerMoves
<1>3. ASSUME NEW id \in asked, ProxyPass(id) PROVE DInv'
  <2>1. PICK n \in Nat : n = Answer(Cardinality(passed) + 1)
    <3>1. \A k \in DOMAIN Responses : Responses[k] \in Nat
      BY ResponsesAssumption
    <3> QED BY <3>1 DEF Answer
  <2>2. /\ passed' = passed \cup {id} /\ UNCHANGED <<asked, replies, retries>>
        /\ server' = [server EXCEPT !.sent =
                         IF server.closed \/ server.failed THEN @ ELSE @ + n]
    BY <1>3, <2>1 DEF ProxyPass
  <2>3. PICK s \in Nat : s = server.sent
    BY <1>1 DEF ServerType
  <2>4. server' = [server EXCEPT !.sent =
                      IF server.closed \/ server.failed THEN s ELSE s + n]
    BY <2>2, <2>3
  <2>5. /\ server' \in ServerType
        /\ server'.relayed = server.relayed /\ server.sent <= server'.sent
        /\ server'.closed = server.closed /\ server'.failed = server.failed
        /\ server.closed => server'.sent = server.sent
    BY <1>1, <2>3, <2>4 DEF ServerType
  <2>6. passed' \subseteq DOMAIN calls
    BY <1>1, <2>2
  <2>7. Closed => Closed'
    BY <2>5 DEF Closed
  <2> QED BY <2>2, <2>5, <2>6, <2>7, ServerMoves
<1> QED BY <1>2, <1>3

(* A request is answered: the books.                                       *)
LEMMA BookAnswered ==
    ASSUME IInv, IInv', DInv, Aside, NEW id \in asked, NEW x \in Reply0, x.id = id,
           Fits(x, calls[id].kind), asked' = asked \ {id}, replies' = Append(replies, x),
           passed' = passed
    PROVE  /\ Places' /\ Contents' /\ Cursor' /\ Book'
           /\ Uncancelled' = Uncancelled /\ Have' = Have
           /\ Carried' = Carried \cup {x} /\ \A y \in Carried : y.id # id
           /\ Unanswered(id)
<1>1. /\ Values /\ Places /\ Contents /\ OneReply /\ Replied
  BY DEF DInv, Types, Book
<1>2. /\ Places' /\ Cursor' /\ OneReceive' /\ Receiving' /\ Cancelling'
      /\ Uncancelled' = Uncancelled /\ Have' = Have
  <2>1. asked' \subseteq asked /\ passed' \subseteq DOMAIN calls
    BY <1>1 DEF Places
  <2> QED BY <2>1, AsideFacts
<1>3. /\ Unanswered(id) /\ id \in DOMAIN calls /\ \A y \in Carried : y.id # id
  BY <1>1 DEF OneReply, Places
<1>4. PICK s \in Seq(Reply0) : s = replies
  BY <1>1 DEF Contents
<1>5. PICK t \in Seq(Reply0) :
          t = replies' /\ ToSet(t) = ToSet(s) \cup {x} /\ IdsDistinct(t)
  <2>1. <<x>> \in Seq(Reply0) /\ ToSet(<<x>>) = {x} /\ IdsDistinct(<<x>>)
    BY ElementsOfOne
  <2>2. PICK o \in Seq(Reply0) : o = <<x>> /\ ToSet(o) = {x} /\ IdsDistinct(o)
    BY <2>1
  <2>3. /\ s \o o \in Seq(Reply0) /\ ToSet(s \o o) = ToSet(s) \cup ToSet(o)
        /\ IdsDistinct(s \o o) <=>
              /\ IdsDistinct(s) /\ IdsDistinct(o)
              /\ \A y \in ToSet(s), z \in ToSet(o) : y.id # z.id
    BY ElementsOfConcat
  <2>4. IdsDistinct(s) /\ \A y \in ToSet(s), z \in ToSet(o) : y.id # z.id
    BY <1>1, <1>3, <1>4, <2>2 DEF OneReply, Carried
  <2>5. Append(s, x) = s \o <<x>>
    BY AppendIsConcat
  <2> QED BY <1>4, <2>2, <2>3, <2>4, <2>5
<1>6. Carried' = Carried \cup {x}
  BY <1>4, <1>5 DEF Carried, Aside
<1>7. Contents'
  BY <1>1, <1>5 DEF Aside, Contents
<1>8. OneReply'
  <2>1. IdsDistinct(replies') /\ IdsDistinct(netlist'.list)
    BY <1>1, <1>5 DEF OneReply, Aside
  <2>2. \A y \in ToSet(replies'), z \in ToSet(netlist'.list) : y.id # z.id
    BY <1>1, <1>3, <1>4, <1>5 DEF OneReply, Aside, Carried
  <2>3. \A y \in Carried' : y.id \in DOMAIN calls' /\ Unanswered(y.id)' /\ y.id \notin asked'
    BY <1>1, <1>3, <1>6 DEF OneReply, Aside, Unanswered
  <2>4. \A i \in asked' : Unanswered(i)'
    BY <1>1 DEF OneReply, Aside, Unanswered
  <2> QED BY <2>1, <2>2, <2>3, <2>4 DEF OneReply
<1>9. Replied'
  BY <1>1, <1>6 DEF Replied, Aside, Unanswered, Fits
<1> QED BY <1>2, <1>3, <1>6, <1>7, <1>8, <1>9 DEF Book

(* A call that is no RECV is answered.                                     *)
LEMMA DataProxyReply ==
    ASSUME IInv, IInv', DInv, Aside, UNCHANGED lost, NEW id \in asked, ProxyReply(id)
    PROVE  DInv'
<1>1. /\ Values /\ Contents /\ Receiving /\ (Uncancelled => Stream) /\ id \in Nat
  BY DEF DInv, Types, Book, Places, IInv, Ids
<1>2. PICK ret \in {"ok", "fail"} :
          /\ calls[id].kind # "recv"
          /\ asked' = asked \ {id}
          /\ replies' = Append(replies, [id |-> id, ret |-> ret, data |-> <<>>])
          /\ UNCHANGED <<passed, server, retries>>
  BY DEF ProxyReply, Reply
<1>3. PICK x \in Reply0 : x = [id |-> id, ret |-> ret, data |-> <<>>] /\ x.id = id
                          /\ Fits(x, calls[id].kind)
  <2>1. PICK d \in Seq(Nat) : d = <<>>
    <3>1. <<>> \in Seq(Nat)
      OBVIOUS
    <3> QED BY <3>1
  <2>2. PICK x : x = [id |-> id, ret |-> ret, data |-> d]
    OBVIOUS
  <2>3. x \in Reply0 /\ x.id = id /\ x.data = d /\ x.ret = ret
    BY <1>1, <2>2 DEF Reply0
  <2> QED BY <1>2, <2>1, <2>2, <2>3 DEF Fits
<1>4. /\ Places' /\ Contents' /\ Cursor' /\ Book'
      /\ Uncancelled' = Uncancelled /\ Have' = Have
      /\ Carried' = Carried \cup {x} /\ \A y \in Carried : y.id # id
      /\ Unanswered(id)
  BY <1>2, <1>3, BookAnswered
<1>5. Values'
  BY <1>1, <1>2 DEF Aside, Values
<1>6. Uncancelled' => Stream'
  <2> SUFFICES ASSUME Uncancelled' PROVE Stream'
    OBVIOUS
  <2>1. Stream
    BY <1>1, <1>4
  <2>2. Complete' = Complete /\ Closed' = Closed /\ \A y : Brings(y)' = Brings(y)
    BY <1>2, <1>4 DEF Complete, Closed, Brings
  <2>3. cur' = cur /\ pc' = pc /\ zero' = zero
    BY DEF Aside
  <2>4. ASSUME NEW r, OfTheReceive(r), r # id PROVE OfTheReceive(r)'
    <3>1. Unanswered(r)' = Unanswered(r) /\ calls'[r].reply = calls[r].reply
      BY DEF Aside, Unanswered
    <3>2. \A y : y.id = r => (y \in Carried' <=> y \in Carried)
      BY <1>3, <1>4, <2>4
    <3>3. r \in asked' <=> r \in asked
      BY <1>2, <2>4
    <3> QED BY <2>2, <2>4, <3>1, <3>2, <3>3 DEF OfTheReceive
  <2>5. pc["recv"] \in {"put", "wait"} => cur["recv"] # id
    BY <1>1, <1>2 DEF Receiving
  <2>6. IF pc'["recv"] \in {"put", "wait"} THEN OfTheReceive(cur["recv"])' ELSE Complete'
    BY <2>1, <2>2, <2>3, <2>4, <2>5 DEF Stream
  <2>7. /\ Have' = First(Len(Have')) /\ Len(Have') <= server'.relayed
        /\ server'.relayed <= server'.sent
        /\ pc'["recv"] \in {"closed", "wake", "exit"} => Closed'
        /\ zero'.inner => pc'["recv"] \in {"wake", "exit"}
    BY <1>2, <1>4, <2>1, <2>2, <2>3 DEF Stream
  <2> QED BY <2>6, <2>7 DEF Stream, First, OfTheReceive, Complete, Closed, Brings, Unanswered
<1> QED BY <1>4, <1>5, <1>6 DEF DInv, Types

(* A RECV is answered: it is the one the recv thread waits for.            *)
LEMMA DataProxyRecv ==
    ASSUME IInv, IInv', DInv, Aside, UNCHANGED lost, ~aborted, NEW id \in asked,
           ProxyRecv(id) \/ ProxyRecvFails(id)
    PROVE  DInv'
<1>1. /\ Values /\ Places /\ Contents /\ Cursor /\ Receiving /\ OneReceive
      /\ (Uncancelled => Stream) /\ id \in Nat /\ id \in DOMAIN calls
  BY DEF DInv, Types, Book, Places, IInv, Ids
<1>2. PICK a \in Nat, b \in Nat : a = server.relayed /\ b = server.sent
  BY <1>1 DEF ServerType, Values
<1>3. PICK n \in Nat, ret \in {"data", "closed", "again", "error"} :
          /\ calls[id].kind = "recv" /\ asked' = asked \ {id}
          /\ replies' = Append(replies, [id |-> id, ret |-> ret, data |-> Behind(a, n)])
          /\ server' \in ServerType /\ server'.relayed = a + n /\ server'.sent = b
          /\ a <= b => a + n <= b
          /\ ret = "data" <=> n # 0
          /\ ret \in {"closed", "error"} => Closed'
          /\ retries' \in {retries, retries + 1}
          /\ retries' # retries => retries < MaxRetry
          /\ passed' = passed
  <2>0. calls[id].kind = "recv" /\ passed' = passed
    BY DEF ProxyRecv, ProxyRecvFails
  <2>1. CASE \E n \in 1..(b - a) : /\ Reply(id, "data", [i \in 1..n |-> a + i])
                                   /\ server' = [server EXCEPT !.relayed = @ + n]
                                   /\ UNCHANGED retries
    <3>1. PICK n \in 1..(b - a) : /\ Reply(id, "data", [i \in 1..n |-> a + i])
                                  /\ server' = [server EXCEPT !.relayed = @ + n]
                                  /\ UNCHANGED retries
      BY <2>1
    <3>2. n \in Nat /\ n # 0 /\ a + n <= b
      BY <3>1
    <3>3. /\ asked' = asked \ {id}
          /\ replies' = Append(replies, [id |-> id, ret |-> "data", data |-> Behind(a, n)])
      BY <1>2, <3>1 DEF Reply, Behind
    <3>4. PICK m \in Nat : m = a + n
      BY <3>2
    <3>5. server' = [server EXCEPT !.relayed = m]
      BY <1>2, <3>1, <3>4
    <3>6. server' \in ServerType /\ server'.relayed = m /\ server'.sent = b
      BY <1>1, <1>2, <3>5 DEF Values, ServerType
    <3> QED BY <2>0, <3>1, <3>2, <3>3, <3>4, <3>6
  <2>2. CASE \E ret \in {"closed", "again", "error"} :
                 /\ Reply(id, ret, <<>>)
                 /\ server' = server \/ server' = [server EXCEPT !.failed = TRUE]
                 /\ ret \in {"closed", "error"} => Closed'
                 /\ retries' \in {retries, retries + 1} /\ (retries' # retries => retries < MaxRetry)
    <3>1. PICK ret \in {"closed", "again", "error"} :
                 /\ Reply(id, ret, <<>>)
                 /\ server' = server \/ server' = [server EXCEPT !.failed = TRUE]
                 /\ ret \in {"closed", "error"} => Closed'
                 /\ retries' \in {retries, retries + 1} /\ (retries' # retries => retries < MaxRetry)
      BY <2>2
    <3>2. 0 \in Nat /\ a + 0 = a /\ Behind(a, 0) = <<>>
      BY NoPiece
    <3>3. server' \in ServerType /\ server'.relayed = a /\ server'.sent = b
      BY <1>1, <1>2, <3>1 DEF Values, ServerType
    <3>4. /\ asked' = asked \ {id}
          /\ replies' = Append(replies, [id |-> id, ret |-> ret, data |-> Behind(a, 0)])
      BY <3>1, <3>2 DEF Reply
    <3> QED BY <2>0, <3>1, <3>2, <3>3, <3>4
  <2>3. CASE ProxyRecv(id)
    <3>1. CASE server.closed /\ server.sent = server.relayed /\ Reply(id, "closed", <<>>)
               /\ UNCHANGED <<server, retries>>
      <4>1. Closed'
        BY <3>1 DEF Closed
      <4> QED BY <2>2, <3>1, <4>1
    <3>2. CASE retries < MaxRetry /\ Reply(id, "again", <<>>) /\ retries' = retries + 1
               /\ UNCHANGED server
      BY <2>2, <3>2
    <3> QED BY <1>2, <2>1, <2>3, <3>1, <3>2 DEF ProxyRecv
  <2>4. CASE ProxyRecvFails(id)
    <3>1. /\ Reply(id, "error", <<>>) /\ server' = [server EXCEPT !.failed = TRUE]
          /\ retries' = retries
      BY <2>4 DEF ProxyRecvFails
    <3>2. Closed'
      BY <1>1, <3>1 DEF Closed, Values, ServerType
    <3> QED BY <2>2, <3>1, <3>2
  <2> QED BY <2>3, <2>4
<1>4. PICK x \in Reply0 :
          /\ x = [id |-> id, ret |-> ret, data |-> Behind(a, n)]
          /\ x.id = id /\ x.data = Behind(a, n) /\ x.ret = ret
          /\ Fits(x, "recv")
  <2>1. Behind(a, n) \in Seq(Nat) /\ (Behind(a, n) # <<>> <=> n # 0)
    <3>1. Behind(a, n) \in Seq(Nat) /\ Len(Behind(a, n)) = n
      BY PieceType
    <3> QED BY <3>1, EmptySeq
  <2>2. PICK d \in Seq(Nat) : d = Behind(a, n)
    BY <2>1
  <2>3. PICK x : x = [id |-> id, ret |-> ret, data |-> d]
    OBVIOUS
  <2>4. x \in Reply0 /\ x.id = id /\ x.data = d /\ x.ret = ret
    BY <1>1, <2>3 DEF Reply0
  <2>5. Fits(x, "recv")
    BY <1>3, <2>1, <2>2, <2>4 DEF Fits
  <2> QED BY <2>2, <2>3, <2>4, <2>5
<1>5. /\ Places' /\ Contents' /\ Cursor' /\ Book'
      /\ Uncancelled' = Uncancelled /\ Have' = Have
      /\ Carried' = Carried \cup {x} /\ \A y \in Carried : y.id # id
      /\ Unanswered(id)
  <2>1. Fits(x, calls[id].kind) /\ replies' = Append(replies, x)
    BY <1>3, <1>4
  <2> QED BY <1>3, <1>4, <2>1, BookAnswered
<1>6. Values'
  <2>1. server' \in ServerType
    BY <1>3
  <2>2. retries' \in 0..MaxRetry
    BY <1>1, <1>3, MaxRetryAssumption, SMTT(40) DEF Values
  <2> QED BY <1>1, <2>1, <2>2 DEF Aside, Values
<1>7. Uncancelled' => Stream'
  <2> SUFFICES ASSUME Uncancelled' PROVE Stream'
    OBVIOUS
  <2>1. Stream /\ Outstanding(id)
    BY <1>1, <1>3, <1>5 DEF OneReceive
  <2>2. /\ pc["recv"] \in {"put", "wait"} /\ cur["recv"] = id
        /\ pc' = pc /\ cur' = cur /\ zero' = zero
    BY <2>1 DEF Outstanding, Aside
  <2>3. Complete
    BY <2>1, <2>2 DEF Stream, OfTheReceive
  <2>4. /\ server'.relayed = a + n /\ server'.sent = b
        /\ Len(Have) = a /\ a + n <= b /\ a <= a + n /\ (a + n) - a = n
    <3>1. PICK m \in Nat : m = a + n /\ a <= m /\ m - a = n
      OBVIOUS
    <3>2. Len(Have) = a
      BY <1>2, <2>3 DEF Complete
    <3>3. a + n <= b
      BY <1>2, <1>3, <2>1 DEF Stream
    <3> QED BY <1>3, <3>1, <3>2, <3>3
  <2>5. Brings(x)'
    <3>1. ret \in {"closed", "error"} => Closed'
      BY <1>3
    <3> QED BY <1>4, <1>5, <2>4, <3>1 DEF Brings, Behind, Closed
  <2>6. OfTheReceive(id)'
    <3>1. id \notin asked' /\ Unanswered(id)'
      BY <1>3, <1>5 DEF Aside, Unanswered
    <3>2. \A y \in Carried' : y.id = id => y = x
      BY <1>5
    <3>3. x \in Carried' /\ x.id = id
      BY <1>4, <1>5
    <3> QED BY <2>5, <3>1, <3>2, <3>3 DEF OfTheReceive
  <2>7. OfTheReceive(cur["recv"])'
    BY <2>2, <2>6 DEF OfTheReceive, Unanswered
  <2>8. /\ Have' = First(Len(Have')) /\ Len(Have') <= server'.relayed
        /\ server'.relayed <= server'.sent
        /\ pc'["recv"] \notin {"closed", "wake", "exit"} /\ ~zero'.inner
    BY <1>5, <2>1, <2>2, <2>4 DEF Stream
  <2> QED BY <2>2, <2>7, <2>8 DEF Stream, First, OfTheReceive, Complete, Closed, Brings, Unanswered
<1> QED BY <1>5, <1>6, <1>7 DEF DInv, Types

(* The steps of the proxy and of the server.                               *)
LEMMA DataProxy ==
    ASSUME IInv, IInv', DInv, ~aborted, Proxy
    PROVE  DInv'
<1>1. Aside /\ UNCHANGED lost
  BY DEF Proxy, Aside, userVars, callVars, recvVars
<1>2. ServerCloses \/ \E id \in asked :
          ProxyPass(id) \/ ProxyReply(id) \/ ProxyRecv(id) \/ ProxyRecvFails(id)
  BY DEF Proxy, ProxyAnswers
<1> QED BY <1>1, <1>2, DataServer, DataProxyReply, DataProxyRecv

(* The first elements of a sequence.                                       *)
LEMMA FirstElements ==
    ASSUME NEW R, NEW s \in Seq(R), NEW n \in 0..Len(s)
    PROVE  /\ SubSeq(s, 1, n) \in Seq(R) /\ ToSet(SubSeq(s, 1, n)) \subseteq ToSet(s)
           /\ IdsDistinct(s) => IdsDistinct(SubSeq(s, 1, n))
<1>1. PICK m \in Nat, p \in Nat : m = Len(s) /\ p = n /\ p <= m
  BY LenProperties
<1>2. PICK t \in Seq(R) : /\ t = SubSeq(s, 1, p) /\ Len(t) = p
                         /\ \A i \in 1..p : t[i] = s[i]
  <2>1. 0 \in Nat /\ 0 <= p /\ 0 + 1 = 1 /\ p - 0 = p /\ \A i \in 1..p : 0 + i = i
    OBVIOUS
  <2>2. p <= Len(s)
    BY <1>1
  <2>3. /\ SubSeq(s, 0 + 1, p) \in Seq(R) /\ Len(SubSeq(s, 0 + 1, p)) = p - 0
        /\ \A i \in 1..(p - 0) : SubSeq(s, 0 + 1, p)[i] = s[0 + i]
    BY <2>1, <2>2, PartOf
  <2> QED BY <2>1, <2>3
<1>3. DOMAIN t = 1..p /\ DOMAIN s = 1..m /\ 1..p \subseteq 1..m
  BY <1>1, <1>2, LenProperties
<1>4. ToSet(t) \subseteq ToSet(s)
  BY <1>2, <1>3 DEF ToSet
<1>5. IdsDistinct(s) => IdsDistinct(t)
  BY <1>2, <1>3 DEF IdsDistinct
<1> QED BY <1>1, <1>2, <1>4, <1>5

(* The connection is lost, and with it requests and replies.               *)
LEMMA DataLose ==
    ASSUME IInv, IInv', DInv, Lose
    PROVE  DInv'
<1>1. /\ Values /\ Places /\ Contents /\ OneReply /\ Replied /\ (Uncancelled => Stream)
  BY DEF DInv, Types, Book
<1>2. Aside /\ UNCHANGED <<passed, server, retries>> /\ lost' = TRUE /\ asked' = {}
  BY DEF Lose, Aside, userVars, callVars, recvVars
<1>3. PICK s \in Seq(Reply0) : s = replies
  BY <1>1 DEF Contents
<1>4. PICK t \in Seq(Reply0) :
          t = replies' /\ ToSet(t) \subseteq ToSet(s) /\ (IdsDistinct(s) => IdsDistinct(t))
  <2>1. PICK n \in 0..Len(s) : replies' = SubSeq(s, 1, n)
    BY <1>3 DEF Lose
  <2> QED BY <2>1, FirstElements
<1>5. Carried' \subseteq Carried
  BY <1>2, <1>3, <1>4 DEF Carried, Aside
<1>6. Values' /\ Contents'
  BY <1>1, <1>2, <1>4 DEF Aside, Values, Contents
<1>7. OneReply'
  <2>1. IdsDistinct(replies') /\ IdsDistinct(netlist'.list)
    BY <1>1, <1>2, <1>3, <1>4 DEF OneReply, Aside
  <2>2. \A y \in ToSet(replies'), z \in ToSet(netlist'.list) : y.id # z.id
    BY <1>1, <1>2, <1>3, <1>4 DEF OneReply, Aside
  <2>3. \A y \in Carried' : y.id \in DOMAIN calls' /\ Unanswered(y.id)' /\ y.id \notin asked'
    BY <1>1, <1>2, <1>5 DEF OneReply, Aside, Unanswered
  <2>4. \A i \in asked' : Unanswered(i)'
    BY <1>2
  <2> QED BY <2>1, <2>2, <2>3, <2>4 DEF OneReply
<1>8. Replied'
  BY <1>1, <1>2, <1>5 DEF Replied, Aside, Unanswered, Fits
<1>9. /\ Places' /\ Cursor' /\ OneReceive' /\ Receiving' /\ Cancelling'
      /\ Uncancelled' = Uncancelled /\ Have' = Have
  <2>1. asked' \subseteq asked /\ passed' \subseteq DOMAIN calls
    BY <1>1, <1>2 DEF Places
  <2> QED BY <1>2, <2>1, AsideFacts
<1>10. Uncancelled' => Stream'
  <2> SUFFICES ASSUME Uncancelled' PROVE Stream'
    OBVIOUS
  <2>1. Stream
    BY <1>1, <1>9
  <2>2. Complete' = Complete /\ Closed' = Closed /\ \A y : Brings(y)' = Brings(y)
    BY <1>2, <1>9 DEF Complete, Closed, Brings
  <2>3. cur' = cur /\ pc' = pc /\ zero' = zero
    BY <1>2 DEF Aside
  <2>4. ASSUME NEW r, OfTheReceive(r) PROVE OfTheReceive(r)'
    <3>1. Unanswered(r)' = Unanswered(r) /\ calls'[r].reply = calls[r].reply
      BY <1>2 DEF Aside, Unanswered
    <3> QED BY <1>2, <1>5, <2>2, <2>4, <3>1 DEF OfTheReceive
  <2>5. IF pc'["recv"] \in {"put", "wait"} THEN OfTheReceive(cur["recv"])' ELSE Complete'
    BY <2>1, <2>2, <2>3, <2>4 DEF Stream
  <2>6. /\ Have' = First(Len(Have')) /\ Len(Have') <= server'.relayed
        /\ server'.relayed <= server'.sent
        /\ pc'["recv"] \in {"closed", "wake", "exit"} => Closed'
        /\ zero'.inner => pc'["recv"] \in {"wake", "exit"}
    BY <1>2, <1>9, <2>1, <2>2, <2>3 DEF Stream
  <2> QED BY <2>5, <2>6 DEF Stream, First, OfTheReceive, Complete, Closed, Brings, Unanswered
<1> QED BY <1>6, <1>7, <1>8, <1>9, <1>10 DEF DInv, Types, Book

(* The invariant holds initially.                                           *)
LEMMA DInvInit == Init => DInv
<1> SUFFICES ASSUME Init PROVE DInv
  OBVIOUS
<1>0. <<>> \in Seq(Nat) /\ <<>> \in Seq(Reply0) /\ <<>> \in Seq(Stored) /\ Len(<<>>) = 0
  OBVIOUS
<1>1. Values
  <2>1. 0 \in 0..MaxRetry /\ 0 \in Nat
    BY MaxRetryAssumption
  <2>2. /\ want = 0 /\ again = FALSE /\ chunks = 0 /\ retries = 0
        /\ lost = FALSE /\ aborted = FALSE
        /\ flags = [waitOperationCompleted |-> TRUE, waitNextCallId |-> TRUE,
                    valid |-> TRUE, recvAgain |-> TRUE]
        /\ zero = [inner |-> FALSE, outer |-> FALSE]
        /\ bytes = [recv |-> 0, minimal |-> 0]
        /\ server = [sent |-> 0, relayed |-> 0, closed |-> FALSE, failed |-> FALSE]
    BY DEF Init
  <2> QED BY <2>1, <2>2 DEF Values, ServerType
<1>2. calls = <<>> /\ DOMAIN calls = {} /\ Len(calls) = 0
  BY DEF Init
<1>3. Places
  BY <1>2 DEF Init, Places
<1>4. ctx \in RecvContext /\ netlist.list = <<>> /\ netlist = [list |-> netlist.list, info |-> netlist.info]
  <2>1. PICK s \in Seq(Stored), d \in Seq(Nat) : s = <<>> /\ d = <<>>
    BY <1>0
  <2>2. ctx = [list |-> s, info |-> [data |-> d, offset |-> 0, prev |-> 0, valid |-> FALSE]]
    BY <2>1 DEF Init, EmptyRecvCtx, Info
  <2> QED BY <2>2, ContextType DEF Init, EmptyRecvCtx
<1>5. Contents
  BY <1>0, <1>4 DEF Init, Contents
<1>6. ctx.list = <<>> /\ ctx.info.prev = 0 /\ ctx.info.valid = FALSE /\ chunks = 0
  BY DEF Init, EmptyRecvCtx, Info
<1>7. Cursor
  <2>1. PICK n \in Nat : n = Len(ctx.list) /\ n = 0
    BY <1>0, <1>6
  <2>2. 0 <= 0 /\ 0 - 0 = 0 /\ \A i \in 1..0 : FALSE
    OBVIOUS
  <2> QED BY <1>6, <2>1, <2>2 DEF Cursor
<1>8. Carried = {} /\ asked = {}
  BY <1>4 DEF Init, Carried, ToSet
<1>9. OneReply
  BY <1>4, <1>8 DEF Init, OneReply, IdsDistinct, Carried
<1>10. pc["user"] = "run" /\ pc["net"] = "start" /\ pc["recv"] = "off"
  BY DEF Init, Threads
<1>11. Book
  <2>1. Replied /\ OneReceive
    BY <1>2, <1>8, <1>10 DEF Replied, OneReceive
  <2>2. Receiving /\ Cancelling
    BY <1>10 DEF Receiving, Cancelling, Uncancelled, Init
  <2> QED BY <1>9, <2>1, <2>2 DEF Book
<1>12. Have = <<>> /\ Len(Have) = 0
  <2>1. Unread = <<>> /\ Chunk = <<>> /\ got = <<>>
    BY <1>6, <1>10, DataOfNone DEF Unread, Chunk, Init
  <2>2. <<>> \o <<>> = <<>>
    BY <1>0, ConcatEmptySeq
  <2> QED BY <1>0, <2>1, <2>2 DEF Have
<1>13. Stream
  <2>1. First(0) = <<>>
    <3>1. First(0) \in Seq(Nat) /\ Len(First(0)) = 0
      BY PieceType
    <3> QED BY <3>1, EmptySeq
  <2>2. server.sent = 0 /\ server.relayed = 0 /\ zero.inner = FALSE
    BY DEF Init
  <2> QED BY <1>10, <1>12, <2>1, <2>2 DEF Stream, Complete
<1> QED BY <1>1, <1>3, <1>5, <1>7, <1>11, <1>13 DEF DInv, Types

(* Every step preserves it.                                                 *)
LEMMA DInvNext == IInv /\ IInv' /\ DInv /\ [Next]_vars => DInv'
<1> SUFFICES ASSUME IInv, IInv', DInv, [Next]_vars PROVE DInv'
  OBVIOUS
<1>1. CASE UNCHANGED vars
  BY <1>1, DataStutters
<1>2. CASE Next
  BY <1>1, <1>2, DataUser, DataSendThread, DataRecvThread, DataNetThread, DataProxy, DataLose
     DEF Next, Finished
<1> QED BY <1>1, <1>2

(* The bytes of the server's stream and the replies that bring them, in    *)
(* every reachable state (process_recv, BridgeSocketOnMessage).            *)
THEOREM StreamOfTheProxy == Spec => []DInv
<1>1. Init => DInv
  BY DInvInit
<1>2. IInv /\ IInv' /\ DInv /\ [Next]_vars => DInv'
  BY DInvNext
<1>3. Spec => []IInv
  BY Ownership
<1> QED BY <1>1, <1>2, <1>3, PTL DEF Spec

(* The end of the stream shows when all bytes that the proxy has passed on *)
(* are stored, and these are all the server's unless the proxy's           *)
(* connection to it has failed (recv_zero of process_recv and recv3).      *)
THEOREM TheEndComesLast == Spec => []EndIsTheEnd
<1>1. DInv => EndIsTheEnd
  <2> SUFFICES ASSUME DInv, pc["user"] \in {"run", "read"}, zero.inner
               PROVE  Closed /\ Len(got \o Unread) = server.relayed
    BY DEF EndIsTheEnd, Closed
  <2>1. Values /\ Contents /\ Cursor /\ Cancelling /\ (Uncancelled => Stream)
    BY DEF DInv, Types, Book
  <2>2. Stream
    BY <2>1 DEF Cancelling
  <2>3. pc["recv"] \in {"wake", "exit"}
    BY <2>2 DEF Stream
  <2>4. Closed /\ Complete /\ Chunk = <<>>
    BY <2>2, <2>3 DEF Stream, Chunk
  <2>5. Have = got \o Unread
    <3>1. PICK a \in Seq(Nat) : a = got \o Unread
      BY <2>1, HaveType
    <3>2. a \o <<>> = a
      BY ConcatEmptySeq
    <3> QED BY <2>4, <3>1, <3>2 DEF Have
  <2> QED BY <2>4, <2>5 DEF Closed, Complete
<1> QED BY <1>1, StreamOfTheProxy, PTL

(* An exception leaves a thread only when the connection is lost.          *)
LEMMA AbortedIsLost == Spec => [](aborted => lost)
<1>1. Init => (aborted => lost)
  BY DEF Init
<1>2. (aborted => lost) /\ [Next]_vars => (aborted => lost)'
  <2> SUFFICES ASSUME aborted => lost, [Next]_vars, aborted' PROVE lost'
    OBVIOUS
  <2>1. CASE UNCHANGED vars
    BY <2>1 DEF vars, proxyVars
  <2>2. CASE Lose
    BY <2>2 DEF Lose
  <2>3. CASE Proxy
    BY <2>3 DEF Proxy
  <2>4. CASE NetThread
    BY <2>4 DEF NetThread, NetStart, NetNext, NetRead, NetReadFails, NetMatch, NetComplete, proxyVars
  <2>5. CASE SendThread
    BY <2>5 DEF SendThread, PutCallId, SendGet, SendAcknowledged, proxyVars
  <2>6. CASE RecvThread
    BY <2>6 DEF RecvThread, PutCallId, RecvRequest, RecvRequestThrows, RecvResult, RecvCancelled,
                RecvStore, RecvCount, RecvClosed, proxyVars
  <2>7. CASE User
    BY <2>7 DEF User, PutCallId, UserCall, UserResult, UserSend, UserSendList, UserAwait, UserRecv,
                UserRead, DestroySend, DestroyRecv, DestroyNet, DestroyCalls, proxyVars
  <2>8. CASE Finished
    BY <2>8 DEF Finished, vars, proxyVars
  <2> QED BY <2>1, <2>2, <2>3, <2>4, <2>5, <2>6, <2>7, <2>8 DEF Next
<1> QED BY <1>1, <1>2, PTL DEF Spec

(* The bytes of replies of which one call's only may have bytes.           *)
LEMMA DataOfReplies ==
    ASSUME NEW s \in Seq(Reply0), IdsDistinct(s), NEW r,
           \A x \in ToSet(s) : x.id # r => x.data = <<>>
    PROVE  /\ (\A x \in ToSet(s) : x.id # r) => DataOf(s) = <<>>
           /\ \A x \in ToSet(s) : x.id = r => DataOf(s) = x.data
<1>1. \A x \in Reply0 : x.data \in Seq(Nat)
  BY DEF Reply0
<1>2. \A i \in 1..Len(s) : s[i] \in ToSet(s)
  BY ElementsOf
<1>3. ASSUME \A x \in ToSet(s) : x.id # r PROVE DataOf(s) = <<>>
  <2>1. \A i \in 1..Len(s) : i # 0 => s[i].data = <<>>
    BY <1>2, <1>3
  <2>2. 0 \in Nat /\ 0 \notin 1..Len(s)
    OBVIOUS
  <2> QED BY <1>1, <2>1, <2>2, DataOfSingle
<1>4. ASSUME NEW x \in ToSet(s), x.id = r PROVE DataOf(s) = x.data
  <2>1. PICK k \in 1..Len(s) : x = s[k]
    BY ElementsOf
  <2>2. DOMAIN s = 1..Len(s) /\ k \in Nat
    BY LenProperties
  <2>3. \A i \in 1..Len(s) : i # k => s[i].data = <<>>
    BY <1>2, <1>4, <2>1, <2>2 DEF IdsDistinct
  <2>4. DataOf(s) = s[k].data
    BY <1>1, <2>2, <2>3, DataOfSingle
  <2> QED BY <2>1, <2>4
<1> QED BY <1>3, <1>4

(* Nothing before or behind bytes.                                          *)
LEMMA ConcatNone ==
    \A a \in Seq(Nat) : <<>> \o a = a /\ a \o <<>> = a /\ <<>> \in Seq(Nat)
BY ConcatEmptySeq

(* No byte is lost before the destructor cancels the receive: each is with *)
(* the user, in the receive context, or under way to it, once and in the   *)
(* server's order, for all programs, answers and orders of the replies     *)
(* (do_recv, PutToRecvProxyCtx, RecvFromRecvProxyCtx).                     *)
THEOREM NoByteOfTheServerIsLost == Spec => []NoByteLost
<1>1. IInv /\ DInv /\ (aborted => lost) => NoByteLost
  <2> SUFFICES ASSUME IInv, DInv, aborted => lost, ~lost, Uncancelled
               PROVE  got \o Unread \o UnderWay = First(server.relayed)
    BY DEF NoByteLost, Uncancelled, First
  <2>1. /\ Values /\ Places /\ Contents /\ Cursor /\ OneReply /\ Replied /\ OneReceive
        /\ Receiving /\ Stream /\ ~aborted
    BY DEF DInv, Types, Book
  <2>2. PICK s \in Seq(Reply0), t \in Seq(Reply0) : s = netlist.list /\ t = replies
    BY <2>1 DEF Contents
  <2>3. /\ IdsDistinct(s) /\ IdsDistinct(t) /\ Carried = ToSet(t) \cup ToSet(s)
        /\ \A x \in ToSet(t), y \in ToSet(s) : x.id # y.id
    BY <2>1, <2>2 DEF OneReply, Carried
  <2>4. PICK a \in Seq(Nat), c \in Seq(Nat), h \in Nat, n \in Nat, b \in Nat :
            /\ a = got \o Unread /\ c = Chunk /\ h = Len(Have) /\ n = server.relayed
            /\ h <= n /\ b = n - h
    <3>1. /\ got \o Unread \in Seq(Nat) /\ Chunk \in Seq(Nat) /\ Len(Have) \in Nat
          /\ server.relayed \in Nat /\ Len(Have) <= server.relayed
      BY <2>1, HaveType DEF ServerType, Values, Stream
    <3>2. server.relayed - Len(Have) \in Nat
      BY <3>1
    <3> QED BY <3>1, <3>2
  <2>5. Have = a \o c /\ Have = First(h)
    BY <2>1, <2>4 DEF Have, Stream
  <2>6. \A x \in Carried : ~Outstanding(x.id) => x.data = <<>>
    <3> SUFFICES ASSUME NEW x \in Carried, ~Outstanding(x.id) PROVE x.data = <<>>
      OBVIOUS
    <3>1. x.id \in DOMAIN calls /\ Unanswered(x.id) /\ Fits(x, calls[x.id].kind)
      BY <2>1 DEF OneReply, Replied
    <3>2. calls[x.id].kind # "recv"
      BY <2>1, <3>1 DEF OneReceive
    <3> QED BY <3>1, <3>2 DEF Fits
  <2>7. CASE pc["recv"] \notin {"put", "wait"}
    <3>1. \A x \in ToSet(s) \cup ToSet(t) : x.data = <<>>
      BY <2>3, <2>6, <2>7 DEF Outstanding
    <3>2. /\ \A x \in ToSet(s) : x.id # 0 /\ x.data = <<>>
          /\ \A x \in ToSet(t) : x.id # 0 /\ x.data = <<>>
      <4>1. 0 \notin DOMAIN calls
        BY CallsFacts DEF IInv
      <4> QED BY <2>1, <2>3, <3>1, <4>1 DEF OneReply
    <3>3. DataOf(s) = <<>> /\ DataOf(t) = <<>>
      BY <2>3, <3>2, DataOfReplies
    <3>4. UnderWay = (c \o <<>>) \o <<>>
      BY <2>2, <2>4, <2>7, <3>3 DEF UnderWay, Chunk
    <3>5. UnderWay = c
      BY <3>4, ConcatNone
    <3>6. h = n
      BY <2>1, <2>4, <2>7 DEF Stream, Complete
    <3> QED BY <2>4, <2>5, <3>5, <3>6
  <2>8. CASE pc["recv"] \in {"put", "wait"}
    <3>1. PICK r : r = cur["recv"] /\ r \in DOMAIN calls
      BY <2>8, ReceiveOf DEF Outstanding
    <3>2. \A x \in ToSet(s) \cup ToSet(t) : x.id # r => x.data = <<>>
      BY <2>3, <2>6, <3>1 DEF Outstanding
    <3>3. c = <<>> /\ a = First(h)
      <4>1. c = <<>>
        BY <2>4, <2>8 DEF Chunk
      <4>2. a \o <<>> = a
        BY ConcatNone
      <4> QED BY <2>5, <4>1, <4>2
    <3>4. /\ OfTheReceive(r)
          /\ \A x : Brings(x) => x.data = Behind(h, b)
          /\ Complete => b = 0
      BY <2>1, <2>4, <2>8, <3>1 DEF Stream, Brings, Complete
    <3>5. UnderWay = (calls[r].reply.data \o DataOf(s)) \o DataOf(t)
      BY <2>2, <2>8, <3>1 DEF UnderWay
    <3>6. PICK e \in Seq(Nat) : e = Behind(h, b)
      BY PieceType
    <3>7. UnderWay = e
      <4>1. CASE ~Unanswered(r)
        <5>1. \A x \in ToSet(s) \cup ToSet(t) : x.id # r
          BY <2>1, <2>3, <4>1 DEF OneReply
        <5>2. DataOf(s) = <<>> /\ DataOf(t) = <<>>
          BY <2>3, <3>2, <5>1, DataOfReplies
        <5>3. calls[r].reply.data = e
          BY <3>4, <3>6, <4>1 DEF OfTheReceive
        <5> QED BY <3>5, <5>2, <5>3, ConcatNone
      <4>2. CASE Unanswered(r) /\ r \in asked
        <5>1. \A x \in ToSet(s) \cup ToSet(t) : x.id # r
          BY <2>1, <2>3, <4>2 DEF OneReply
        <5>2. DataOf(s) = <<>> /\ DataOf(t) = <<>>
          BY <2>3, <3>2, <5>1, DataOfReplies
        <5>3. calls[r].reply.data = <<>>
          BY <4>2 DEF Unanswered, NoReply
        <5>4. e = <<>>
          BY <3>4, <3>6, <4>2, NoPiece DEF OfTheReceive
        <5> QED BY <3>5, <5>2, <5>3, <5>4, ConcatNone
      <4>3. CASE Unanswered(r) /\ r \notin asked
        <5>1. calls[r].reply.data = <<>>
          BY <4>3 DEF Unanswered, NoReply
        <5>2. PICK x \in Carried : x.id = r /\ x.data = e
          BY <3>4, <3>6, <4>3 DEF OfTheReceive
        <5>3. CASE x \in ToSet(s)
          <6>1. \A y \in ToSet(t) : y.id # r
            BY <2>3, <5>2, <5>3
          <6>2. DataOf(s) = e /\ DataOf(t) = <<>>
            BY <2>3, <3>2, <5>2, <5>3, <6>1, DataOfReplies
          <6> QED BY <3>5, <5>1, <6>2, ConcatNone
        <5>4. CASE x \in ToSet(t)
          <6>1. \A y \in ToSet(s) : y.id # r
            BY <2>3, <5>2, <5>4
          <6>2. DataOf(t) = e /\ DataOf(s) = <<>>
            BY <2>3, <3>2, <5>2, <5>4, <6>1, DataOfReplies
          <6> QED BY <3>5, <5>1, <6>2, ConcatNone
        <5> QED BY <2>3, <5>3, <5>4
      <4> QED BY <4>1, <4>2, <4>3
    <3>8. h + b = n
      BY <2>4
    <3>9. First(h) \o Behind(h, b) = First(h + b)
      BY PiecesMeet
    <3> QED BY <2>4, <3>3, <3>6, <3>7, <3>8, <3>9
  <2> QED BY <2>7, <2>8
<1> QED BY <1>1, Ownership, StreamOfTheProxy, AbortedIsLost, PTL
-----------------------------------------------------------------------------
(* WAITING FOR AN ANSWER.  What is counted is what was counted when the    *)
(* last message set minimal_bytes, and recv_bytes.  That the former are no *)
(* bytes of that message's own answer needs a bound from another side:     *)
(* what the client has, the server has sent (Stream), and the server       *)
(* answers only messages that were sent (OnlyAnswers).                     *)

(* AnswersTo is a running sum.                                             *)
LEMMA AnswersToDef ==
    \E f : /\ IsRunningSum(f, Responses, Len(Responses))
           /\ \A k \in Nat : AnswersTo(k) = f[MinOf(k, Len(Responses))]
<1> DEFINE f == CHOOSE g : IsRunningSum(g, Responses, Len(Responses))
<1>1. Len(Responses) \in Nat
  BY ResponsesAssumption, LenProperties
<1>2. IsRunningSum(f, Responses, Len(Responses))
  BY <1>1, RunningSumExists
<1>3. \A k : AnswersTo(k) = f[MinOf(k, Len(Responses))]
  BY DEF AnswersTo, IsRunningSum
<1> HIDE DEF f
<1> QED BY <1>2, <1>3

(* The answers to one more message.                                        *)
LEMMA AnswersFacts ==
    /\ AnswersTo(0) = 0
    /\ \A k \in Nat : AnswersTo(k) \in Nat
    /\ \A k \in Nat : Answer(k) \in Nat
    /\ \A k \in Nat : AnswersTo(k + 1) = AnswersTo(k) + Answer(k + 1)
<1>1. PICK n \in Nat : n = Len(Responses)
  BY ResponsesAssumption, LenProperties
<1>2. PICK f : /\ IsRunningSum(f, Responses, n)
               /\ \A k \in Nat : AnswersTo(k) = f[MinOf(k, n)]
  BY <1>1, AnswersToDef
<1>3. DOMAIN Responses = 1..n /\ \A i \in 1..n : Responses[i] \in Nat
  BY <1>1, ResponsesAssumption, LenProperties, ElementOfSeq
<1>4. /\ f[0] = 0
      /\ \A i \in 1..n : f[i] = f[i - 1] + Responses[i]
      /\ \A i \in 0..n : f[i] \in Nat
  BY <1>2, <1>3, RunningSumStep
<1>5. \A k \in Nat : k <= n => AnswersTo(k) = f[k] /\ k \in 0..n
  BY <1>2 DEF MinOf
<1>6. \A k \in Nat : ~(k <= n) => AnswersTo(k) = f[n] /\ k \notin 1..n
  BY <1>2 DEF MinOf
<1>7. f[n] \in Nat
  BY <1>4
<1>8. ASSUME NEW k \in Nat PROVE AnswersTo(k) \in Nat /\ Answer(k) \in Nat
  <2>1. Answer(k) \in Nat
    BY <1>3 DEF Answer
  <2> QED BY <2>1, <1>4, <1>5, <1>6, <1>7
<1>9. ASSUME NEW k \in Nat PROVE AnswersTo(k + 1) = AnswersTo(k) + Answer(k + 1)
  <2>1. PICK m \in Nat : m = k + 1
    OBVIOUS
  <2>2. CASE k + 1 <= n
    <3>1. k <= n /\ m <= n /\ m \in 1..n /\ m - 1 = k
      BY <2>1, <2>2
    <3>2. Answer(m) = Responses[m]
      BY <3>1, <1>3 DEF Answer
    <3>3. AnswersTo(m) = f[m] /\ AnswersTo(k) = f[k]
      BY <3>1, <1>5
    <3>4. f[m] = f[k] + Responses[m]
      BY <3>1, <1>4
    <3> QED BY <2>1, <3>2, <3>3, <3>4
  <2>3. CASE ~(k + 1 <= n)
    <3>1. ~(m <= n) /\ m \notin 1..n
      BY <2>1, <2>3
    <3>2. Answer(m) = 0
      BY <3>1, <1>3 DEF Answer
    <3>3. AnswersTo(m) = f[n]
      BY <3>1, <1>6
    <3>4. AnswersTo(k) = f[n]
      <4>1. CASE k <= n
        <5>1. k = n
          BY <2>3, <4>1
        <5> QED BY <5>1, <4>1, <1>5
      <4>2. CASE ~(k <= n)
        BY <4>2, <1>6
      <4> QED BY <4>1, <4>2
    <3> QED BY <2>1, <3>2, <3>3, <3>4, <1>7
  <2> QED BY <2>2, <2>3
<1>10. AnswersTo(0) = 0
  <2>1. 0 <= n
    BY <1>1
  <2> QED BY <2>1, <1>4, <1>5
<1> QED BY <1>8, <1>9, <1>10

(* More messages, more bytes.                                              *)
LEMMA AnswersGrow ==
    ASSUME NEW j \in Nat, NEW k \in Nat, j <= k
    PROVE  AnswersTo(j) <= AnswersTo(k)
<1> DEFINE T == {d \in Nat : AnswersTo(j) <= AnswersTo(j + d)}
<1>1. 0 \in T
  <2>1. j + 0 = j /\ AnswersTo(j) \in Nat
    BY AnswersFacts
  <2> QED BY <2>1
<1>2. ASSUME NEW d \in T PROVE d + 1 \in T
  <2>1. PICK m \in Nat : m = j + d
    OBVIOUS
  <2>2. AnswersTo(m + 1) = AnswersTo(m) + Answer(m + 1)
    BY AnswersFacts
  <2>3. AnswersTo(m) \in Nat /\ Answer(m + 1) \in Nat /\ AnswersTo(j) \in Nat
    BY AnswersFacts
  <2>4. AnswersTo(j) <= AnswersTo(m)
    BY <2>1
  <2>5. AnswersTo(j) <= AnswersTo(m + 1)
    BY <2>2, <2>3, <2>4
  <2>6. m + 1 = j + (d + 1)
    BY <2>1
  <2> QED BY <2>5, <2>6
<1>3. T = Nat
  <2> HIDE DEF T
  <2>1. T \in SUBSET Nat
    BY DEF T
  <2> QED BY <2>1, <1>1, <1>2, InductiveSet
<1>4. k - j \in Nat /\ j + (k - j) = k
  OBVIOUS
<1>5. AnswersTo(j) <= AnswersTo(j + (k - j))
  BY <1>3, <1>4
<1> QED BY <1>4, <1>5

(* The server has answered no message that was not sent.                   *)
OnlyAnswers ==
    /\ passed \subseteq SendCalls
    /\ server.sent <= AnswersTo(Cardinality(passed))

(* The count since the last message that set minimal_bytes.                *)
Marks ==
    /\ mark \in [counted : Int, sends : Nat]
    /\ Counted = mark.counted + bytes.recv
    /\ mark.counted <= AnswersTo(mark.sends)

AInv == OnlyAnswers /\ Marks

(* The messages sent, after a step that changes a call's result ...        *)
LEMMA SameCall ==
    ASSUME Ids, NEW id, NEW c, calls' = [calls EXCEPT ![id] = c],
           id \in DOMAIN calls => c.kind = calls[id].kind
    PROVE  SendCalls' = SendCalls
<1>1. DOMAIN calls' = DOMAIN calls
  OBVIOUS
<1>2. ASSUME NEW i \in DOMAIN calls PROVE calls'[i].kind = calls[i].kind
  <2>1. CASE i = id
    BY <2>1
  <2>2. CASE i # id
    BY <2>2
  <2> QED BY <2>1, <2>2
<1> QED BY <1>1, <1>2 DEF SendCalls

LEMMA FreedCall ==
    ASSUME IInv, Places, NEW id, Freed(id)
    PROVE  SendCalls' = SendCalls
<1>1. Ids
  BY DEF IInv
<1>2. PICK c : c = [calls[id] EXCEPT !.freed = @ + 1]
  OBVIOUS
<1>3. id \in DOMAIN calls => c.kind = calls[id].kind
  BY <1>2 DEF Places, CallRecord
<1>4. calls' = [calls EXCEPT ![id] = c]
  BY <1>2 DEF Freed
<1> QED BY <1>1, <1>3, <1>4, SameCall

(* ... and after a new call.                                               *)
LEMMA OtherCall ==
    ASSUME IInv, NEW k, k # "send", calls' = Append(calls, Call(k))
    PROVE  SendCalls' = SendCalls
<1>1. /\ DOMAIN calls' = DOMAIN calls \cup {NewId}
      /\ \A i \in DOMAIN calls : calls'[i] = calls[i]
      /\ calls'[NewId] = Call(k)
  BY Allocated DEF IInv
<1>2. calls'[NewId].kind # "send"
  BY <1>1 DEF Call
<1> QED BY <1>1, <1>2 DEF SendCalls

LEMMA SentCall ==
    ASSUME IInv, calls' = Append(calls, Call("send"))
    PROVE  SendCalls' = SendCalls \cup {NewId} /\ NewId \notin SendCalls
<1>1. /\ DOMAIN calls' = DOMAIN calls \cup {NewId}
      /\ \A i \in DOMAIN calls : calls'[i] = calls[i]
      /\ calls'[NewId] = Call("send")
  BY Allocated DEF IInv
<1>2. calls'[NewId].kind = "send" /\ NewId \notin DOMAIN calls
  BY <1>1, CallsFacts DEF Call, IInv
<1> QED BY <1>1, <1>2 DEF SendCalls

(* There are finitely many.                                                *)
LEMMA SendsType ==
    ASSUME IInv
    PROVE  /\ IsFiniteSet(SendCalls) /\ Sends \in Nat
           /\ \A s \in SUBSET SendCalls : IsFiniteSet(s) /\ Cardinality(s) \in Nat
                                             /\ Cardinality(s) <= Sends
<1>1. Len(calls) \in Nat /\ DOMAIN calls = 1..Len(calls)
  BY CallsFacts DEF IInv
<1>2. IsFiniteSet(1..Len(calls))
  <2>1. 1 \in Int /\ Len(calls) \in Int
    BY <1>1
  <2> QED BY <2>1, FS_Interval
<1>3. SendCalls \subseteq 1..Len(calls)
  BY <1>1 DEF SendCalls
<1>4. IsFiniteSet(SendCalls)
  BY <1>2, <1>3, FS_Subset
<1>5. ASSUME NEW s \in SUBSET SendCalls
      PROVE  IsFiniteSet(s) /\ Cardinality(s) \in Nat /\ Cardinality(s) <= Sends
  <2>1. IsFiniteSet(s) /\ Cardinality(s) <= Cardinality(SendCalls)
    BY <1>4, FS_Subset
  <2> QED BY <2>1, FS_CardinalityType DEF Sends
<1>6. Sends \in Nat
  BY <1>4, FS_CardinalityType DEF Sends
<1> QED BY <1>4, <1>5, <1>6

(* A step that neither sends nor counts.                                   *)
LEMMA AwaitStays ==
    ASSUME AInv, bytes' = bytes, mark' = mark, Counted' = Counted, SendCalls' = SendCalls,
           passed' = passed, server'.sent = server.sent
    PROVE  AInv'
<1>1. OnlyAnswers'
  <2>1. OnlyAnswers
    BY DEF AInv
  <2> QED BY <2>1 DEF OnlyAnswers, AnswersTo
<1>2. Marks'
  <2>1. Marks
    BY DEF AInv
  <2>2. AnswersTo(mark.sends)' = AnswersTo(mark.sends)
    BY DEF AnswersTo
  <2> QED BY <2>1, <2>2 DEF Marks
<1> QED BY <1>1, <1>2 DEF AInv

LEMMA CountStays ==
    ASSUME UNCHANGED <<got, ctx>>,
           \/ pc'["recv"] = pc["recv"] /\ chunk' = chunk
           \/ pc'["recv"] # "count" /\ pc["recv"] # "count"
    PROVE  Counted' = Counted
<1>1. Unread' = Unread
  BY DEF Unread, DataOf
<1> QED BY <1>1 DEF Counted

(* The threads that collect acknowledgements and bring replies.            *)
LEMMA AwaitCollects ==
    ASSUME IInv, DInv, AInv, SendThread \/ PutCallId("user") \/ PutCallId("recv")
    PROVE  AInv'
<1>0. Places
  BY DEF DInv, Types
<1>1. /\ bytes' = bytes /\ mark' = mark /\ passed' = passed /\ server' = server
      /\ UNCHANGED <<got, ctx, chunk>>
  BY DEF SendThread, PutCallId, SendGet, SendAcknowledged, userVars, recvVars, proxyVars
<1>2. SendCalls' = SendCalls
  <2>1. CASE calls' = calls
    BY <2>1 DEF SendCalls
  <2>2. CASE SendAcknowledged
    BY <1>0, <2>2, FreedCall DEF SendAcknowledged
  <2> QED BY <2>1, <2>2 DEF SendThread, PutCallId, SendGet
<1>3. \/ pc'["recv"] = pc["recv"]
      \/ pc'["recv"] # "count" /\ pc["recv"] # "count"
  <2>1. CASE SendThread
    <3>1. \E l : Goto("send", l)
      BY <2>1 DEF SendThread, PutCallId, SendGet, SendAcknowledged
    <3> QED BY <3>1, Going DEF Threads
  <2>2. CASE PutCallId("user")
    BY <2>2, Going DEF PutCallId, Threads
  <2>3. CASE PutCallId("recv")
    BY <2>3, Going DEF PutCallId, Threads
  <2> QED BY <2>1, <2>2, <2>3
<1>4. Counted' = Counted
  BY <1>1, <1>3, CountStays
<1> QED BY <1>1, <1>2, <1>4, AwaitStays

LEMMA AwaitNetThread ==
    ASSUME IInv, DInv, AInv, NetThread
    PROVE  AInv'
<1>0. Places /\ Ids
  BY DEF DInv, Types, IInv
<1>1. /\ bytes' = bytes /\ mark' = mark /\ passed' = passed /\ server' = server
      /\ UNCHANGED <<got, ctx, chunk>>
  BY DEF NetThread, NetStart, NetNext, NetRead, NetReadFails, NetMatch, NetComplete,
         userVars, recvVars, proxyVars
<1>2. SendCalls' = SendCalls
  <2>1. CASE calls' = calls
    BY <2>1 DEF SendCalls
  <2>2. CASE NetMatch
    <3>1. PICK i : calls' = [calls EXCEPT ![cur["net"]].listed = FALSE,
                                          ![cur["net"]].reply = netlist.list[i]]
      BY <2>2 DEF NetMatch
    <3>2. PICK c : c = [calls[cur["net"]] EXCEPT !.listed = FALSE, !.reply = netlist.list[i]]
      OBVIOUS
    <3>3. cur["net"] \in DOMAIN calls => c.kind = calls[cur["net"]].kind
      BY <1>0, <3>2 DEF Places, CallRecord
    <3>4. calls' = [calls EXCEPT ![cur["net"]] = c]
      BY <3>1, <3>2
    <3> QED BY <1>0, <3>3, <3>4, SameCall
  <2>3. CASE NetComplete /\ Freed(cur["net"])
    BY <1>0, <2>3, FreedCall
  <2>4. CASE NetComplete /\ calls' = [calls EXCEPT ![cur["net"]].done = 1]
    <3>1. PICK c : c = [calls[cur["net"]] EXCEPT !.done = 1]
      OBVIOUS
    <3>2. cur["net"] \in DOMAIN calls => c.kind = calls[cur["net"]].kind
      BY <1>0, <3>1 DEF Places, CallRecord
    <3>3. calls' = [calls EXCEPT ![cur["net"]] = c]
      BY <2>4, <3>1
    <3> QED BY <1>0, <3>2, <3>3, SameCall
  <2> QED BY <2>1, <2>2, <2>3, <2>4
          DEF NetThread, NetStart, NetNext, NetRead, NetReadFails, NetComplete, callVars
<1>3. pc'["recv"] = pc["recv"]
  <2>1. UNCHANGED pc \/ \E l : Goto("net", l)
    BY DEF NetThread, NetStart, NetNext, NetRead, NetReadFails, NetMatch, NetComplete
  <2> QED BY <2>1, Going DEF Threads
<1>4. Counted' = Counted
  BY <1>1, <1>3, CountStays
<1> QED BY <1>1, <1>2, <1>4, AwaitStays

(* The recv thread stores bytes, then counts them.                         *)
LEMMA AwaitRecvStore ==
    ASSUME IInv, DInv, AInv, RecvStore
    PROVE  AInv'
<1>0. PICK z : z = ctx'
  OBVIOUS
<1>1. /\ Values /\ Places /\ Contents /\ Cursor /\ Receiving
  BY DEF DInv, Types, Book
<1>2. /\ pc["recv"] = "store" /\ Goto("recv", "count")
      /\ ctx' = PutToRecvCtx(ctx, [id |-> chunks + 1, data |-> chunk])
      /\ chunks' = chunks + 1
      /\ UNCHANGED <<calls, got, chunk, bytes, mark, passed, server>>
  BY DEF RecvStore, userVars, callVars, proxyVars
<1>3. PICK c \in RecvContext, k \in Nat, d \in Seq(Nat), g \in Seq(Nat) :
          c = ctx /\ k = chunks /\ d = chunk /\ g = got
  BY <1>1 DEF Values, Contents
<1>4. d # <<>>
  BY <1>1, <1>2, <1>3 DEF Receiving
<1>5. CursorOf(c, k)
  BY <1>1, <1>3, ContextNow
<1>6. UnreadOf(z) = UnreadOf(c) \o d
  <2>1. z = PutToRecvCtx(c, [id |-> k + 1, data |-> d])
    BY <1>0, <1>2, <1>3
  <2> QED BY <1>4, <1>5, <2>1, PutUnread, ZenonT(60)
<1>7. pc'["recv"] = "count"
  BY <1>2, Going DEF Threads
<1>8. PICK u \in Seq(Nat) : u = UnreadOf(c)
  BY <1>5, ContextFacts
<1>9. Counted = Len(g \o u) - 0
  BY <1>2, <1>3, <1>8, ContextNow DEF Counted
<1>10. Counted' = Len(g \o (u \o d)) - Len(d)
  BY <1>0, <1>2, <1>3, <1>6, <1>7, <1>8, ContextNow DEF Counted
<1>11. /\ Len(g \o (u \o d)) = Len(g \o u) + Len(d)
       /\ Len(g \o u) \in Nat /\ Len(d) \in Nat
  <2>1. g \o (u \o d) = (g \o u) \o d /\ g \o u \in Seq(Nat)
    BY ConcatThree, ConcatProperties
  <2> QED BY <2>1, ConcatProperties, LenProperties
<1>12. Counted' = Counted
  BY <1>9, <1>10, <1>11
<1>13. SendCalls' = SendCalls
  BY <1>2 DEF SendCalls
<1> QED BY <1>2, <1>12, <1>13, AwaitStays

LEMMA AwaitRecvCount ==
    ASSUME IInv, DInv, AInv, RecvCount
    PROVE  AInv'
<1>1. /\ Values /\ Contents /\ Cursor /\ OnlyAnswers /\ Marks
  BY DEF DInv, Types, AInv
<1>2. /\ pc["recv"] = "count" /\ Goto("recv", "recv")
      /\ bytes' = [bytes EXCEPT !.recv = @ + Len(chunk)]
      /\ UNCHANGED <<calls, got, ctx, mark, passed, server>>
  BY DEF RecvCount, userVars, callVars, proxyVars
<1>3. PICK n \in Nat, m \in Nat : n = Len(got \o Unread) /\ m = Len(chunk)
  <2>1. Len(chunk) \in Nat
    BY <1>1 DEF Contents
  <2>2. got \o Unread \in Seq(Nat)
    BY <1>1, HaveType
  <2>3. PICK s \in Seq(Nat) : s = got \o Unread
    BY <2>2
  <2>4. Len(s) \in Nat
    BY LenProperties
  <2> QED BY <2>1, <2>3, <2>4
<1>4. pc'["recv"] = "recv"
  BY <1>2, Going DEF Threads
<1>5. Counted = n - m /\ Counted' = n
  <2>1. Unread' = Unread
    BY <1>2 DEF Unread, DataOf
  <2>2. Counted = n - m
    BY <1>2, <1>3 DEF Counted
  <2>3. Counted' = n - 0
    BY <1>2, <1>3, <1>4, <2>1 DEF Counted
  <2> QED BY <2>2, <2>3
<1>6. /\ bytes'.recv = bytes.recv + m /\ bytes'.minimal = bytes.minimal
      /\ bytes.recv \in Nat /\ bytes.minimal \in Nat
  BY <1>1, <1>2, <1>3 DEF Values
<1>7. SendCalls' = SendCalls /\ Sends' = Sends
  BY <1>2 DEF Sends, SendCalls
<1>8. OnlyAnswers'
  BY <1>1, <1>2, <1>7 DEF OnlyAnswers, AnswersTo
<1>9. Marks'
  <2>1. PICK a \in Int : a = mark.counted /\ Counted = a + bytes.recv
    BY <1>1 DEF Marks
  <2>2. Counted' = a + bytes'.recv
    BY <1>5, <1>6, <2>1
  <2>3. mark' = mark /\ AnswersTo(mark.sends)' = AnswersTo(mark.sends)
    BY <1>2 DEF AnswersTo
  <2> QED BY <1>1, <2>1, <2>2, <2>3 DEF Marks
<1> QED BY <1>8, <1>9 DEF AInv

LEMMA AwaitRecvThread ==
    ASSUME IInv, DInv, AInv, RecvThread
    PROVE  AInv'
<1>0. Places /\ Ids
  BY DEF DInv, Types, IInv
<1>1. CASE PutCallId("recv") \/ RecvStore \/ RecvCount
  BY <1>1, AwaitCollects, AwaitRecvStore, AwaitRecvCount
<1>2. CASE RecvRequest \/ RecvRequestThrows \/ RecvResult \/ RecvCancelled \/ RecvClosed
  <2>1. /\ bytes' = bytes /\ mark' = mark /\ passed' = passed /\ server' = server
        /\ UNCHANGED <<got, ctx>>
    BY <1>2 DEF RecvRequest, RecvRequestThrows, RecvResult, RecvCancelled, RecvClosed,
                userVars, recvVars, proxyVars
  <2>2. SendCalls' = SendCalls
    <3>1. CASE RecvRequest \/ RecvRequestThrows
      <4>1. calls' = Append(calls, Call("recv"))
        BY <3>1 DEF RecvRequest, RecvRequestThrows, Request, AllocateOnly
      <4> QED BY <4>1, OtherCall
    <3>2. CASE RecvResult
      BY <1>0, <3>2, FreedCall DEF RecvResult
    <3>3. CASE RecvCancelled
      <4>1. PICK c : c = [calls[cur["recv"]] EXCEPT !.done = 2]
        OBVIOUS
      <4>2. cur["recv"] \in DOMAIN calls => c.kind = calls[cur["recv"]].kind
        BY <1>0, <4>1 DEF Places, CallRecord
      <4>3. calls' = [calls EXCEPT ![cur["recv"]] = c]
        BY <3>3, <4>1 DEF RecvCancelled
      <4> QED BY <1>0, <4>2, <4>3, SameCall
    <3>4. CASE RecvClosed
      BY <3>4 DEF RecvClosed, callVars, SendCalls
    <3> QED BY <1>2, <3>1, <3>2, <3>3, <3>4
  <2>3. \/ pc'["recv"] = pc["recv"] /\ chunk' = chunk
        \/ pc'["recv"] # "count" /\ pc["recv"] # "count"
    <3>1. CASE RecvRequestThrows
      BY <3>1 DEF RecvRequestThrows, recvVars
    <3>2. CASE RecvRequest
      BY <3>2, Going DEF RecvRequest, Request, Threads
    <3>3. CASE RecvResult
      <4>1. PICK l : Goto("recv", l) /\ l # "count" /\ pc["recv"] = "wait"
        BY <3>3 DEF RecvResult, AfterRecv, Completed
      <4> QED BY <4>1, Going DEF Threads
    <3>4. CASE RecvCancelled
      <4>1. PICK l : Goto("recv", l) /\ l # "count" /\ pc["recv"] = "wait"
        BY <3>4 DEF RecvCancelled, Cancelled
      <4> QED BY <4>1, Going DEF Threads
    <3>5. CASE RecvClosed
      <4>1. PICK l : Goto("recv", l) /\ l # "count" /\ pc["recv"] \in {"closed", "wake"}
        BY <3>5 DEF RecvClosed
      <4> QED BY <4>1, Going DEF Threads
    <3> QED BY <1>2, <3>1, <3>2, <3>3, <3>4, <3>5
  <2>4. Counted' = Counted
    BY <2>1, <2>3, CountStays
  <2> QED BY <2>1, <2>2, <2>4, AwaitStays
<1> QED BY <1>1, <1>2 DEF RecvThread

(* The server answers the messages it is passed, each once.                *)
LEMMA AwaitPass ==
    ASSUME IInv, DInv, AInv, NEW id \in asked, ProxyPass(id),
           UNCHANGED <<pc, cur, userVars, callVars, recvVars, lost, aborted>>
    PROVE  AInv'
<1>1. /\ UNCHANGED <<pc, calls, got, ctx, chunk, bytes, mark>>
      /\ calls[id].kind = "send" /\ id \notin passed /\ passed' = passed \cup {id}
  BY DEF ProxyPass, userVars, callVars, recvVars
<1>2. /\ asked \subseteq DOMAIN calls /\ server \in ServerType
      /\ OnlyAnswers /\ Marks
  BY DEF DInv, Types, Places, Values, AInv
<1>3. SendCalls' = SendCalls /\ Sends' = Sends /\ Counted' = Counted
  BY <1>1, CountStays DEF Sends, SendCalls
<1>4. PICK k \in Nat : k = Cardinality(passed) /\ Cardinality(passed') = k + 1
  <2>1. IsFiniteSet(passed) /\ Cardinality(passed) \in Nat
    BY <1>2, SendsType DEF OnlyAnswers
  <2>2. Cardinality(passed \cup {id}) = Cardinality(passed) + 1
    BY <1>1, <2>1, FS_AddElement
  <2> QED BY <1>1, <2>1, <2>2
<1>5. PICK a \in Nat, m \in Nat :
          a = AnswersTo(k) /\ m = Answer(k + 1) /\ AnswersTo(k + 1) = a + m
  <2>1. /\ AnswersTo(k) \in Nat /\ AnswersTo(k + 1) = AnswersTo(k) + Answer(k + 1)
        /\ Answer(k + 1) \in Nat
    BY AnswersFacts
  <2> QED BY <2>1
<1>6. server.sent \in Nat /\ server.sent <= a
  BY <1>2, <1>4, <1>5 DEF OnlyAnswers, ServerType
<1>7. server'.sent = server.sent \/ server'.sent = server.sent + m
  BY <1>2, <1>4, <1>5 DEF ProxyPass, ServerType
<1>8. server'.sent <= AnswersTo(k + 1)
  BY <1>5, <1>6, <1>7
<1>9. OnlyAnswers'
  <2>1. passed' \subseteq SendCalls'
    BY <1>1, <1>2, <1>3 DEF OnlyAnswers, SendCalls
  <2>2. AnswersTo(Cardinality(passed))' = AnswersTo(Cardinality(passed'))
    BY DEF AnswersTo
  <2> QED BY <1>4, <1>8, <2>1, <2>2 DEF OnlyAnswers
<1>10. Marks'
  <2>1. AnswersTo(mark.sends)' = AnswersTo(mark.sends) /\ mark' = mark
    BY <1>1 DEF AnswersTo
  <2> QED BY <1>1, <1>2, <1>3, <2>1 DEF Marks
<1> QED BY <1>9, <1>10 DEF AInv

LEMMA AwaitProxy ==
    ASSUME IInv, DInv, AInv, Proxy \/ Lose
    PROVE  AInv'
<1>1. UNCHANGED <<pc, cur, userVars, callVars, recvVars>>
  BY DEF Proxy, Lose
<1>2. /\ UNCHANGED <<pc, calls, got, ctx, chunk, bytes, mark>>
      /\ server \in ServerType
  BY <1>1 DEF userVars, callVars, recvVars, DInv, Types, Values
<1>3. CASE \E id \in asked : Proxy /\ ProxyPass(id)
  BY <1>3, AwaitPass DEF Proxy
<1>4. CASE Lose \/ ServerCloses
            \/ \E id \in asked : ProxyReply(id) \/ ProxyRecv(id) \/ ProxyRecvFails(id)
  <2>1. passed' = passed /\ server'.sent = server.sent
    BY <1>2, <1>4 DEF Lose, ServerCloses, ProxyReply, ProxyRecv, ProxyRecvFails, ServerType
  <2>2. SendCalls' = SendCalls /\ Counted' = Counted
    BY <1>2, CountStays DEF SendCalls
  <2> QED BY <1>2, <2>1, <2>2, AwaitStays
<1> QED BY <1>3, <1>4 DEF Proxy, ProxyAnswers

(* What is counted when the user makes a call is of earlier answers.       *)
LEMMA NoAnswerYet ==
    ASSUME IInv, DInv, AInv, pc["user"] = "run"
    PROVE  Counted \in Int /\ Counted <= AnswersTo(Sends)
<1>1. /\ Values /\ Contents /\ Cursor /\ Stream
  <2>1. Uncancelled
    BY DEF DInv, Book, Cancelling
  <2> QED BY <2>1 DEF DInv, Types
<1>2. PICK n \in Nat, m \in Nat, c \in Nat :
          n = Len(got \o Unread) /\ m = Len(chunk) /\ Len(Have) = n + c
  <2>1. Len(chunk) \in Nat
    BY <1>1 DEF Contents
  <2>2. PICK s \in Seq(Nat), t \in Seq(Nat) : s = got \o Unread /\ t = Chunk
    BY <1>1, HaveType
  <2>3. Len(s) \in Nat /\ Len(t) \in Nat /\ Len(s \o t) = Len(s) + Len(t)
    BY LenProperties, ConcatProperties
  <2> QED BY <2>1, <2>2, <2>3 DEF Have
<1>3. Counted <= n /\ Counted \in Int
  <2>1. Counted = n - (IF pc["recv"] = "count" THEN m ELSE 0)
    BY <1>2 DEF Counted
  <2> QED BY <2>1
<1>4. n <= server.sent
  <2>1. Len(Have) <= server.relayed /\ server.relayed <= server.sent
    BY <1>1 DEF Stream
  <2>2. server.relayed \in Nat /\ server.sent \in Nat
    BY <1>1 DEF Values, ServerType
  <2> QED BY <1>2, <2>1, <2>2
<1>5. server.sent <= AnswersTo(Sends)
  <2>1. OnlyAnswers
    BY DEF AInv
  <2>2. Cardinality(passed) \in Nat /\ Cardinality(passed) <= Sends /\ Sends \in Nat
    BY <2>1, SendsType DEF OnlyAnswers
  <2>3. AnswersTo(Cardinality(passed)) <= AnswersTo(Sends)
    BY <2>2, AnswersGrow
  <2>4. AnswersTo(Cardinality(passed)) \in Nat /\ AnswersTo(Sends) \in Nat
    BY <2>2, AnswersFacts
  <2>5. server.sent \in Nat /\ server.sent <= AnswersTo(Cardinality(passed))
    BY <1>1, <2>1 DEF Values, ServerType, OnlyAnswers
  <2> QED BY <2>3, <2>4, <2>5
<1>6. PICK a \in Nat : a = AnswersTo(Sends)
  BY SendsType, AnswersFacts
<1>7. server.sent \in Nat
  BY <1>1 DEF Values, ServerType
<1> QED BY <1>3, <1>4, <1>5, <1>6, <1>7

LEMMA AwaitUserSend ==
    ASSUME IInv, DInv, AInv, UserSend
    PROVE  AInv'
<1>0. PICK k \in Nat : k = Sends
  BY SendsType
<1>1. /\ Values /\ OnlyAnswers /\ Marks
  BY DEF DInv, Types, AInv
<1>2. /\ pc["user"] = "run" /\ prog # <<>>
      /\ bytes' = IF Head(prog).n > 0 THEN [recv |-> 0, minimal |-> Head(prog).n] ELSE bytes
      /\ mark' = IF Head(prog).n > 0 THEN [counted |-> Counted, sends |-> k] ELSE mark
      /\ calls' = Append(calls, Call("send"))
      /\ UNCHANGED <<got, ctx, chunk, passed, server>>
  BY <1>0 DEF UserSend, Marked, Calls, Request, AllocateOnly, Throws
<1>3. pc'["recv"] = pc["recv"]
  <2>1. UNCHANGED pc \/ Goto("user", "list")
    BY DEF UserSend, Request, Throws
  <2> QED BY <2>1, Going DEF Threads
<1>4. Counted' = Counted
  BY <1>2, <1>3, CountStays
<1>5. SendCalls \subseteq SendCalls'
  BY <1>2, SentCall
<1>6. OnlyAnswers'
  BY <1>1, <1>2, <1>5 DEF OnlyAnswers, AnswersTo
<1>7. Marks'
  <2>1. CASE Head(prog).n > 0
    <3>1. PICK c \in Int : c = Counted /\ c <= AnswersTo(k)
      BY <1>0, <1>2, NoAnswerYet
    <3>2. mark' = [counted |-> c, sends |-> k] /\ bytes'.recv = 0
      BY <1>2, <2>1, <3>1
    <3>3. mark' \in [counted : Int, sends : Nat] /\ mark'.counted = c /\ mark'.sends = k
      BY <3>2
    <3>4. Counted' = mark'.counted + bytes'.recv
      BY <1>4, <3>1, <3>2, <3>3
    <3>5. AnswersTo(mark.sends)' = AnswersTo(k)
      BY <3>3 DEF AnswersTo
    <3> QED BY <3>1, <3>3, <3>4, <3>5 DEF Marks
  <2>2. CASE ~(Head(prog).n > 0)
    <3>1. mark' = mark /\ bytes' = bytes
      BY <1>2, <2>2
    <3>2. AnswersTo(mark.sends)' = AnswersTo(mark.sends)
      BY <3>1 DEF AnswersTo
    <3> QED BY <1>1, <1>4, <3>1, <3>2 DEF Marks
  <2> QED BY <2>1, <2>2
<1> QED BY <1>6, <1>7 DEF AInv

(* The user's other steps.                                                 *)
LEMMA AwaitUserCall ==
    ASSUME IInv, DInv, AInv, UserCall \/ UserAwait \/ UserRecv
    PROVE  AInv'
<1>1. /\ UNCHANGED <<got, ctx, chunk, bytes, mark, passed, server>>
  BY DEF UserCall, UserAwait, UserRecv, Request, AllocateOnly, Throws, recvVars, proxyVars
<1>2. pc'["recv"] = pc["recv"]
  <2>1. UNCHANGED pc \/ \E l : Goto("user", l)
    BY DEF UserCall, UserAwait, UserRecv, Request, Throws
  <2> QED BY <2>1, Going DEF Threads
<1>3. Counted' = Counted
  BY <1>1, <1>2, CountStays
<1>4. SendCalls' = SendCalls
  <2>1. CASE UserCall
    <3>1. PICK k : k = Head(prog).op /\ k # "send" /\ calls' = Append(calls, Call(k))
      BY <2>1 DEF UserCall, Calls, Request, AllocateOnly
    <3> QED BY <3>1, OtherCall
  <2>2. CASE calls' = calls
    BY <2>2 DEF SendCalls
  <2> QED BY <2>1, <2>2 DEF UserAwait, UserRecv, callVars
<1> QED BY <1>1, <1>3, <1>4, AwaitStays

LEMMA AwaitUserRead ==
    ASSUME IInv, DInv, AInv, UserRead
    PROVE  AInv'
<1>0. PICK z : z = ctx'
  OBVIOUS
<1>1. /\ Values /\ Contents /\ Cursor
  BY DEF DInv, Types
<1>2. UNCHANGED <<calls, chunk, chunks, bytes, mark, passed, server>>
  BY DEF UserRead, callVars, proxyVars
<1>3. pc'["recv"] = pc["recv"]
  <2>1. \E l : Goto("user", l)
    BY DEF UserRead
  <2> QED BY <2>1, Going DEF Threads
<1>4. CASE UNCHANGED <<got, ctx>>
  <2>1. Counted' = Counted
    BY <1>2, <1>3, <1>4, CountStays
  <2> QED BY <1>2, <2>1, AwaitStays DEF SendCalls
<1>5. CASE /\ ctx.info.valid /\ got' = got \o Taken(ctx, want)
           /\ ctx' = RecvFromRecvCtx(ctx, want)
  <2>1. PICK c \in RecvContext, k \in Nat, w \in Nat, g \in Seq(Nat) :
            c = ctx /\ k = chunks /\ w = want /\ g = got
    BY <1>1 DEF Values, Contents
  <2>2. CursorOf(c, k) /\ c.info.valid
    BY <1>1, <1>5, <2>1, ContextNow
  <2>3. /\ z \in RecvContext /\ CursorOf(z, k) /\ Taken(c, w) \in Seq(Nat)
        /\ Taken(c, w) \o UnreadOf(z) = UnreadOf(c)
    <3>1. z = RecvFromRecvCtx(c, w)
      BY <1>0, <1>5, <2>1
    <3> QED BY <2>2, <3>1, ReadUnread, ZenonT(60)
  <2>4. PICK t \in Seq(Nat), u \in Seq(Nat) : t = Taken(c, w) /\ u = UnreadOf(z)
    BY <2>3, ContextFacts
  <2>5. got \o Unread = g \o (t \o u)
    BY <2>1, <2>3, <2>4, ContextNow
  <2>6. (got \o Unread)' = (g \o t) \o u
    BY <1>0, <1>5, <2>1, <2>4, ContextNow
  <2>7. g \o (t \o u) = (g \o t) \o u
    BY ConcatThree
  <2>8. Counted' = Counted
    BY <1>2, <1>3, <2>5, <2>6, <2>7 DEF Counted
  <2> QED BY <1>2, <2>8, AwaitStays DEF SendCalls
<1> QED BY <1>4, <1>5 DEF UserRead

LEMMA AwaitUser ==
    ASSUME IInv, DInv, AInv, User
    PROVE  AInv'
<1>1. CASE UserCall \/ UserSend \/ UserAwait \/ UserRecv \/ UserRead \/ PutCallId("user")
  BY <1>1, AwaitUserCall, AwaitUserSend, AwaitUserRead, AwaitCollects
<1>2. CASE UserResult \/ UserSendList \/ DestroySend \/ DestroyRecv \/ DestroyNet \/ DestroyCalls
  <2>1. UNCHANGED <<got, ctx, chunk, bytes, mark, passed, server>>
    BY <1>2 DEF UserResult, UserSendList, DestroySend, DestroyRecv, DestroyNet, DestroyCalls,
                userVars, recvVars, proxyVars
  <2>2. SendCalls' = SendCalls
    <3>1. CASE calls' = calls
      BY <3>1 DEF SendCalls
    <3>2. CASE UserResult
      <4>1. Places
        BY DEF DInv, Types
      <4> QED BY <3>2, <4>1, FreedCall DEF UserResult
    <3>3. CASE DestroyCalls
      <4>1. DOMAIN calls' = DOMAIN calls
        BY <3>3 DEF DestroyCalls
      <4>2. ASSUME NEW i \in DOMAIN calls PROVE calls'[i].kind = calls[i].kind
        <5>1. calls[i] \in CallRecord
          BY DEF DInv, Types, Places
        <5>2. calls'[i] = IF calls[i].listed
                          THEN [calls[i] EXCEPT !.listed = FALSE, !.freed = @ + 1]
                          ELSE calls[i]
          BY <3>3 DEF DestroyCalls
        <5> QED BY <5>1, <5>2 DEF CallRecord
      <4> QED BY <4>1, <4>2 DEF SendCalls
    <3> QED BY <1>2, <3>1, <3>2, <3>3 DEF UserSendList, DestroySend, DestroyRecv, DestroyNet
  <2>3. \/ pc'["recv"] = pc["recv"]
        \/ pc'["recv"] # "count" /\ pc["recv"] # "count"
    <3>1. CASE UserResult
      <4>1. CASE \E l : Goto("user", l)
        BY <4>1, Going DEF Threads
      <4>2. CASE /\ calls[cur["user"]].kind = "connect" /\ pc["user"] = "wait"
                 /\ pc' = [pc EXCEPT !["user"] = "run", !["send"] = "get", !["recv"] = "recv"]
        <5>1. pc["recv"] = "off" /\ pc = [t \in Threads |-> pc[t]]
          BY <4>2 DEF IInv, Started, Connecting, Positions
        <5> QED BY <4>2, <5>1 DEF Threads
      <4> QED BY <3>1, <4>1, <4>2 DEF UserResult, Completed
    <3>2. CASE \E l : Goto("user", l)
      BY <3>2, Going DEF Threads
    <3> QED BY <1>2, <3>1, <3>2
            DEF UserSendList, DestroySend, DestroyRecv, DestroyNet, DestroyCalls
  <2>4. Counted' = Counted
    BY <2>1, <2>3, CountStays
  <2> QED BY <2>1, <2>2, <2>4, AwaitStays
<1> QED BY <1>1, <1>2 DEF User

LEMMA AInvInit == Init => AInv
<1> SUFFICES ASSUME Init PROVE AInv
  OBVIOUS
<1>1. /\ calls = <<>> /\ passed = {} /\ server.sent = 0
      /\ bytes.recv = 0 /\ mark = [counted |-> 0, sends |-> 0] /\ got = <<>>
      /\ ctx = EmptyRecvCtx /\ pc["recv"] # "count"
  BY DEF Init, Threads
<1>2. SendCalls = {}
  BY <1>1 DEF SendCalls
<1>3. AnswersTo(0) = 0 /\ Cardinality({}) = 0
  BY AnswersFacts, FS_EmptySet
<1>4. Counted = 0
  <2>1. Unread = <<>>
    BY <1>1, DataOfNone DEF Unread, EmptyRecvCtx, Info
  <2>2. Len(<<>> \o <<>>) = 0
    OBVIOUS
  <2> QED BY <1>1, <2>1, <2>2 DEF Counted
<1>5. OnlyAnswers
  BY <1>1, <1>2, <1>3 DEF OnlyAnswers
<1>6. Marks
  BY <1>1, <1>3, <1>4 DEF Marks
<1> QED BY <1>5, <1>6 DEF AInv

LEMMA AInvNext == IInv /\ DInv /\ AInv /\ [Next]_vars => AInv'
<1> SUFFICES ASSUME IInv, DInv, AInv, [Next]_vars PROVE AInv'
  OBVIOUS
<1>1. CASE UNCHANGED vars
  <2>1. /\ UNCHANGED <<calls, got, ctx, chunk, bytes, mark, passed, server>>
        /\ pc'["recv"] = pc["recv"]
    BY <1>1 DEF vars, userVars, callVars, recvVars, proxyVars
  <2>2. SendCalls' = SendCalls /\ Counted' = Counted
    BY <2>1, CountStays DEF SendCalls
  <2> QED BY <2>1, <2>2, AwaitStays
<1>2. CASE User \/ SendThread \/ RecvThread \/ NetThread \/ Proxy \/ Lose
  BY <1>2, AwaitUser, AwaitCollects, AwaitRecvThread, AwaitNetThread, AwaitProxy
<1> QED BY <1>1, <1>2 DEF Next, Finished

(* What is counted, in every reachable state (OnRecvBytes, send3).         *)
LEMMA TheCount == Spec => []AInv
<1>1. Init => AInv
  BY AInvInit
<1>2. IInv /\ DInv /\ AInv /\ [Next]_vars => AInv'
  BY AInvNext
<1> QED BY <1>1, <1>2, Ownership, StreamOfTheProxy, PTL DEF Spec

(* The type invariant, for all programs and answers.                       *)
THEOREM EveryVariableHasItsType == Spec => []TypeOK
<1>1. IInv /\ DInv /\ AInv => TypeOK
  <2> SUFFICES ASSUME IInv, DInv, AInv PROVE TypeOK
    OBVIOUS
  <2>1. Values /\ Places /\ Contents
    BY DEF DInv, Types
  <2>2. prog \in Seq(Op) /\ callq \in Seq(DOMAIN calls) /\ sendList \in Seq(DOMAIN calls)
    BY DEF IInv, Started, Ids, Distinct
  <2>3. mark \in [counted : Int, sends : Nat]
    BY DEF AInv, Marks
  <2> QED BY <2>1, <2>2, <2>3 DEF TypeOK, Values, ServerType, Places, Contents, CallRecord
<1> QED BY <1>1, Ownership, StreamOfTheProxy, TheCount, PTL

(* A wait (WaitForBytes) returns on bytes beyond those that were counted   *)
(* when send3 set minimal_bytes, and it returns when that many beyond all  *)
(* earlier answers are counted: for all programs, with waits or without,   *)
(* however acknowledgements, bytes and retries of the RECV interleave.     *)
THEOREM WaitsAreForTheirAnswers == Spec => []WaitIsForItsAnswer
<1>1. IInv /\ DInv /\ AInv => WaitIsForItsAnswer
  <2> SUFFICES ASSUME IInv, DInv, AInv PROVE WaitIsForItsAnswer
    OBVIOUS
  <2>1. PICK a \in Int : a = mark.counted /\ Counted = a + bytes.recv
    BY DEF AInv, Marks
  <2>2. PICK n \in Nat, m \in Nat : n = Len(got \o Unread) /\ m = Len(chunk)
    <3>1. Len(chunk) \in Nat
      BY DEF DInv, Types, Contents
    <3>2. PICK s \in Seq(Nat) : s = got \o Unread
      BY HaveType DEF DInv, Types
    <3>3. Len(s) \in Nat
      BY LenProperties
    <3> QED BY <3>1, <3>2, <3>3
  <2>3. Counted <= n /\ Counted \in Int
    <3>1. Counted = n - (IF pc["recv"] = "count" THEN m ELSE 0)
      BY <2>2 DEF Counted
    <3> QED BY <3>1
  <2>4. bytes.recv \in Nat /\ bytes.minimal \in Nat
    BY DEF DInv, Types, Values
  <2>5. PICK b \in Nat : b = AnswersTo(mark.sends) /\ a <= b
    <3>1. mark.sends \in Nat /\ a <= AnswersTo(mark.sends)
      BY <2>1 DEF AInv, Marks
    <3> QED BY <3>1, AnswersFacts
  <2>6. bytes.recv >= bytes.minimal => n >= a + bytes.minimal
    BY <2>1, <2>3, <2>4
  <2>7. Counted >= b + bytes.minimal => bytes.recv >= bytes.minimal
    BY <2>1, <2>3, <2>4, <2>5
  <2> QED BY <2>1, <2>2, <2>5, <2>6, <2>7 DEF WaitIsForItsAnswer
<1> QED BY <1>1, Ownership, StreamOfTheProxy, TheCount, PTL
=============================================================================

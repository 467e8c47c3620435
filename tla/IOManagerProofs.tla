-------------------------- MODULE IOManagerProofs --------------------------
(***************************************************************************)
(* Theorems about IOManager, for every number of clients and of numbers,   *)
(* sets of up to 256 connections, failures, clearing and stop_listen.      *)
(*                                                                         *)
(* None of the properties is inductive.  That a set is of one client needs *)
(* that no two clients file under one number, though numbers are given     *)
(* back and used again; and that a number given back is nobody's needs     *)
(* that the set was complete, hence of one client.  The invariant says who *)
(* holds a number, and that each set in the map is what its holder's       *)
(* threads have filed so far.                                              *)
(***************************************************************************)
EXTENDS IOManager, FiniteSetTheorems, SequenceTheorems, WellFoundedInduction, TLAPS

(* The connection that asks for the number of a client, and the number.    *)
First(k) == <<k, 0>>
Num(k) == local[First(k)].number

(* All connections of a client have been filed.                            *)
AllDone(k) == \A i \in 0..NumIO-1 : pc[<<k, i>>] = "done"

(* The set under n is what client k has filed so far.                      *)
Owns(k, n) ==
    /\ Num(k) = n /\ pc[First(k)] # "enter"
    /\ Len(ios[n]) = IF AllDone(k) THEN NumIO + 1 ELSE NumIO
    /\ \A i \in 1..NumIO : ios[n][i] = IF pc[<<k, i-1>>] = "done" THEN <<k, i-1>> ELSE NoIO
    /\ AllDone(k) => ios[n][NumIO + 1] = NoIO

HasSet(k) == Num(k) \in DOMAIN ios /\ Owns(k, Num(k))

(* A client holds its number until its set has left the map complete.      *)
Holds(k) == Num(k) # 0 /\ (~AllDone(k) \/ HasSet(k))

SetOf(k) == [i \in 1..NumIO |-> <<k, i - 1>>]
Returned(k) == \E j \in DOMAIN accepted : accepted[j].ios = SetOf(k)

AcceptedType == accepted \in Seq([number : 1..MaxPort, ios : Seq(Conns)])

(* A client learns its number when its set has been entered, and its       *)
(* threads bring it back.                                                  *)
Numbers ==
    /\ \A k \in Clients :
        /\ told[k] \in {0, Num(k)}
        /\ told[k] # 0 => pc[First(k)] \in {"put", "done"}
        /\ pc[First(k)] \in {"off", "start", "init", "search"} => Num(k) = 0
        /\ pc[First(k)] \in {"enter", "send", "put", "done"} => Num(k) # 0
    /\ \A c \in Conns : HasNumber(c) > 0 =>
        /\ pc[c] \notin {"enter", "send"}
        /\ pc[c] \in {"put", "done"} =>
             told[Client(c)] # 0 /\ local[c].number = told[Client(c)]

(* Every set in the map is some client's.                                  *)
Sets == \A n \in DOMAIN ios : \E k \in Clients : Owns(k, n)

(* A number that is held is marked, and is held by one client.             *)
Reserved == \A k \in Clients : Holds(k) => Num(k) \in ports.used
Distinct == \A k, l \in Clients : Holds(k) /\ Holds(l) /\ Num(k) = Num(l) => k = l

(* What accept has returned is complete and not in the map any more.       *)
Returns ==
    /\ SetsOfOneClient
    /\ \A i, j \in DOMAIN accepted : accepted[i].ios = accepted[j].ios => i = j
    /\ \A k \in Clients : Returned(k) => AllDone(k) /\ ~HasSet(k)

(* What has been filed, and is in neither place, has been deleted.         *)
Deletions ==
    \A c \in Conns :
        /\ c \in deleted => pc[c] = "done"
        /\ ~crashed /\ pc[c] = "done" =>
             (c \in deleted <=> ~HasSet(Client(c)) /\ ~Returned(Client(c)))

IInv ==
    /\ TypeOK /\ AcceptedType
    /\ Numbers /\ Sets /\ Reserved /\ Distinct /\ Returns /\ Deletions
-----------------------------------------------------------------------------
(* CONNECTIONS, NUMBERS AND SETS.                                          *)

LEMMA ConnFacts ==
  /\ \A k \in Clients : \A i \in 0..NumIO-1 :
        <<k, i>> \in Conns /\ Client(<<k, i>>) = k /\ HasNumber(<<k, i>>) = i
  /\ \A c \in Conns :
        /\ Client(c) \in Clients /\ HasNumber(c) \in 0..NumIO-1
        /\ c = <<Client(c), HasNumber(c)>> /\ c # NoIO
  /\ \A k \in Clients : First(k) \in Conns /\ Client(First(k)) = k /\ HasNumber(First(k)) = 0
<1>1. NumIO \in Nat \ {0, 1}
  BY NumIOAssumption
<1>. QED  BY <1>1 DEF Conns, Client, HasNumber, First, NoIO

LEMMA HopIsIdentity == \A n \in 0..MaxPort : Hop(n) = n
  BY PortAssumption DEF Hop, SendSize, RecvSize

LEMMA MinIsElement ==
  ASSUME NEW S, S \subseteq Nat, S # {}
  PROVE  Min(S) \in S
<1>. DEFINE R == OpToRel(<, Nat)
<1>1. IsWellFoundedOn(R, Nat)
  BY NatLessThanWellFounded
<1>. HIDE DEF R
<1>2. PICK m \in S : \A k \in S : <<k, m>> \notin R
  BY <1>1, WFMin, Zenon
<1>3. \A k \in S : m <= k
  <2>. SUFFICES ASSUME NEW k \in S, k < m PROVE FALSE
    OBVIOUS
  <2>1. <<k, m>> \in Nat \X Nat /\ <<k, m>>[1] < <<k, m>>[2]
    OBVIOUS
  <2>2. <<k, m>> \in R
    BY <2>1 DEF R, OpToRel
  <2>. QED  BY <1>2, <2>2
<1>. QED  BY <1>3 DEF Min

LEMMA UnusedNumber ==
  ASSUME TypeOK, ~PortsExhausted
  PROVE  NextUnused \in 1..MaxPort /\ NextUnused \notin ports.used
<1>. DEFINE unused == (1..MaxPort) \ ports.used
            later == {p \in unused : p >= ports.seq}
<1>1. unused \subseteq Nat /\ later \subseteq unused /\ unused # {}
  <2>1. ports.used \subseteq 1..MaxPort /\ ports.used # 1..MaxPort
    BY DEF TypeOK, PortsExhausted
  <2>2. unused # {}
    BY <2>1, Zenon
  <2>3. unused \subseteq Nat
    BY PortAssumption
  <2>. QED  BY <2>2, <2>3
<1>2. Min(unused) \in unused /\ (later # {} => Min(later) \in later)
  BY <1>1, MinIsElement
<1>3. NextUnused = IF later # {} THEN Min(later) ELSE Min(unused)
  BY DEF NextUnused
<1>. QED  BY <1>1, <1>2, <1>3

(* The owner of a set holds its number, and is the only one who does.      *)
LEMMA SetHasOwner ==
  ASSUME TypeOK, Sets, NEW n \in DOMAIN ios
  PROVE  \E k \in Clients : Num(k) = n /\ Owns(k, n) /\ HasSet(k) /\ Holds(k)
<1>1. PICK k \in Clients : Owns(k, n)
  BY DEF Sets
<1>2. n \in 1..MaxPort
  BY DEF TypeOK
<1>. QED  BY <1>1, <1>2 DEF Owns, HasSet, Holds

LEMMA HolderOwns ==
  ASSUME TypeOK, Sets, Distinct, NEW k \in Clients, Holds(k), Num(k) \in DOMAIN ios
  PROVE  HasSet(k)
  BY SetHasOwner DEF Distinct

LEMMA OwnerIsUnique ==
  ASSUME TypeOK, Distinct, NEW k \in Clients, NEW l \in Clients,
         HasSet(k), HasSet(l), Num(k) = Num(l)
  PROVE  k = l
<1>1. Num(k) # 0 /\ Num(l) # 0
  BY DEF TypeOK, HasSet
<1>. QED  BY <1>1 DEF Distinct, Holds

(* Until a number is told, only the first connection can have been filed.  *)
LEMMA FiledMeansTold ==
  ASSUME TypeOK, Numbers, NEW k \in Clients, NEW i \in 0..NumIO-1, pc[<<k, i>>] = "done"
  PROVE  Num(k) # 0 /\ pc[First(k)] \in {"put", "done"}
<1>1. CASE i = 0
  BY <1>1 DEF Numbers, First
<1>2. CASE i > 0
  BY <1>2, ConnFacts DEF Numbers
<1>. QED  BY <1>1, <1>2

(* A connection that is about to be filed has the number of its client.    *)
LEMMA NumberOfClient ==
  ASSUME TypeOK, Numbers, NEW c \in Conns, pc[c] \in {"enter", "send", "put"}
  PROVE  local[c].number = Num(Client(c)) /\ Num(Client(c)) # 0
<1>1. CASE HasNumber(c) = 0
  <2>1. c = First(Client(c)) /\ Client(c) \in Clients
    BY <1>1, ConnFacts DEF First
  <2>2. Num(Client(c)) # 0
    BY <2>1 DEF Numbers
  <2>. QED  BY <2>1, <2>2 DEF Num
<1>2. CASE HasNumber(c) > 0
  <2>1. Client(c) \in Clients
    BY ConnFacts
  <2>2. told[Client(c)] # 0 /\ local[c].number = told[Client(c)]
    BY <1>2 DEF Numbers
  <2>3. told[Client(c)] \in {0, Num(Client(c))}
    BY <2>1 DEF Numbers
  <2>. QED  BY <2>2, <2>3
<1>. QED  BY <1>1, <1>2, ConnFacts

LEMMA NotAllDone ==
  ASSUME NEW c \in Conns, pc[c] # "done"
  PROVE  ~AllDone(Client(c))
  BY ConnFacts DEF AllDone

LEMMA UnfiledHolds ==
  ASSUME TypeOK, Numbers, NEW c \in Conns, pc[c] \in {"enter", "send", "put"}
  PROVE  Holds(Client(c))
  BY NumberOfClient, NotAllDone DEF Holds
-----------------------------------------------------------------------------
(* THE INVARIANT.                                                          *)

LEMMA InitInv == Init => IInv
<1>. SUFFICES ASSUME Init PROVE IInv
  OBVIOUS
<1>1. TypeOK /\ AcceptedType
  <2>1. now \in 0..MaxTime /\ ports.used \subseteq 1..MaxPort /\ ports.seq \in 1..MaxPort
    BY PortAssumption, TimeAssumption DEF Init
  <2>2. DOMAIN ios = {} /\ DOMAIN created = {} /\ deleted = {} /\ failed = {} /\ crashed = FALSE
    BY DEF Init
  <2>3. listener \in [at : {"flag", "wait", "clear", "off"}, flag : BOOLEAN,
                      checked : 0..MaxTime, time : 0..MaxTime]
    BY TimeAssumption DEF Init
  <2>4. /\ pc \in [Conns -> {"off", "start", "init", "search", "enter", "send", "put", "done", "failed"}]
        /\ local \in [Conns -> [timestamp : 0..MaxTime, number : 0..MaxPort]]
        /\ told \in [Clients -> 0..MaxPort]
    BY PortAssumption, TimeAssumption DEF Init
  <2>5. AcceptedType
    BY DEF Init, AcceptedType
  <2>. QED  BY <2>1, <2>2, <2>3, <2>4, <2>5 DEF TypeOK
<1>2. Numbers
  BY ConnFacts DEF Init, Numbers, Num
<1>3. DOMAIN ios = {} /\ DOMAIN accepted = {} /\ deleted = {}
  BY DEF Init
<1>4. Sets /\ Deletions /\ Returns
  BY <1>3, ConnFacts DEF Init, Sets, Deletions, Returns, SetsOfOneClient, Returned
<1>5. \A k \in Clients : ~Holds(k)
  BY ConnFacts DEF Init, Holds, Num
<1>6. Reserved /\ Distinct
  BY <1>5 DEF Reserved, Distinct
<1>. QED  BY <1>1, <1>2, <1>4, <1>6 DEF IInv

(* A step that files, enters and removes nothing.                          *)
LEMMA Quiet ==
  ASSUME IInv, TypeOK', Numbers',
         UNCHANGED <<ios, accepted, deleted, crashed>>, ports'.used = ports.used,
         \A k \in Clients : Num(k)' = Num(k),
         \A c \in Conns : pc'[c] = "done" <=> pc[c] = "done",
         \A c \in Conns : pc'[c] = "enter" <=> pc[c] = "enter"
  PROVE  IInv'
<1>. USE DEF IInv
<1>1. \A k \in Clients : AllDone(k)' <=> AllDone(k)
  BY ConnFacts DEF AllDone
<1>2. \A k \in Clients : \A n : Owns(k, n)' <=> Owns(k, n)
  <2>. SUFFICES ASSUME NEW k \in Clients, NEW n PROVE Owns(k, n)' <=> Owns(k, n)
    OBVIOUS
  <2>1. \A i \in 1..NumIO : pc'[<<k, i-1>>] = "done" <=> pc[<<k, i-1>>] = "done"
    BY NumIOAssumption, ConnFacts
  <2>2. pc'[First(k)] # "enter" <=> pc[First(k)] # "enter"
    BY ConnFacts
  <2>. QED  BY <1>1, <2>1, <2>2 DEF Owns
<1>3. \A k \in Clients : (HasSet(k)' <=> HasSet(k)) /\ (Holds(k)' <=> Holds(k))
  BY <1>1, <1>2 DEF HasSet, Holds
<1>4. \A k \in Clients : Returned(k)' <=> Returned(k)
  BY DEF Returned
<1>5. Sets' /\ Reserved' /\ Distinct'
  BY <1>2, <1>3 DEF Sets, Reserved, Distinct
<1>6. Returns'
  BY <1>1, <1>3, <1>4 DEF Returns, SetsOfOneClient
<1>7. Deletions'
  BY <1>3, <1>4, ConnFacts DEF Deletions
<1>. QED  BY <1>5, <1>6, <1>7 DEF AcceptedType
-----------------------------------------------------------------------------
(* THE QUIET STEPS.                                                        *)

LEMMA InvTick == IInv /\ Tick => IInv'
<1>. SUFFICES ASSUME IInv, Tick PROVE IInv'
  OBVIOUS
<1>. USE DEF IInv
<1>1. UNCHANGED <<ports, ios, created, connVars, accepted, deleted, crashed>>
  BY DEF Tick
<1>2. TypeOK'
  BY <1>1, TimeAssumption DEF Tick, TypeOK, connVars
<1>3. Numbers' /\ (\A k \in Clients : Num(k)' = Num(k))
  BY <1>1 DEF Numbers, Num, connVars
<1>. QED  BY <1>1, <1>2, <1>3, Quiet DEF connVars

LEMMA InvListenOn == IInv /\ ListenOn => IInv'
<1>. SUFFICES ASSUME IInv, ListenOn PROVE IInv'
  OBVIOUS
<1>. USE DEF IInv
<1>1. UNCHANGED <<ports, ios, created, connVars, accepted, deleted, crashed>>
  BY DEF ListenOn
<1>2. TypeOK'
  BY <1>1, TimeAssumption DEF ListenOn, TypeOK, connVars
<1>3. Numbers' /\ (\A k \in Clients : Num(k)' = Num(k))
  BY <1>1 DEF Numbers, Num, connVars
<1>. QED  BY <1>1, <1>2, <1>3, Quiet DEF connVars

LEMMA InvStopListen == IInv /\ StopListen => IInv'
<1>. SUFFICES ASSUME IInv, StopListen PROVE IInv'
  OBVIOUS
<1>. USE DEF IInv
<1>1. UNCHANGED <<ports, ios, created, connVars, accepted, deleted, crashed>>
  BY DEF StopListen
<1>2. TypeOK'
  BY <1>1, TimeAssumption DEF StopListen, TypeOK, connVars
<1>3. Numbers' /\ (\A k \in Clients : Num(k)' = Num(k))
  BY <1>1 DEF Numbers, Num, connVars
<1>. QED  BY <1>1, <1>2, <1>3, Quiet DEF connVars

LEMMA InvConnect ==
  ASSUME IInv, NEW c \in Conns, Connect(c)
  PROVE  IInv'
<1>. USE DEF IInv
<1>1. /\ UNCHANGED <<ports, ios, local, told, accepted, deleted, crashed>>
      /\ pc[c] = "off" /\ pc' = [pc EXCEPT ![c] = "start"]
  BY DEF Connect
<1>2. TypeOK'
  BY <1>1, TimeAssumption DEF Connect, TypeOK
<1>3. \A k \in Clients : Num(k)' = Num(k)
  BY <1>1 DEF Num
<1>4. pc \in [Conns -> {"off", "start", "init", "search", "enter", "send", "put", "done", "failed"}]
  BY DEF TypeOK
<1>5. Numbers'
  BY <1>1, <1>3, <1>4, ConnFacts DEF Numbers
<1>. QED  BY <1>1, <1>2, <1>3, <1>4, <1>5, Quiet

LEMMA InvStart ==
  ASSUME IInv, NEW c \in Conns, Start(c)
  PROVE  IInv'
<1>. USE DEF IInv
<1>1. /\ UNCHANGED <<ports, ios, told, accepted, deleted, crashed>>
      /\ pc[c] = "start" /\ pc' = [pc EXCEPT ![c] = "init"]
      /\ local' = [local EXCEPT ![c].timestamp = now]
  BY DEF Start, At, Goto
<1>2. TypeOK'
  <2>1. local' \in [Conns -> [timestamp : 0..MaxTime, number : 0..MaxPort]]
    <3>1. local[c] \in [timestamp : 0..MaxTime, number : 0..MaxPort] /\ now \in 0..MaxTime
      BY DEF TypeOK
    <3>2. [local[c] EXCEPT !.timestamp = now] \in [timestamp : 0..MaxTime, number : 0..MaxPort]
      BY <3>1
    <3> QED BY <1>1, <3>2 DEF TypeOK
  <2>2. pc' \in [Conns -> {"off", "start", "init", "search", "enter", "send", "put", "done", "failed"}]
    BY <1>1, ZenonT(60) DEF TypeOK
  <2> QED BY <1>1, <2>1, <2>2, ZenonT(60) DEF Start, TypeOK
<1>3. \A d \in Conns : local'[d].number = local[d].number
  BY <1>1 DEF TypeOK
<1>4. \A k \in Clients : Num(k)' = Num(k)
  BY <1>3, ConnFacts DEF Num
<1>5. pc \in [Conns -> {"off", "start", "init", "search", "enter", "send", "put", "done", "failed"}]
  BY DEF TypeOK
<1>6. Numbers'
  BY <1>1, <1>3, <1>4, <1>5, ConnFacts DEF Numbers
<1>. QED  BY <1>1, <1>2, <1>4, <1>5, <1>6, Quiet

LEMMA InvSearch ==
  ASSUME IInv, NEW c \in Conns, Search(c)
  PROVE  IInv'
<1>. USE DEF IInv
<1>1. /\ UNCHANGED <<now, ports, ios, created, listener, local, told, failed, accepted, deleted, crashed>>
      /\ pc[c] = "init" /\ pc' = [pc EXCEPT ![c] = "search"]
  BY DEF Search, At, Goto
<1>2. TypeOK'
  BY <1>1 DEF TypeOK
<1>3. \A k \in Clients : Num(k)' = Num(k)
  BY <1>1 DEF Num
<1>4. pc \in [Conns -> {"off", "start", "init", "search", "enter", "send", "put", "done", "failed"}]
  BY DEF TypeOK
<1>5. Numbers'
  BY <1>1, <1>3, <1>4, ConnFacts DEF Numbers
<1>. QED  BY <1>1, <1>2, <1>3, <1>4, <1>5, Quiet

LEMMA InvSendNumber ==
  ASSUME IInv, NEW c \in Conns, SendNumber(c)
  PROVE  IInv'
<1>. USE DEF IInv
<1>1. /\ UNCHANGED <<now, ports, ios, created, listener, local, failed, accepted, deleted, crashed>>
      /\ pc[c] = "send" /\ pc' = [pc EXCEPT ![c] = "put"]
  BY DEF SendNumber, At, Goto
<1>2. HasNumber(c) = 0 /\ c = First(Client(c)) /\ Client(c) \in Clients
  BY <1>1, ConnFacts DEF Numbers, First
<1>3. told' = told \/ told' = [told EXCEPT ![Client(c)] = Num(Client(c))]
  <2>1. local[c].number \in 0..MaxPort
    BY DEF TypeOK
  <2>. QED  BY <1>2, <2>1, HopIsIdentity DEF SendNumber, Num
<1>4. Num(Client(c)) \in 0..MaxPort
  BY <1>2, ConnFacts DEF TypeOK, Num
<1>5. TypeOK'
  BY <1>1, <1>2, <1>3, <1>4 DEF TypeOK
<1>6. \A k \in Clients : Num(k)' = Num(k)
  BY <1>1 DEF Num
<1>7. pc \in [Conns -> {"off", "start", "init", "search", "enter", "send", "put", "done", "failed"}]
  BY DEF TypeOK
<1>8. Numbers'
  <2>1. told[Client(c)] = 0
    BY <1>1, <1>2, <1>4 DEF Numbers
  <2>2. \A d \in Conns : HasNumber(d) > 0 /\ pc[d] \in {"put", "done"} => told'[Client(d)] = told[Client(d)]
    BY <1>2, <1>3, <2>1, ConnFacts DEF Numbers, TypeOK
  <2>3. \A d \in Conns : HasNumber(d) > 0 => pc'[d] = pc[d]
    BY <1>1, <1>2, <1>7
  <2>4. \A d \in Conns : HasNumber(d) > 0 =>
        /\ pc'[d] \notin {"enter", "send"}
        /\ pc'[d] \in {"put", "done"} =>
             told'[Client(d)] # 0 /\ local'[d].number = told'[Client(d)]
    BY <1>1, <2>2, <2>3 DEF Numbers
  <2>5. ASSUME NEW k \in Clients
        PROVE  /\ told'[k] \in {0, Num(k)}
               /\ told'[k] # 0 => pc'[First(k)] \in {"put", "done"}
               /\ pc'[First(k)] \in {"off", "start", "init", "search"} => Num(k) = 0
               /\ pc'[First(k)] \in {"enter", "send", "put", "done"} => Num(k) # 0
    <3>1. First(k) \in Conns
      BY ConnFacts
    <3>2. CASE k = Client(c)
      BY <1>1, <1>2, <1>3, <1>7, <2>1, <3>2 DEF Numbers, TypeOK
    <3>3. CASE k # Client(c)
      <4>1. told'[k] = told[k] /\ pc'[First(k)] = pc[First(k)]
        BY <1>1, <1>2, <1>3, <1>7, <3>1, <3>3, ConnFacts DEF TypeOK
      <4>. QED  BY <4>1 DEF Numbers
    <3>. QED  BY <3>2, <3>3
  <2>. QED  BY <1>6, <2>4, <2>5 DEF Numbers
<1>. QED  BY <1>1, <1>5, <1>6, <1>7, <1>8, Quiet

LEMMA InvRecvNumber ==
  ASSUME IInv, NEW c \in Conns, RecvNumber(c)
  PROVE  IInv'
<1>. USE DEF IInv
<1>1. /\ UNCHANGED <<now, ports, ios, created, listener, told, failed, accepted, deleted, crashed>>
      /\ pc[c] = "init" /\ pc' = [pc EXCEPT ![c] = "put"]
      /\ HasNumber(c) > 0 /\ told[Client(c)] # 0
      /\ local' = [local EXCEPT ![c].number = Hop(told[Client(c)])]
  BY DEF RecvNumber, At, Goto
<1>2. Client(c) \in Clients /\ told[Client(c)] \in 0..MaxPort
  BY ConnFacts DEF TypeOK
<1>3. local' = [local EXCEPT ![c].number = told[Client(c)]]
  BY <1>1, <1>2, HopIsIdentity
<1>4. TypeOK'
  BY <1>1, <1>2, <1>3, ZenonT(60) DEF TypeOK
<1>5. \A d \in Conns : d # c => local'[d] = local[d] /\ pc'[d] = pc[d]
  BY <1>1, <1>3 DEF TypeOK
<1>6. \A k \in Clients : First(k) # c /\ First(k) \in Conns
  BY <1>1, ConnFacts
<1>7. \A k \in Clients : Num(k)' = Num(k)
  BY <1>5, <1>6 DEF Num
<1>8. pc'[c] = "put" /\ local'[c].number = told[Client(c)]
  BY <1>1, <1>3 DEF TypeOK
<1>9. Numbers'
  BY <1>1, <1>5, <1>6, <1>7, <1>8 DEF Numbers
<1>10. pc \in [Conns -> {"off", "start", "init", "search", "enter", "send", "put", "done", "failed"}]
  BY DEF TypeOK
<1>. QED  BY <1>1, <1>4, <1>7, <1>9, <1>10, Quiet

LEMMA InvFail ==
  ASSUME IInv, NEW c \in Conns, Fail(c)
  PROVE  IInv'
<1>. USE DEF IInv
<1>1. /\ UNCHANGED <<now, ports, ios, created, listener, local, told, accepted, deleted, crashed>>
      /\ pc[c] \in {"init", "send"} /\ pc' = [pc EXCEPT ![c] = "failed"]
      /\ failed' = failed \cup {Client(c)}
  BY DEF Fail, Goto
<1>2. TypeOK'
  BY <1>1, ConnFacts DEF TypeOK
<1>3. \A k \in Clients : Num(k)' = Num(k)
  BY <1>1 DEF Num
<1>4. pc \in [Conns -> {"off", "start", "init", "search", "enter", "send", "put", "done", "failed"}]
  BY DEF TypeOK
<1>5. Numbers'
  BY <1>1, <1>3, <1>4, ConnFacts DEF Numbers
<1>. QED  BY <1>1, <1>2, <1>3, <1>4, <1>5, Quiet
-----------------------------------------------------------------------------
(* A NUMBER IS TAKEN, A SET IS ENTERED.                                    *)

LEMMA InvGetNumber ==
  ASSUME IInv, NEW c \in Conns, GetNumber(c)
  PROVE  IInv'
<1>. USE DEF IInv
<1>. DEFINE k == Client(c)
            n == NextUnused
<1>1. /\ UNCHANGED <<now, ios, created, listener, told, failed, accepted, deleted, crashed>>
      /\ pc[c] = "init" /\ HasNumber(c) = 0 /\ pc' = [pc EXCEPT ![c] = "enter"]
      /\ local' = [local EXCEPT ![c].number = n]
      /\ ports' = WithoutPort
  BY DEF GetNumber, At, Goto
<1>2. n \in 1..MaxPort /\ n \notin ports.used
  BY UnusedNumber DEF GetNumber
<1>. HIDE DEF n
<1>3. k \in Clients /\ c = First(k)
  BY <1>1, ConnFacts DEF First
<1>. HIDE DEF k
<1>4. ports'.used = ports.used \cup {n} /\ ports'.seq \in 1..MaxPort
  BY <1>1, <1>2, PortAssumption DEF WithoutPort, Following, n
<1>5. \A d \in Conns : d # c => local'[d] = local[d] /\ pc'[d] = pc[d]
  BY <1>1 DEF TypeOK
<1>6. pc'[c] = "enter" /\ local'[c].number = n
  BY <1>1 DEF TypeOK
<1>7. TypeOK'
  <2>1. local' \in [Conns -> [timestamp : 0..MaxTime, number : 0..MaxPort]]
    <3>1. n \in 0..MaxPort
      BY <1>2, PortAssumption
    <3>2. local \in [Conns -> [timestamp : 0..MaxTime, number : 0..MaxPort]]
      BY DEF TypeOK
    <3>. QED  BY <1>1, <3>1, <3>2
  <2>2. pc' \in [Conns -> {"off", "start", "init", "search", "enter", "send", "put", "done", "failed"}]
    BY <1>1 DEF TypeOK
  <2>3. ports'.used \subseteq 1..MaxPort /\ ports'.seq \in 1..MaxPort
    BY <1>2, <1>4 DEF TypeOK
  <2>. QED  BY <1>1, <2>1, <2>2, <2>3 DEF TypeOK
<1>8. Num(k) = 0 /\ Num(k)' = n /\ \A l \in Clients \ {k} : Num(l)' = Num(l)
  <2>1. \A l \in Clients \ {k} : First(l) # c /\ First(l) \in Conns
    BY <1>3, ConnFacts DEF First
  <2>. QED  BY <1>1, <1>3, <1>5, <1>6, <2>1 DEF Numbers, Num
<1>9. Numbers'
  <2>1. told[k] = 0
    BY <1>1, <1>3 DEF Numbers
  <2>2. \A l \in Clients \ {k} : First(l) # c /\ First(l) \in Conns
    BY <1>3, ConnFacts DEF First
  <2>3. \A d \in Conns : HasNumber(d) > 0 => d # c
    BY <1>1
  <2>4. \A l \in Clients :
        /\ told'[l] \in {0, Num(l)'}
        /\ told'[l] # 0 => pc'[First(l)] \in {"put", "done"}
        /\ pc'[First(l)] \in {"off", "start", "init", "search"} => Num(l)' = 0
        /\ pc'[First(l)] \in {"enter", "send", "put", "done"} => Num(l)' # 0
    BY <1>1, <1>2, <1>3, <1>5, <1>6, <1>8, <2>1, <2>2 DEF Numbers
  <2>. QED  BY <1>1, <1>5, <2>3, <2>4 DEF Numbers
<1>10. \A l \in Clients : (AllDone(l)' <=> AllDone(l)) /\ ~AllDone(k)
  <2>1. \A d \in Conns : pc'[d] = "done" <=> pc[d] = "done"
    BY <1>1, <1>5, <1>6
  <2>. QED  BY <1>1, <1>3, <2>1, ConnFacts, NotAllDone DEF AllDone, k
<1>11. \A l \in Clients \ {k} : \A m : Owns(l, m)' <=> Owns(l, m)
  <2>. SUFFICES ASSUME NEW l \in Clients \ {k}, NEW m PROVE Owns(l, m)' <=> Owns(l, m)
    OBVIOUS
  <2>1. \A i \in 1..NumIO : pc'[<<l, i-1>>] = pc[<<l, i-1>>]
    BY <1>3, <1>5, NumIOAssumption, ConnFacts DEF First
  <2>2. pc'[First(l)] = pc[First(l)]
    BY <1>3, <1>5, ConnFacts DEF First
  <2>. QED  BY <1>1, <1>8, <1>10, <2>1, <2>2 DEF Owns
<1>12. ~HasSet(k) /\ ~HasSet(k)' /\ \A l \in Clients \ {k} : HasSet(l)' <=> HasSet(l)
  <2>1. ~HasSet(k)
    BY <1>8 DEF TypeOK, HasSet
  <2>2. ~HasSet(k)'
    BY <1>3, <1>6 DEF HasSet, Owns
  <2>. QED  BY <1>1, <1>8, <1>11, <2>1, <2>2 DEF HasSet
<1>13. \A l \in Clients \ {k} : Holds(l)' <=> Holds(l)
  BY <1>8, <1>10, <1>12 DEF Holds
<1>14. Sets'
  <2>. SUFFICES ASSUME NEW m \in DOMAIN ios PROVE \E l \in Clients : Owns(l, m)'
    BY <1>1 DEF Sets
  <2>1. PICK l \in Clients : Num(l) = m /\ Owns(l, m)
    BY SetHasOwner
  <2>2. l # k
    BY <1>8, <2>1 DEF TypeOK
  <2>. QED  BY <1>11, <2>1, <2>2
<1>15. Reserved' /\ Distinct'
  <2>1. \A l \in Clients \ {k} : Holds(l)' => Num(l)' \in ports.used /\ Num(l)' # n
    BY <1>2, <1>8, <1>13 DEF Reserved
  <2>2. Reserved'
    BY <1>4, <1>8, <2>1 DEF Reserved
  <2>3. Distinct'
    BY <1>8, <1>13, <2>1 DEF Distinct
  <2>. QED  BY <2>2, <2>3
<1>16. \A l \in Clients : Returned(l)' <=> Returned(l)
  BY <1>1 DEF Returned
<1>17. Returns'
  BY <1>1, <1>10, <1>12, <1>16 DEF Returns, SetsOfOneClient
<1>18. Deletions'
  <2>1. \A d \in Conns : pc'[d] = "done" <=> pc[d] = "done"
    BY <1>1, <1>5, <1>6
  <2>. QED  BY <1>1, <1>12, <1>16, <2>1, ConnFacts DEF Deletions
<1>. QED  BY <1>1, <1>7, <1>9, <1>14, <1>15, <1>17, <1>18 DEF AcceptedType

LEMMA InvEnter ==
  ASSUME IInv, NEW c \in Conns, Enter(c)
  PROVE  IInv'
<1>. USE DEF IInv
<1>. DEFINE k == Client(c)
            n == Num(k)
<1>1. /\ UNCHANGED <<now, ports, listener, local, told, failed, accepted, deleted, crashed>>
      /\ pc[c] = "enter" /\ pc' = [pc EXCEPT ![c] = "send"]
  BY DEF Enter, At, Goto
<1>2. k \in Clients /\ c = First(k) /\ HasNumber(c) = 0
  BY <1>1, ConnFacts DEF Numbers, First
<1>3. local[c].number = n /\ n \in 1..MaxPort /\ Holds(k)
  BY <1>1, NumberOfClient, UnfiledHolds, SMTT(40) DEF TypeOK
<1>4. ~HasSet(k) /\ n \notin DOMAIN ios
  <2>1. ~HasSet(k)
    BY <1>1, <1>2 DEF HasSet, Owns
  <2>. QED  BY <1>2, <1>3, <2>1, HolderOwns
<1>. HIDE DEF k
<1>5. /\ DOMAIN ios' = DOMAIN ios \cup {n} /\ ios'[n] = NoIOs
      /\ \A m \in DOMAIN ios : ios'[m] = ios[m]
  <2>1. NoIOs \in Seq({NoIO}) /\ <<>> \o NoIOs = NoIOs
    BY NumIOAssumption, ConcatEmptySeq DEF NoIOs
  <2>2. ios' = [m \in DOMAIN ios \cup {n} |->
                   IF m # n THEN ios[m]
                   ELSE (IF n \in DOMAIN ios THEN ios[n] ELSE <<>>) \o NoIOs]
    BY <1>3 DEF Enter
  <2>. HIDE DEF n
  <2>. QED  BY <1>4, <2>1, <2>2
<1>6. /\ DOMAIN created' = DOMAIN ios'
      /\ \A m \in DOMAIN created' : created'[m] \in 0..MaxTime
  <2>1. created' = [m \in DOMAIN created \cup {n} |->
                       IF m = n THEN local[c].timestamp ELSE created[m]]
    BY <1>3 DEF Enter
  <2>2. local[c].timestamp \in 0..MaxTime
    BY DEF TypeOK
  <2>. HIDE DEF n
  <2>. QED  BY <1>5, <2>1, <2>2 DEF TypeOK
<1>7. NoIOs \in Seq(Conns \cup {NoIO}) /\ Len(NoIOs) = NumIO
  BY NumIOAssumption DEF NoIOs
<1>8. TypeOK'
  <2>. HIDE DEF n
  <2>1. DOMAIN ios' \subseteq 1..MaxPort
    BY <1>3, <1>5 DEF TypeOK
  <2>2. \A m \in DOMAIN ios' : ios'[m] \in Seq(Conns \cup {NoIO})
    BY <1>5, <1>7 DEF TypeOK
  <2>. QED  BY <1>1, <1>6, <2>1, <2>2 DEF TypeOK
<1>9. /\ \A l \in Clients : Num(l)' = Num(l)
      /\ \A d \in Conns : d # c => pc'[d] = pc[d]
      /\ pc'[c] = "send"
  BY <1>1 DEF Num, TypeOK
<1>10. Numbers'
  BY <1>1, <1>2, <1>9, ConnFacts DEF Numbers
<1>11. \A d \in Conns : pc'[d] = "done" <=> pc[d] = "done"
  BY <1>1, <1>9
<1>12. \A l \in Clients : AllDone(l)' <=> AllDone(l)
  BY <1>11, ConnFacts DEF AllDone
<1>13. ~AllDone(k)
  BY <1>1, NotAllDone DEF k
<1>14. Owns(k, n)' /\ HasSet(k)'
  <2>1. \A i \in 1..NumIO : pc'[<<k, i-1>>] # "done"
    BY <1>1, <1>2, <1>11, FiledMeansTold, NumIOAssumption, ConnFacts
  <2>2. \A i \in 1..NumIO : NoIOs[i] = NoIO
    BY DEF NoIOs
  <2>. QED  BY <1>2, <1>5, <1>7, <1>9, <1>12, <1>13, <2>1, <2>2, NumIOAssumption DEF Owns, HasSet
<1>15. ASSUME NEW l \in Clients \ {k}, NEW m \in DOMAIN ios
       PROVE  Owns(l, m)' <=> Owns(l, m)
  <2>1. \A i \in 1..NumIO : pc'[<<l, i-1>>] = "done" <=> pc[<<l, i-1>>] = "done"
    BY <1>11, NumIOAssumption, ConnFacts
  <2>2. pc'[First(l)] = pc[First(l)]
    BY <1>2, <1>9, ConnFacts DEF First
  <2>. QED  BY <1>5, <1>9, <1>12, <2>1, <2>2 DEF Owns
<1>16. ASSUME NEW l \in Clients \ {k}
       PROVE  HasSet(l)' <=> HasSet(l)
  <2>1. CASE Num(l) \in DOMAIN ios
    BY <1>5, <1>9, <1>15, <2>1 DEF HasSet
  <2>2. CASE Num(l) = n
    <3>1. ~HasSet(l)
      BY <1>4, <2>2 DEF HasSet
    <3>2. ~AllDone(l) => Holds(l)
      BY <1>3, <2>2 DEF Holds
    <3>3. AllDone(l)
      BY <1>2, <1>3, <2>2, <3>2 DEF Distinct
    <3>4. ~Owns(l, n)'
      BY <1>2, <1>5, <1>7, <1>9, <1>12, <3>3, NumIOAssumption DEF Owns
    <3>. QED  BY <1>2, <1>9, <2>2, <3>1, <3>4 DEF HasSet
  <2>3. CASE Num(l) \notin DOMAIN ios /\ Num(l) # n
    BY <1>5, <1>9, <2>3 DEF HasSet
  <2>. QED  BY <2>1, <2>2, <2>3
<1>17. \A l \in Clients : Holds(l)' <=> Holds(l)
  BY <1>9, <1>12, <1>13, <1>16 DEF Holds
<1>18. Sets'
  <2>. SUFFICES ASSUME NEW m \in DOMAIN ios' PROVE \E l \in Clients : Owns(l, m)'
    BY DEF Sets
  <2>1. CASE m = n
    BY <1>2, <1>9, <1>14, <2>1
  <2>2. CASE m \in DOMAIN ios
    <3>1. PICK l \in Clients : Owns(l, m) /\ HasSet(l) /\ Num(l) = m
      BY <2>2, SetHasOwner
    <3>. QED  BY <1>4, <1>15, <2>2, <3>1
  <2>. QED  BY <1>5, <2>1, <2>2
<1>19. Reserved' /\ Distinct'
  BY <1>1, <1>9, <1>17 DEF Reserved, Distinct
<1>20. \A l \in Clients : Returned(l)' <=> Returned(l)
  BY <1>1 DEF Returned
<1>21. Returns'
  BY <1>1, <1>12, <1>13, <1>16, <1>20 DEF Returns, SetsOfOneClient
<1>22. Deletions'
  <2>1. \A d \in Conns : Client(d) = k => pc[d] # "done"
    BY <1>1, <1>2, FiledMeansTold, ConnFacts
  <2>. QED  BY <1>1, <1>11, <1>16, <1>20, <2>1, ConnFacts DEF Deletions
<1>. QED  BY <1>1, <1>8, <1>10, <1>18, <1>19, <1>21, <1>22 DEF AcceptedType
-----------------------------------------------------------------------------
(* A CONNECTION IS FILED.                                                  *)

(* A set in which client k has filed its connections with the indices D.   *)
FiledBy(list, k, D) ==
    /\ Len(list) = IF D = 0..NumIO-1 THEN NumIO + 1 ELSE NumIO
    /\ \A i \in 1..NumIO : list[i] = IF i-1 \in D THEN <<k, i-1>> ELSE NoIO
    /\ D = 0..NumIO-1 => list[NumIO + 1] = NoIO

LEMMA FiledEffect ==
  ASSUME NEW k \in Clients, NEW j \in 0..NumIO-1, NEW list \in Seq(Conns \cup {NoIO}),
         NEW D \in SUBSET (0..NumIO-1), D # 0..NumIO-1, FiledBy(list, k, D)
  PROVE  /\ Filed(list, <<k, j>>) \in Seq(Conns \cup {NoIO})
         /\ FiledBy(Filed(list, <<k, j>>), k, D \cup {j})
<1>. DEFINE c == <<k, j>>
            filed == [list EXCEPT ![j + 1] = c]
            all == D \cup {j} = 0..NumIO-1
<1>1. NumIO \in Nat /\ j + 1 \in 1..NumIO
  BY NumIOAssumption
<1>2. c \in Conns /\ HasNumber(c) = j /\ \A i \in 0..NumIO-1 : <<k, i>> # NoIO
  BY ConnFacts
<1>3. filed \in Seq(Conns \cup {NoIO}) /\ Len(filed) = NumIO
  BY <1>1, <1>2 DEF FiledBy
<1>4. \A i \in 1..NumIO : filed[i] = IF i-1 \in D \cup {j} THEN <<k, i-1>> ELSE NoIO
  <2>. SUFFICES ASSUME NEW i \in 1..NumIO
                PROVE  filed[i] = IF i-1 \in D \cup {j} THEN <<k, i-1>> ELSE NoIO
    OBVIOUS
  <2>1. CASE i = j + 1
    BY <1>1, <2>1 DEF FiledBy
  <2>2. CASE i # j + 1
    BY <1>1, <2>2 DEF FiledBy
  <2>. QED  BY <2>1, <2>2
<1>. HIDE DEF c
<1>5. NoIO \in ToSet(filed) <=> ~all
  <2>. HIDE DEF filed
  <2>1. NoIO \in ToSet(filed) <=> \E i \in 1..NumIO : filed[i] = NoIO
    <3>1. DOMAIN filed = 1..NumIO
      BY <1>3
    <3>. QED  BY <3>1 DEF ToSet
  <2>2. \A i \in 1..NumIO : filed[i] = NoIO <=> i-1 \notin D \cup {j}
    BY <1>1, <1>2, <1>4
  <2>3. all <=> \A i \in 1..NumIO : i-1 \in D \cup {j}
    <3>1. ASSUME \A i \in 1..NumIO : i-1 \in D \cup {j} PROVE 0..NumIO-1 \subseteq D \cup {j}
      <4>. SUFFICES ASSUME NEW m \in 0..NumIO-1 PROVE m \in D \cup {j}
        OBVIOUS
      <4>1. m + 1 \in 1..NumIO /\ (m + 1) - 1 = m
        BY <1>1
      <4>. QED  BY <3>1, <4>1
    <3>2. \A i \in 1..NumIO : i-1 \in 0..NumIO-1
      BY <1>1
    <3>. QED  BY <3>1, <3>2
  <2>. QED  BY <2>1, <2>2, <2>3
<1>6. Filed(list, c) = IF all THEN Append(filed, NoIO) ELSE filed
  BY <1>2, <1>5 DEF Filed
<1>. HIDE DEF filed
<1>7. /\ Append(filed, NoIO) \in Seq(Conns \cup {NoIO})
      /\ Len(Append(filed, NoIO)) = NumIO + 1
      /\ \A i \in 1..NumIO : Append(filed, NoIO)[i] = filed[i]
      /\ Append(filed, NoIO)[NumIO + 1] = NoIO
  BY <1>1, <1>3
<1>. QED  BY <1>3, <1>4, <1>6, <1>7 DEF c, FiledBy

LEMMA InvPut ==
  ASSUME IInv, NEW c \in Conns, Put(c)
  PROVE  IInv'
<1>. USE DEF IInv
<1>. DEFINE k == Client(c)
            n == Num(k)
<1>1. /\ UNCHANGED <<now, ports, created, listener, local, told, failed, accepted, deleted>>
      /\ pc[c] = "put" /\ pc' = [pc EXCEPT ![c] = "done"]
  BY DEF Put, At, Goto
<1>2. k \in Clients /\ local[c].number = n /\ n \in 1..MaxPort /\ Holds(k)
  <2>1. k \in Clients /\ local[c].number = n /\ n # 0 /\ Holds(k)
    BY <1>1, NumberOfClient, UnfiledHolds, ConnFacts
  <2>2. local[c].number \in 0..MaxPort
    BY DEF TypeOK
  <2>. QED  BY <2>1, <2>2
<1>3. /\ \A d \in Conns : d # c => pc'[d] = pc[d]
      /\ pc'[c] = "done"
  BY <1>1 DEF TypeOK
<1>4. pc' \in [Conns -> {"off", "start", "init", "search", "enter", "send", "put", "done", "failed"}]
  BY <1>1 DEF TypeOK
<1>5. \A l \in Clients : Num(l)' = Num(l)
  BY <1>1 DEF Num
<1>6. Numbers'
  BY <1>1, <1>3, <1>5, ConnFacts DEF Numbers
<1>7. ~AllDone(k) /\ c \notin deleted
  BY <1>1, NotAllDone DEF Deletions
<1>8. pc[First(k)] # "enter" /\ pc'[First(k)] # "enter"
  BY <1>1, <1>2, <1>3, ConnFacts DEF Numbers
<1>9. \A l \in Clients \ {k} : AllDone(l)' <=> AllDone(l)
  <2>1. \A l \in Clients \ {k} : \A i \in 0..NumIO-1 : pc'[<<l, i>>] = pc[<<l, i>>]
    BY <1>3, ConnFacts
  <2>. QED  BY <2>1 DEF AllDone
<1>10. \A l \in Clients : Returned(l)' <=> Returned(l)
  BY <1>1 DEF Returned
<1>. HIDE DEF k
<1>11. CASE n \in DOMAIN ios
  <2>1. HasSet(k) /\ Owns(k, n)
    BY <1>2, <1>11, HolderOwns DEF HasSet
  <2>2. ios' = [ios EXCEPT ![n] = Filed(@, c)] /\ crashed' = crashed
    BY <1>2, <1>11 DEF Put
  <2>. HIDE DEF n
  <2>3. /\ DOMAIN ios' = DOMAIN ios /\ ios'[n] = Filed(ios[n], c)
        /\ \A m \in DOMAIN ios : m # n => ios'[m] = ios[m]
    BY <1>11, <2>2
  <2>4. /\ ios'[n] \in Seq(Conns \cup {NoIO})
        /\ Len(ios'[n]) = IF AllDone(k)' THEN NumIO + 1 ELSE NumIO
        /\ \A i \in 1..NumIO :
              ios'[n][i] = IF pc'[<<k, i-1>>] = "done" THEN <<k, i-1>> ELSE NoIO
        /\ AllDone(k)' => ios'[n][NumIO + 1] = NoIO
    <3>. DEFINE j == HasNumber(c)
                D == {i \in 0..NumIO-1 : pc[<<k, i>>] = "done"}
    <3>1. j \in 0..NumIO-1 /\ c = <<k, j>>
      BY ConnFacts DEF k
    <3>2. \A i \in 1..NumIO : i-1 \in 0..NumIO-1
      BY NumIOAssumption
    <3>3. D \in SUBSET (0..NumIO-1) /\ D # 0..NumIO-1
      BY <1>7 DEF AllDone
    <3>4. ios[n] \in Seq(Conns \cup {NoIO}) /\ FiledBy(ios[n], k, D)
      BY <1>7, <1>11, <2>1, <3>2, <3>3 DEF TypeOK, Owns, FiledBy
    <3>5. \A i \in 0..NumIO-1 : pc'[<<k, i>>] = "done" <=> i \in D \cup {j}
      BY <1>2, <1>3, <3>1, ConnFacts
    <3>6. AllDone(k)' <=> D \cup {j} = 0..NumIO-1
      BY <3>1, <3>5 DEF AllDone
    <3>. HIDE DEF j, D
    <3>7. ios'[n] \in Seq(Conns \cup {NoIO}) /\ FiledBy(ios'[n], k, D \cup {j})
      BY <1>2, <2>3, <3>1, <3>3, <3>4, FiledEffect, ZenonT(60)
    <3>. QED  BY <3>2, <3>5, <3>6, <3>7 DEF FiledBy
  <2>5. TypeOK'
    BY <1>1, <1>4, <2>2, <2>3, <2>4 DEF TypeOK
  <2>6. Owns(k, n)' /\ HasSet(k)'
    BY <1>2, <1>5, <1>8, <1>11, <2>3, <2>4 DEF Owns, HasSet, n
  <2>7. ASSUME NEW l \in Clients \ {k}, NEW m \in DOMAIN ios, m # n
        PROVE  Owns(l, m)' <=> Owns(l, m)
    <3>1. \A i \in 1..NumIO : pc'[<<l, i-1>>] = pc[<<l, i-1>>]
      BY <1>3, NumIOAssumption, ConnFacts DEF k
    <3>2. pc'[First(l)] = pc[First(l)]
      BY <1>3, ConnFacts DEF First, k
    <3>. QED  BY <1>5, <1>9, <2>3, <2>7, <3>1, <3>2 DEF Owns
  <2>8. ASSUME NEW l \in Clients \ {k}
        PROVE  HasSet(l)' <=> HasSet(l)
    <3>1. CASE Num(l) = n
      <4>1. ~HasSet(l)
        BY <1>2, <2>1, <2>8, <3>1, OwnerIsUnique DEF n
      <4>2. \E i \in 1..NumIO : ios'[n][i] = c
        <5>1. HasNumber(c) + 1 \in 1..NumIO /\ (HasNumber(c) + 1) - 1 = HasNumber(c)
          BY NumIOAssumption, ConnFacts
        <5>. QED  BY <1>3, <2>4, <5>1, ConnFacts DEF k
      <4>3. \A i \in 1..NumIO : c # <<l, i-1>> /\ c # NoIO
        BY NumIOAssumption, ConnFacts DEF k
      <4>4. ~Owns(l, n)'
        BY <1>2, <1>5, <4>2, <4>3 DEF Owns, n
      <4>. QED  BY <1>2, <1>5, <3>1, <4>1, <4>4 DEF HasSet, n
    <3>2. CASE Num(l) # n
      BY <1>5, <2>3, <2>7, <3>2 DEF HasSet
    <3>. QED  BY <3>1, <3>2
  <2>9. Sets'
    <3>. SUFFICES ASSUME NEW m \in DOMAIN ios PROVE \E l \in Clients : Owns(l, m)'
      BY <2>3 DEF Sets
    <3>1. CASE m = n
      BY <1>2, <1>5, <2>6, <3>1 DEF n
    <3>2. CASE m # n
      <4>1. PICK l \in Clients : Owns(l, m) /\ Num(l) = m
        BY SetHasOwner
      <4>. QED  BY <2>7, <3>2, <4>1 DEF n
    <3>. QED  BY <3>1, <3>2
  <2>10. \A l \in Clients : Holds(l)' => Holds(l)
    BY <1>2, <1>5, <1>9, <2>8 DEF Holds
  <2>11. Reserved' /\ Distinct'
    BY <1>1, <1>5, <2>10 DEF Reserved, Distinct
  <2>12. Returns'
    <3>1. ~Returned(k)
      BY <1>2, <1>7 DEF Returns
    <3>. QED  BY <1>1, <1>9, <1>10, <2>8, <3>1 DEF Returns, SetsOfOneClient
  <2>13. Deletions'
    <3>. SUFFICES ASSUME NEW d \in Conns
                  PROVE  /\ d \in deleted' => pc'[d] = "done"
                         /\ ~crashed' /\ pc'[d] = "done" =>
                              (d \in deleted' <=> ~HasSet(Client(d))' /\ ~Returned(Client(d))')
      BY DEF Deletions
    <3>1. d \in deleted' => pc'[d] = "done"
      BY <1>1, <1>3, <1>7 DEF Deletions
    <3>2. CASE d = c
      BY <1>1, <1>7, <2>6, <3>1, <3>2 DEF k
    <3>3. CASE d # c
      <4>1. HasSet(Client(d))' <=> HasSet(Client(d))
        BY <2>1, <2>6, <2>8, ConnFacts
      <4>2. Returned(Client(d))' <=> Returned(Client(d))
        BY <1>10, ConnFacts
      <4>. QED  BY <1>1, <1>3, <2>2, <3>1, <3>3, <4>1, <4>2 DEF Deletions
    <3>. QED  BY <3>2, <3>3
  <2>. QED  BY <1>1, <1>6, <2>5, <2>9, <2>11, <2>12, <2>13 DEF AcceptedType
<1>12. CASE n \notin DOMAIN ios
  <2>1. ios' = ios /\ crashed' = TRUE
    BY <1>2, <1>12 DEF Put
  <2>2. TypeOK'
    BY <1>1, <1>4, <2>1 DEF TypeOK
  <2>3. ASSUME NEW l \in Clients \ {k}, NEW m
        PROVE  Owns(l, m)' <=> Owns(l, m)
    <3>1. \A i \in 1..NumIO : pc'[<<l, i-1>>] = pc[<<l, i-1>>]
      BY <1>3, NumIOAssumption, ConnFacts DEF k
    <3>2. pc'[First(l)] = pc[First(l)]
      BY <1>3, ConnFacts DEF First, k
    <3>. QED  BY <1>5, <1>9, <2>1, <3>1, <3>2 DEF Owns
  <2>4. \A l \in Clients : HasSet(l)' <=> HasSet(l)
    BY <1>2, <1>5, <1>12, <2>1, <2>3 DEF HasSet
  <2>5. Sets'
    <3>. SUFFICES ASSUME NEW m \in DOMAIN ios PROVE \E l \in Clients : Owns(l, m)'
      BY <2>1 DEF Sets
    <3>1. PICK l \in Clients : Owns(l, m) /\ Num(l) = m
      BY SetHasOwner
    <3>2. l # k
      BY <1>12, <3>1
    <3>. QED  BY <2>3, <3>1, <3>2
  <2>6. \A l \in Clients : Holds(l)' => Holds(l)
    BY <1>2, <1>5, <1>9, <2>4 DEF Holds
  <2>7. Reserved' /\ Distinct'
    BY <1>1, <1>5, <2>6 DEF Reserved, Distinct
  <2>8. Returns'
    <3>1. ~Returned(k)
      BY <1>2, <1>7 DEF Returns
    <3>. QED  BY <1>1, <1>9, <1>10, <2>4, <3>1 DEF Returns, SetsOfOneClient
  <2>9. Deletions'
    BY <1>1, <1>3, <1>7, <2>1 DEF Deletions
  <2>. QED  BY <1>1, <1>6, <2>2, <2>5, <2>7, <2>8, <2>9 DEF AcceptedType
<1>. QED  BY <1>11, <1>12
-----------------------------------------------------------------------------
(* SETS LEAVE THE MAP.                                                     *)

(* Sets are removed from the map, and nothing else happens to connections  *)
(* and numbers.                                                            *)
LEMMA RemovalEffect ==
  ASSUME IInv, NEW gone, DOMAIN ios' = DOMAIN ios \ gone,
         \A m \in DOMAIN ios' : ios'[m] = ios[m],
         UNCHANGED <<pc, local>>
  PROVE  /\ \A k \in Clients : Num(k)' = Num(k) /\ (AllDone(k)' <=> AllDone(k))
         /\ \A k \in Clients : HasSet(k)' <=> HasSet(k) /\ Num(k) \notin gone
         /\ \A k \in Clients : Holds(k)' => Holds(k)
         /\ Sets'
<1>1. \A k \in Clients : Num(k)' = Num(k) /\ (AllDone(k)' <=> AllDone(k))
  BY DEF Num, AllDone
<1>2. \A k \in Clients : \A m \in DOMAIN ios' : Owns(k, m)' <=> Owns(k, m)
  BY <1>1 DEF Owns
<1>3. \A k \in Clients : HasSet(k)' <=> HasSet(k) /\ Num(k) \notin gone
  BY <1>1, <1>2 DEF HasSet
<1>4. \A k \in Clients : Holds(k)' => Holds(k)
  BY <1>1, <1>3 DEF Holds
<1>5. Sets'
  BY <1>2 DEF IInv, Sets
<1>. QED  BY <1>1, <1>3, <1>4, <1>5

LEMMA InvClear ==
  ASSUME IInv, NEW force \in BOOLEAN, Clear(force),
         UNCHANGED <<now, connVars, accepted, crashed>>,
         listener' \in [at : {"flag", "wait", "clear", "off"}, flag : BOOLEAN,
                        checked : 0..MaxTime, time : 0..MaxTime]
  PROVE  IInv'
<1>. USE DEF IInv
<1>1. UNCHANGED <<ports, pc, local, told, failed>>
  BY DEF Clear, connVars
<1>2. Expired(force) \subseteq DOMAIN ios /\ DOMAIN created = DOMAIN ios
  BY DEF Expired, TypeOK
<1>3. /\ DOMAIN ios' = DOMAIN ios \ Expired(force) /\ \A m \in DOMAIN ios' : ios'[m] = ios[m]
      /\ DOMAIN created' = DOMAIN ios \ Expired(force)
      /\ \A m \in DOMAIN created' : created'[m] = created[m]
  BY <1>2 DEF Clear, ClearSets, Restrict
<1>4. \A c : c \in deleted' <=>
            \/ c \in deleted
            \/ c # NoIO /\ \E n \in Expired(force) \cap DOMAIN ios : c \in ToSet(ios[n])
  BY DEF Clear, ClearSets
<1>5. /\ \A k \in Clients : Num(k)' = Num(k) /\ (AllDone(k)' <=> AllDone(k))
      /\ \A k \in Clients : HasSet(k)' <=> HasSet(k) /\ Num(k) \notin Expired(force)
      /\ \A k \in Clients : Holds(k)' => Holds(k)
      /\ Sets'
  BY <1>1, <1>3, RemovalEffect
<1>6. \A c \in Conns : c \in deleted' <=> c \in deleted \/ \E n \in Expired(force) : c \in ToSet(ios[n])
  BY <1>2, <1>4, ConnFacts
<1>7. \A n \in DOMAIN ios : \A x \in ToSet(ios[n]) : x \in Conns \cup {NoIO}
  BY DEF TypeOK, ToSet
<1>8. TypeOK'
  <2>1. deleted' \subseteq Conns
    BY <1>7, <1>4 DEF TypeOK
  <2>. QED  BY <1>1, <1>2, <1>3, <2>1 DEF TypeOK
<1>9. Numbers'
  BY <1>1, <1>5 DEF Numbers
<1>10. Reserved' /\ Distinct'
  BY <1>1, <1>5 DEF Reserved, Distinct
<1>11. \A k \in Clients : Returned(k)' <=> Returned(k)
  BY DEF Returned
<1>12. Returns'
  BY <1>5, <1>11 DEF Returns, SetsOfOneClient
<1>13. \A c \in Conns :
         (\E n \in Expired(force) : c \in ToSet(ios[n]))
           <=> pc[c] = "done" /\ HasSet(Client(c)) /\ Num(Client(c)) \in Expired(force)
  <2>. SUFFICES ASSUME NEW c \in Conns
                PROVE  (\E n \in Expired(force) : c \in ToSet(ios[n]))
                         <=> pc[c] = "done" /\ HasSet(Client(c)) /\ Num(Client(c)) \in Expired(force)
    OBVIOUS
  <2>1. ASSUME NEW n \in Expired(force), c \in ToSet(ios[n])
        PROVE  pc[c] = "done" /\ HasSet(Client(c)) /\ Num(Client(c)) \in Expired(force)
    <3>1. PICK k \in Clients : Num(k) = n /\ Owns(k, n) /\ HasSet(k)
      BY <1>2, SetHasOwner
    <3>2. PICK i \in 1..Len(ios[n]) : ios[n][i] = c
      BY <1>2, <2>1 DEF ToSet, TypeOK
    <3>3. i \in 1..NumIO
      BY <3>1, <3>2, ConnFacts, NumIOAssumption DEF Owns
    <3>4. c = <<k, i-1>> /\ pc[c] = "done"
      BY <3>1, <3>2, <3>3, ConnFacts DEF Owns
    <3>5. Client(c) = k
      BY <3>3, <3>4, ConnFacts, NumIOAssumption
    <3>. QED  BY <3>1, <3>4, <3>5
  <2>2. ASSUME pc[c] = "done", HasSet(Client(c)), Num(Client(c)) \in Expired(force)
        PROVE  \E n \in Expired(force) : c \in ToSet(ios[n])
    <3>. DEFINE k == Client(c)
                n == Num(k)
                i == HasNumber(c) + 1
    <3>1. i \in 1..NumIO /\ i - 1 = HasNumber(c) /\ c = <<k, i-1>>
      BY ConnFacts, NumIOAssumption
    <3>2. ios[n][i] = c /\ Len(ios[n]) \in {NumIO, NumIO + 1}
      BY <2>2, <3>1 DEF HasSet, Owns
    <3>3. n \in DOMAIN ios /\ i \in DOMAIN ios[n]
      BY <2>2, <3>1, <3>2, NumIOAssumption DEF HasSet, TypeOK
    <3>. QED  BY <2>2, <3>2, <3>3 DEF ToSet
  <2>. QED  BY <2>1, <2>2
<1>14. Deletions'
  <2>. SUFFICES ASSUME NEW c \in Conns
                PROVE  /\ c \in deleted' => pc[c] = "done"
                       /\ ~crashed /\ pc[c] = "done" =>
                            (c \in deleted' <=> ~HasSet(Client(c))' /\ ~Returned(Client(c))')
    BY <1>1 DEF Deletions
  <2>1. HasSet(Client(c))' <=> HasSet(Client(c)) /\ Num(Client(c)) \notin Expired(force)
    BY <1>5, ConnFacts
  <2>2. Returned(Client(c))' <=> Returned(Client(c))
    BY <1>11, ConnFacts
  <2>3. HasSet(Client(c)) => ~Returned(Client(c))
    BY ConnFacts DEF Returns
  <2>. QED  BY <1>6, <1>13, <2>1, <2>2, <2>3 DEF Deletions
<1>. QED  BY <1>5, <1>8, <1>9, <1>10, <1>12, <1>14 DEF AcceptedType

LEMMA InvListenStops == IInv /\ ListenStops => IInv'
<1>. SUFFICES ASSUME IInv, ListenStops PROVE IInv'
  OBVIOUS
<1>1. listener' \in [at : {"flag", "wait", "clear", "off"}, flag : BOOLEAN,
                     checked : 0..MaxTime, time : 0..MaxTime]
  BY DEF ListenStops, IInv, TypeOK
<1>. QED  BY <1>1, InvClear DEF ListenStops

LEMMA InvListenClears == IInv /\ ListenClears => IInv'
<1>. SUFFICES ASSUME IInv, ListenClears PROVE IInv'
  OBVIOUS
<1>1. listener' \in [at : {"flag", "wait", "clear", "off"}, flag : BOOLEAN,
                     checked : 0..MaxTime, time : 0..MaxTime]
  BY DEF ListenClears, IInv, TypeOK
<1>. QED  BY <1>1, InvClear DEF ListenClears

LEMMA InvAccept == IInv /\ Accept => IInv'
<1>. SUFFICES ASSUME IInv, Accept PROVE IInv'
  OBVIOUS
<1>. USE DEF IInv
<1>. DEFINE n == Min(CompleteSets)
            set == SubSeq(ios[n], 1, NumIO)
<1>1. n \in CompleteSets
  <2>1. CompleteSets \subseteq Nat /\ CompleteSets # {}
    BY PortAssumption DEF CompleteSets, TypeOK, Accept
  <2>. QED  BY <2>1, MinIsElement
<1>2. /\ UNCHANGED <<now, listener, pc, local, told, failed, deleted, crashed>>
      /\ accepted' = Append(accepted, [number |-> n, ios |-> set])
      /\ ios' = Restrict(ios, DOMAIN ios \ {n})
      /\ created' = Restrict(created, DOMAIN created \ {n})
      /\ ports' = WithPort(n)
  BY DEF Accept, connVars
<1>. HIDE DEF n
<1>3. n \in DOMAIN ios /\ n \in 1..MaxPort /\ Len(ios[n]) > NumIO
  BY <1>1 DEF CompleteSets, TypeOK
<1>4. PICK k \in Clients : Num(k) = n /\ Owns(k, n) /\ HasSet(k) /\ Holds(k)
  BY <1>3, SetHasOwner
<1>5. AllDone(k) /\ \A i \in 1..NumIO : ios[n][i] = <<k, i-1>>
  <2>1. AllDone(k)
    BY <1>3, <1>4, NumIOAssumption DEF Owns
  <2>2. \A i \in 1..NumIO : i-1 \in 0..NumIO-1
    BY NumIOAssumption
  <2>. QED  BY <1>4, <2>1, <2>2 DEF Owns, AllDone
<1>6. set = SetOf(k) /\ set \in Seq(Conns)
  <2>1. ios[n] \in Seq(Conns \cup {NoIO}) /\ NumIO \in Nat /\ NumIO <= Len(ios[n])
    BY <1>3, NumIOAssumption DEF TypeOK
  <2>2. set = [i \in 1..NumIO |-> ios[n][i]]
    BY <2>1
  <2>3. set = SetOf(k)
    BY <1>5, <2>2 DEF SetOf
  <2>4. \A i \in 1..NumIO : <<k, i-1>> \in Conns
    BY ConnFacts, NumIOAssumption
  <2>5. SetOf(k) \in Seq(Conns)
    BY <2>1, <2>4 DEF SetOf
  <2>. QED  BY <2>3, <2>5
<1>. HIDE DEF set
<1>7. /\ DOMAIN ios' = DOMAIN ios \ {n} /\ \A m \in DOMAIN ios' : ios'[m] = ios[m]
      /\ DOMAIN created' = DOMAIN created \ {n}
      /\ \A m \in DOMAIN created' : created'[m] = created[m]
  BY <1>2 DEF Restrict
<1>8. /\ \A l \in Clients : Num(l)' = Num(l) /\ (AllDone(l)' <=> AllDone(l))
      /\ \A l \in Clients : HasSet(l)' <=> HasSet(l) /\ Num(l) \notin {n}
      /\ \A l \in Clients : Holds(l)' => Holds(l)
      /\ Sets'
  BY <1>2, <1>7, RemovalEffect
<1>9. ~HasSet(k)' /\ \A l \in Clients \ {k} : HasSet(l)' <=> HasSet(l)
  BY <1>4, <1>8, OwnerIsUnique
<1>10. ports'.used = ports.used \ {n} /\ ports'.seq = ports.seq
  BY <1>2 DEF WithPort
<1>11. TypeOK'
  BY <1>2, <1>7, <1>10 DEF TypeOK
<1>12. Numbers'
  BY <1>2, <1>8 DEF Numbers
<1>13. Reserved' /\ Distinct'
  <2>1. ~Holds(k)'
    BY <1>5, <1>8, <1>9 DEF Holds
  <2>2. \A l \in Clients : Holds(l)' => Num(l) # n
    BY <1>4, <1>8, <2>1 DEF Distinct
  <2>. QED  BY <1>8, <1>10, <2>2 DEF Reserved, Distinct
<1>14. /\ DOMAIN accepted' = DOMAIN accepted \cup {Len(accepted) + 1}
       /\ Len(accepted) + 1 \notin DOMAIN accepted
       /\ accepted'[Len(accepted) + 1].ios = SetOf(k)
       /\ \A j \in DOMAIN accepted : accepted'[j] = accepted[j]
       /\ AcceptedType'
  BY <1>2, <1>3, <1>6 DEF AcceptedType
<1>15. \A l \in Clients : Returned(l)' <=> Returned(l) \/ l = k
  <2>1. \A l \in Clients : SetOf(l) = SetOf(k) => l = k
    <3>. SUFFICES ASSUME NEW l \in Clients, SetOf(l) = SetOf(k) PROVE l = k
      OBVIOUS
    <3>1. 1 \in 1..NumIO
      BY NumIOAssumption
    <3>2. SetOf(l)[1] = <<l, 0>> /\ SetOf(k)[1] = <<k, 0>>
      BY <3>1 DEF SetOf
    <3>. QED  BY <3>2
  <2>. QED  BY <1>14, <2>1 DEF Returned
<1>16. ~Returned(k)
  BY <1>4 DEF Returns
<1>17. Returns'
  <2>1. SetsOfOneClient'
    <3>. SUFFICES ASSUME NEW j \in DOMAIN accepted'
                  PROVE  \E client \in Clients : accepted'[j].ios = SetOf(client)
      BY DEF SetsOfOneClient, SetOf
    <3>1. CASE j \in DOMAIN accepted
      BY <1>14, <3>1 DEF Returns, SetsOfOneClient, SetOf
    <3>2. CASE j = Len(accepted) + 1
      BY <1>14, <3>2
    <3>. QED  BY <1>14, <3>1, <3>2
  <2>2. \A i, j \in DOMAIN accepted' : accepted'[i].ios = accepted'[j].ios => i = j
    BY <1>14, <1>16 DEF Returns, Returned
  <2>3. \A l \in Clients : Returned(l)' => AllDone(l)' /\ ~HasSet(l)'
    BY <1>5, <1>8, <1>9, <1>15 DEF Returns
  <2>. QED  BY <2>1, <2>2, <2>3 DEF Returns
<1>18. Deletions'
  <2>. SUFFICES ASSUME NEW c \in Conns
                PROVE  /\ c \in deleted => pc[c] = "done"
                       /\ ~crashed /\ pc[c] = "done" =>
                            (c \in deleted <=> ~HasSet(Client(c))' /\ ~Returned(Client(c))')
    BY <1>2 DEF Deletions
  <2>1. CASE Client(c) = k
    BY <1>4, <1>15, <2>1 DEF Deletions
  <2>2. CASE Client(c) # k
    BY <1>9, <1>15, <2>2, ConnFacts DEF Deletions
  <2>. QED  BY <2>1, <2>2
<1>. QED  BY <1>8, <1>11, <1>12, <1>13, <1>14, <1>17, <1>18
-----------------------------------------------------------------------------
(* THE THEOREMS.                                                           *)

LEMMA NextInv == IInv /\ [Next]_vars => IInv'
<1>. SUFFICES ASSUME IInv, [Next]_vars PROVE IInv'
  OBVIOUS
<1>1. CASE UNCHANGED vars
  <2>1. TypeOK' /\ Numbers' /\ \A k \in Clients : Num(k)' = Num(k)
    BY <1>1 DEF IInv, TypeOK, Numbers, Num, vars, connVars
  <2>. QED  BY <1>1, <2>1, Quiet DEF vars, connVars
<1>2. CASE Tick
  BY <1>2, InvTick
<1>3. CASE ListenStops
  BY <1>3, InvListenStops
<1>4. CASE ListenOn
  BY <1>4, InvListenOn
<1>5. ASSUME NEW c \in Conns, Connect(c) PROVE IInv'
  BY <1>5, InvConnect
<1>6. CASE ListenClears
  BY <1>6, InvListenClears
<1>7. CASE StopListen
  BY <1>7, InvStopListen
<1>8. CASE Accept
  BY <1>8, InvAccept
<1>9. ASSUME NEW c \in Conns, ConnThread(c) PROVE IInv'
  BY <1>9, InvStart, InvSearch, InvGetNumber, InvEnter, InvSendNumber, InvRecvNumber, InvPut, InvFail
     DEF ConnThread
<1>. QED  BY <1>1, <1>2, <1>3, <1>4, <1>5, <1>6, <1>7, <1>8, <1>9 DEF Next, ListenerThread

(* The invariant: who holds a number, and what a set consists of.          *)
THEOREM Holders == Spec => []IInv
<1>1. Init => IInv
  BY InitInv
<1>2. IInv /\ [Next]_vars => IInv'
  BY NextInv
<1>. QED  BY <1>1, <1>2, PTL DEF Spec

(* Every variable has its type.                                            *)
THEOREM TypeCorrect == Spec => []TypeOK
<1>1. IInv => TypeOK
  BY DEF IInv
<1>. QED  BY <1>1, Holders, PTL

(* accept() returns sets of one client, complete and in its order.         *)
THEOREM AcceptedSetsAreOfOneClient == Spec => []SetsOfOneClient
<1>1. IInv => SetsOfOneClient
  BY DEF IInv, Returns
<1>. QED  BY <1>1, Holders, PTL

(* Two clients never work with the same number at the same time.           *)
THEOREM NumbersStayDistinct == Spec => []NumbersAreDistinct
<1>1. IInv => NumbersAreDistinct
  <2>. SUFFICES ASSUME IInv, NEW c \in Conns, NEW d \in Conns,
                       pc[c] \in {"enter", "send", "put"}, pc[d] \in {"enter", "send", "put"},
                       local[c].number = local[d].number
                PROVE  Client(c) = Client(d)
    BY DEF NumbersAreDistinct
  <2>1. Num(Client(c)) = Num(Client(d)) /\ Holds(Client(c)) /\ Holds(Client(d))
    BY NumberOfClient, UnfiledHolds DEF IInv
  <2>. QED  BY <2>1, ConnFacts DEF IInv, Distinct
<1>. QED  BY <1>1, Holders, PTL

LEMMA PlacesOf ==
  ASSUME IInv, NEW c \in Conns
  PROVE  Places(c) = IF pc[c] = "done" /\ HasSet(Client(c))
                     THEN {<<Num(Client(c)), HasNumber(c) + 1>>} ELSE {}
<1>. DEFINE k == Client(c)
            i == HasNumber(c) + 1
<1>1. k \in Clients /\ i \in 1..NumIO /\ c = <<k, i-1>> /\ c # NoIO
  BY ConnFacts, NumIOAssumption
<1>. HIDE DEF k, i
<1>2. ASSUME NEW n \in DOMAIN ios, NEW m \in DOMAIN ios[n], ios[n][m] = c
      PROVE  pc[c] = "done" /\ HasSet(k) /\ n = Num(k) /\ m = i
  <2>1. PICK l \in Clients : Num(l) = n /\ Owns(l, n) /\ HasSet(l)
    BY SetHasOwner DEF IInv
  <2>2. m \in 1..Len(ios[n])
    BY DEF IInv, TypeOK
  <2>3. m \in 1..NumIO
    BY <1>1, <1>2, <2>1, <2>2, NumIOAssumption DEF Owns
  <2>4. c = <<l, m-1>> /\ pc[c] = "done"
    BY <1>1, <1>2, <2>1, <2>3 DEF Owns
  <2>5. l = k /\ m - 1 = i - 1
    BY <1>1, <2>4
  <2>. QED  BY <1>1, <2>1, <2>3, <2>4, <2>5, NumIOAssumption
<1>3. ASSUME pc[c] = "done", HasSet(k)
      PROVE  Num(k) \in DOMAIN ios /\ i \in DOMAIN ios[Num(k)] /\ ios[Num(k)][i] = c
  <2>1. Num(k) \in DOMAIN ios /\ ios[Num(k)][i] = c
    BY <1>1, <1>3 DEF HasSet, Owns
  <2>2. i \in 1..Len(ios[Num(k)])
    BY <1>1, <1>3, NumIOAssumption DEF HasSet, Owns
  <2>. QED  BY <2>1, <2>2 DEF IInv, TypeOK
<1>4. \A p : p \in Places(c) <=>
         \E n \in DOMAIN ios : \E m \in DOMAIN ios[n] : p = <<n, m>> /\ ios[n][m] = c
  BY DEF Places
<1>5. Places(c) = IF pc[c] = "done" /\ HasSet(k) THEN {<<Num(k), i>>} ELSE {}
  BY <1>2, <1>3, <1>4
<1>. QED  BY <1>5 DEF k, i

LEMMA ReturnedOnce ==
  ASSUME IInv, NEW c \in Conns
  PROVE  Cardinality({j \in DOMAIN accepted : c \in ToSet(accepted[j].ios)})
           = IF Returned(Client(c)) THEN 1 ELSE 0
<1>. DEFINE k == Client(c)
            R == {j \in DOMAIN accepted : c \in ToSet(accepted[j].ios)}
<1>1. \A l \in Clients : c \in ToSet(SetOf(l)) <=> l = k
  <2>. SUFFICES ASSUME NEW l \in Clients PROVE c \in ToSet(SetOf(l)) <=> l = k
    OBVIOUS
  <2>1. ToSet(SetOf(l)) = {<<l, i-1>> : i \in 1..NumIO}
    BY DEF ToSet, SetOf
  <2>2. k \in Clients /\ HasNumber(c) + 1 \in 1..NumIO /\ c = <<k, (HasNumber(c) + 1) - 1>>
    BY ConnFacts, NumIOAssumption
  <2>. QED  BY <2>1, <2>2
<1>2. \A j \in DOMAIN accepted : \E l \in Clients : accepted[j].ios = SetOf(l)
  BY DEF IInv, Returns, SetsOfOneClient, SetOf
<1>3. k \in Clients
  BY ConnFacts
<1>4. \A j \in DOMAIN accepted : c \in ToSet(accepted[j].ios) <=> accepted[j].ios = SetOf(k)
  BY <1>1, <1>2, <1>3
<1>5. CASE Returned(k)
  <2>1. PICK j \in DOMAIN accepted : accepted[j].ios = SetOf(k)
    BY <1>5 DEF Returned
  <2>2. R = {j}
    BY <1>4, <2>1 DEF IInv, Returns
  <2>. QED  BY <1>5, <2>2, FS_Singleton
<1>6. CASE ~Returned(k)
  <2>1. R = {}
    BY <1>4, <1>6 DEF Returned
  <2>. QED  BY <1>6, <2>1, FS_EmptySet
<1>. QED  BY <1>5, <1>6

(* A connection that has been filed has one owner: its place in a set, the *)
(* caller of accept(), or the listener that deletes it.                    *)
THEOREM EachHasOneOwner == Spec => []OneOwner
<1>1. IInv => OneOwner
  <2>. SUFFICES ASSUME IInv, ~crashed, NEW c \in Conns
                PROVE  Cardinality(Places(c))
                         + Cardinality({j \in DOMAIN accepted : c \in ToSet(accepted[j].ios)})
                         + Cardinality({c} \cap deleted) = (IF pc[c] = "done" THEN 1 ELSE 0)
    BY DEF OneOwner
  <2>. DEFINE k == Client(c)
  <2>1. k \in Clients
    BY ConnFacts
  <2>2. Cardinality(Places(c)) = IF pc[c] = "done" /\ HasSet(k) THEN 1 ELSE 0
    BY PlacesOf, FS_EmptySet, FS_Singleton
  <2>3. Cardinality({j \in DOMAIN accepted : c \in ToSet(accepted[j].ios)})
          = IF Returned(k) THEN 1 ELSE 0
    BY ReturnedOnce
  <2>4. Cardinality({c} \cap deleted) = IF c \in deleted THEN 1 ELSE 0
    <3>1. {c} \cap deleted = IF c \in deleted THEN {c} ELSE {}
      OBVIOUS
    <3>. QED  BY <3>1, FS_EmptySet, FS_Singleton
  <2>5. Returned(k) => pc[c] = "done" /\ ~HasSet(k)
    BY <2>1, ConnFacts DEF IInv, Returns, AllDone
  <2>6. /\ c \in deleted => pc[c] = "done"
        /\ pc[c] = "done" => (c \in deleted <=> ~HasSet(k) /\ ~Returned(k))
    BY DEF IInv, Deletions
  <2>. HIDE DEF k
  <2>. QED  BY <2>2, <2>3, <2>4, <2>5, <2>6
<1>. QED  BY <1>1, Holders, PTL
=============================================================================

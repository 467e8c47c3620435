----------------------------- MODULE IOManager -----------------------------
(***************************************************************************)
(* The server that collects the connections of a client into one set       *)
(* (network/io_manager.cpp).  A client opens NumIO connections at once and *)
(* cannot tell which comes first.  The first of a client's connections     *)
(* asks for a number, the others bring it; the server files each under its *)
(* number, and accept() hands out the complete sets.                       *)
(*                                                                         *)
(* Three kinds of threads share the manager: the listener, which also      *)
(* clears the sets that stay incomplete for too long; one thread for each  *)
(* connection (init_pado_io); and the callers of accept().  The client's   *)
(* side (connect_pado_io) is one thread for each connection as well.       *)
(***************************************************************************)
EXTENDS Integers, SequencesExt

CONSTANTS
    Clients,   \* each makes one set of connections
    NumIO,     \* get_pado_io_num()
    MaxPort,   \* MAX_PORT_SEQ - 1
    Interval,  \* CHECK_IO_INTERVAL
    Width,     \* times are unsigned, modulo this (2^32 in the code)
    MaxTime,   \* bound: the clock stops here
    Accepts,   \* bound: how often accept() is called
    MayFail,   \* whether connections may fail
    MayStop    \* whether stop_listen may be called

(* A set has at least two connections, and has_number, their index, is a    *)
(* uint8_t: beyond 256 connections indices would come twice.               *)
ASSUME NumIOAssumption == NumIO \in 2..256
ASSUME PortAssumption == MaxPort \in Nat \ {0} /\ MaxPort < 256 * 256
ASSUME TimeAssumption ==
    /\ Interval \in Nat /\ MaxTime \in Nat /\ Width \in Nat
    /\ Width > MaxTime + Interval
ASSUME BoundAssumption == Accepts \in Nat
ASSUME FailureAssumption == MayFail \in BOOLEAN /\ MayStop \in BOOLEAN

(* A connection, by its client and its index there (has_number).           *)
Conns == Clients \X (0..NumIO - 1)
Client(c) == c[1]
HasNumber(c) == c[2]

NoIO == <<>>

VARIABLES
    now,       \* time(NULL)
    ports,     \* port_map, as a set, and port_seq
    ios,       \* pado_io_map
    created,   \* created_timestamp_map
    listener,  \* its step, listen_flag, previous_check_timestamp, and the
               \*     time it has read for the clearing under way
    pc,        \* the server's thread of each connection
    local,     \* its variables timestamp and number
    told,      \* the number a client has been told, 0 before
    failed,    \* clients one of whose threads has failed
    accepted,  \* what accept() has returned, with the number of the set
    deleted,   \* connections the listener has deleted
    crashed    \* a write beyond the end of a vector

connVars == <<pc, local, told, failed>>
vars == <<now, ports, ios, created, listener, connVars, accepted, deleted, crashed>>

Init ==
    /\ now = 0
    /\ ports = [used |-> {}, seq |-> 1]
    /\ ios = <<>> /\ created = <<>>
    /\ listener = [at |-> "flag", flag |-> TRUE, checked |-> 0, time |-> 0]
    /\ pc = [c \in Conns |-> "off"]
    /\ local = [c \in Conns |-> [timestamp |-> 0, number |-> 0]]
    /\ told = [k \in Clients |-> 0]
    /\ failed = {}
    /\ accepted = <<>> /\ deleted = {} /\ crashed = FALSE

Tick ==
    /\ now < MaxTime
    /\ now' = now + 1
    /\ UNCHANGED <<ports, ios, created, listener, connVars, accepted, deleted, crashed>>
-----------------------------------------------------------------------------
(* get_unused_port looks from port_seq on, and wraps.  With every number   *)
(* in use it does not return, and keeps the mutex of the ports.            *)
PortsExhausted == ports.used = 1..MaxPort

Following(p) == IF p = MaxPort THEN 1 ELSE p + 1

NextUnused ==
    LET later == {p \in (1..MaxPort) \ ports.used : p >= ports.seq}
    IN  IF later # {} THEN Min(later) ELSE Min((1..MaxPort) \ ports.used)

(* Faulty variant: the number is not marked.                               *)
WithoutPortUnmarked == [ports EXCEPT !.seq = Following(NextUnused)]

WithoutPort == [used |-> ports.used \cup {NextUnused}, seq |-> Following(NextUnused)]

(* free_used_port                                                          *)
WithPort(p) == [ports EXCEPT !.used = @ \ {p}]
-----------------------------------------------------------------------------
(* THE LISTENER.                                                           *)

(* clear_pado_io at a time: the sets that are older are deleted.           *)
Expired(force) ==
    {n \in DOMAIN created : force \/ (listener.time - created[n]) % Width > Interval}

ClearSets(force) ==
    LET gone == Expired(force)
    IN  /\ created' = Restrict(created, DOMAIN created \ gone)
        /\ ios' = Restrict(ios, DOMAIN ios \ gone)
        /\ deleted' = deleted \cup ((UNION {ToSet(ios[n]) : n \in gone \cap DOMAIN ios}) \ {NoIO})

(* Faulty variant: the number of a cleared set is given back.              *)
ClearFreeing(force) ==
    /\ ClearSets(force)
    /\ ports' = [ports EXCEPT !.used = @ \ Expired(force)]

(* The number of a cleared set stays in use.                               *)
Clear(force) == ClearSets(force) /\ UNCHANGED ports

(* The next turn of the loop: stop, or wait for a connection ...           *)
ListenStops ==
    /\ listener.at = "flag" /\ ~listener.flag
    /\ Clear(TRUE)
    /\ listener' = [listener EXCEPT !.at = "off", !.checked = now]
    /\ UNCHANGED <<now, connVars, accepted, crashed>>

ListenOn ==
    /\ listener.at = "flag" /\ listener.flag
    /\ listener' = [listener EXCEPT !.at = "wait"]
    /\ UNCHANGED <<now, ports, ios, created, connVars, accepted, deleted, crashed>>

(* ... which gets a thread of its own, and the time is read ...            *)
Connect(c) ==
    /\ listener.at = "wait" /\ pc[c] = "off"
    /\ pc' = [pc EXCEPT ![c] = "start"]
    /\ listener' = [listener EXCEPT !.time = now,
                       !.at = IF (now - listener.checked) % Width > Interval
                              THEN "clear" ELSE "flag"]
    /\ UNCHANGED <<now, ports, ios, created, local, told, failed, accepted, deleted, crashed>>

(* ... before the lock is taken for the clearing.                          *)
ListenClears ==
    /\ listener.at = "clear"
    /\ Clear(FALSE)
    /\ listener' = [listener EXCEPT !.at = "flag", !.checked = listener.time]
    /\ UNCHANGED <<now, connVars, accepted, crashed>>

StopListen ==
    /\ MayStop /\ listener.flag
    /\ listener' = [listener EXCEPT !.flag = FALSE]
    /\ UNCHANGED <<now, ports, ios, created, connVars, accepted, deleted, crashed>>
-----------------------------------------------------------------------------
(* THE THREAD OF A CONNECTION (init_pado_io).                              *)

At(c, step) == pc[c] = step

Goto(c, step) == pc' = [pc EXCEPT ![c] = step]

Start(c) ==
    /\ At(c, "start")
    /\ local' = [local EXCEPT ![c].timestamp = now]
    /\ Goto(c, "init")
    /\ UNCHANGED <<now, ports, ios, created, listener, told, failed, accepted, deleted, crashed>>

(* The connection without a number gets one ...                            *)
GetNumber(c) ==
    /\ At(c, "init") /\ HasNumber(c) = 0 /\ ~PortsExhausted
    /\ ports' = WithoutPort
    /\ local' = [local EXCEPT ![c].number = NextUnused]
    /\ Goto(c, "enter")
    /\ UNCHANGED <<now, ios, created, listener, told, failed, accepted, deleted, crashed>>

(* ... or looks for one for ever, with the mutex of the ports held: accept, *)
(* which gives the numbers back, has to wait for it.                       *)
Search(c) ==
    /\ At(c, "init") /\ HasNumber(c) = 0 /\ PortsExhausted
    /\ Goto(c, "search")
    /\ UNCHANGED <<now, ports, ios, created, listener, local, told, failed, accepted, deleted, crashed>>

Spinning == \E c \in Conns : At(c, "search")

(* With a number, its set begins.                                          *)
NoIOs == [i \in 1..NumIO |-> NoIO]

Enter(c) ==
    /\ At(c, "enter")
    /\ LET n == local[c].number
       IN  /\ ios' = [m \in DOMAIN ios \cup {n} |->
                         IF m # n THEN ios[m]
                         ELSE (IF n \in DOMAIN ios THEN ios[n] ELSE <<>>) \o NoIOs]
           /\ created' = [m \in DOMAIN created \cup {n} |->
                             IF m = n THEN local[c].timestamp ELSE created[m]]
    /\ Goto(c, "send")
    /\ UNCHANGED <<now, ports, listener, local, told, failed, accepted, deleted, crashed>>

(* send_size, a number of 32 bits as four bytes, the highest first, and    *)
(* recv_size; a number goes over two such hops on its way back.            *)
SendSize(n) ==
    <<(n \div (256 * 256 * 256)) % 256, (n \div (256 * 256)) % 256, (n \div 256) % 256, n % 256>>
RecvSize(bytes) ==
    256 * (256 * (256 * bytes[1] + bytes[2]) + bytes[3]) + bytes[4]
Hop(n) == RecvSize(SendSize(n))

(* It tells its client, whose other threads wait for that, and send it on  *)
(* unless one of them has failed.                                          *)
SendNumber(c) ==
    /\ At(c, "send")
    /\ told' = IF Client(c) \in failed THEN told
                                      ELSE [told EXCEPT ![Client(c)] = Hop(local[c].number)]
    /\ Goto(c, "put")
    /\ UNCHANGED <<now, ports, ios, created, listener, local, failed, accepted, deleted, crashed>>

(* The connections with a number bring it.                                 *)
RecvNumber(c) ==
    /\ At(c, "init") /\ HasNumber(c) > 0 /\ told[Client(c)] # 0
    /\ local' = [local EXCEPT ![c].number = Hop(told[Client(c)])]
    /\ Goto(c, "put")
    /\ UNCHANGED <<now, ports, ios, created, listener, told, failed, accepted, deleted, crashed>>

(* Faulty variant: no last element marks a complete set.                   *)
FiledUnmarked(list, c) == [list EXCEPT ![HasNumber(c) + 1] = c]

(* Both file the connection.  A set that is not there any more is created  *)
(* empty, and the write goes beyond its end.                               *)
Filed(list, c) ==
    LET filed == [list EXCEPT ![HasNumber(c) + 1] = c]
    IN  IF NoIO \in ToSet(filed) THEN filed ELSE Append(filed, NoIO)

Put(c) ==
    /\ At(c, "put")
    /\ LET n == local[c].number
       IN  IF n \in DOMAIN ios
           THEN /\ ios' = [ios EXCEPT ![n] = Filed(@, c)]
                /\ UNCHANGED crashed
           ELSE /\ crashed' = TRUE
                /\ UNCHANGED ios
    /\ Goto(c, "done")
    /\ UNCHANGED <<now, ports, created, listener, local, told, failed, accepted, deleted>>

(* A connection fails in its thread or at its client, whose other threads  *)
(* then send no number any more.  What it has entered stays.               *)
Fail(c) ==
    /\ pc[c] \in {"init", "send"}
    /\ MayFail \/ Client(c) \in failed
    /\ failed' = failed \cup {Client(c)}
    /\ Goto(c, "failed")
    /\ UNCHANGED <<now, ports, ios, created, listener, local, told, accepted, deleted, crashed>>
-----------------------------------------------------------------------------
(* accept(): the first complete set, in the order of the numbers, if the   *)
(* mutex of the ports can be had.                                          *)
CompleteSets == {n \in DOMAIN ios : Len(ios[n]) > NumIO}

(* Faulty variant: the set stays in the map.                               *)
AcceptKeeping ==
    /\ Len(accepted) < Accepts /\ CompleteSets # {} /\ ~Spinning
    /\ LET n == Min(CompleteSets)
       IN  /\ accepted' = Append(accepted, [number |-> n, ios |-> SubSeq(ios[n], 1, NumIO)])
           /\ created' = Restrict(created, DOMAIN created \ {n})
           /\ ports' = WithPort(n)
           /\ UNCHANGED ios
    /\ UNCHANGED <<now, listener, connVars, deleted, crashed>>

Accept ==
    /\ Len(accepted) < Accepts /\ CompleteSets # {} /\ ~Spinning
    /\ LET n == Min(CompleteSets)
       IN  /\ accepted' = Append(accepted, [number |-> n, ios |-> SubSeq(ios[n], 1, NumIO)])
           /\ ios' = Restrict(ios, DOMAIN ios \ {n})
           /\ created' = Restrict(created, DOMAIN created \ {n})
           /\ ports' = WithPort(n)
    /\ UNCHANGED <<now, listener, connVars, deleted, crashed>>
-----------------------------------------------------------------------------
ListenerThread ==
    ListenStops \/ ListenOn \/ (\E c \in Conns : Connect(c)) \/ ListenClears

ConnThread(c) ==
    Start(c) \/ GetNumber(c) \/ Search(c) \/ Enter(c) \/ SendNumber(c) \/ RecvNumber(c) \/ Put(c) \/ Fail(c)

Next ==
    /\ ~crashed
    /\ \/ Tick \/ ListenerThread \/ StopListen \/ Accept
       \/ \E c \in Conns : ConnThread(c)

(* Connections arrive, the threads run, and somebody calls accept().       *)
Fairness ==
    /\ WF_vars(ListenerThread) /\ WF_vars(Accept)
    /\ \A c \in Conns : WF_vars(ConnThread(c) /\ ~Fail(c))

Spec == Init /\ [][Next]_vars /\ Fairness
-----------------------------------------------------------------------------
(* PROPERTIES.                                                             *)

(* Every variable has its type.                                            *)
TypeOK ==
    /\ now \in 0..MaxTime
    /\ ports.used \subseteq 1..MaxPort /\ ports.seq \in 1..MaxPort
    /\ DOMAIN ios \subseteq 1..MaxPort
    /\ \A n \in DOMAIN ios : ios[n] \in Seq(Conns \cup {NoIO})
    /\ DOMAIN created = DOMAIN ios /\ \A n \in DOMAIN created : created[n] \in 0..MaxTime
    /\ listener \in [at : {"flag", "wait", "clear", "off"}, flag : BOOLEAN,
                     checked : 0..MaxTime, time : 0..MaxTime]
    /\ pc \in [Conns -> {"off", "start", "init", "search", "enter", "send", "put", "done", "failed"}]
    /\ local \in [Conns -> [timestamp : 0..MaxTime, number : 0..MaxPort]]
    /\ told \in [Clients -> 0..MaxPort] /\ failed \subseteq Clients
    /\ deleted \subseteq Conns /\ crashed \in BOOLEAN

(* accept() returns the connections of one client, all of them, in the     *)
(* order the client has opened them, although they arrive in any order,    *)
(* numbers are used again, and a set may be cleared while its connections  *)
(* are still coming.                                                       *)
SetsOfOneClient ==
    \A k \in DOMAIN accepted :
        \E client \in Clients : accepted[k].ios = [i \in 1..NumIO |-> <<client, i - 1>>]

(* A connection that has been filed has one owner: its place in a set, the *)
(* caller of accept(), or the listener that deletes it.  None is           *)
(* overwritten, returned twice, or deleted in the hands of a caller.       *)
Places(c) ==
    {p \in UNION {{n} \X DOMAIN ios[n] : n \in DOMAIN ios} : ios[p[1]][p[2]] = c}

OneOwner ==
    ~crashed =>
        \A c \in Conns :
            Cardinality(Places(c)) + Cardinality({k \in DOMAIN accepted : c \in ToSet(accepted[k].ios)})
                + Cardinality({c} \cap deleted) = (IF pc[c] = "done" THEN 1 ELSE 0)

(* Two clients never work with the same number at the same time, also when *)
(* the numbers wrap around.                                                *)
NumbersAreDistinct ==
    \A c, d \in Conns :
        /\ pc[c] \in {"enter", "send", "put"} /\ pc[d] \in {"enter", "send", "put"}
        /\ local[c].number = local[d].number
        => Client(c) = Client(d)

(* With no failures, and within the interval, every client's set is        *)
(* accepted, whatever the order of its connections.                        *)
AllAccepted == <>(Len(accepted) = Cardinality(Clients))
=============================================================================

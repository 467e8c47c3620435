---------------------------- MODULE ByteChannel ----------------------------
(***************************************************************************)
(* What a channel between two peers promises to the protocol that runs on  *)
(* it: in each direction a stream of bytes that arrives in order, without  *)
(* loss, duplication or invention, and a reader that gets every byte its   *)
(* peer has pushed.  The writer may hold bytes back in a buffer; `pushed'  *)
(* counts the bytes that have left it.  A reader asks for a number of      *)
(* bytes and gets them in one or more pieces; its request may fail only    *)
(* when the connection is lost or when it has read all that was pushed.    *)
(*                                                                         *)
(* Nothing here is code: WebSocketIO.tla is shown to implement it.  A byte *)
(* is named by its position in its stream, so that a byte that arrives in  *)
(* another place than its own is seen.                                     *)
(***************************************************************************)
EXTENDS Naturals, Sequences

CONSTANTS Server, Client

VARIABLES
    written,   \* written[p]: how many bytes peer p has handed to the channel
    pushed,    \* pushed[p]: how many of them have left p's send buffer
    read,      \* read[p]: the bytes peer p has been given
    want,      \* want[p]: how many bytes p's request is still waiting for
    lost       \* the connection is gone

vars == <<written, pushed, read, want, lost>>

Peers == {Server, Client}
Other(p) == IF p = Server THEN Client ELSE Server

Available(p) == pushed[Other(p)] - Len(read[p])

Init ==
    /\ written = [p \in Peers |-> 0]
    /\ pushed = [p \in Peers |-> 0]
    /\ read = [p \in Peers |-> <<>>]
    /\ want = [p \in Peers |-> 0]
    /\ lost = FALSE

(* f changes at p only.                                                    *)
ChangesAt(f, g, p) == g = [f EXCEPT ![p] = g[p]]

(* p hands bytes over; some of them, or of the earlier ones, may leave the *)
(* buffer in the same step.                                                *)
Write(p) ==
    /\ written[p] < written'[p] /\ ChangesAt(written, written', p)
    /\ pushed[p] <= pushed'[p] /\ pushed'[p] <= written'[p]
    /\ ChangesAt(pushed, pushed', p)
    /\ UNCHANGED <<read, want, lost>>

Push(p) ==
    /\ pushed[p] < pushed'[p] /\ pushed'[p] <= written[p]
    /\ ChangesAt(pushed, pushed', p)
    /\ UNCHANGED <<written, read, want, lost>>

Request(p) ==
    /\ want[p] = 0
    /\ want'[p] > 0 /\ ChangesAt(want, want', p)
    /\ UNCHANGED <<written, pushed, read, lost>>

(* The next n bytes of the other peer's stream, and no more than have been *)
(* pushed.                                                                 *)
Read(p) ==
    /\ \E n \in 1..want[p] :
           /\ n <= Available(p)
           /\ read' = [read EXCEPT ![p] = [i \in 1..(Len(@) + n) |-> i]]
           /\ want' = [want EXCEPT ![p] = @ - n]
    /\ UNCHANGED <<written, pushed, lost>>

Abort(p) ==
    /\ want[p] > 0
    /\ lost \/ Available(p) = 0
    /\ want' = [want EXCEPT ![p] = 0]
    /\ UNCHANGED <<written, pushed, read, lost>>

Lose == ~lost /\ lost' = TRUE /\ UNCHANGED <<written, pushed, read, want>>

Next ==
    \/ \E p \in Peers : Write(p) \/ Push(p) \/ Request(p) \/ Read(p) \/ Abort(p)
    \/ Lose

(* No request waits for ever while bytes for it have been pushed.          *)
Answered == \A p \in Peers : []<>(lost \/ want[p] = 0 \/ Available(p) = 0)

Safe == Init /\ [][Next]_vars
Spec == Safe /\ Answered
=============================================================================

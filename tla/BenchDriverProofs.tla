------------------------- MODULE BenchDriverProofs -------------------------
(***************************************************************************)
(* Theorems about BenchDriver, proved with TLAPS for every number of       *)
(* channels and everything that the libraries' calls may say: the          *)
(* handshakes of a benchmark discard no frame, but for the one case that   *)
(* NoFrameSwallowed names; what Alice reports is what was sent; and a      *)
(* party that closes its channels leaves nothing unread.                   *)
(***************************************************************************)
EXTENDS BenchDriver, SequenceInduction, FiniteSetTheorems

ClientPlaces == {"connect", "request", "check"}
ServerPlaces == {"listen", "accept", "respond"}
RunPlaces == {"talk", "exchange", "delete", "done"}
Places == ClientPlaces \cup ServerPlaces \cup RunPlaces \cup {"failed", "killed"}

(* The types that the argument needs.                                      *)
Types ==
    /\ driver \in Drivers /\ talk \in Seq(Message)
    /\ st \in [Parties -> Places]
    /\ st[Alice] \notin ServerPlaces /\ st[Bob] \notin ClientPlaces
    /\ opened \in [Parties -> 0..OpenCount]
    /\ hello = [p \in Parties |-> [c \in Channels |-> hello[p][c]]]
    /\ swallowed \in PerChannel(Nat)
    /\ at \in [Parties -> 1..Len(talk) + 1]
    /\ written \in PerChannel(Nat) /\ pushed \in PerChannel(Nat) /\ got \in PerChannel(Nat)
    /\ closed \in [Parties -> 0..OpenCount]

(* What the place of a party says of its position.                         *)
Positions ==
    \A p \in Parties :
        /\ st[p] \in ClientPlaces \cup ServerPlaces => opened[p] < OpenCount
        /\ st[p] \in RunPlaces => opened[p] = OpenCount
        /\ st[p] \in {"exchange", "delete", "done"} => at[p] = Len(talk) + 1
        /\ st[p] = "delete" => closed[p] < OpenCount
        /\ closed[p] > 0 => st[p] \in {"delete", "done", "failed", "killed"}

OpenedBy(c, n) == \E k \in 1..OpenCount : k <= n /\ OpenOrder(driver)[k] = c

(* The parties open their channels in step: Bob is at most one ahead.      *)
InStep ==
    /\ opened[Alice] <= opened[Bob] /\ opened[Bob] <= opened[Alice] + 1
    /\ st[Bob] = "respond" => opened[Bob] = opened[Alice]
    /\ \A c \in dialled : OpenedBy(c, opened[Alice] + 1)
    /\ \A c \in Channels : hello[Bob][c] # <<>> => OpenedBy(c, opened[Bob])

(* A party sends nothing before all its channels are open, ...             *)
SilentBefore ==
    \A p \in Parties : opened[p] < OpenCount =>
        at[p] = 1 /\ \A c \in Channels : pushed[p][c] = 0 /\ written[p][c] = 0

(* ... while Alice has not got there, Bob has said all that was said, ...  *)
BobAlone ==
    opened[Alice] < OpenCount => \A j \in 1..at[Bob]-1 : talk[j].from = Bob

(* ... and what he has sent is a message of the talk, or his report.       *)
SaidOn(c) ==
    \/ \E j \in 1..at[Bob]-1 : talk[j].from = Bob /\ talk[j].ch = c
    \/ c = 0 /\ at[Bob] = Len(talk) + 1

Said == \A c \in Channels : pushed[Bob][c] > 0 \/ written[Bob][c] > 0 => SaidOn(c)

IInv ==
    /\ Types /\ Positions /\ InStep
    /\ SilentBefore /\ BobAlone /\ Said
    /\ NoFrameSwallowed
-----------------------------------------------------------------------------
(* Channels have names, and each is opened once.                           *)
LEMMA OrderIsInjective ==
  ASSUME driver \in Drivers
  PROVE  /\ OpenCount \in Nat \ {0}
         /\ \A k \in 1..OpenCount : OpenOrder(driver)[k] \in Channels
         /\ \A j, k \in 1..OpenCount :
                OpenOrder(driver)[j] = OpenOrder(driver)[k] => j = k
  BY ThreadsAssumption
     DEF OpenCount, NumChannels, OpenOrder, HasOpt, Channels, Opt

LEMMA OpeningIsNext ==
  ASSUME Types, NEW p \in Parties, opened[p] < OpenCount, NEW n \in Nat,
         OpenedBy(Opening(p), n)
  PROVE  opened[p] + 1 <= n
<1>1. opened[p] + 1 \in 1..OpenCount
  BY OrderIsInjective DEF Types
<1>2. PICK k \in 1..OpenCount : k <= n /\ OpenOrder(driver)[k] = OpenOrder(driver)[opened[p] + 1]
  BY DEF OpenedBy, Opening
<1>. QED
  BY <1>1, <1>2, OrderIsInjective DEF Types

LEMMA OpeningIsAChannel ==
  ASSUME Types, NEW p \in Parties, opened[p] < OpenCount
  PROVE  Opening(p) \in Channels /\ OpenedBy(Opening(p), opened[p] + 1)
<1>1. opened[p] + 1 \in 1..OpenCount
  BY OrderIsInjective DEF Types
<1>. QED
  BY <1>1, OrderIsInjective DEF Types, Opening, OpenedBy

LEMMA OpenedByMore ==
  ASSUME NEW c, NEW m \in Nat, NEW n \in Nat, m <= n, OpenedBy(c, m), OpenCount \in Nat
  PROVE  OpenedBy(c, n)
  BY DEF OpenedBy

LEMMA InitInv == Init => IInv
<1>. SUFFICES ASSUME Init PROVE IInv
  OBVIOUS
<1>1. talk \in Seq(Message)
  BY TalkAssumption DEF Init
<1>2. OpenCount \in Nat \ {0}
  BY OrderIsInjective DEF Init
<1>3. Types
  <2>1. /\ st \in [Parties -> Places]
        /\ st[Alice] \notin ServerPlaces /\ st[Bob] \notin ClientPlaces
    BY PartiesAssumption DEF Init, Parties, Places, ClientPlaces, ServerPlaces
  <2>2. hello = [p \in Parties |-> [c \in Channels |-> hello[p][c]]]
    BY DEF Init
  <2>3. at \in [Parties -> 1..Len(talk) + 1]
    BY <1>1 DEF Init
  <2>. QED
    BY <1>1, <1>2, <2>1, <2>2, <2>3 DEF Init, Types, PerChannel
<1>4. Positions
  BY <1>2 DEF Init, Positions, RunPlaces
<1>5. InStep
  BY <1>2 DEF Init, InStep, Parties
<1>6. SilentBefore /\ BobAlone /\ Said /\ NoFrameSwallowed
  BY DEF Init, SilentBefore, BobAlone, Said, NoFrameSwallowed, Parties
<1>. QED
  BY <1>3, <1>4, <1>5, <1>6 DEF IInv
-----------------------------------------------------------------------------
(* A step that leaves the program and the handshakes' outcome alone keeps  *)
(* NoFrameSwallowed.                                                       *)
LEMMA StillNotSwallowed ==
  ASSUME NoFrameSwallowed, UNCHANGED <<program, swallowed>>
  PROVE  NoFrameSwallowed'
  BY DEF NoFrameSwallowed, BobSpeaksFirst, LastOpened, OpenCount, program

(* Steps that change only the place of a party, and the connections.       *)
LEMMA InvListen == IInv /\ Listen => IInv'
<1>. SUFFICES ASSUME IInv, Listen PROVE IInv'
  OBVIOUS
<1>. USE DEF IInv
<1>1. UNCHANGED <<program, opened, dialled, hello, swallowed, at, dataVars, closed>>
  BY DEF Listen
<1>2. st' = [st EXCEPT ![Bob] = "accept"] /\ st[Bob] = "listen"
  BY DEF Listen, Move
<1>3. Types'
  BY <1>1, <1>2, PartiesAssumption
     DEF Types, Places, ClientPlaces, ServerPlaces, Parties, program, dataVars, OpenCount, PerChannel
<1>4. Positions'
  BY <1>1, <1>2 DEF Types, Positions, RunPlaces, ClientPlaces, ServerPlaces, program, OpenCount
<1>5. InStep'
  BY <1>1, <1>2 DEF Types, InStep, OpenedBy, OpenCount, program, Parties
<1>6. SilentBefore' /\ BobAlone' /\ Said'
  BY <1>1 DEF SilentBefore, BobAlone, Said, SaidOn, OpenCount, program, dataVars
<1>. QED
  BY <1>1, <1>3, <1>4, <1>5, <1>6, StillNotSwallowed

LEMMA InvAccept == IInv /\ Accept => IInv'
<1>. SUFFICES ASSUME IInv, Accept PROVE IInv'
  OBVIOUS
<1>. USE DEF IInv
<1>1. UNCHANGED <<program, setupVars, at, dataVars, closed>>
  BY DEF Accept
<1>2. st' = [st EXCEPT ![Bob] = "respond"] /\ st[Bob] = "accept"
  BY DEF Accept, Move
<1>3. Types'
  BY <1>1, <1>2, PartiesAssumption
     DEF Types, Places, ClientPlaces, ServerPlaces, Parties, program, setupVars, dataVars,
         OpenCount, PerChannel
<1>4. Positions'
  BY <1>1, <1>2
     DEF Types, Positions, RunPlaces, ClientPlaces, ServerPlaces, program, setupVars, OpenCount
<1>5. opened[Bob] = opened[Alice]
  <2>1. OpenedBy(Opening(Bob), opened[Alice] + 1)
    BY DEF Accept, InStep
  <2>2. opened[Bob] < OpenCount
    BY <1>2 DEF Positions, ServerPlaces, Parties
  <2>3. opened[Bob] + 1 <= opened[Alice] + 1
    BY <2>1, <2>2, OpeningIsNext DEF Types, Parties
  <2>. QED
    BY <2>3 DEF InStep, Types, Parties
<1>6. InStep'
  BY <1>1, <1>2, <1>5 DEF Types, InStep, OpenedBy, OpenCount, program, setupVars, Parties
<1>7. SilentBefore' /\ BobAlone' /\ Said'
  BY <1>1 DEF SilentBefore, BobAlone, Said, SaidOn, OpenCount, program, setupVars, dataVars
<1>. QED
  BY <1>1, <1>3, <1>4, <1>6, <1>7, StillNotSwallowed DEF setupVars

LEMMA InvConnect == IInv /\ Connect => IInv'
<1>. SUFFICES ASSUME IInv, Connect PROVE IInv'
  OBVIOUS
<1>. USE DEF IInv
<1>1. UNCHANGED <<program, opened, hello, swallowed, at, dataVars, closed>>
  BY DEF Connect
<1>2. st' = [st EXCEPT ![Alice] = "request"] /\ st[Alice] = "connect"
  BY DEF Connect, Move
<1>3. Types'
  BY <1>1, <1>2, PartiesAssumption
     DEF Types, Places, ClientPlaces, ServerPlaces, Parties, program, dataVars, OpenCount, PerChannel
<1>4. Positions'
  BY <1>1, <1>2 DEF Types, Positions, RunPlaces, ClientPlaces, ServerPlaces, program, OpenCount
<1>5. InStep'
  <2>1. opened[Alice] < OpenCount
    BY <1>2 DEF Positions, ClientPlaces, Parties
  <2>2. OpenedBy(Opening(Alice), opened[Alice] + 1)
    BY <2>1, OpeningIsAChannel DEF Parties
  <2>3. \A c \in dialled' : OpenedBy(c, opened[Alice] + 1)
    BY <2>2 DEF Connect, InStep
  <2>. QED
    BY <1>1, <1>2, <2>3, PartiesAssumption
       DEF Types, InStep, OpenedBy, OpenCount, program, Parties
<1>6. SilentBefore' /\ BobAlone' /\ Said'
  BY <1>1 DEF SilentBefore, BobAlone, Said, SaidOn, OpenCount, program, dataVars
<1>. QED
  BY <1>1, <1>3, <1>4, <1>5, <1>6, StillNotSwallowed

LEMMA InvRequest == IInv /\ Request => IInv'
<1>. SUFFICES ASSUME IInv, Request PROVE IInv'
  OBVIOUS
<1>. USE DEF IInv
<1>1. UNCHANGED <<program, opened, dialled, swallowed, at, dataVars, closed>>
  BY DEF Request
<1>2. st' = [st EXCEPT ![Alice] = "check"] /\ st[Alice] = "request"
  BY DEF Request, Move
<1>3. hello' = [hello EXCEPT ![Alice][Opening(Alice)] = HandshakeRequest]
  BY DEF Request
<1>4. Types'
  <2>1. hello' = [p \in Parties |-> [c \in Channels |-> hello'[p][c]]]
    BY <1>3 DEF Types
  <2>. QED
    BY <1>1, <1>2, <2>1, PartiesAssumption
       DEF Types, Places, ClientPlaces, ServerPlaces, Parties, program, dataVars, OpenCount, PerChannel
<1>5. Positions'
  BY <1>1, <1>2 DEF Types, Positions, RunPlaces, ClientPlaces, ServerPlaces, program, OpenCount
<1>6. hello'[Bob] = hello[Bob]
  BY <1>3, PartiesAssumption DEF Types, Parties
<1>7. InStep'
  BY <1>1, <1>2, <1>6, PartiesAssumption
     DEF Types, InStep, OpenedBy, OpenCount, program, Parties
<1>8. SilentBefore' /\ BobAlone' /\ Said'
  BY <1>1 DEF SilentBefore, BobAlone, Said, SaidOn, OpenCount, program, dataVars
<1>. QED
  BY <1>1, <1>4, <1>5, <1>7, <1>8, StillNotSwallowed
-----------------------------------------------------------------------------
(* The two steps that read a handshake message.  Bob's finds no frame: his *)
(* peer cannot have more channels open than he has.                        *)
LEMMA RespondSwallowsNothing ==
  ASSUME IInv, st[Bob] = "respond", NEW n, RecvHandshake(Bob, n)
  PROVE  swallowed' = [swallowed EXCEPT ![Bob][Opening(Bob)] = 0]
<1>. USE DEF IInv
<1>1. opened[Bob] < OpenCount /\ opened[Alice] < OpenCount
  BY DEF Positions, InStep, ServerPlaces, Parties
<1>2. Opening(Bob) \in Channels
  BY <1>1, OpeningIsAChannel DEF Parties
<1>3. Peer(Bob) = Alice
  BY PartiesAssumption DEF Peer
<1>4. pushed[Alice][Opening(Bob)] = 0
  BY <1>1, <1>2 DEF SilentBefore, Parties
<1>. QED
  BY <1>3, <1>4 DEF RecvHandshake

LEMMA InvRespond == IInv /\ Respond => IInv'
<1>. SUFFICES ASSUME IInv, Respond PROVE IInv'
  OBVIOUS
<1>. USE DEF IInv
<1>. DEFINE c == Opening(Bob)
<1>1. UNCHANGED <<program, listening, dialled, at, dataVars, closed>> /\ st[Bob] = "respond"
  BY DEF Respond
<1>2. opened[Bob] < OpenCount /\ opened[Bob] = opened[Alice]
  BY <1>1 DEF Positions, InStep, ServerPlaces, Parties
<1>3. c \in Channels /\ OpenedBy(c, opened[Bob] + 1)
  BY <1>2, OpeningIsAChannel DEF Parties
<1>4. PICK n \in 1..3 : RecvHandshake(Bob, n)
        /\ \/ /\ hello' = [[hello EXCEPT ![Alice][c] = Rest(@, n)] EXCEPT ![Bob][c] = HandshakeReply]
              /\ Opened(Bob)
           \/ /\ hello' = [hello EXCEPT ![Alice][c] = Rest(@, n)]
              /\ Move(Bob, "failed") /\ UNCHANGED opened
  BY DEF Respond
<1>5. swallowed' = [swallowed EXCEPT ![Bob][c] = 0]
  BY <1>1, <1>4, RespondSwallowsNothing
<1>6. OpenCount' = OpenCount /\ OpenCount \in Nat
  BY <1>1, OrderIsInjective DEF OpenCount, program, Types
<1>7. \/ /\ opened' = [opened EXCEPT ![Bob] = @ + 1]
         /\ \/ st' = [st EXCEPT ![Bob] = "talk"] /\ opened[Bob] + 1 = OpenCount
            \/ st' = [st EXCEPT ![Bob] = "listen"] /\ opened[Bob] + 1 # OpenCount
      \/ opened' = opened /\ st' = [st EXCEPT ![Bob] = "failed"]
  BY <1>4 DEF Opened, Move
<1>8. Types'
  <2>1. DOMAIN hello' = Parties /\ \A p \in Parties : DOMAIN hello'[p] = Channels
    <3>1. DOMAIN hello = Parties /\ \A p \in Parties : DOMAIN hello[p] = Channels
      BY DEF Types
    <3>2. CASE hello' = [hello EXCEPT ![Alice][c] = Rest(@, n)]
      BY <3>1, <3>2
    <3>3. CASE hello' = [[hello EXCEPT ![Alice][c] = Rest(@, n)] EXCEPT ![Bob][c] = HandshakeReply]
      BY <3>1, <3>3
    <3>. QED
      BY <1>4, <3>2, <3>3
  <2>2. hello' = [p \in Parties |-> [d \in Channels |-> hello'[p][d]]]
    <3>1. hello' = [p \in Parties |-> hello'[p]]
      BY <1>4, <2>1 DEF Types
    <3>2. \A p \in Parties : hello'[p] = [d \in Channels |-> hello'[p][d]]
      BY <1>4, <2>1, PartiesAssumption, ZenonT(60) DEF Types, Parties
    <3>. QED
      BY <3>1, <3>2
  <2>3. swallowed' \in PerChannel(Nat)
    BY <1>5 DEF Types, PerChannel
  <2>4. opened' \in [Parties -> 0..OpenCount']
    BY <1>2, <1>6, <1>7, SMTT(40) DEF Types, Parties
  <2>5. /\ st' \in [Parties -> Places]
        /\ st'[Alice] \notin ServerPlaces /\ st'[Bob] \notin ClientPlaces
    BY <1>7, PartiesAssumption
       DEF Types, Places, ClientPlaces, ServerPlaces, RunPlaces, Parties
  <2>. QED
    BY <1>1, <1>6, <2>2, <2>3, <2>4, <2>5 DEF Types, program, dataVars, PerChannel
<1>9. Positions'
  BY <1>1, <1>2, <1>6, <1>7
     DEF Types, Positions, RunPlaces, ClientPlaces, ServerPlaces, program, Parties
<1>10. InStep'
  <2>1. opened'[Alice] = opened[Alice] /\ opened'[Bob] \in {opened[Bob], opened[Bob] + 1}
    BY <1>7, PartiesAssumption DEF Types, Parties
  <2>2. st'[Bob] # "respond"
    BY <1>7 DEF Types, Parties
  <2>3. \A d, m : OpenedBy(d, m)' = OpenedBy(d, m)
    BY <1>1 DEF OpenedBy, OpenCount, program
  <2>4. \A d \in Channels : hello'[Bob][d] # <<>> => OpenedBy(d, opened'[Bob])
    <3>1. TAKE d \in Channels
    <3>2. CASE hello' = [hello EXCEPT ![Alice][c] = Rest(@, n)] /\ UNCHANGED opened
      BY <3>2, PartiesAssumption DEF Types, Parties, InStep
    <3>3. CASE /\ hello' = [[hello EXCEPT ![Alice][c] = Rest(@, n)] EXCEPT ![Bob][c] = HandshakeReply]
               /\ Opened(Bob)
      <4>1. d # c => hello'[Bob][d] = hello[Bob][d]
        BY <3>3, PartiesAssumption DEF Types, Parties
      <4>2. OpenedBy(d, opened[Bob]) => OpenedBy(d, opened[Bob] + 1)
        BY <1>6, OpenedByMore DEF Types, Parties
      <4>3. opened'[Bob] = opened[Bob] + 1
        BY <3>3 DEF Opened, Types, Parties
      <4>. QED
        BY <1>3, <4>1, <4>2, <4>3 DEF InStep
    <3>. QED
      BY <1>4, <3>2, <3>3
  <2>5. \A d \in dialled' : OpenedBy(d, opened'[Alice] + 1)
    BY <1>1, <2>1 DEF InStep
  <2>. QED
    BY <1>2, <2>1, <2>2, <2>3, <2>4, <2>5 DEF InStep, Types, Parties
<1>11. SilentBefore' /\ BobAlone' /\ Said'
  BY <1>1, <1>2, <1>6, <1>7, PartiesAssumption
     DEF SilentBefore, BobAlone, Said, SaidOn, program, dataVars, Types, Parties
<1>12. NoFrameSwallowed'
  BY <1>1, <1>5
     DEF NoFrameSwallowed, BobSpeaksFirst, LastOpened, OpenCount, program, Types, PerChannel
<1>. QED
  BY <1>8, <1>9, <1>10, <1>11, <1>12

(* What Alice finds behind a reply is there only if Bob has all channels   *)
(* open and speaks first; then she is at the last one.                     *)
LEMMA FoundBehindReply ==
  ASSUME IInv, opened[Alice] < OpenCount, pushed[Bob][Opening(Alice)] > 0
  PROVE  Opening(Alice) = LastOpened /\ BobSpeaksFirst
<1>. USE DEF IInv
<1>. DEFINE c == Opening(Alice)
<1>1. c \in Channels
  BY OpeningIsAChannel DEF Parties
<1>2. opened[Bob] = OpenCount
  BY <1>1, OrderIsInjective DEF SilentBefore, Types, Parties, PerChannel
<1>3. opened[Alice] + 1 = OpenCount
  BY <1>2 DEF InStep, Types, Parties
<1>4. c = LastOpened
  BY <1>3 DEF Opening, LastOpened
<1>5. SaidOn(c)
  BY <1>1 DEF Said
<1>6. at[Bob] \in 1..Len(talk) + 1 /\ Len(talk) \in Nat
  BY DEF Types, Parties
<1>7. CASE \E j \in 1..at[Bob]-1 : talk[j].from = Bob /\ talk[j].ch = c
  <2>1. PICK j \in 1..at[Bob]-1 : talk[j].from = Bob /\ talk[j].ch = c
    BY <1>7
  <2>2. j \in 1..Len(talk) + 1 /\ j <= Len(talk)
    BY <1>6
  <2>3. \A k \in 1..j-1 : talk[k].from = Bob
    BY <1>6 DEF BobAlone
  <2>. QED
    BY <1>4, <2>1, <2>2, <2>3 DEF BobSpeaksFirst
<1>8. CASE c = 0 /\ at[Bob] = Len(talk) + 1
  BY <1>4, <1>6, <1>8 DEF BobSpeaksFirst, BobAlone
<1>. QED
  BY <1>4, <1>5, <1>7, <1>8 DEF SaidOn

LEMMA InvCheck == IInv /\ Check => IInv'
<1>. SUFFICES ASSUME IInv, Check PROVE IInv'
  OBVIOUS
<1>. USE DEF IInv
<1>. DEFINE c == Opening(Alice)
<1>1. /\ UNCHANGED <<program, listening, dialled, at, dataVars, closed>>
      /\ st[Alice] = "check" /\ Opened(Alice)
  BY DEF Check
<1>2. opened[Alice] < OpenCount
  BY <1>1 DEF Positions, ClientPlaces, Parties
<1>3. c \in Channels
  BY <1>2, OpeningIsAChannel DEF Parties
<1>4. Peer(Alice) = Bob
  BY DEF Peer
<1>5. PICK n \in 1..2 : RecvHandshake(Alice, n) /\ hello' = [hello EXCEPT ![Bob][c] = Rest(@, n)]
  BY DEF Check
<1>6. hello[Bob][c] # <<>>
  BY <1>4, <1>5 DEF RecvHandshake
<1>7. PICK k \in 0..pushed[Bob][c] : swallowed' = [swallowed EXCEPT ![Alice][c] = k]
  BY <1>4, <1>5 DEF RecvHandshake
<1>8. opened[Alice] + 1 <= opened[Bob]
  <2>1. OpenedBy(c, opened[Bob])
    BY <1>3, <1>6 DEF InStep
  <2>. QED
    BY <1>2, <2>1, OpeningIsNext DEF Types, Parties
<1>9. OpenCount' = OpenCount /\ OpenCount \in Nat
  BY <1>1, OrderIsInjective DEF OpenCount, program, Types
<1>10. /\ opened' = [opened EXCEPT ![Alice] = @ + 1]
       /\ \/ st' = [st EXCEPT ![Alice] = "talk"] /\ opened[Alice] + 1 = OpenCount
          \/ st' = [st EXCEPT ![Alice] = "connect"] /\ opened[Alice] + 1 # OpenCount
  BY <1>1, PartiesAssumption DEF Opened, Move
<1>11. Types'
  <2>2. hello' = [p \in Parties |-> [d \in Channels |-> hello'[p][d]]]
    BY <1>5 DEF Types
  <2>3. pushed[Bob][c] \in Nat
    BY <1>3 DEF Types, Parties, PerChannel
  <2>4. swallowed' \in PerChannel(Nat)
    <3>1. k \in Nat
      BY <2>3
    <3>. QED
      BY <1>3, <1>7, <3>1 DEF Types, Parties, PerChannel
  <2>5. opened' \in [Parties -> 0..OpenCount']
    BY <1>2, <1>9, <1>10 DEF Types, Parties
  <2>6. /\ st' \in [Parties -> Places]
        /\ st'[Alice] \notin ServerPlaces /\ st'[Bob] \notin ClientPlaces
    BY <1>10, PartiesAssumption
       DEF Types, Places, ClientPlaces, ServerPlaces, RunPlaces, Parties
  <2>. QED
    BY <1>1, <1>9, <2>2, <2>4, <2>5, <2>6 DEF Types, program, dataVars, PerChannel
<1>12. Positions'
  BY <1>1, <1>2, <1>9, <1>10
     DEF Types, Positions, RunPlaces, ClientPlaces, ServerPlaces, program, Parties
<1>13. InStep'
  <2>1. opened'[Bob] = opened[Bob] /\ opened'[Alice] = opened[Alice] + 1
    BY <1>10, PartiesAssumption DEF Types, Parties
  <2>2. st'[Bob] = st[Bob] /\ st[Bob] # "respond"
    BY <1>8, <1>10, PartiesAssumption DEF InStep, Types, Parties
  <2>3. \A d, m : OpenedBy(d, m)' = OpenedBy(d, m)
    BY <1>1 DEF OpenedBy, OpenCount, program
  <2>4. \A d \in Channels : hello'[Bob][d] # <<>> => OpenedBy(d, opened[Bob])
    BY <1>3, <1>5, <1>6 DEF InStep, Types, Parties
  <2>5. \A d \in dialled' : OpenedBy(d, opened[Alice] + 1 + 1)
    <3>1. TAKE d \in dialled'
    <3>2. OpenedBy(d, opened[Alice] + 1) /\ opened[Alice] + 1 \in Nat
      BY <1>1 DEF InStep, Types, Parties
    <3>. QED
      BY <1>9, <3>2, OpenedByMore
  <2>. QED
    BY <1>8, <2>1, <2>2, <2>3, <2>4, <2>5 DEF InStep, Types, Parties
<1>14. SilentBefore' /\ BobAlone' /\ Said'
  BY <1>1, <1>2, <1>9, <1>10, PartiesAssumption
     DEF SilentBefore, BobAlone, Said, SaidOn, program, dataVars, Types, Parties
<1>15. NoFrameSwallowed'
  <2>1. k > 0 => c = LastOpened /\ BobSpeaksFirst
    <3>1. pushed[Bob][c] \in Nat
      BY <1>3 DEF Types, Parties, PerChannel
    <3>. QED
      BY <1>2, <1>7, <3>1, FoundBehindReply
  <2>2. LastOpened' = LastOpened /\ BobSpeaksFirst' = BobSpeaksFirst
    BY <1>1 DEF LastOpened, BobSpeaksFirst, OpenCount, program
  <2>. QED
    BY <1>7, <2>1, <2>2 DEF NoFrameSwallowed, Types, PerChannel
<1>. QED
  BY <1>11, <1>12, <1>13, <1>14, <1>15
-----------------------------------------------------------------------------
(* The other steps leave the set-up alone.                                 *)
LEMMA SetUpUndisturbed ==
  ASSUME IInv, UNCHANGED <<program, setupVars>>,
         st'[Bob] = "respond" => st[Bob] = "respond",
         Types', Positions', SilentBefore', BobAlone', Said'
  PROVE  IInv'
<1>1. InStep'
  BY DEF IInv, InStep, OpenedBy, OpenCount, program, setupVars
<1>2. NoFrameSwallowed'
  BY StillNotSwallowed DEF IInv, setupVars
<1>. QED
  BY <1>1, <1>2 DEF IInv

(* A step of the protocol, the report or the destructor.                   *)
RunStep(p) ==
    /\ UNCHANGED <<program, setupVars>>
    /\ st[p] \in RunPlaces
    /\ \/ UNCHANGED st
       \/ \E q \in {"exchange", "delete", "done"} : st' = [st EXCEPT ![p] = q]

LEMMA RunStepKeepsSilence ==
  ASSUME IInv, NEW p \in Parties, RunStep(p), Types',
         \A q \in Parties \ {p} :
             at'[q] = at[q] /\ written'[q] = written[q] /\ pushed'[q] = pushed[q]
  PROVE  SilentBefore'
<1>1. opened' = opened /\ OpenCount' = OpenCount /\ OpenCount \in Nat
  BY OrderIsInjective DEF IInv, Types, RunStep, OpenCount, program, setupVars
<1>2. opened[p] = OpenCount
  BY DEF IInv, Positions, RunStep
<1>3. ASSUME NEW q \in Parties \ {p}, opened[q] < OpenCount
      PROVE  at'[q] = 1 /\ \A c \in Channels : pushed'[q][c] = 0 /\ written'[q][c] = 0
  BY <1>3 DEF IInv, SilentBefore
<1>. QED
  BY <1>1, <1>2, <1>3 DEF SilentBefore

(* What a message is, and who may be at one.                               *)
LEMMA CurrentIsAMessage ==
  ASSUME IInv, NEW p \in Parties, Speaks(p)
  PROVE  /\ Current(p) \in Message
         /\ st[p] \in RunPlaces
         /\ st[p] = "talk" => at[p] \in 1..Len(talk) /\ Current(p) = talk[at[p]]
<1>1. ReportMessage \in Message
  BY ThreadsAssumption DEF ReportMessage, Message, Parties, Channels, CounterBytes
<1>2. CASE st[p] = "exchange"
  BY <1>1, <1>2 DEF Current, RunPlaces
<1>3. CASE st[p] = "talk" /\ at[p] <= Len(talk)
  <2>1. at[p] \in 1..Len(talk)
    BY <1>3 DEF IInv, Types
  <2>. QED
    BY <1>3, <2>1 DEF Current, RunPlaces, IInv, Types
<1>. QED
  BY <1>2, <1>3 DEF Speaks

LEMMA SendDataEffect ==
  ASSUME IInv, NEW p \in Parties, SendData(p)
  PROVE  \E k \in Nat :
            /\ written' = [written EXCEPT ![p][Current(p).ch] = @ + Current(p).n]
            /\ pushed' = [pushed EXCEPT ![p][Current(p).ch] = k]
            /\ written' \in PerChannel(Nat) /\ pushed' \in PerChannel(Nat)
            /\ UNCHANGED got
<1>. DEFINE m == Current(p)
<1>1. m \in Message
  BY CurrentIsAMessage DEF SendData, Saying
<1>2. m.ch \in Channels /\ m.n \in Nat
  BY <1>1 DEF Message
<1>3. written[p][m.ch] \in Nat /\ pushed[p][m.ch] \in Nat
  BY <1>2 DEF IInv, Types, PerChannel
<1>4. PICK k \in pushed[p][m.ch]..written[p][m.ch] + m.n :
         pushed' = [pushed EXCEPT ![p][m.ch] = k]
  BY DEF SendData
<1>5. k \in Nat
  BY <1>2, <1>3
<1>6. written' = [written EXCEPT ![p][m.ch] = @ + m.n] /\ UNCHANGED got
  BY DEF SendData, Add
<1>7. written' \in PerChannel(Nat)
  BY <1>2, <1>3, <1>6 DEF IInv, Types, PerChannel
<1>8. pushed' \in PerChannel(Nat)
  BY <1>4, <1>5 DEF IInv, Types, PerChannel
<1>. QED
  BY <1>4, <1>5, <1>6, <1>7, <1>8

(* A party hears only what its peer has said.                              *)
LEMMA RecvDataEffect ==
  ASSUME IInv, NEW p \in Parties, RecvData(p)
  PROVE  /\ got' \in PerChannel(Nat) /\ UNCHANGED <<written, pushed>>
         /\ p = Bob => opened[Alice] = OpenCount
<1>. DEFINE m == Current(p)
<1>1. m.ch \in Channels /\ m.n \in Nat \ {0}
  BY CurrentIsAMessage DEF RecvData, Hearing, Message
<1>2. got[p][m.ch] \in Nat
  BY <1>1 DEF IInv, Types, PerChannel
<1>3. got' \in PerChannel(Nat)
  <2>1. got' = [got EXCEPT ![p][m.ch] = @ + m.n]
    BY DEF RecvData, Add
  <2>2. got[p][m.ch] + m.n \in Nat
    BY <1>1, <1>2
  <2>. QED
    BY <1>1, <2>1, <2>2 DEF IInv, Types, PerChannel
<1>4. ASSUME p = Bob PROVE opened[Alice] = OpenCount
  <2>1. Peer(p) = Alice /\ Alice \in Parties
    BY <1>4, PartiesAssumption DEF Peer, Parties
  <2>2. pushed[Alice][m.ch] # 0
    <3>1. got[p][m.ch] + m.n <= pushed[Alice][m.ch]
      BY <2>1 DEF RecvData
    <3>. QED
      BY <1>1, <1>2, <3>1
  <2>3. ~(opened[Alice] < OpenCount)
    BY <1>1, <2>1, <2>2 DEF IInv, SilentBefore
  <2>4. opened[Alice] \in 0..OpenCount /\ OpenCount \in Nat
    BY <2>1, OrderIsInjective DEF IInv, Types
  <2>. QED
    BY <2>3, <2>4
<1>. QED
  BY <1>3, <1>4 DEF RecvData

LEMMA InvProtocol == ASSUME IInv, NEW p \in Parties, Protocol(p) PROVE IInv'
<1>. DEFINE m == Current(p)
<1>1. /\ UNCHANGED <<program, st, setupVars, closed>>
      /\ st[p] = "talk"
      /\ at' = [at EXCEPT ![p] = @ + 1]
  BY DEF Protocol
<1>2. at[p] \in 1..Len(talk) /\ m = talk[at[p]] /\ m \in Message
  BY <1>1, CurrentIsAMessage DEF Protocol, SendData, RecvData, Saying, Hearing
<1>3. SendData(p) \/ RecvData(p)
  BY DEF Protocol
<1>4. /\ written' \in PerChannel(Nat) /\ pushed' \in PerChannel(Nat) /\ got' \in PerChannel(Nat)
      /\ \A q \in Parties \ {p} : written'[q] = written[q] /\ pushed'[q] = pushed[q]
  <2>1. CASE SendData(p)
    BY <2>1, SendDataEffect, SMTT(40) DEF IInv, Types, PerChannel
  <2>2. CASE RecvData(p)
    BY <2>2, RecvDataEffect DEF IInv, Types
  <2>. QED
    BY <1>3, <2>1, <2>2
<1>5. Types'
  <2>1. Len(talk) \in Nat
    BY DEF IInv, Types
  <2>2. at' \in [Parties -> 1..Len(talk) + 1]
    BY <1>1, <1>2, <2>1 DEF IInv, Types
  <2>. QED
    BY <1>1, <1>4, <2>2 DEF IInv, Types, PerChannel, OpenCount, program, setupVars
<1>6. Positions'
  BY <1>1 DEF IInv, Types, Positions, OpenCount, program, setupVars
<1>7. SilentBefore'
  <2>1. RunStep(p)
    BY <1>1 DEF RunStep, RunPlaces
  <2>2. \A q \in Parties \ {p} : at'[q] = at[q]
    BY <1>1 DEF IInv, Types
  <2>. QED
    BY <1>4, <1>5, <2>1, <2>2, RunStepKeepsSilence
<1>8. BobAlone'
  <2>1. CASE p = Bob
    <3>1. CASE SendData(Bob)
      <4>1. talk[at[Bob]].from = Bob
        BY <1>2, <2>1, <3>1 DEF SendData, Saying
      <4>2. at'[Bob] = at[Bob] + 1 /\ at[Bob] \in Nat
        BY <1>1, <1>2, <2>1 DEF IInv, Types
      <4>. QED
        BY <1>1, <4>1, <4>2 DEF IInv, BobAlone, OpenCount, program, setupVars
    <3>2. CASE RecvData(Bob)
      BY <1>1, <2>1, <3>2, RecvDataEffect, OrderIsInjective
         DEF IInv, Types, BobAlone, OpenCount, program, setupVars
    <3>. QED
      BY <1>3, <2>1, <3>1, <3>2
  <2>2. CASE p # Bob
    <3>1. at'[Bob] = at[Bob]
      BY <1>1, <2>2 DEF IInv, Types, Parties
    <3>. QED
      BY <1>1, <3>1 DEF IInv, BobAlone, OpenCount, program, setupVars
  <2>. QED
    BY <2>1, <2>2
<1>9. Said'
  <2>1. SUFFICES ASSUME NEW c \in Channels
                 PROVE  (pushed[Bob][c] > 0 \/ written[Bob][c] > 0 => SaidOn(c))'
    BY DEF Said
  <2>2. at[Bob] \in Nat /\ at'[Bob] \in Nat /\ at[Bob] <= at'[Bob] /\ at[Bob] <= Len(talk) + 1
    BY <1>1, <1>2 DEF IInv, Types, Parties
  <2>3. CASE p = Bob /\ SendData(Bob) /\ c = m.ch
    <3>1. talk[at[Bob]].from = Bob /\ talk[at[Bob]].ch = c
      BY <1>2, <2>3 DEF SendData, Saying
    <3>2. at[Bob] \in 1..at'[Bob]-1
      BY <1>1, <1>2, <2>3 DEF IInv, Types
    <3>. QED
      BY <1>1, <3>1, <3>2 DEF SaidOn, program
  <2>4. CASE ~(p = Bob /\ SendData(Bob) /\ c = m.ch)
    <3>1. written'[Bob][c] = written[Bob][c] /\ pushed'[Bob][c] = pushed[Bob][c]
      <4>1. CASE p = Bob /\ SendData(Bob)
        <5>1. c # m.ch
          BY <2>4, <4>1
        <5>2. PICK k \in Nat : /\ written' = [written EXCEPT ![p][m.ch] = @ + m.n]
                              /\ pushed' = [pushed EXCEPT ![p][m.ch] = k]
          BY <4>1, SendDataEffect
        <5>. QED
          BY <4>1, <5>1, <5>2 DEF IInv, Types, PerChannel, Parties
      <4>2. CASE p = Bob /\ RecvData(Bob)
        BY <4>2, RecvDataEffect DEF Parties
      <4>3. CASE p # Bob
        BY <1>4, <4>3 DEF Parties
      <4>. QED
        BY <1>3, <4>1, <4>2, <4>3
    <3>2. SaidOn(c) => SaidOn(c)'
      <4>1. \A j \in 1..at[Bob]-1 : j \in 1..at'[Bob]-1
        BY <2>2
      <4>2. at[Bob] = Len(talk) + 1 => at'[Bob] = at[Bob]
        BY <1>1, <1>2 DEF IInv, Types, Parties
      <4>. QED
        BY <1>1, <4>1, <4>2 DEF SaidOn, program
    <3>. QED
      BY <3>1, <3>2 DEF IInv, Said
  <2>. QED
    BY <2>3, <2>4
<1>. QED
  BY <1>1, <1>5, <1>6, <1>7, <1>8, <1>9, SetUpUndisturbed
-----------------------------------------------------------------------------
(* A flush sends what has been written.                                    *)
LEMMA FlushEffect ==
  ASSUME IInv, NEW p \in Parties, NEW c,
         pushed' = [pushed EXCEPT ![p][c] = written[p][c]],
         UNCHANGED <<program, setupVars, at, written, got>>
  PROVE  pushed' \in PerChannel(Nat) /\ BobAlone' /\ Said'
<1>1. \A d \in Channels : written[p][d] \in Nat
  BY DEF IInv, Types, PerChannel
<1>2. pushed' \in PerChannel(Nat)
  BY <1>1 DEF IInv, Types, PerChannel
<1>3. BobAlone'
  BY DEF IInv, BobAlone, OpenCount, program, setupVars
<1>4. \A d \in Channels : pushed'[Bob][d] \in {pushed[Bob][d], written[Bob][d]}
  BY DEF IInv, Types, PerChannel, Parties
<1>5. Said'
  BY <1>4 DEF IInv, Said, SaidOn, program
<1>. QED
  BY <1>2, <1>3, <1>5

LEMMA InvFlushBeforeHearing ==
  ASSUME IInv, NEW p \in Parties, FlushBeforeHearing(p) PROVE IInv'
<1>1. /\ UNCHANGED <<program, st, setupVars, at, written, got, closed>>
      /\ pushed' = [pushed EXCEPT ![p][Current(p).ch] = written[p][Current(p).ch]]
  BY DEF FlushBeforeHearing
<1>2. pushed' \in PerChannel(Nat) /\ BobAlone' /\ Said'
  BY <1>1, FlushEffect
<1>3. Types'
  BY <1>1, <1>2 DEF IInv, Types, PerChannel, OpenCount, program, setupVars
<1>4. Positions'
  BY <1>1 DEF IInv, Positions, OpenCount, program, setupVars
<1>5. SilentBefore'
  <2>1. RunStep(p)
    BY <1>1, CurrentIsAMessage DEF RunStep, FlushBeforeHearing, Hearing
  <2>2. \A q \in Parties \ {p} : pushed'[q] = pushed[q]
    BY <1>1 DEF IInv, Types, PerChannel
  <2>. QED
    BY <1>1, <1>3, <2>1, <2>2, RunStepKeepsSilence
<1>. QED
  BY <1>1, <1>2, <1>3, <1>4, <1>5, SetUpUndisturbed

LEMMA InvDelete == ASSUME IInv, NEW p \in Parties, Delete(p) PROVE IInv'
<1>1. /\ UNCHANGED <<program, setupVars, at, written, got>>
      /\ pushed' = [pushed EXCEPT ![p][closed[p]] = written[p][closed[p]]]
      /\ closed' = [closed EXCEPT ![p] = @ + 1]
      /\ st[p] = "delete"
      /\ \/ st' = [st EXCEPT ![p] = "done"]
         \/ closed[p] + 1 # OpenCount /\ UNCHANGED st
  BY DEF Delete, Move
<1>2. pushed' \in PerChannel(Nat) /\ BobAlone' /\ Said'
  BY <1>1, FlushEffect
<1>3. closed[p] < OpenCount /\ OpenCount \in Nat
  BY <1>1, OrderIsInjective DEF IInv, Positions, Types
<1>4. Types'
  <2>1. closed' \in [Parties -> 0..OpenCount]
    BY <1>1, <1>3 DEF IInv, Types
  <2>2. /\ st' \in [Parties -> Places]
        /\ st'[Alice] \notin ServerPlaces /\ st'[Bob] \notin ClientPlaces
    BY <1>1 DEF IInv, Types, Places, RunPlaces, ServerPlaces, ClientPlaces, Parties
  <2>. QED
    BY <1>1, <1>2, <2>1, <2>2 DEF IInv, Types, PerChannel, OpenCount, program, setupVars
<1>5. Positions'
  BY <1>1, <1>3 DEF IInv, Types, Positions, RunPlaces, ClientPlaces, ServerPlaces,
                    OpenCount, program, setupVars
<1>6. SilentBefore'
  <2>1. RunStep(p)
    BY <1>1 DEF RunStep, RunPlaces
  <2>2. \A q \in Parties \ {p} : pushed'[q] = pushed[q]
    BY <1>1 DEF IInv, Types, PerChannel
  <2>. QED
    BY <1>1, <1>4, <2>1, <2>2, RunStepKeepsSilence
<1>7. st'[Bob] = "respond" => st[Bob] = "respond"
  BY <1>1 DEF IInv, Types, Parties
<1>. QED
  BY <1>1, <1>2, <1>4, <1>5, <1>6, <1>7, SetUpUndisturbed

(* Before a party deletes its first channel.                               *)
LEMMA AllOpen ==
  ASSUME IInv, NEW p \in Parties, st[p] \in {"talk", "exchange"}
  PROVE  /\ OpenCount \in Nat \ {0}
         /\ opened[p] = OpenCount /\ closed[p] = 0
<1>1. OpenCount \in Nat \ {0}
  BY OrderIsInjective DEF IInv, Types
<1>2. opened[p] = OpenCount
  BY DEF IInv, Positions, RunPlaces
<1>3. closed[p] \in 0..OpenCount /\ ~(closed[p] > 0)
  BY DEF IInv, Types, Positions
<1>. QED
  BY <1>1, <1>2, <1>3

(* Steps that move a party on in its report, or end it, and send nothing.  *)
LEMMA InvMove ==
  ASSUME IInv, NEW p \in Parties, NEW q \in {"exchange", "delete", "failed", "killed"},
         st' = [st EXCEPT ![p] = q],
         q \in {"exchange", "delete"} =>
             st[p] \in {"talk", "exchange"} /\ at[p] = Len(talk) + 1,
         got' \in PerChannel(Nat),
         UNCHANGED <<program, setupVars, at, written, pushed, closed>>
  PROVE  IInv'
<1>1. Types'
  <2>1. /\ st' \in [Parties -> Places]
        /\ st'[Alice] \notin ServerPlaces /\ st'[Bob] \notin ClientPlaces
    BY DEF IInv, Types, Places, RunPlaces, ServerPlaces, ClientPlaces, Parties
  <2>. QED
    BY <2>1 DEF IInv, Types, PerChannel, OpenCount, program, setupVars
<1>2. Positions'
  <2>1. /\ OpenCount \in Nat \ {0}
        /\ q \in {"exchange", "delete"} => closed[p] = 0 /\ opened[p] = OpenCount
    BY AllOpen, OrderIsInjective DEF IInv, Types
  <2>. QED
    BY <2>1 DEF IInv, Types, Positions, RunPlaces, ClientPlaces, ServerPlaces,
                OpenCount, program, setupVars
<1>3. SilentBefore' /\ BobAlone' /\ Said'
  BY DEF IInv, SilentBefore, BobAlone, Said, SaidOn, OpenCount, program, setupVars
<1>4. st'[Bob] = "respond" => st[Bob] = "respond"
  BY DEF IInv, Types, Parties
<1>. QED
  BY <1>1, <1>2, <1>3, <1>4, SetUpUndisturbed

LEMMA InvSumUp == ASSUME IInv, NEW p \in Parties, SumUp(p) PROVE IInv'
<1>1. /\ st' = [st EXCEPT ![p] = "exchange"] /\ st[p] = "talk" /\ at[p] = Len(talk) + 1
      /\ UNCHANGED <<program, setupVars, at, dataVars, closed>>
  BY DEF SumUp, Move
<1>2. got' \in PerChannel(Nat)
  BY <1>1 DEF dataVars, IInv, Types
<1>. QED
  BY <1>1, <1>2, InvMove DEF dataVars

LEMMA InvRecvReport == ASSUME IInv, RecvReport PROVE IInv'
<1>1. /\ st' = [st EXCEPT ![Alice] = "delete"] /\ st[Alice] = "exchange"
      /\ UNCHANGED <<program, setupVars, at, closed>>
  BY DEF RecvReport, Move
<1>2. got' \in PerChannel(Nat) /\ UNCHANGED <<written, pushed>>
  BY RecvDataEffect DEF RecvReport, Parties
<1>3. at[Alice] = Len(talk) + 1
  BY <1>1 DEF IInv, Positions, Parties
<1>. QED
  BY <1>1, <1>2, <1>3, InvMove DEF Parties

LEMMA InvSendReport == ASSUME IInv, SendReport PROVE IInv'
<1>1. /\ st' = [st EXCEPT ![Bob] = "delete"] /\ st[Bob] = "exchange"
      /\ UNCHANGED <<program, setupVars, at, closed>> /\ SendData(Bob)
  BY DEF SendReport, Move
<1>2. Bob \in Parties /\ Current(Bob).ch = 0
  BY <1>1 DEF Parties, Current, ReportMessage
<1>3. PICK k \in Nat :
         /\ written' = [written EXCEPT ![Bob][0] = @ + Current(Bob).n]
         /\ pushed' = [pushed EXCEPT ![Bob][0] = k]
         /\ written' \in PerChannel(Nat) /\ pushed' \in PerChannel(Nat)
         /\ UNCHANGED got
  BY <1>1, <1>2, SendDataEffect
<1>4. /\ OpenCount \in Nat \ {0} /\ opened[Bob] = OpenCount /\ closed[Bob] = 0
      /\ at[Bob] = Len(talk) + 1
  BY <1>1, <1>2, AllOpen DEF IInv, Positions
<1>5. Types'
  <2>1. /\ st' \in [Parties -> Places]
        /\ st'[Alice] \notin ServerPlaces /\ st'[Bob] \notin ClientPlaces
    BY <1>1, PartiesAssumption
       DEF IInv, Types, Places, RunPlaces, ServerPlaces, ClientPlaces, Parties
  <2>. QED
    BY <1>1, <1>3, <2>1, SMTT(40) DEF IInv, Types, PerChannel, OpenCount, program, setupVars
<1>6. Positions'
  BY <1>1, <1>2, <1>4 DEF IInv, Types, Positions, RunPlaces, ClientPlaces, ServerPlaces,
                          OpenCount, program, setupVars
<1>7. SilentBefore'
  <2>1. RunStep(Bob)
    BY <1>1 DEF RunStep, RunPlaces
  <2>2. \A q \in Parties \ {Bob} : written'[q] = written[q] /\ pushed'[q] = pushed[q]
    BY <1>3 DEF IInv, Types, PerChannel
  <2>. QED
    BY <1>1, <1>2, <1>5, <2>1, <2>2, RunStepKeepsSilence
<1>8. BobAlone'
  BY <1>1 DEF IInv, BobAlone, OpenCount, program, setupVars
<1>9. Said'
  <2>1. SUFFICES ASSUME NEW c \in Channels
                 PROVE  (pushed[Bob][c] > 0 \/ written[Bob][c] > 0 => SaidOn(c))'
    BY DEF Said
  <2>2. CASE c = 0
    BY <1>1, <1>4, <2>2 DEF SaidOn, program
  <2>3. CASE c # 0
    <3>1. written'[Bob][c] = written[Bob][c] /\ pushed'[Bob][c] = pushed[Bob][c]
      BY <1>2, <1>3, <2>3 DEF IInv, Types, PerChannel
    <3>. QED
      BY <1>1, <3>1 DEF IInv, Said, SaidOn, program
  <2>. QED
    BY <2>2, <2>3
<1>10. st'[Bob] = "respond" => st[Bob] = "respond"
  BY <1>1, <1>2 DEF IInv, Types
<1>. QED
  BY <1>1, <1>5, <1>6, <1>7, <1>8, <1>9, <1>10, SetUpUndisturbed

(* A party that ends.                                                      *)
LEMMA InvEnd == ASSUME IInv, NEW p \in Parties, Die(p) \/ Fail(p) PROVE IInv'
<1>1. PICK q \in {"failed", "killed"} : st' = [st EXCEPT ![p] = q]
  BY DEF Die, Fail, Move
<1>2. UNCHANGED <<program, setupVars, at, dataVars, closed>>
  BY DEF Die, Fail
<1>3. got' \in PerChannel(Nat)
  BY <1>2 DEF dataVars, IInv, Types
<1>. QED
  BY <1>1, <1>2, <1>3, InvMove DEF dataVars

LEMMA InvStutter == ASSUME IInv, UNCHANGED vars PROVE IInv'
<1>1. /\ UNCHANGED <<program, st, setupVars, at, dataVars, closed>>
      /\ UNCHANGED <<written, pushed, got, driver, talk, opened, dialled, hello, swallowed>>
  BY DEF vars, program, setupVars, dataVars
<1>2. Types'
  BY <1>1 DEF IInv, Types, PerChannel, OpenCount
<1>3. Positions' /\ SilentBefore' /\ BobAlone' /\ Said'
  BY <1>1 DEF IInv, Positions, SilentBefore, BobAlone, Said, SaidOn, OpenCount
<1>. QED
  BY <1>1, <1>2, <1>3, SetUpUndisturbed

LEMMA StepInv == IInv /\ [Next]_vars => IInv'
<1>. SUFFICES ASSUME IInv, [Next]_vars PROVE IInv'
  OBVIOUS
<1>1. CASE UNCHANGED vars
  BY <1>1, InvStutter
<1>2. ASSUME NEW p \in Parties, SetUp(p) PROVE IInv'
  BY <1>2, InvListen, InvAccept, InvRespond, InvConnect, InvRequest, InvCheck DEF SetUp
<1>3. ASSUME NEW p \in Parties, Run(p) PROVE IInv'
  BY <1>3, InvFlushBeforeHearing, InvProtocol, InvSumUp, InvDelete, InvSendReport,
     InvRecvReport DEF Run
<1>4. ASSUME NEW p \in Parties, Fail(p) \/ Die(p) PROVE IInv'
  BY <1>4, InvEnd
<1>. QED
  BY <1>1, <1>2, <1>3, <1>4 DEF Next, Party, Finished

(* The parties open their channels in step and say nothing before they     *)
(* are all open (ProtocolIO constructors before clock_start).              *)
THEOREM SetUpInStep == Spec => []IInv
<1>. QED
  BY InitInv, StepInv, PTL DEF Spec

(* CheckWebSocketHandshake and ResponseWebSocketHandshake discard no frame *)
(* but Bob's on the channel opened last, when he is the first to speak and *)
(* does so on that one.                                                    *)
THEOREM NoFrameIsSwallowed == Spec => []NoFrameSwallowed
<1>1. IInv => NoFrameSwallowed
  BY DEF IInv
<1>. QED
  BY <1>1, SetUpInStep, PTL
-----------------------------------------------------------------------------
(* SUMS.                                                                   *)

(* SumFunctionOnSet is defined with a function on the subsets, which takes *)
(* one element away after the other.                                       *)
IsSum(g, f, S) ==
    g = [s \in S |-> IF s = {} THEN 0
                     ELSE LET x == CHOOSE y \in s : TRUE IN f[x] + g[s \ {x}]]

LEMMA SumDef ==
    ASSUME NEW f, NEW S
    PROVE  SumFunctionOnSet(f, S) = (CHOOSE g : IsSum(g, f, SUBSET S))[S]
BY DEF SumFunctionOnSet, FoldFunctionOnSet, MapThenFoldSet, IsSum

(* The subsets with at most k elements.                                    *)
Small(S, k) == {s \in SUBSET S : Cardinality(s) <= k}

LEMMA SmallerSet ==
    ASSUME NEW S, IsFiniteSet(S), NEW k \in Nat, NEW s \in Small(S, k + 1), s # {}
    PROVE  LET x == CHOOSE y \in s : TRUE IN x \in s /\ s \ {x} \in Small(S, k)
<1> DEFINE x == CHOOSE y \in s : TRUE
<1>1. x \in s
  OBVIOUS
<1> HIDE DEF x
<1>2. IsFiniteSet(s) /\ s \subseteq S
  BY FS_Subset DEF Small
<1>3. Cardinality(s \ {x}) = Cardinality(s) - 1 /\ Cardinality(s) \in Nat
  BY <1>1, <1>2, FS_RemoveElement, FS_CardinalityType
<1>4. Cardinality(s) <= k + 1
  BY DEF Small
<1>5. s \ {x} \in Small(S, k)
  BY <1>2, <1>3, <1>4 DEF Small
<1> QED BY <1>1, <1>5 DEF x

LEMMA SmallMore ==
    ASSUME NEW S, IsFiniteSet(S), NEW k \in Nat
    PROVE  /\ Small(S, 0) = {{}} /\ Small(S, k) \subseteq Small(S, k + 1)
           /\ Small(S, Cardinality(S)) = SUBSET S
<1>1. \A s \in SUBSET S : IsFiniteSet(s) /\ Cardinality(s) \in Nat /\ Cardinality(s) <= Cardinality(S)
  BY FS_Subset, FS_CardinalityType
<1>2. \A s \in SUBSET S : Cardinality(s) = 0 <=> s = {}
  BY <1>1, FS_EmptySet
<1> QED BY <1>1, <1>2 DEF Small

LEMMA SumExists ==
    ASSUME NEW S, IsFiniteSet(S), NEW f
    PROVE  \E g : IsSum(g, f, SUBSET S)
<1> DEFINE Pick(s) == CHOOSE y \in s : TRUE
           Step(g, s) == IF s = {} THEN 0 ELSE f[Pick(s)] + g[s \ {Pick(s)}]
           Sums(g, T) == g = [s \in T |-> Step(g, s)]
           T == {k \in Nat : \E g : Sums(g, Small(S, k))}
<1>1. 0 \in T
  <2>1. PICK g : g = [s \in {{}} |-> 0]
    OBVIOUS
  <2>2. \A s \in {{}} : Step(g, s) = 0
    OBVIOUS
  <2>3. Small(S, 0) = {{}}
    BY SmallMore
  <2> HIDE DEF Step
  <2>4. Sums(g, Small(S, 0))
    BY <2>1, <2>2, <2>3
  <2> QED BY <2>4
<1>2. ASSUME NEW k \in T PROVE k + 1 \in T
  <2>1. k \in Nat /\ \E g : Sums(g, Small(S, k))
    OBVIOUS
  <2>2. PICK f0 : Sums(f0, Small(S, k))
    BY <2>1
  <2> DEFINE g == [s \in Small(S, k + 1) |-> Step(f0, s)]
  <2>3. ASSUME NEW s \in Small(S, k) PROVE s \in Small(S, k + 1) /\ g[s] = f0[s]
    <3>1. s \in Small(S, k + 1)
      BY <2>1, SmallMore
    <3>2. f0[s] = Step(f0, s)
      <4> HIDE DEF Step
      <4> QED BY <2>2
    <3> HIDE DEF Step
    <3> QED BY <3>1, <3>2
  <2>4. ASSUME NEW s \in Small(S, k + 1) PROVE Step(f0, s) = Step(g, s)
    <3>1. CASE s = {}
      BY <3>1
    <3>2. CASE s # {}
      <4>1. s \ {Pick(s)} \in Small(S, k)
        BY <2>1, <3>2, SmallerSet
      <4>2. g[s \ {Pick(s)}] = f0[s \ {Pick(s)}]
        <5> HIDE DEF g, Pick
        <5> QED BY <4>1, <2>3
      <4> HIDE DEF g, Pick
      <4> QED BY <4>2
    <3> QED BY <3>1, <3>2
  <2>5. Sums(g, Small(S, k + 1))
    <3> HIDE DEF Step
    <3>1. g = [s \in Small(S, k + 1) |-> Step(g, s)]
      <4> SUFFICES ASSUME TRUE
                   PROVE [s \in Small(S, k + 1) |-> Step(f0, s)] = [s \in Small(S, k + 1) |-> Step(g, s)]
        OBVIOUS
      <4> HIDE DEF g
      <4> QED BY <2>4
    <3> QED BY <3>1
  <2> HIDE DEF Sums, g
  <2> QED BY <2>1, <2>5
<1>3. T = Nat
  <2>1. T \in SUBSET Nat
    OBVIOUS
  <2> HIDE DEF T
  <2> QED BY <2>1, <1>1, <1>2, InductiveSet
<1>4. Cardinality(S) \in T
  <2> HIDE DEF T
  <2> QED BY <1>3, FS_CardinalityType
<1>5. Small(S, Cardinality(S)) = SUBSET S
  BY SmallMore
<1>6. PICK g : Sums(g, SUBSET S)
  <2> HIDE DEF Sums
  <2> QED BY <1>4, <1>5
<1> QED BY <1>6, Zenon DEF IsSum

(* The sums of the subsets.                                                *)
AreSums(g, f, S) ==
    /\ SumFunctionOnSet(f, S) = g[S]
    /\ g[{}] = 0
    /\ \A s \in SUBSET S : s # {} =>
          LET x == CHOOSE y \in s : TRUE IN g[s] = f[x] + g[s \ {x}]

LEMMA SumSteps ==
    ASSUME NEW S, IsFiniteSet(S), NEW f
    PROVE  \E g : AreSums(g, f, S)
<1>1. PICK g : g = CHOOSE h : IsSum(h, f, SUBSET S)
  OBVIOUS
<1>2. IsSum(g, f, SUBSET S)
  BY <1>1, SumExists
<1>3. SumFunctionOnSet(f, S) = g[S]
  BY <1>1, SumDef
<1>4. g[{}] = 0
  BY <1>2, Zenon DEF IsSum
<1>5. ASSUME NEW s \in SUBSET S, s # {}
      PROVE  LET x == CHOOSE y \in s : TRUE IN g[s] = f[x] + g[s \ {x}]
  BY <1>2, <1>5, Zenon DEF IsSum
<1> QED BY <1>3, <1>4, <1>5 DEF AreSums

(* The sum of naturals is a natural, and grows by what one of them does.   *)
LEMMA SumOfNaturals ==
    ASSUME NEW S, IsFiniteSet(S), NEW f \in [S -> Nat]
    PROVE  SumFunctionOnSet(f, S) \in Nat
<1>1. PICK g : AreSums(g, f, S)
  BY SumSteps
<1> DEFINE T == {k \in Nat : \A s \in Small(S, k) : g[s] \in Nat}
<1>2. 0 \in T
  <2>1. Small(S, 0) = {{}} /\ g[{}] = 0
    BY <1>1, SmallMore DEF AreSums
  <2> QED BY <2>1
<1>3. ASSUME NEW k \in T PROVE k + 1 \in T
  <2>1. k \in Nat /\ \A s \in Small(S, k) : g[s] \in Nat
    OBVIOUS
  <2>2. ASSUME NEW s \in Small(S, k + 1) PROVE g[s] \in Nat
    <3>1. CASE s = {}
      BY <1>1, <3>1 DEF AreSums
    <3>2. CASE s # {}
      <4>1. PICK x : x = CHOOSE y \in s : TRUE
        OBVIOUS
      <4>2. x \in s /\ s \ {x} \in Small(S, k)
        BY <2>1, <3>2, <4>1, SmallerSet
      <4>3. s \in SUBSET S
        BY DEF Small
      <4>4. g[s] = f[x] + g[s \ {x}]
        BY <1>1, <3>2, <4>1, <4>3 DEF AreSums
      <4>5. f[x] \in Nat /\ g[s \ {x}] \in Nat
        BY <2>1, <4>2, <4>3
      <4> QED BY <4>4, <4>5
    <3> QED BY <3>1, <3>2
  <2> QED BY <2>1, <2>2
<1>4. T = Nat
  <2>1. T \in SUBSET Nat
    OBVIOUS
  <2> HIDE DEF T
  <2> QED BY <2>1, <1>2, <1>3, InductiveSet
<1>5. Cardinality(S) \in T
  <2> HIDE DEF T
  <2> QED BY <1>4, FS_CardinalityType
<1>6. S \in Small(S, Cardinality(S))
  BY SmallMore
<1> QED BY <1>1, <1>5, <1>6 DEF AreSums

LEMMA SumAdds ==
    ASSUME NEW S, IsFiniteSet(S), NEW f \in [S -> Nat], NEW c \in S, NEW n \in Nat
    PROVE  SumFunctionOnSet([f EXCEPT ![c] = @ + n], S) = SumFunctionOnSet(f, S) + n
<1>1. PICK g : AreSums(g, f, S)
  BY SumSteps
<1>2. PICK e : e = [f EXCEPT ![c] = @ + n]
  OBVIOUS
<1>3. PICK h : AreSums(h, e, S)
  BY SumSteps
<1>4. e[c] = f[c] + n /\ \A x \in S \ {c} : e[x] = f[x]
  BY <1>2
<1> DEFINE Grown(s) == g[s] + (IF c \in s THEN n ELSE 0)
           T == {k \in Nat : \A s \in Small(S, k) : g[s] \in Nat /\ h[s] = Grown(s)}
<1>5. 0 \in T
  <2>1. Small(S, 0) = {{}} /\ g[{}] = 0 /\ h[{}] = 0
    BY <1>1, <1>3, SmallMore DEF AreSums
  <2>2. Grown({}) = 0
    BY <2>1
  <2> HIDE DEF Grown
  <2> QED BY <2>1, <2>2
<1>6. ASSUME NEW k \in T PROVE k + 1 \in T
  <2>1. k \in Nat /\ \A s \in Small(S, k) : g[s] \in Nat /\ h[s] = Grown(s)
    OBVIOUS
  <2>2. ASSUME NEW s \in Small(S, k + 1) PROVE g[s] \in Nat /\ h[s] = Grown(s)
    <3>1. CASE s = {}
      BY <1>1, <1>3, <3>1 DEF AreSums
    <3>2. CASE s # {}
      <4>1. PICK x : x = CHOOSE y \in s : TRUE
        OBVIOUS
      <4>2. x \in s /\ s \ {x} \in Small(S, k)
        BY <2>1, <3>2, <4>1, SmallerSet
      <4>3. s \in SUBSET S
        BY DEF Small
      <4>4. g[s] = f[x] + g[s \ {x}] /\ h[s] = e[x] + h[s \ {x}]
        BY <1>1, <1>3, <3>2, <4>1, <4>3 DEF AreSums
      <4>5. f[x] \in Nat /\ g[s \ {x}] \in Nat /\ h[s \ {x}] = Grown(s \ {x})
        BY <2>1, <4>2, <4>3
      <4>6. CASE x = c
        BY <1>4, <4>2, <4>4, <4>5, <4>6
      <4>7. CASE x # c
        <5>1. e[x] = f[x] /\ (c \in s \ {x} <=> c \in s)
          BY <1>4, <4>2, <4>3, <4>7
        <5> QED BY <4>4, <4>5, <5>1
      <4> QED BY <4>6, <4>7
    <3> QED BY <3>1, <3>2
  <2> QED BY <2>1, <2>2
<1>7. T = Nat
  <2>1. T \in SUBSET Nat
    OBVIOUS
  <2> HIDE DEF T
  <2> QED BY <2>1, <1>5, <1>6, InductiveSet
<1>8. Cardinality(S) \in T
  <2> HIDE DEF T
  <2> QED BY <1>7, FS_CardinalityType
<1>9. S \in Small(S, Cardinality(S))
  BY SmallMore
<1>10. h[S] = Grown(S)
  BY <1>8, <1>9
<1> QED BY <1>1, <1>2, <1>3, <1>10 DEF AreSums
-----------------------------------------------------------------------------
(* THE REPORT.                                                             *)

(* What q says on c in the i-th message of the talk, and in the first ones *)
(* of it.                                                                  *)
Part(q, c, i) == IF talk[i].from = q /\ talk[i].ch = c THEN talk[i].n ELSE 0

PartsAdded(f, q, c) ==
    f[0] = 0 /\ \A i \in 1..Len(talk) : f[i] = f[i - 1] + Part(q, c, i)

BytesOf(q, c) == CHOOSE f \in [0..Len(talk) -> Nat] : PartsAdded(f, q, c)

(* What q has said on c up to the message that p is at.                    *)
SaidBy(p, q, c) == BytesOf(q, c)[at[p] - 1]

Ending == {"delete", "done", "failed", "killed"}

(* Bob has sent the report; Alice has received it.                         *)
Reported == written[Bob][0] # SaidBy(Bob, Bob, 0)
Read == got[Alice][0] # SaidBy(Alice, Bob, 0)

(* What is written and got on the channels are the messages up to the one  *)
(* that the party is at, and the report.                                   *)
Counts ==
    \A p \in Parties : \A c \in Channels :
        /\ pushed[p][c] <= written[p][c]
        /\ got[p][c] <= pushed[Peer(p)][c]
        /\ (p = Bob /\ c = 0 /\ Reported) \/ written[p][c] = SaidBy(p, p, c)
        /\ (p = Alice /\ c = 0 /\ Read) \/ got[p][c] = SaidBy(p, Peer(p), c)

BobsReport ==
    /\ Reported =>
          /\ st[Bob] \in Ending /\ at[Bob] = Len(talk) + 1
          /\ written[Bob][0] = SaidBy(Bob, Bob, 0) + CounterBytes
          /\ Sent(Bob) = total[Bob] + CounterBytes
          /\ recvCounter[Bob] = 0 /\ report = total[Bob] % Width
    /\ st[Bob] = "exchange" =>
          /\ ~Reported
          /\ Sent(Bob) = total[Bob] /\ recvCounter[Bob] = total[Bob] % Width
    /\ st[Bob] \in {"delete", "done"} => Reported

AlicesReport ==
    /\ Read =>
          /\ st[Alice] \in Ending /\ at[Alice] = Len(talk) + 1
          /\ got[Alice][0] = SaidBy(Alice, Bob, 0) + CounterBytes
    /\ st[Alice] \in {"exchange", "delete", "done"} => total[Alice] = Sent(Alice)
    /\ st[Alice] \in {"delete", "done"} => Read /\ recvCounter[Alice] = report

(* The types that Types leaves out.                                        *)
Values ==
    /\ listening \subseteq Channels /\ dialled \subseteq listening
    /\ hello \in PerChannel(Seq(HandshakeLine))
    /\ total \in [Parties -> Nat]
    /\ recvCounter \in [Parties -> 0..Width-1] /\ report \in 0..Width-1

(* The inductive invariant of the report, on top of IInv.                  *)
RInv == Values /\ Counts /\ BobsReport /\ AlicesReport
-----------------------------------------------------------------------------
LEMMA PartIsNat ==
    ASSUME talk \in Seq(Message), NEW q, NEW c, NEW i \in 1..Len(talk)
    PROVE  Part(q, c, i) \in Nat
<1>1. talk[i] \in Message
  OBVIOUS
<1> QED BY <1>1 DEF Message, Part

LEMMA BytesExist ==
    ASSUME talk \in Seq(Message), NEW q, NEW c
    PROVE  \E f \in [0..Len(talk) -> Nat] : PartsAdded(f, q, c)
<1> DEFINE Upto(f, k) == f[0] = 0 /\ \A i \in 1..k : f[i] = f[i - 1] + Part(q, c, i)
           T == {k \in Nat : k <= Len(talk) => \E f \in [0..k -> Nat] : Upto(f, k)}
<1>0. Len(talk) \in Nat
  OBVIOUS
<1>1. 0 \in T
  <2> DEFINE z == [i \in 0..0 |-> 0]
  <2>1. z \in [0..0 -> Nat] /\ Upto(z, 0)
    OBVIOUS
  <2> QED BY <2>1
<1>2. ASSUME NEW k \in T PROVE k + 1 \in T
  <2> SUFFICES ASSUME k + 1 <= Len(talk)
               PROVE  \E f \in [0..(k + 1) -> Nat] : Upto(f, k + 1)
    <3> HIDE DEF Upto
    <3>1. k + 1 \in Nat
      OBVIOUS
    <3> QED BY <3>1
  <2>1. PICK f \in [0..k -> Nat] : Upto(f, k)
    BY <1>0
  <2>2. PICK n \in Nat : n = f[k] + Part(q, c, k + 1)
    <3>1. Part(q, c, k + 1) \in Nat /\ f[k] \in Nat
      BY <1>0, PartIsNat
    <3> QED BY <3>1
  <2> DEFINE g == [i \in 0..(k + 1) |-> IF i = k + 1 THEN n ELSE f[i]]
  <2>3. g \in [0..(k + 1) -> Nat]
    OBVIOUS
  <2>4. g[k + 1] = n /\ \A i \in 0..k : g[i] = f[i]
    OBVIOUS
  <2> HIDE DEF g
  <2>5. ASSUME NEW i \in 1..(k + 1) PROVE g[i] = g[i - 1] + Part(q, c, i)
    <3>1. CASE i = k + 1
      BY <3>1, <2>2, <2>4
    <3>2. CASE i # k + 1
      <4>1. i \in 1..k /\ i \in 0..k /\ i - 1 \in 0..k
        BY <3>2
      <4>2. f[i] = f[i - 1] + Part(q, c, i)
        BY <4>1, <2>1
      <4> QED BY <4>1, <4>2, <2>4
    <3> QED BY <3>1, <3>2
  <2>6. g[0] = 0
    BY <2>1, <2>4
  <2> QED BY <2>3, <2>5, <2>6
<1>3. T = Nat
  <2>1. T \in SUBSET Nat
    OBVIOUS
  <2> HIDE DEF T
  <2> QED BY <2>1, <1>1, <1>2, InductiveSet
<1>4. \E f \in [0..Len(talk) -> Nat] : Upto(f, Len(talk))
  BY <1>0, <1>3
<1> QED BY <1>4 DEF PartsAdded

LEMMA BytesStep ==
    ASSUME talk \in Seq(Message), NEW q, NEW c
    PROVE  BytesOf(q, c) \in [0..Len(talk) -> Nat] /\ PartsAdded(BytesOf(q, c), q, c)
BY BytesExist DEF BytesOf

(* More messages, more bytes.                                              *)
LEMMA BytesGrow ==
    ASSUME talk \in Seq(Message), NEW q, NEW c,
           NEW k \in 0..Len(talk), NEW j \in 0..k
    PROVE  BytesOf(q, c)[j] <= BytesOf(q, c)[k]
<1>1. PICK f : f = BytesOf(q, c)
  OBVIOUS
<1>2. f \in [0..Len(talk) -> Nat] /\ \A i \in 1..Len(talk) : f[i] = f[i - 1] + Part(q, c, i)
  BY <1>1, BytesStep DEF PartsAdded
<1>3. Len(talk) \in Nat
  OBVIOUS
<1> DEFINE T == {n \in Nat : n <= Len(talk) => \A i \in 0..n : f[i] <= f[n]}
<1>4. 0 \in T
  BY <1>2, <1>3
<1>5. ASSUME NEW n \in T PROVE n + 1 \in T
  <2> SUFFICES ASSUME n + 1 <= Len(talk), NEW i \in 0..(n + 1) PROVE f[i] <= f[n + 1]
    OBVIOUS
  <2>1. n \in 0..Len(talk) /\ n + 1 \in 1..Len(talk) /\ i \in 0..Len(talk)
    BY <1>3
  <2>2. /\ f[n + 1] = f[n] + Part(q, c, n + 1) /\ Part(q, c, n + 1) \in Nat
        /\ f[n] \in Nat /\ f[i] \in Nat /\ f[n + 1] \in Nat
    <3>1. (n + 1) - 1 = n
      OBVIOUS
    <3>2. f[n + 1] = f[(n + 1) - 1] + Part(q, c, n + 1)
      BY <1>2, <2>1
    <3>3. Part(q, c, n + 1) \in Nat
      BY <2>1, PartIsNat
    <3>4. f[n] \in Nat /\ f[i] \in Nat /\ f[n + 1] \in Nat
      <4>1. n + 1 \in 0..Len(talk)
        BY <1>3
      <4>2. \A h \in 0..Len(talk) : f[h] \in Nat
        BY <1>2
      <4> QED BY <2>1, <4>1, <4>2
    <3> QED BY <3>1, <3>2, <3>3, <3>4
  <2>3. i = n + 1 \/ f[i] <= f[n]
    BY <1>3
  <2> QED BY <2>2, <2>3
<1>6. T = Nat
  <2>1. T \in SUBSET Nat
    OBVIOUS
  <2> HIDE DEF T
  <2> QED BY <2>1, <1>4, <1>5, InductiveSet
<1>7. f[j] <= f[k]
  BY <1>3, <1>6
<1> QED BY <1>1, <1>7

(* The next message.                                                       *)
LEMMA SaidMore ==
    ASSUME talk \in Seq(Message), UNCHANGED program, NEW p,
           at[p] \in 1..Len(talk), at'[p] = at[p] + 1, NEW q, NEW c
    PROVE  SaidBy(p, q, c)' = SaidBy(p, q, c) + Part(q, c, at[p])
<1>1. BytesOf(q, c)' = BytesOf(q, c)
  BY DEF BytesOf, PartsAdded, Part, program
<1>2. BytesOf(q, c)[at[p]] = BytesOf(q, c)[at[p] - 1] + Part(q, c, at[p])
  BY BytesStep DEF PartsAdded
<1>3. at'[p] - 1 = at[p]
  OBVIOUS
<1> QED BY <1>1, <1>2, <1>3 DEF SaidBy

LEMMA SaidSame ==
    ASSUME UNCHANGED program, NEW p, at'[p] = at[p], NEW q, NEW c
    PROVE  SaidBy(p, q, c)' = SaidBy(p, q, c)
BY DEF SaidBy, BytesOf, PartsAdded, Part, program

LEMMA SaidTyped ==
    ASSUME Types, NEW p \in Parties, NEW q, NEW c
    PROVE  /\ SaidBy(p, q, c) \in Nat
           /\ SaidBy(p, q, c) <= BytesOf(q, c)[Len(talk)]
           /\ at[p] = Len(talk) + 1 => SaidBy(p, q, c) = BytesOf(q, c)[Len(talk)]
<1>1. talk \in Seq(Message) /\ at[p] \in 1..Len(talk) + 1 /\ Len(talk) \in Nat
  BY DEF Types
<1>2. at[p] - 1 \in 0..Len(talk) /\ Len(talk) \in 0..Len(talk)
  BY <1>1
<1>3. BytesOf(q, c)[at[p] - 1] \in Nat
  BY <1>1, <1>2, BytesStep
<1>4. BytesOf(q, c)[at[p] - 1] <= BytesOf(q, c)[Len(talk)]
  <2>1. at[p] - 1 \in 0..Len(talk)
    BY <1>2
  <2> QED BY <1>1, <1>2, BytesGrow
<1>5. at[p] = Len(talk) + 1 => at[p] - 1 = Len(talk)
  BY <1>1
<1> QED BY <1>3, <1>4, <1>5 DEF SaidBy
-----------------------------------------------------------------------------
LEMMA Peers ==
    /\ Alice \in Parties /\ Bob \in Parties /\ Alice # Bob
    /\ Peer(Alice) = Bob /\ Peer(Bob) = Alice
    /\ \A p \in Parties : Peer(p) \in Parties /\ Peer(p) # p /\ Peer(Peer(p)) = p
BY PartiesAssumption DEF Parties, Peer

LEMMA ZeroIsAChannel == 0 \in Channels /\ IsFiniteSet(Channels)
<1>1. Threads \in Int
  BY ThreadsAssumption
<1> QED BY <1>1, ThreadsAssumption, FS_Interval DEF Channels

LEMMA PerChannelSet ==
    ASSUME NEW S, NEW h \in PerChannel(S), NEW p \in Parties, NEW c \in Channels, NEW v \in S
    PROVE  [h EXCEPT ![p][c] = v] \in PerChannel(S)
BY DEF PerChannel

(* The counters are naturals.                                              *)
LEMMA CountsTyped ==
    ASSUME Types, NEW p \in Parties, NEW c \in Channels
    PROVE  /\ written[p][c] \in Nat /\ pushed[p][c] \in Nat /\ got[p][c] \in Nat
           /\ written[p] \in [Channels -> Nat] /\ got[p] \in [Channels -> Nat]
BY DEF Types, PerChannel

(* Alice cannot have received a report that Bob has not sent.              *)
LEMMA ReadIsReported ==
    ASSUME Types, Counts, AlicesReport, Read
    PROVE  Reported
<1> SUFFICES ASSUME ~Reported PROVE FALSE
  OBVIOUS
<1>1. PICK s : s = BytesOf(Bob, 0)[Len(talk)]
  OBVIOUS
<1>2. SaidBy(Alice, Bob, 0) = s /\ SaidBy(Alice, Bob, 0) \in Nat
  BY <1>1, Peers, SaidTyped DEF AlicesReport
<1>3. SaidBy(Bob, Bob, 0) \in Nat /\ SaidBy(Bob, Bob, 0) <= s
  BY <1>1, Peers, SaidTyped
<1>4. got[Alice][0] = s + 4
  BY <1>2 DEF AlicesReport, CounterBytes
<1>5. got[Alice][0] <= pushed[Bob][0] /\ pushed[Bob][0] <= written[Bob][0]
  BY Peers, ZeroIsAChannel DEF Counts
<1>6. written[Bob][0] = SaidBy(Bob, Bob, 0)
  BY DEF Reported
<1>7. pushed[Bob][0] \in Nat
  BY Peers, ZeroIsAChannel, CountsTyped
<1> QED BY <1>2, <1>3, <1>4, <1>5, <1>6, <1>7

LEMMA RInvInit == Init => RInv
<1> SUFFICES ASSUME Init PROVE RInv
  OBVIOUS
<1>1. Types
  BY InitInv DEF IInv
<1>2. Values
  <2>1. 0 \in 0..Width-1
    BY WidthAssumption
  <2>2. hello \in PerChannel(Seq(HandshakeLine))
    <3>1. <<>> \in Seq(HandshakeLine)
      OBVIOUS
    <3> QED BY <3>1 DEF Init, PerChannel
  <2>3. listening = {} /\ dialled = {} /\ report = 0
    BY DEF Init
  <2>4. total \in [Parties -> Nat] /\ recvCounter \in [Parties -> 0..Width-1]
    BY <2>1 DEF Init
  <2> QED BY <2>1, <2>2, <2>3, <2>4 DEF Values
<1>3. \A p \in Parties : \A q, c : SaidBy(p, q, c) = 0
  <2> TAKE p \in Parties
  <2> TAKE q, c
  <2>1. at[p] - 1 = 0
    BY DEF Init
  <2>2. talk \in Seq(Message)
    BY <1>1 DEF Types
  <2> QED BY <2>1, <2>2, BytesStep DEF SaidBy, PartsAdded
<1>4. \A p \in Parties, c \in Channels : written[p][c] = 0 /\ pushed[p][c] = 0 /\ got[p][c] = 0
  BY DEF Init
<1>5. ~Reported /\ ~Read
  BY <1>3, <1>4, Peers, ZeroIsAChannel DEF Reported, Read
<1>6. Counts
  <2> SUFFICES ASSUME NEW p \in Parties, NEW c \in Channels
               PROVE  /\ pushed[p][c] <= written[p][c]
                      /\ got[p][c] <= pushed[Peer(p)][c]
                      /\ written[p][c] = SaidBy(p, p, c)
                      /\ got[p][c] = SaidBy(p, Peer(p), c)
    BY DEF Counts
  <2> QED BY <1>3, <1>4, Peers
<1>7. st[Bob] = "listen" /\ st[Alice] = "connect"
  BY Peers DEF Init
<1> QED BY <1>2, <1>5, <1>6, <1>7 DEF RInv, BobsReport, AlicesReport
-----------------------------------------------------------------------------
(* What the counts and the reports depend on.                              *)
LEMMA SameSaid ==
    ASSUME UNCHANGED <<program, at>>
    PROVE  \A p, q, c : SaidBy(p, q, c)' = SaidBy(p, q, c)
<1> TAKE p, q, c
<1>1. UNCHANGED program /\ at'[p] = at[p]
  OBVIOUS
<1> QED BY <1>1, SaidSame

LEMMA SameCounts ==
    ASSUME Counts, UNCHANGED <<program, at, dataVars>>
    PROVE  /\ Counts' /\ Reported' = Reported /\ Read' = Read
           /\ \A p : Sent(p)' = Sent(p)
<1>1. written' = written /\ pushed' = pushed /\ got' = got
  BY DEF dataVars
<1>2. \A p, q, c : SaidBy(p, q, c)' = SaidBy(p, q, c)
  BY SameSaid
<1>3. Reported' = Reported /\ Read' = Read
  BY <1>1, <1>2 DEF Reported, Read
<1>4. Counts'
  BY <1>1, <1>2, <1>3 DEF Counts
<1> QED BY <1>1, <1>3, <1>4 DEF Sent, Counted

(* A step that only moves a party, and not into the report.                *)
LEMMA OnlyMoves ==
    ASSUME Types, RInv, NEW p \in Parties, NEW q,
           st' = [st EXCEPT ![p] = q] \/ st' = st,
           q \notin {"exchange", "delete", "done"},
           st[p] \in Ending => q \in Ending,
           UNCHANGED <<program, at, dataVars, resultVars>>
    PROVE  Counts' /\ BobsReport' /\ AlicesReport'
<1>1. /\ Counts' /\ Reported' = Reported /\ Read' = Read
      /\ Sent(Alice)' = Sent(Alice) /\ Sent(Bob)' = Sent(Bob)
  BY SameCounts DEF RInv
<1>2. /\ total' = total /\ recvCounter' = recvCounter /\ report' = report
      /\ at' = at /\ talk' = talk /\ written' = written /\ got' = got
  BY DEF resultVars, program, dataVars
<1>3. \A b, c, d : SaidBy(b, c, d)' = SaidBy(b, c, d)
  BY SameSaid
<1>4. \A r \in Parties : st'[r] = st[r] \/ (st'[r] = q /\ r = p)
  BY DEF Types
<1>5. \A r \in Parties : /\ st[r] \in Ending => st'[r] \in Ending
                         /\ st'[r] \in {"exchange", "delete", "done"} => st'[r] = st[r]
  BY <1>4
<1>6. /\ st[Bob] \in Ending => st'[Bob] \in Ending
      /\ st'[Bob] \in {"exchange", "delete", "done"} => st'[Bob] = st[Bob]
      /\ st[Alice] \in Ending => st'[Alice] \in Ending
      /\ st'[Alice] \in {"exchange", "delete", "done"} => st'[Alice] = st[Alice]
  BY <1>5, Peers
<1>7. BobsReport'
  BY <1>1, <1>2, <1>3, <1>6 DEF BobsReport, RInv
<1>8. AlicesReport'
  BY <1>1, <1>2, <1>3, <1>6 DEF AlicesReport, RInv
<1> QED BY <1>1, <1>7, <1>8

(* The steps of the set-up.                                                *)
LEMMA SetUpMoves ==
    ASSUME IInv, NEW p \in Parties, SetUp(p)
    PROVE  /\ \E q \in {"accept", "respond", "request", "check", "failed", "listen", "connect",
                        "talk"} : st' = [st EXCEPT ![p] = q]
           /\ st[p] \notin Ending
           /\ UNCHANGED <<program, at, dataVars, resultVars>>
BY DEF SetUp, Listen, Accept, Respond, Connect, Request, Check, Opened, Move, Ending

LEMMA HandshakeRead ==
    ASSUME NEW s \in Seq(HandshakeLine), NEW n \in 1..Len(s)
    PROVE  Rest(s, n) \in Seq(HandshakeLine)
<1>1. n + 1 \in 1..(Len(s) + 1) /\ Len(s) \in 0..Len(s)
  OBVIOUS
<1> QED BY <1>1 DEF Rest

LEMMA SetUpValues ==
    ASSUME IInv, RInv, NEW p \in Parties, SetUp(p)
    PROVE  Values'
<1>1. total' = total /\ recvCounter' = recvCounter /\ report' = report
  BY SetUpMoves DEF resultVars
<1>2. \A q \in Parties :
         st[q] \in ClientPlaces \cup ServerPlaces => Opening(q) \in Channels
  BY OpeningIsAChannel DEF IInv, Positions
<1>3. hello \in PerChannel(Seq(HandshakeLine))
  BY DEF RInv, Values
<1>4. HandshakeRequest \in Seq(HandshakeLine) /\ HandshakeReply \in Seq(HandshakeLine)
  BY DEF HandshakeRequest, HandshakeReply, HandshakeLine
<1>5. SUFFICES /\ listening' \subseteq Channels /\ dialled' \subseteq listening'
               /\ hello' \in PerChannel(Seq(HandshakeLine))
  BY <1>1 DEF Values, RInv, PerChannel
<1>6. CASE Listen
  <2>1. st[Bob] \in ServerPlaces
    BY <1>6 DEF Listen, ServerPlaces
  <2>2. Opening(Bob) \in Channels
    BY <1>2, <2>1, Peers
  <2>3. listening' = listening \cup {Opening(Bob)} /\ dialled' = dialled /\ hello' = hello
    BY <1>6 DEF Listen
  <2> QED BY <1>3, <2>2, <2>3 DEF RInv, Values
<1>7. CASE Accept
  <2>1. UNCHANGED <<listening, dialled, hello>>
    BY <1>7 DEF Accept, setupVars
  <2> QED BY <1>3, <2>1 DEF RInv, Values
<1>8. CASE Respond
  <2>1. st[Bob] \in ServerPlaces /\ UNCHANGED <<listening, dialled>>
    BY <1>8 DEF Respond, ServerPlaces
  <2>2. PICK c \in Channels : c = Opening(Bob)
    BY <1>2, <2>1, Peers
  <2>3. PICK n \in 1..3 :
           /\ RecvHandshake(Bob, n)
           /\ \/ hello' = [[hello EXCEPT ![Alice][c] = Rest(@, n)] EXCEPT ![Bob][c] = HandshakeReply]
              \/ hello' = [hello EXCEPT ![Alice][c] = Rest(@, n)]
    BY <1>8, <2>2 DEF Respond
  <2>4. n \in 1..Len(hello[Alice][c]) /\ hello[Alice][c] \in Seq(HandshakeLine)
    BY <1>3, <2>2, <2>3, Peers DEF RecvHandshake, PerChannel
  <2>5. PICK v \in Seq(HandshakeLine) : v = Rest(hello[Alice][c], n)
    BY <2>4, HandshakeRead
  <2>6. PICK h : h = [hello EXCEPT ![Alice][c] = v]
    OBVIOUS
  <2>7. h \in PerChannel(Seq(HandshakeLine))
    BY <1>3, <2>6, Peers, PerChannelSet
  <2>8. [h EXCEPT ![Bob][c] = HandshakeReply] \in PerChannel(Seq(HandshakeLine))
    BY <1>4, <2>7, Peers, PerChannelSet
  <2>9. h = [hello EXCEPT ![Alice][c] = Rest(@, n)]
    BY <2>5, <2>6
  <2>10. hello' = [h EXCEPT ![Bob][c] = HandshakeReply] \/ hello' = h
    BY <2>3, <2>9
  <2> QED BY <2>1, <2>7, <2>8, <2>10 DEF RInv, Values
<1>9. CASE Connect
  <2>1. /\ dialled' = dialled \cup {Opening(Alice)} /\ Opening(Alice) \in listening
        /\ UNCHANGED <<listening, hello>>
    BY <1>9 DEF Connect
  <2> QED BY <1>3, <2>1 DEF RInv, Values
<1>10. CASE Request
  <2>1. st[Alice] \in ClientPlaces /\ UNCHANGED <<listening, dialled>>
    BY <1>10 DEF Request, ClientPlaces
  <2>2. PICK c \in Channels : c = Opening(Alice)
    BY <1>2, <2>1, Peers
  <2>3. hello' = [hello EXCEPT ![Alice][c] = HandshakeRequest]
    BY <1>10, <2>2 DEF Request
  <2>4. hello' \in PerChannel(Seq(HandshakeLine))
    BY <1>3, <1>4, <2>3, Peers, PerChannelSet
  <2> QED BY <2>1, <2>4 DEF RInv, Values
<1>11. CASE Check
  <2>1. st[Alice] \in ClientPlaces /\ UNCHANGED <<listening, dialled>>
    BY <1>11 DEF Check, ClientPlaces
  <2>2. PICK c \in Channels : c = Opening(Alice)
    BY <1>2, <2>1, Peers
  <2>3. PICK n \in 1..2 : RecvHandshake(Alice, n) /\ hello' = [hello EXCEPT ![Bob][c] = Rest(@, n)]
    BY <1>11, <2>2 DEF Check
  <2>4. n \in 1..Len(hello[Bob][c]) /\ hello[Bob][c] \in Seq(HandshakeLine)
    BY <1>3, <2>2, <2>3, Peers DEF RecvHandshake, PerChannel
  <2>5. PICK v \in Seq(HandshakeLine) : v = Rest(hello[Bob][c], n)
    BY <2>4, HandshakeRead
  <2>6. hello' = [hello EXCEPT ![Bob][c] = v]
    BY <2>3, <2>5
  <2>7. hello' \in PerChannel(Seq(HandshakeLine))
    BY <1>3, <2>6, Peers, PerChannelSet
  <2> QED BY <2>1, <2>7 DEF RInv, Values
<1> QED BY <1>6, <1>7, <1>8, <1>9, <1>10, <1>11 DEF SetUp

LEMMA RInvSetUp ==
    ASSUME IInv, RInv, NEW p \in Parties, SetUp(p)
    PROVE  RInv'
<1>1. PICK q \in {"accept", "respond", "request", "check", "failed", "listen", "connect", "talk"} :
         st' = [st EXCEPT ![p] = q]
  BY SetUpMoves
<1>2. st[p] \notin Ending /\ UNCHANGED <<program, at, dataVars, resultVars>>
  BY SetUpMoves
<1>3. Counts' /\ BobsReport' /\ AlicesReport'
  <2>1. q \notin {"exchange", "delete", "done"}
    BY <1>1
  <2> QED BY <1>1, <1>2, <2>1, OnlyMoves DEF IInv
<1> QED BY <1>3, SetUpValues DEF RInv

(* The values that the other steps leave alone.                            *)
LEMMA SameValues ==
    ASSUME Values, UNCHANGED setupVars,
           total' \in [Parties -> Nat],
           recvCounter' \in [Parties -> 0..Width-1], report' \in 0..Width-1
    PROVE  Values'
BY DEF Values, setupVars, PerChannel

LEMMA RInvEnd ==
    ASSUME IInv, RInv, NEW p \in Parties, Die(p) \/ Fail(p)
    PROVE  RInv'
<1>1. PICK q \in {"failed", "killed"} : st' = [st EXCEPT ![p] = q]
  BY DEF Die, Fail, Move
<1>2. UNCHANGED <<program, setupVars, at, dataVars, resultVars>>
  BY DEF Die, Fail
<1>3. Counts' /\ BobsReport' /\ AlicesReport'
  <2>1. q \notin {"exchange", "delete", "done"} /\ q \in Ending
    BY <1>1 DEF Ending
  <2> QED BY <1>1, <1>2, <2>1, OnlyMoves DEF IInv
<1>4. Values'
  BY <1>2, SameValues DEF RInv, Values, resultVars
<1> QED BY <1>3, <1>4 DEF RInv

LEMMA RInvStutter ==
    ASSUME IInv, RInv, UNCHANGED vars
    PROVE  RInv'
<1>1. UNCHANGED <<program, st, setupVars, at, dataVars, resultVars>>
  BY DEF vars
<1>2. Counts' /\ BobsReport' /\ AlicesReport'
  <2>1. "failed" \notin {"exchange", "delete", "done"} /\ "failed" \in Ending /\ st' = st
    BY <1>1 DEF Ending
  <2> QED BY <1>1, <2>1, Peers, OnlyMoves DEF IInv
<1>3. Values'
  BY <1>1, SameValues DEF RInv, Values, resultVars
<1> QED BY <1>2, <1>3 DEF RInv
-----------------------------------------------------------------------------
(* SumUp: before it a party has neither sent nor received the report.      *)
LEMMA RInvSumUp ==
    ASSUME IInv, RInv, NEW p \in Parties, SumUp(p)
    PROVE  RInv'
<1>1. /\ st[p] = "talk" /\ at[p] = Len(talk) + 1
      /\ total' = [total EXCEPT ![p] = Sent(p)]
      /\ recvCounter' = [recvCounter EXCEPT ![p] = total'[p] % Width]
      /\ st' = [st EXCEPT ![p] = "exchange"]
      /\ UNCHANGED <<program, setupVars, at, dataVars, report, closed>>
  BY DEF SumUp, Move, Sent
<1>2. /\ Counts' /\ Reported' = Reported /\ Read' = Read
      /\ Sent(Alice)' = Sent(Alice) /\ Sent(Bob)' = Sent(Bob)
  BY <1>1, SameCounts DEF RInv
<1>3. \A b, c, d : SaidBy(b, c, d)' = SaidBy(b, c, d)
  BY <1>1, SameSaid
<1>4. UNCHANGED <<at, talk, written, got, report>>
  BY <1>1 DEF program, dataVars
<1>5. Sent(p) \in Nat
  <2>1. written[p] \in [Channels -> Nat]
    BY ZeroIsAChannel, CountsTyped DEF IInv
  <2> QED BY <2>1, ZeroIsAChannel, SumOfNaturals DEF Sent, Counted
<1>6. /\ total' \in [Parties -> Nat] /\ total'[p] = Sent(p)
      /\ \A r \in Parties \ {p} : total'[r] = total[r]
  BY <1>1, <1>5 DEF RInv, Values
<1>7. Sent(p) % Width \in 0..Width-1
  BY <1>5, WidthAssumption
<1>8. /\ recvCounter' \in [Parties -> 0..Width-1] /\ recvCounter'[p] = Sent(p) % Width
      /\ \A r \in Parties \ {p} : recvCounter'[r] = recvCounter[r]
  BY <1>1, <1>6, <1>7 DEF RInv, Values
<1>9. Values'
  BY <1>1, <1>6, <1>8, SameValues DEF RInv, Values
<1>10. st'[p] = "exchange" /\ \A r \in Parties \ {p} : st'[r] = st[r]
  BY <1>1 DEF IInv, Types
<1>11. "talk" \notin Ending
  BY DEF Ending
<1>12. CASE p = Bob
  <2>1. ~Reported
    BY <1>1, <1>11, <1>12 DEF RInv, BobsReport
  <2>2. BobsReport'
    BY <1>2, <1>6, <1>8, <1>10, <1>12, <2>1 DEF BobsReport
  <2>3. st'[Alice] = st[Alice] /\ total'[Alice] = total[Alice] /\ recvCounter'[Alice] = recvCounter[Alice]
    BY <1>6, <1>8, <1>10, <1>12, Peers
  <2>4. AlicesReport'
    BY <1>2, <1>3, <1>4, <2>3 DEF AlicesReport, RInv
  <2> QED BY <1>2, <1>9, <2>2, <2>4 DEF RInv
<1>13. CASE p = Alice
  <2>1. ~Read
    BY <1>1, <1>11, <1>13 DEF RInv, AlicesReport
  <2>2. AlicesReport'
    BY <1>2, <1>6, <1>10, <1>13, <2>1 DEF AlicesReport
  <2>3. st'[Bob] = st[Bob] /\ total'[Bob] = total[Bob] /\ recvCounter'[Bob] = recvCounter[Bob]
    BY <1>6, <1>8, <1>10, <1>13, Peers
  <2>4. BobsReport'
    BY <1>2, <1>3, <1>4, <2>3 DEF BobsReport, RInv
  <2> QED BY <1>2, <1>9, <2>2, <2>4 DEF RInv
<1> QED BY <1>12, <1>13 DEF Parties

(* Pushing what is written.                                                *)
LEMMA Pushes ==
    ASSUME Types, Counts, NEW p \in Parties, NEW c \in Channels,
           pushed' = [pushed EXCEPT ![p][c] = written[p][c]],
           UNCHANGED <<program, at, written, got>>
    PROVE  Counts' /\ Reported' = Reported /\ Read' = Read
<1>1. \A b, d, e : SaidBy(b, d, e)' = SaidBy(b, d, e)
  BY SameSaid
<1>2. Reported' = Reported /\ Read' = Read
  BY <1>1 DEF Reported, Read
<1>3. \A q \in Parties, d \in Channels :
         pushed'[q][d] = pushed[q][d] \/ pushed'[q][d] = written[q][d]
  BY DEF Types, PerChannel
<1>4. ASSUME NEW q \in Parties, NEW d \in Channels
      PROVE  /\ pushed'[q][d] <= written'[q][d]
             /\ got'[q][d] <= pushed'[Peer(q)][d]
  <2>1. /\ pushed[q][d] <= written[q][d] /\ got[q][d] <= pushed[Peer(q)][d]
        /\ pushed[Peer(q)][d] <= written[Peer(q)][d]
    BY Peers DEF Counts
  <2>2. /\ pushed[q][d] \in Nat /\ written[q][d] \in Nat /\ got[q][d] \in Nat
        /\ pushed[Peer(q)][d] \in Nat /\ written[Peer(q)][d] \in Nat
    BY Peers, CountsTyped
  <2>3. /\ pushed'[q][d] = pushed[q][d] \/ pushed'[q][d] = written[q][d]
        /\ pushed'[Peer(q)][d] = pushed[Peer(q)][d] \/ pushed'[Peer(q)][d] = written[Peer(q)][d]
    BY <1>3, Peers
  <2> QED BY <2>1, <2>2, <2>3
<1>5. Counts'
  BY <1>1, <1>2, <1>4 DEF Counts
<1> QED BY <1>2, <1>5

(* A step after which the reports are as they were.                        *)
LEMMA SameReports ==
    ASSUME RInv, UNCHANGED <<program, at, written, got, resultVars>>,
           Reported' = Reported, Read' = Read,
           st'[Bob] = st[Bob] \/ (st[Bob] = "delete" /\ st'[Bob] = "done"),
           st'[Alice] = st[Alice] \/ (st[Alice] = "delete" /\ st'[Alice] = "done")
    PROVE  BobsReport' /\ AlicesReport'
<1>1. \A b, c, d : SaidBy(b, c, d)' = SaidBy(b, c, d)
  BY SameSaid
<1>2. /\ total' = total /\ recvCounter' = recvCounter /\ report' = report
      /\ at' = at /\ talk' = talk /\ written' = written /\ got' = got
  BY DEF resultVars, program
<1>3. Sent(Alice)' = Sent(Alice) /\ Sent(Bob)' = Sent(Bob)
  BY <1>2 DEF Sent, Counted
<1>4. "done" \in Ending /\ "delete" \in Ending
  BY DEF Ending
<1>5. BobsReport'
  BY <1>1, <1>2, <1>3, <1>4 DEF BobsReport, RInv
<1>6. AlicesReport'
  BY <1>1, <1>2, <1>3, <1>4 DEF AlicesReport, RInv
<1> QED BY <1>5, <1>6

LEMMA RInvFlushBeforeHearing ==
    ASSUME IInv, RInv, NEW p \in Parties, FlushBeforeHearing(p)
    PROVE  RInv'
<1>1. PICK c \in Channels : c = Current(p).ch
  <2>1. Current(p) \in Message
    BY CurrentIsAMessage DEF FlushBeforeHearing, Hearing
  <2> QED BY <2>1 DEF Message
<1>2. /\ pushed' = [pushed EXCEPT ![p][c] = written[p][c]]
      /\ UNCHANGED <<program, st, setupVars, at, written, got, resultVars>>
  BY <1>1 DEF FlushBeforeHearing
<1>3. Counts' /\ Reported' = Reported /\ Read' = Read
  BY <1>2, Pushes DEF IInv, RInv
<1>4. BobsReport' /\ AlicesReport'
  BY <1>2, <1>3, SameReports
<1>5. Values'
  BY <1>2, SameValues DEF RInv, Values, resultVars
<1> QED BY <1>3, <1>4, <1>5 DEF RInv

LEMMA RInvDelete ==
    ASSUME IInv, RInv, NEW p \in Parties, Delete(p)
    PROVE  RInv'
<1>1. /\ pushed' = [pushed EXCEPT ![p][closed[p]] = written[p][closed[p]]]
      /\ st[p] = "delete" /\ (st' = [st EXCEPT ![p] = "done"] \/ st' = st)
      /\ UNCHANGED <<program, setupVars, at, written, got, resultVars>>
  BY DEF Delete, Move
<1>2. PICK c \in Channels : c = closed[p]
  <2>1. closed[p] < OpenCount /\ closed[p] \in 0..OpenCount /\ driver \in Drivers
    BY <1>1 DEF IInv, Types, Positions
  <2>2. OpenCount = Threads + 1 \/ OpenCount = Threads
    BY DEF OpenCount, NumChannels
  <2>3. closed[p] \in 0..Threads
    BY <2>1, <2>2, ThreadsAssumption
  <2> QED BY <2>3 DEF Channels
<1>3. Counts' /\ Reported' = Reported /\ Read' = Read
  BY <1>1, <1>2, Pushes DEF IInv, RInv
<1>4. BobsReport' /\ AlicesReport'
  <2>1. \A r \in Parties : st'[r] = st[r] \/ (st[r] = "delete" /\ st'[r] = "done")
    BY <1>1 DEF IInv, Types
  <2> QED BY <1>1, <1>3, <2>1, Peers, SameReports
<1>5. Values'
  BY <1>1, SameValues DEF RInv, Values, resultVars
<1> QED BY <1>3, <1>4, <1>5 DEF RInv
-----------------------------------------------------------------------------
(* What a party in the protocol has written and got.                       *)
LEMMA NotYet ==
    ASSUME RInv, NEW p \in Parties, st[p] = "talk"
    PROVE  \A c \in Channels : /\ written[p][c] = SaidBy(p, p, c)
                               /\ got[p][c] = SaidBy(p, Peer(p), c)
<1>1. "talk" \notin Ending
  BY DEF Ending
<1>2. (p = Bob => ~Reported) /\ (p = Alice => ~Read)
  BY <1>1 DEF RInv, BobsReport, AlicesReport
<1> QED BY <1>2 DEF RInv, Counts

(* The steps of the protocol: what is said or heard is the message that    *)
(* the party is at.                                                        *)
LEMMA ProtocolSends ==
    ASSUME IInv, RInv, NEW p \in Parties, Protocol(p), SendData(p)
    PROVE  /\ \A c \in Channels : /\ written'[p][c] = written[p][c] + Part(p, c, at[p])
                                   /\ Part(Peer(p), c, at[p]) = 0
                                   /\ pushed[p][c] <= pushed'[p][c]
                                   /\ pushed'[p][c] <= written'[p][c]
           /\ \A c \in Channels : /\ written'[Peer(p)][c] = written[Peer(p)][c]
                                   /\ pushed'[Peer(p)][c] = pushed[Peer(p)][c]
           /\ written'[Peer(p)] = written[Peer(p)] /\ got' = got
<1> DEFINE m == Current(p)
<1>1. m \in Message /\ m = talk[at[p]] /\ m.from = p
  BY CurrentIsAMessage DEF Protocol, SendData, Saying
<1>2. PICK c \in Channels, n \in Nat : c = m.ch /\ n = m.n
  BY <1>1 DEF Message
<1>3. PICK k \in pushed[p][c]..written[p][c] + n : pushed' = [pushed EXCEPT ![p][c] = k]
  BY <1>2 DEF SendData
<1>4. written' = [written EXCEPT ![p][c] = @ + n] /\ got' = got
  BY <1>2 DEF SendData, Add
<1>5. \A d : Part(p, d, at[p]) = (IF d = c THEN n ELSE 0) /\ Part(Peer(p), d, at[p]) = 0
  BY <1>1, <1>2, Peers DEF Part
<1> HIDE DEF m
<1>6. ASSUME NEW d \in Channels
      PROVE  /\ written'[p][d] = written[p][d] + Part(p, d, at[p])
             /\ pushed[p][d] <= pushed'[p][d] /\ pushed'[p][d] <= written'[p][d]
  <2>1. /\ written[p][d] \in Nat /\ pushed[p][d] \in Nat /\ pushed[p][d] <= written[p][d]
    BY CountsTyped DEF IInv, RInv, Counts
  <2>2. CASE d = c
    <3>1. written'[p][d] = written[p][d] + n /\ pushed'[p][d] = k
      BY <1>3, <1>4, <2>2 DEF IInv, Types, PerChannel
    <3>2. Part(p, d, at[p]) = n
      BY <1>5, <2>2
    <3>3. k \in pushed[p][d]..written[p][d] + n
      BY <2>2
    <3> QED BY <2>1, <3>1, <3>2, <3>3
  <2>3. CASE d # c
    <3>1. written'[p][d] = written[p][d] /\ pushed'[p][d] = pushed[p][d]
      BY <1>3, <1>4, <2>3 DEF IInv, Types, PerChannel
    <3>2. Part(p, d, at[p]) = 0
      BY <1>5, <2>3
    <3> QED BY <2>1, <3>1, <3>2
  <2> QED BY <2>2, <2>3
<1>7. written'[Peer(p)] = written[Peer(p)] /\ pushed'[Peer(p)] = pushed[Peer(p)]
  BY <1>3, <1>4, Peers DEF IInv, Types, PerChannel
<1> QED BY <1>4, <1>5, <1>6, <1>7

LEMMA ProtocolReceives ==
    ASSUME IInv, RInv, NEW p \in Parties, Protocol(p), RecvData(p)
    PROVE  /\ \A c \in Channels : /\ got'[p][c] = got[p][c] + Part(Peer(p), c, at[p])
                                   /\ Part(p, c, at[p]) = 0
                                   /\ got'[p][c] <= pushed[Peer(p)][c]
           /\ got'[Peer(p)] = got[Peer(p)] /\ UNCHANGED <<written, pushed>>
<1> DEFINE m == Current(p)
<1>1. m \in Message /\ m = talk[at[p]] /\ m.from # p
  BY CurrentIsAMessage DEF Protocol, RecvData, Hearing
<1>2. PICK c \in Channels, n \in Nat : c = m.ch /\ n = m.n
  BY <1>1 DEF Message
<1>3. /\ got' = [got EXCEPT ![p][c] = @ + n] /\ UNCHANGED <<written, pushed>>
      /\ got[p][c] + n <= pushed[Peer(p)][c]
  BY <1>2 DEF RecvData, Add
<1>4. m.from = Peer(p)
  BY <1>1, Peers DEF Message, Parties
<1>5. \A d : Part(Peer(p), d, at[p]) = (IF d = c THEN n ELSE 0) /\ Part(p, d, at[p]) = 0
  BY <1>1, <1>2, <1>4 DEF Part
<1> HIDE DEF m
<1>6. ASSUME NEW d \in Channels
      PROVE  got'[p][d] = got[p][d] + Part(Peer(p), d, at[p]) /\ got'[p][d] <= pushed[Peer(p)][d]
  <2>1. got[p][d] \in Nat /\ got[p][d] <= pushed[Peer(p)][d]
    BY CountsTyped DEF IInv, RInv, Counts
  <2>2. CASE d = c
    <3>1. got'[p][d] = got[p][d] + n
      BY <1>3, <2>2 DEF IInv, Types, PerChannel
    <3> QED BY <1>3, <1>5, <2>2, <3>1
  <2>3. CASE d # c
    <3>1. got'[p][d] = got[p][d]
      BY <1>3, <2>3 DEF IInv, Types, PerChannel
    <3>2. Part(Peer(p), d, at[p]) = 0
      BY <1>5, <2>3
    <3> QED BY <2>1, <3>1, <3>2
  <2> QED BY <2>2, <2>3
<1>7. got'[Peer(p)] = got[Peer(p)]
  BY <1>3, Peers DEF IInv, Types, PerChannel
<1> QED BY <1>3, <1>5, <1>6, <1>7

LEMMA RInvProtocol ==
    ASSUME IInv, RInv, NEW p \in Parties, Protocol(p)
    PROVE  RInv'
<1>1. /\ st[p] = "talk" /\ at' = [at EXCEPT ![p] = @ + 1]
      /\ UNCHANGED <<program, st, setupVars, resultVars, closed>>
  BY DEF Protocol
<1>2. PICK q \in Parties : q = Peer(p) /\ q # p /\ p = Peer(q)
  BY Peers
<1>3. at[p] \in 1..Len(talk) /\ at'[p] = at[p] + 1 /\ at'[q] = at[q]
  <2>1. at[p] \in 1..Len(talk)
    BY <1>1, CurrentIsAMessage DEF Protocol, SendData, RecvData, Saying, Hearing
  <2> QED BY <1>1, <1>2, <2>1 DEF IInv, Types
<1>4. \A b, c : /\ SaidBy(p, b, c)' = SaidBy(p, b, c) + Part(b, c, at[p])
               /\ SaidBy(q, b, c)' = SaidBy(q, b, c)
  <2> TAKE b, c
  <2>1. SaidBy(p, b, c)' = SaidBy(p, b, c) + Part(b, c, at[p])
    BY <1>1, <1>3, SaidMore DEF IInv, Types
  <2>2. SaidBy(q, b, c)' = SaidBy(q, b, c)
    BY <1>1, <1>3, SaidSame
  <2> QED BY <2>1, <2>2
<1>5. \A c \in Channels : written[p][c] = SaidBy(p, p, c) /\ got[p][c] = SaidBy(p, q, c)
  BY <1>1, <1>2, NotYet
<1>6. /\ \A c \in Channels : /\ written'[p][c] = SaidBy(p, p, c)' /\ got'[p][c] = SaidBy(p, q, c)'
                              /\ pushed'[p][c] <= written'[p][c] /\ got'[p][c] <= pushed'[q][c]
                              /\ pushed'[q][c] <= written'[q][c] /\ got'[q][c] <= pushed'[p][c]
      /\ written'[q] = written[q] /\ got'[q] = got[q]
  <2>1. \A c \in Channels : /\ pushed[p][c] \in Nat /\ got[q][c] \in Nat /\ got[p][c] \in Nat
                            /\ written[p][c] \in Nat
                            /\ pushed[p][c] <= written[p][c] /\ got[p][c] <= pushed[q][c]
                            /\ pushed[q][c] <= written[q][c] /\ got[q][c] <= pushed[p][c]
    BY <1>2, CountsTyped DEF RInv, Counts, IInv
  <2>2. CASE SendData(p)
    <3>1. /\ \A c \in Channels : /\ written'[p][c] = written[p][c] + Part(p, c, at[p])
                                  /\ Part(q, c, at[p]) = 0
                                  /\ pushed[p][c] <= pushed'[p][c]
                                  /\ pushed'[p][c] <= written'[p][c]
                                  /\ pushed'[q][c] = pushed[q][c]
          /\ written'[q] = written[q] /\ got' = got
      BY <1>2, <2>2, ProtocolSends
    <3>2. \A c \in Channels : pushed'[p][c] \in Nat
      BY <2>2, SendDataEffect DEF PerChannel
    <3> SUFFICES ASSUME NEW c \in Channels
                 PROVE  /\ written'[p][c] = SaidBy(p, p, c)' /\ got'[p][c] = SaidBy(p, q, c)'
                        /\ pushed'[p][c] <= written'[p][c] /\ got'[p][c] <= pushed'[q][c]
                        /\ pushed'[q][c] <= written'[q][c] /\ got'[q][c] <= pushed'[p][c]
      BY <3>1
    <3>3. written'[p][c] = SaidBy(p, p, c)'
      BY <1>4, <1>5, <3>1
    <3>4. got'[p][c] = SaidBy(p, q, c)'
      BY <1>4, <1>5, <2>1, <3>1
    <3>5. got'[q][c] <= pushed'[p][c]
      BY <2>1, <3>1, <3>2
    <3> QED BY <2>1, <3>1, <3>3, <3>4, <3>5
  <2>3. CASE RecvData(p)
    <3>1. /\ \A c \in Channels : /\ got'[p][c] = got[p][c] + Part(q, c, at[p])
                                  /\ Part(p, c, at[p]) = 0
                                  /\ got'[p][c] <= pushed[q][c]
          /\ got'[q] = got[q] /\ written' = written /\ pushed' = pushed
      BY <1>2, <2>3, ProtocolReceives
    <3> SUFFICES ASSUME NEW c \in Channels
                 PROVE  /\ written'[p][c] = SaidBy(p, p, c)' /\ got'[p][c] = SaidBy(p, q, c)'
                        /\ pushed'[p][c] <= written'[p][c] /\ got'[p][c] <= pushed'[q][c]
                        /\ pushed'[q][c] <= written'[q][c] /\ got'[q][c] <= pushed'[p][c]
      BY <3>1
    <3>2. written'[p][c] = SaidBy(p, p, c)'
      BY <1>4, <1>5, <2>1, <3>1
    <3>3. got'[p][c] = SaidBy(p, q, c)'
      BY <1>4, <1>5, <3>1
    <3> QED BY <2>1, <3>1, <3>2, <3>3
  <2> QED BY <2>2, <2>3 DEF Protocol
<1>7. /\ st' = st /\ total' = total /\ recvCounter' = recvCounter /\ report' = report
      /\ talk' = talk
  BY <1>1 DEF resultVars, program
<1>8. Values'
  BY <1>1, SameValues DEF RInv, Values, resultVars
<1>9. "talk" \notin Ending
  BY DEF Ending
<1>10. Sent(q)' = Sent(q)
  BY <1>6 DEF Sent, Counted
<1>11. CASE p = Bob
  <2>1. q = Alice /\ st'[Bob] = "talk"
    BY <1>1, <1>2, <1>7, <1>11, Peers
  <2>2. ~Reported'
    BY <1>6, <1>11, ZeroIsAChannel DEF Reported
  <2>3. Read' = Read
    BY <1>4, <1>6, <2>1 DEF Read
  <2>4. BobsReport'
    BY <2>1, <2>2 DEF BobsReport
  <2>5. AlicesReport'
    BY <1>3, <1>4, <1>6, <1>7, <1>10, <2>1, <2>3 DEF AlicesReport, RInv
  <2>6. Counts'
    <3> SUFFICES ASSUME NEW r \in Parties, NEW c \in Channels
                 PROVE  /\ pushed'[r][c] <= written'[r][c]
                        /\ got'[r][c] <= pushed'[Peer(r)][c]
                        /\ (r = Bob /\ c = 0 /\ Reported') \/ written'[r][c] = SaidBy(r, r, c)'
                        /\ (r = Alice /\ c = 0 /\ Read') \/ got'[r][c] = SaidBy(r, Peer(r), c)'
      BY DEF Counts
    <3>1. CASE r = p
      BY <1>2, <1>6, <3>1
    <3>2. CASE r = q
      <4>1. /\ (c = 0 /\ Read) \/ got[q][c] = SaidBy(q, p, c)
            /\ written[q][c] = SaidBy(q, q, c)
        BY <1>2, <1>11, <2>1, Peers DEF RInv, Counts
      <4> QED BY <1>2, <1>4, <1>6, <2>1, <2>3, <3>2, <4>1
    <3> QED BY <1>2, <3>1, <3>2, Peers DEF Parties
  <2> QED BY <1>8, <2>4, <2>5, <2>6 DEF RInv
<1>12. CASE p = Alice
  <2>1. q = Bob /\ st'[Alice] = "talk"
    BY <1>1, <1>2, <1>7, <1>12, Peers
  <2>2. ~Read'
    BY <1>6, <1>12, <2>1, ZeroIsAChannel DEF Read
  <2>3. Reported' = Reported
    BY <1>4, <1>6, <2>1 DEF Reported
  <2>4. AlicesReport'
    BY <2>1, <2>2 DEF AlicesReport
  <2>5. BobsReport'
    BY <1>3, <1>4, <1>6, <1>7, <1>10, <2>1, <2>3 DEF BobsReport, RInv
  <2>6. Counts'
    <3> SUFFICES ASSUME NEW r \in Parties, NEW c \in Channels
                 PROVE  /\ pushed'[r][c] <= written'[r][c]
                        /\ got'[r][c] <= pushed'[Peer(r)][c]
                        /\ (r = Bob /\ c = 0 /\ Reported') \/ written'[r][c] = SaidBy(r, r, c)'
                        /\ (r = Alice /\ c = 0 /\ Read') \/ got'[r][c] = SaidBy(r, Peer(r), c)'
      BY DEF Counts
    <3>1. CASE r = p
      BY <1>2, <1>6, <3>1
    <3>2. CASE r = q
      <4>1. /\ (c = 0 /\ Reported) \/ written[q][c] = SaidBy(q, q, c)
            /\ got[q][c] = SaidBy(q, p, c)
        BY <1>2, <1>12, <2>1, Peers DEF RInv, Counts
      <4> QED BY <1>2, <1>4, <1>6, <2>1, <2>3, <3>2, <4>1
    <3> QED BY <1>2, <3>1, <3>2, Peers DEF Parties
  <2> QED BY <1>8, <2>4, <2>5, <2>6 DEF RInv
<1> QED BY <1>11, <1>12 DEF Parties
-----------------------------------------------------------------------------
(* SendReport: the report goes behind the messages of the talk.            *)
LEMMA RInvSendReport ==
    ASSUME IInv, RInv, SendReport
    PROVE  RInv'
<1>1. /\ st[Bob] = "exchange" /\ st' = [st EXCEPT ![Bob] = "delete"]
      /\ report' = recvCounter[Bob] /\ recvCounter' = [recvCounter EXCEPT ![Bob] = 0]
      /\ UNCHANGED <<program, setupVars, at, total, closed>>
  BY DEF SendReport, Move
<1>2. at[Bob] = Len(talk) + 1 /\ ~Reported
  BY <1>1, Peers DEF IInv, Positions, RInv, BobsReport
<1>3. Current(Bob).ch = 0 /\ Current(Bob).n = CounterBytes /\ Current(Bob).flush = TRUE
  BY <1>1 DEF Current, ReportMessage
<1>4. PICK k \in pushed[Bob][0]..written[Bob][0] + CounterBytes :
         /\ k = written[Bob][0] + CounterBytes
         /\ pushed' = [pushed EXCEPT ![Bob][0] = k]
  BY <1>3 DEF SendReport, SendData
<1>5. written' = [written EXCEPT ![Bob][0] = @ + CounterBytes] /\ got' = got
  BY <1>3 DEF SendReport, SendData, Add
<1>6. \A b, c, d : SaidBy(b, c, d)' = SaidBy(b, c, d)
  BY <1>1, SameSaid
<1>7. /\ written'[Bob] = [written[Bob] EXCEPT ![0] = @ + CounterBytes]
      /\ written'[Alice] = written[Alice] /\ pushed'[Alice] = pushed[Alice]
      /\ written'[Bob][0] = written[Bob][0] + CounterBytes
      /\ pushed'[Bob][0] = written[Bob][0] + CounterBytes
      /\ \A c \in Channels \ {0} : written'[Bob][c] = written[Bob][c] /\ pushed'[Bob][c] = pushed[Bob][c]
  BY <1>4, <1>5, Peers, ZeroIsAChannel DEF IInv, Types, PerChannel
<1>8. written[Bob][0] = SaidBy(Bob, Bob, 0) /\ written[Bob][0] \in Nat
  BY <1>2, Peers, ZeroIsAChannel, CountsTyped DEF Reported, IInv
<1>9. Reported' /\ written'[Bob][0] = SaidBy(Bob, Bob, 0)' + CounterBytes
  BY <1>6, <1>7, <1>8 DEF Reported, CounterBytes
<1>10. Read' = Read
  BY <1>5, <1>6 DEF Read
<1>11. Sent(Bob)' = Sent(Bob) + CounterBytes
  <2>1. written[Bob] \in [Channels -> Nat] /\ CounterBytes \in Nat
    BY Peers, ZeroIsAChannel, CountsTyped DEF IInv, CounterBytes
  <2>2. SumFunctionOnSet([written[Bob] EXCEPT ![0] = @ + CounterBytes], Channels)
           = SumFunctionOnSet(written[Bob], Channels) + CounterBytes
    BY <2>1, ZeroIsAChannel, SumAdds
  <2> QED BY <1>7, <2>2 DEF Sent, Counted
<1>12. Sent(Alice)' = Sent(Alice)
  BY <1>7 DEF Sent, Counted
<1>13. /\ recvCounter' \in [Parties -> 0..Width-1] /\ recvCounter'[Bob] = 0
       /\ recvCounter'[Alice] = recvCounter[Alice] /\ report' \in 0..Width-1
  <2>1. 0 \in 0..Width-1
    BY WidthAssumption
  <2> QED BY <1>1, <2>1, Peers DEF RInv, Values
<1>14. Values'
  <2>1. total' \in [Parties -> Nat]
    BY <1>1 DEF RInv, Values
  <2> QED BY <1>1, <1>13, <2>1, SameValues DEF RInv
<1>15. st'[Bob] = "delete" /\ st'[Alice] = st[Alice]
  BY <1>1, Peers DEF IInv, Types
<1>16. BobsReport'
  <2>1. Sent(Bob) = total[Bob] /\ report' = total[Bob] % Width
    BY <1>1 DEF RInv, BobsReport
  <2>2. at' = at /\ talk' = talk /\ total' = total
    BY <1>1 DEF program
  <2>3. "delete" \in Ending
    BY DEF Ending
  <2> QED BY <1>2, <1>9, <1>11, <1>13, <1>15, <2>1, <2>2, <2>3 DEF BobsReport
<1>17. AlicesReport'
  <2>1. ~Read
    BY <1>2, ReadIsReported DEF IInv, RInv
  <2>2. st[Alice] \notin {"delete", "done"}
    BY <2>1 DEF RInv, AlicesReport
  <2>3. total'[Alice] = total[Alice]
    BY <1>1
  <2> QED BY <1>10, <1>12, <1>15, <2>1, <2>2, <2>3 DEF AlicesReport, RInv
<1>18. Counts'
  <2> SUFFICES ASSUME NEW p \in Parties, NEW c \in Channels
               PROVE  /\ pushed'[p][c] <= written'[p][c]
                      /\ got'[p][c] <= pushed'[Peer(p)][c]
                      /\ (p = Bob /\ c = 0 /\ Reported') \/ written'[p][c] = SaidBy(p, p, c)'
                      /\ (p = Alice /\ c = 0 /\ Read') \/ got'[p][c] = SaidBy(p, Peer(p), c)'
    BY DEF Counts
  <2>1. /\ pushed[p][c] <= written[p][c] /\ got[p][c] <= pushed[Peer(p)][c]
        /\ pushed[Peer(p)][c] <= written[Peer(p)][c]
        /\ written[p][c] = SaidBy(p, p, c)
        /\ (p = Alice /\ c = 0 /\ Read) \/ got[p][c] = SaidBy(p, Peer(p), c)
    BY <1>2, Peers DEF RInv, Counts
  <2>2. /\ pushed[p][c] \in Nat /\ written[p][c] \in Nat /\ got[p][c] \in Nat
        /\ pushed[Peer(p)][c] \in Nat /\ written[Peer(p)][c] \in Nat
    BY Peers, CountsTyped DEF IInv
  <2>3. CASE p = Bob
    <3>1. /\ pushed'[Alice][c] = pushed[Alice][c] /\ Peer(p) = Alice /\ p # Alice
      BY <1>7, <2>3, Peers
    <3>2. CASE c = 0
      <4>1. pushed'[p][c] = written'[p][c] /\ written'[p][c] \in Nat
        BY <1>7, <1>8, <2>3, <3>2 DEF CounterBytes
      <4>2. got'[p][c] <= pushed'[Peer(p)][c]
        BY <1>5, <2>1, <2>3, <3>1
      <4>3. got'[p][c] = SaidBy(p, Peer(p), c)'
        BY <1>5, <1>6, <2>1, <3>1
      <4> QED BY <1>9, <2>3, <3>2, <4>1, <4>2, <4>3
    <3>3. CASE c # 0
      BY <1>5, <1>6, <1>7, <2>1, <2>2, <2>3, <3>1, <3>3
    <3> QED BY <3>2, <3>3
  <2>4. CASE p = Alice
    <3>1. Peer(p) = Bob /\ p # Bob
      BY <2>4, Peers
    <3>2. pushed[Bob][c] <= pushed'[Bob][c] /\ pushed'[Bob][c] \in Nat
      BY <1>7, <2>1, <2>2, <3>1 DEF CounterBytes
    <3> QED BY <1>5, <1>6, <1>7, <1>10, <2>1, <2>2, <2>4, <3>1, <3>2
  <2> QED BY <2>3, <2>4 DEF Parties
<1> QED BY <1>14, <1>16, <1>17, <1>18 DEF RInv

(* RecvReport: what Alice reads behind the talk is the report.             *)
LEMMA RInvRecvReport ==
    ASSUME IInv, RInv, RecvReport
    PROVE  RInv'
<1>1. /\ st[Alice] = "exchange" /\ st' = [st EXCEPT ![Alice] = "delete"]
      /\ recvCounter' = [recvCounter EXCEPT ![Alice] = report]
      /\ UNCHANGED <<program, setupVars, at, total, report, closed>>
  BY DEF RecvReport, Move
<1>2. "exchange" \notin Ending /\ "delete" \in Ending
  BY DEF Ending
<1>3. at[Alice] = Len(talk) + 1 /\ ~Read
  BY <1>1, <1>2, Peers DEF IInv, Positions, RInv, AlicesReport
<1>4. Current(Alice).ch = 0 /\ Current(Alice).n = CounterBytes
  BY <1>1 DEF Current, ReportMessage
<1>5. /\ got' = [got EXCEPT ![Alice][0] = @ + CounterBytes] /\ UNCHANGED <<written, pushed>>
      /\ got[Alice][0] + CounterBytes <= pushed[Bob][0]
  BY <1>4, Peers DEF RecvReport, RecvData, Add
<1>6. \A b, c, d : SaidBy(b, c, d)' = SaidBy(b, c, d)
  BY <1>1, SameSaid
<1>7. /\ got'[Bob] = got[Bob] /\ got'[Alice][0] = got[Alice][0] + CounterBytes
      /\ \A c \in Channels \ {0} : got'[Alice][c] = got[Alice][c]
  BY <1>5, Peers, ZeroIsAChannel DEF IInv, Types, PerChannel
<1>8. got[Alice][0] = SaidBy(Alice, Bob, 0) /\ got[Alice][0] \in Nat
  BY <1>3, Peers, ZeroIsAChannel, CountsTyped DEF Read, IInv
<1>9. Read' /\ got'[Alice][0] = SaidBy(Alice, Bob, 0)' + CounterBytes
  BY <1>6, <1>7, <1>8 DEF Read, CounterBytes
<1>10. Reported' = Reported
  BY <1>5, <1>6 DEF Reported
<1>11. Sent(Alice)' = Sent(Alice) /\ Sent(Bob)' = Sent(Bob)
  BY <1>5 DEF Sent, Counted
<1>12. /\ recvCounter' \in [Parties -> 0..Width-1] /\ recvCounter'[Alice] = report
       /\ recvCounter'[Bob] = recvCounter[Bob]
  BY <1>1, Peers DEF RInv, Values
<1>13. total' = total /\ report' = report /\ at' = at /\ talk' = talk
  BY <1>1 DEF program
<1>14. Values'
  BY <1>1, <1>12, <1>13, SameValues DEF RInv, Values
<1>15. st'[Alice] = "delete" /\ st'[Bob] = st[Bob]
  BY <1>1, Peers DEF IInv, Types
<1>16. BobsReport'
  BY <1>5, <1>6, <1>10, <1>11, <1>12, <1>13, <1>15 DEF BobsReport, RInv
<1>17. AlicesReport'
  <2>1. total[Alice] = Sent(Alice)
    BY <1>1 DEF RInv, AlicesReport
  <2> QED BY <1>2, <1>3, <1>9, <1>11, <1>12, <1>13, <1>15, <2>1 DEF AlicesReport
<1>18. Counts'
  <2> SUFFICES ASSUME NEW p \in Parties, NEW c \in Channels
               PROVE  /\ pushed'[p][c] <= written'[p][c]
                      /\ got'[p][c] <= pushed'[Peer(p)][c]
                      /\ (p = Bob /\ c = 0 /\ Reported') \/ written'[p][c] = SaidBy(p, p, c)'
                      /\ (p = Alice /\ c = 0 /\ Read') \/ got'[p][c] = SaidBy(p, Peer(p), c)'
    BY DEF Counts
  <2>1. /\ pushed[p][c] <= written[p][c] /\ got[p][c] <= pushed[Peer(p)][c]
        /\ (p = Bob /\ c = 0 /\ Reported) \/ written[p][c] = SaidBy(p, p, c)
        /\ got[p][c] = SaidBy(p, Peer(p), c)
    BY <1>3 DEF RInv, Counts
  <2>2. CASE p = Bob
    BY <1>5, <1>6, <1>7, <1>10, <2>1, <2>2
  <2>3. CASE p = Alice
    <3>1. CASE c = 0
      BY <1>5, <1>6, <1>7, <1>9, <1>10, <2>1, <2>3, <3>1, Peers
    <3>2. CASE c # 0
      BY <1>5, <1>6, <1>7, <1>10, <2>1, <2>3, <3>2
    <3> QED BY <3>1, <3>2
  <2> QED BY <2>2, <2>3 DEF Parties
<1> QED BY <1>14, <1>16, <1>17, <1>18 DEF RInv

LEMMA RInvStep == IInv /\ RInv /\ [Next]_vars => RInv'
<1> SUFFICES ASSUME IInv, RInv, [Next]_vars PROVE RInv'
  OBVIOUS
<1>1. CASE UNCHANGED vars
  BY <1>1, RInvStutter
<1>2. ASSUME NEW p \in Parties, SetUp(p) PROVE RInv'
  BY <1>2, RInvSetUp
<1>3. ASSUME NEW p \in Parties, Run(p) PROVE RInv'
  BY <1>3, RInvFlushBeforeHearing, RInvProtocol, RInvSumUp, RInvDelete, RInvSendReport,
     RInvRecvReport DEF Run
<1>4. ASSUME NEW p \in Parties, Fail(p) \/ Die(p) PROVE RInv'
  BY <1>4, RInvEnd
<1> QED BY <1>1, <1>2, <1>3, <1>4 DEF Next, Party, Finished

(* The bytes written and got are those of the messages passed, and the     *)
(* report is behind them (SumUp to RecvReport: totalCounter, recvCounter). *)
THEOREM CountsAreKept == Spec => []RInv
<1>1. IInv /\ IInv' /\ RInv /\ [Next]_vars => RInv'
  BY RInvStep
<1> QED BY <1>1, RInvInit, SetUpInStep, PTL DEF Spec

(* Every variable has its type.                                            *)
THEOREM TypeCorrect == Spec => []TypeOK
<1>1. IInv /\ RInv => TypeOK
  <2> SUFFICES ASSUME IInv, RInv PROVE TypeOK
    OBVIOUS
  <2>1. st \in [Parties -> {"listen", "accept", "respond", "connect", "request", "check",
                            "talk", "exchange", "delete", "done", "failed", "killed"}]
    BY DEF IInv, Types, Places, ClientPlaces, ServerPlaces, RunPlaces
  <2> QED BY <2>1 DEF TypeOK, IInv, RInv, Types, Values, PerChannel
<1> QED BY <1>1, SetUpInStep, CountsAreKept, PTL

(* Once Alice has read the report she has got all that Bob has written.    *)
LEMMA AliceHasAll ==
    ASSUME IInv, RInv, st[Alice] \in {"delete", "done"}
    PROVE  got[Alice] = written[Bob] /\ Reported /\ Read
<1>1. Read
  BY DEF RInv, AlicesReport
<1>2. Reported
  BY <1>1, ReadIsReported DEF IInv, RInv
<1>3. ASSUME NEW c \in Channels PROVE got[Alice][c] = written[Bob][c]
  <2>1. SaidBy(Alice, Bob, c) = SaidBy(Bob, Bob, c)
    BY <1>1, <1>2, Peers, SaidTyped DEF IInv, RInv, AlicesReport, BobsReport
  <2>2. CASE c = 0
    BY <1>1, <1>2, <2>1, <2>2 DEF RInv, AlicesReport, BobsReport
  <2>3. CASE c # 0
    BY <2>1, <2>3, Peers DEF RInv, Counts
  <2> QED BY <2>2, <2>3
<1>4. got[Alice] \in [Channels -> Nat] /\ written[Bob] \in [Channels -> Nat]
  BY Peers, ZeroIsAChannel, CountsTyped DEF IInv
<1> QED BY <1>1, <1>2, <1>3, <1>4

(* What Alice reports is what was sent (totalCounter and recvCounter of    *)
(* test_protocol and the other drivers), to the bit, modulo 2^32.          *)
THEOREM ReportsAreRight == Spec => []ReportsAgree
<1>1. IInv /\ RInv => ReportsAgree
  <2> SUFFICES ASSUME IInv, RInv, st[Alice] \in {"delete", "done"}
               PROVE  LET received == Received(Alice) - CounterBytes
                      IN  /\ total[Alice] = Sent(Alice) /\ total[Bob] = received
                          /\ recvCounter[Alice] = received % Width
                          /\ recvCounter[Bob] = 0
    BY DEF ReportsAgree
  <2>1. got[Alice] = written[Bob] /\ Reported
    BY AliceHasAll
  <2>2. Received(Alice) = Sent(Bob)
    BY <2>1 DEF Received, Sent, Counted
  <2>3. /\ Sent(Bob) = total[Bob] + CounterBytes /\ recvCounter[Bob] = 0
        /\ report = total[Bob] % Width
    BY <2>1 DEF RInv, BobsReport
  <2>4. total[Bob] \in Nat
    BY Peers DEF RInv, Values
  <2>5. Received(Alice) - CounterBytes = total[Bob]
    BY <2>2, <2>3, <2>4 DEF CounterBytes
  <2>6. recvCounter[Alice] = report /\ total[Alice] = Sent(Alice)
    BY DEF RInv, AlicesReport
  <2> QED BY <2>3, <2>5, <2>6
<1> QED BY <1>1, SetUpInStep, CountsAreKept, PTL

(* A party that deletes its channels has read all that was sent to it, so  *)
(* that closing the sockets resets no connection.                          *)
THEOREM ClosesQuietly == Spec => []QuietClose
<1>1. IInv /\ RInv => QuietClose
  <2> SUFFICES ASSUME IInv, RInv, NEW p \in Parties, st[p] \in {"delete", "done"},
                      NEW c \in Channels
               PROVE  got[p][c] = written[Peer(p)][c]
    BY DEF QuietClose
  <2>1. CASE p = Alice
    BY <2>1, AliceHasAll, Peers
  <2>2. CASE p = Bob
    <3>1. PICK s : s = BytesOf(Alice, c)[Len(talk)]
      OBVIOUS
    <3>2. at[Bob] = Len(talk) + 1
      BY <2>2 DEF RInv, BobsReport
    <3>3. SaidBy(Bob, Alice, c) = s /\ SaidBy(Alice, Alice, c) <= s
      BY <3>1, <3>2, Peers, SaidTyped DEF IInv
    <3>4. /\ got[Bob][c] = SaidBy(Bob, Alice, c) /\ written[Alice][c] = SaidBy(Alice, Alice, c)
          /\ got[Bob][c] <= pushed[Alice][c] /\ pushed[Alice][c] <= written[Alice][c]
      BY Peers DEF RInv, Counts
    <3>5. got[Bob][c] \in Nat /\ pushed[Alice][c] \in Nat /\ written[Alice][c] \in Nat
      BY Peers, CountsTyped DEF IInv
    <3> QED BY <2>2, <3>3, <3>4, <3>5, Peers
  <2> QED BY <2>1, <2>2 DEF Parties
<1> QED BY <1>1, SetUpInStep, CountsAreKept, PTL
=============================================================================

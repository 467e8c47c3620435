------------------------ MODULE BrowserChannelProofs ------------------------
(***************************************************************************)
(* Proofs about the browser's channel: all programs, with and without loss *)
(* of the connection.                                                      *)
(*                                                                         *)
(* The peer's frames are known from its program: the k-th has the id k and *)
(* carries the bytes behind those of the frames before it.  What is in the *)
(* receive context and on the way are the next frames of that series.  So  *)
(* each frame goes to the end of the list, the cursor is on its head       *)
(* whenever there is one, and what has been read are the bytes up to the   *)
(* cursor.                                                                 *)
(***************************************************************************)
EXTENDS BrowserChannel, SequenceInduction

(* The bytes in the first k of the frames whose lengths are given.         *)
SumsUpTo(f, lengths, n) ==
    /\ f \in [0..n -> Nat]
    /\ f[0] = 0
    /\ \A k \in 1..n : f[k] = f[k - 1] + lengths[k]

IsSum(f, lengths) == SumsUpTo(f, lengths, Len(lengths))

Sum(lengths) == CHOOSE f : IsSum(f, lengths)

Bytes(from, n) == [i \in 1..n |-> from + i]

FrameOf(lengths, k) ==
    [id |-> k, data |-> Bytes(Sum(lengths)[k - 1], lengths[k])]

RecvInfo == [data : Seq(Nat), offset : Nat, prev : Nat, valid : BOOLEAN]

Context == [list : Seq(Frame), info : RecvInfo]

(* The list of the context c and the messages on their way are the frames  *)
(* behind the last one consumed.                                           *)
InOrder(lengths, c, messages) ==
    /\ c.info.prev + Len(c.list) + Len(messages) <= Len(lengths)
    /\ \A i \in 1..Len(c.list) : c.list[i] = FrameOf(lengths, c.info.prev + i)
    /\ \A i \in 1..Len(messages) :
           messages[i] = FrameOf(lengths, c.info.prev + Len(c.list) + i)

(* The cursor is on the head of the list, and at the end of what is read.  *)
Cursor(lengths, c, bytes) ==
    /\ c.info.valid <=> c.list # <<>>
    /\ c.info.valid => /\ c.info.data = c.list[1].data
                       /\ c.info.offset < Len(c.info.data)
    /\ bytes = Bytes(0, Sum(lengths)[c.info.prev]
                        + (IF c.info.valid THEN c.info.offset ELSE 0))

Received ==
    /\ InOrder(program.frames, ctx, net)
    /\ Cursor(program.frames, ctx, read)

(* On a connection that is not lost nothing is missing.                    *)
Sent ==
    /\ sent.frames <= Len(program.frames)
    /\ sent.bytes = Sum(program.frames)[sent.frames]
    /\ ctx.info.prev + Len(ctx.list) + Len(net) <= sent.frames
    /\ ~lost => ctx.info.prev + Len(ctx.list) + Len(net) = sent.frames

(* The end is known only behind the last message.                          *)
End ==
    /\ recv_zero <=> readyState \in {"failing", "closed"}
    /\ recv_zero => net = <<>> /\ (lost \/ ended)
    /\ readyState = "failing" => lost

Waiting == want > 0 <=> at \in {"recv", "asleep", "awake"}

IInv == TypeOK /\ Received /\ Sent /\ End /\ Waiting /\ SleepsOnlyWithoutFrames

Simulated == IInv' /\ [Stream!Next]_(Stream!vars)
-----------------------------------------------------------------------------
(* The sums exist, ...                                                     *)
LEMMA SumExists ==
    ASSUME NEW l \in Seq(Nat \ {0})
    PROVE  IsSum(Sum(l), l)
<1> DEFINE n == Len(l)
           T == {k \in Nat : k <= n => \E f : SumsUpTo(f, l, k)}
<1>1. n \in Nat /\ \A i \in 1..n : l[i] \in Nat
  BY ElementOfSeq, LenProperties
<1>2. 0 \in T
  <2>1. SumsUpTo([i \in 0..0 |-> 0], l, 0)
    BY DEF SumsUpTo
  <2> QED BY <2>1
<1>3. ASSUME NEW k \in T PROVE k + 1 \in T
  <2>1. k \in Nat /\ (k <= n => \E f : SumsUpTo(f, l, k))
    OBVIOUS
  <2>2. ASSUME k + 1 <= n PROVE \E f : SumsUpTo(f, l, k + 1)
    <3>1. k <= n /\ k + 1 \in 1..n
      BY <2>1, <2>2, <1>1
    <3>2. PICK f : SumsUpTo(f, l, k)
      BY <2>1, <3>1
    <3> DEFINE g == [i \in 0..(k + 1) |-> IF i = k + 1 THEN f[k] + l[k + 1] ELSE f[i]]
    <3>3. /\ f[k] \in Nat /\ l[k + 1] \in Nat /\ f[0] = 0
          /\ \A i \in 0..k : f[i] \in Nat
          /\ \A i \in 1..k : f[i] = f[i - 1] + l[i]
      BY <2>1, <3>1, <3>2, <1>1 DEF SumsUpTo
    <3>4. g \in [0..(k + 1) -> Nat]
      BY <2>1, <3>3
    <3>5. g[0] = 0
      BY <2>1, <3>3
    <3>6. \A i \in 1..(k + 1) : g[i] = g[i - 1] + l[i]
      <4> SUFFICES ASSUME NEW i \in 1..(k + 1) PROVE g[i] = g[i - 1] + l[i]
        OBVIOUS
      <4>1. i - 1 \in 0..k /\ i - 1 # k + 1 /\ i - 1 \in 0..(k + 1) /\ i \in 0..(k + 1)
        BY <2>1
      <4>2. g[i - 1] = f[i - 1]
        BY <4>1
      <4>3. CASE i = k + 1
        <5>1. i - 1 = k
          BY <4>3, <2>1
        <5> QED BY <4>1, <4>2, <4>3, <5>1
      <4>4. CASE i # k + 1
        <5>1. i \in 1..k /\ g[i] = f[i]
          BY <4>1, <4>4, <2>1
        <5> QED BY <4>2, <5>1, <3>3
      <4> QED BY <4>3, <4>4
    <3> HIDE DEF g
    <3>7. SumsUpTo(g, l, k + 1)
      BY <3>4, <3>5, <3>6 DEF SumsUpTo
    <3> QED BY <3>7
  <2> QED BY <2>1, <2>2
<1>4. T = Nat
  <2> HIDE DEF T
  <2>1. T \in SUBSET Nat
    BY DEF T
  <2> QED BY <2>1, <1>2, <1>3, InductiveSet
<1>5. n \in T
  <2> HIDE DEF T
  <2> QED BY <1>1, <1>4
<1>6. \E f : IsSum(f, l)
  <2>1. \E f : SumsUpTo(f, l, n)
    BY <1>1, <1>5
  <2> QED BY <2>1 DEF IsSum
<1> QED BY <1>6 DEF Sum

(* ... and grow with each frame.                                           *)
LEMMA SumFacts ==
    ASSUME NEW l \in Seq(Nat \ {0})
    PROVE  /\ \A k \in 0..Len(l) : Sum(l)[k] \in Nat
           /\ Sum(l)[0] = 0
           /\ \A k \in 1..Len(l) : /\ l[k] \in Nat \ {0}
                                   /\ Sum(l)[k] = Sum(l)[k - 1] + l[k]
           /\ \A i, j \in 0..Len(l) : i <= j => Sum(l)[i] <= Sum(l)[j]
<1>1. Len(l) \in Nat /\ \A k \in 1..Len(l) : l[k] \in Nat \ {0}
  BY ElementOfSeq, LenProperties
<1>2. PICK f : f = Sum(l) /\ IsSum(f, l)
  BY SumExists
<1>3. /\ \A k \in 0..Len(l) : f[k] \in Nat
      /\ f[0] = 0
      /\ \A k \in 1..Len(l) : f[k] = f[k - 1] + l[k]
  BY <1>2 DEF IsSum, SumsUpTo
<1> DEFINE T == {n \in Nat : \A i, j \in 0..Len(l) : j = i + n => f[i] <= f[j]}
<1>4. 0 \in T
  BY <1>1, <1>3
<1>5. ASSUME NEW n \in T PROVE n + 1 \in T
  <2>1. n \in Nat /\ \A i, j \in 0..Len(l) : j = i + n => f[i] <= f[j]
    OBVIOUS
  <2>2. ASSUME NEW i \in 0..Len(l), NEW j \in 0..Len(l), j = i + (n + 1)
        PROVE  f[i] <= f[j]
    <3>1. j - 1 \in 0..Len(l) /\ j - 1 = i + n /\ j \in 1..Len(l)
      BY <2>1, <2>2, <1>1
    <3>2. f[i] <= f[j - 1] /\ f[j] = f[j - 1] + l[j] /\ l[j] \in Nat
      BY <2>1, <3>1, <1>1, <1>3
    <3>3. f[i] \in Nat /\ f[j - 1] \in Nat
      BY <3>1, <1>3
    <3> QED BY <3>2, <3>3
  <2> QED BY <2>1, <2>2
<1>6. T = Nat
  <2> HIDE DEF T
  <2>1. T \in SUBSET Nat
    BY DEF T
  <2> QED BY <2>1, <1>4, <1>5, InductiveSet
<1>7. \A i, j \in 0..Len(l) : i <= j => f[i] <= f[j]
  <2> SUFFICES ASSUME NEW i \in 0..Len(l), NEW j \in 0..Len(l), i <= j
               PROVE  f[i] <= f[j]
    OBVIOUS
  <2>1. j - i \in T /\ j = i + (j - i)
    <3> HIDE DEF T
    <3> QED BY <1>1, <1>6
  <2> QED BY <2>1
<1> HIDE DEF T
<1> QED BY <1>1, <1>2, <1>3, <1>7

LEMMA BytesType ==
    ASSUME NEW a \in Nat, NEW n \in Nat
    PROVE  /\ Bytes(a, n) \in Seq(Nat) /\ Len(Bytes(a, n)) = n
           /\ \A i \in 1..n : Bytes(a, n)[i] = a + i
<1> DEFINE f == [i \in 1..n |-> a + i]
<1>1. f \in [1..n -> Nat]
  OBVIOUS
<1>2. f \in Seq(Nat) /\ Len(f) = n
  BY <1>1
<1> QED BY <1>2 DEF Bytes

(* Adjoining pieces of the stream.                                         *)
LEMMA BytesConcat ==
    \A a \in Nat, m \in Nat, n \in Nat :
        Bytes(a, m) \o Bytes(a + m, n) = Bytes(a, m + n)
<1> SUFFICES ASSUME NEW a \in Nat, NEW m \in Nat, NEW n \in Nat
             PROVE  Bytes(a, m) \o Bytes(a + m, n) = Bytes(a, m + n)
  OBVIOUS
<1> DEFINE s == Bytes(a, m)  t == Bytes(a + m, n)  u == Bytes(a, m + n)
<1>1. /\ s \in Seq(Nat) /\ Len(s) = m /\ t \in Seq(Nat) /\ Len(t) = n
      /\ u \in Seq(Nat) /\ Len(u) = m + n
  <2>1. a + m \in Nat /\ m + n \in Nat
    OBVIOUS
  <2> QED BY <2>1, BytesType
<1>2. /\ \A i \in 1..m : s[i] = a + i
      /\ \A i \in 1..n : t[i] = a + m + i
      /\ \A i \in 1..(m + n) : u[i] = a + i
  BY DEF Bytes
<1> HIDE DEF s, t, u
<1>3. /\ s \o t \in Seq(Nat) /\ Len(s \o t) = m + n
      /\ \A i \in 1..(m + n) : (s \o t)[i] = IF i <= m THEN s[i] ELSE t[i - m]
  BY <1>1, ConcatProperties
<1>4. \A i \in 1..(m + n) : (s \o t)[i] = u[i]
  <2> SUFFICES ASSUME NEW i \in 1..(m + n) PROVE (s \o t)[i] = u[i]
    OBVIOUS
  <2>1. CASE i <= m
    BY <2>1, <1>2, <1>3
  <2>2. CASE ~(i <= m)
    <3>1. i - m \in 1..n /\ a + m + (i - m) = a + i
      BY <2>2
    <3> QED BY <3>1, <2>2, <1>2, <1>3
  <2> QED BY <2>1, <2>2
<1>5. s \o t = u
  BY <1>1, <1>3, <1>4, SeqEqual
<1> QED BY <1>5 DEF s, t, u

(* The k-th frame.                                                         *)
LEMMA FrameFacts ==
    ASSUME NEW l \in Seq(Nat \ {0}), NEW k \in 1..Len(l)
    PROVE  /\ FrameOf(l, k) \in Frame /\ FrameOf(l, k).id = k
           /\ FrameOf(l, k).data = Bytes(Sum(l)[k - 1], l[k])
           /\ Len(FrameOf(l, k).data) = l[k]
           /\ l[k] \in Nat \ {0}
           /\ Sum(l)[k - 1] \in Nat
           /\ Sum(l)[k] = Sum(l)[k - 1] + l[k]
<1>1. k - 1 \in 0..Len(l)
  BY LenProperties
<1>2. PICK m \in Nat, n \in Nat \ {0} :
          m = Sum(l)[k - 1] /\ n = l[k] /\ Sum(l)[k] = m + n
  <2>1. Sum(l)[k - 1] \in Nat
    BY <1>1, SumFacts
  <2>2. l[k] \in Nat \ {0} /\ Sum(l)[k] = Sum(l)[k - 1] + l[k]
    BY SumFacts
  <2> QED BY <2>1, <2>2
<1>3. PICK b : b = Bytes(m, n)
  OBVIOUS
<1>4. b \in Seq(Nat) /\ Len(b) = n
  BY <1>3, BytesType
<1>5. FrameOf(l, k) = [id |-> k, data |-> b]
  BY <1>2, <1>3 DEF FrameOf
<1>6. b # <<>>
  BY <1>4, EmptySeq
<1>7. k \in Nat
  BY LenProperties
<1> QED BY <1>2, <1>3, <1>4, <1>5, <1>6, <1>7 DEF Frame

(* A context is what its parts are.                                        *)
LEMMA ContextParts ==
    ASSUME NEW c, NEW list \in Seq(Frame), NEW info \in RecvInfo,
           c = [list |-> list, info |-> info]
    PROVE  c \in Context /\ c.list = list /\ c.info = info
BY DEF Context

LEMMA CursorParts ==
    ASSUME NEW l, NEW c, NEW b, NEW p, NEW list, NEW valid, NEW data, NEW offset,
           c.info.prev = p, c.list = list, c.info.valid = valid,
           c.info.data = data, c.info.offset = offset,
           valid <=> list # <<>>,
           valid => data = list[1].data /\ offset < Len(data),
           b = Bytes(0, Sum(l)[p] + (IF valid THEN offset ELSE 0))
    PROVE  Cursor(l, c, b)
BY DEF Cursor

(* The next message goes to the end of the list, and the cursor onto it if *)
(* it is alone there.                                                      *)
LEMMA PutNext ==
    ASSUME NEW l \in Seq(Nat \ {0}), NEW c \in Context, NEW n \in Seq(Frame), n # <<>>,
           NEW r, InOrder(l, c, n), Cursor(l, c, r)
    PROVE  LET d == PutToRecvCtx(c, Head(n))
           IN  /\ d \in Context /\ InOrder(l, d, Tail(n)) /\ Cursor(l, d, r)
               /\ d.info.prev = c.info.prev /\ d.list # <<>>
               /\ Len(d.list) = Len(c.list) + 1 /\ Len(Tail(n)) = Len(n) - 1
<1> DEFINE d == PutToRecvCtx(c, Head(n))
<1>1. PICK p \in Nat, m \in Nat, k \in Nat :
          p = c.info.prev /\ m = Len(c.list) /\ k = Len(n)
  BY LenProperties DEF Context, RecvInfo
<1>2. k > 0
  BY <1>1, EmptySeq
<1>a. PICK f, t : f = Head(n) /\ t = Tail(n)
  OBVIOUS
<1>3. /\ f \in Frame /\ t \in Seq(Frame)
      /\ f = Head(n) /\ t = Tail(n) /\ f = n[1] /\ Len(t) = k - 1
      /\ \A i \in 1..(k - 1) : t[i] = n[i + 1]
  <2>1. Head(n) = n[1]
    OBVIOUS
  <2> QED BY <2>1, <1>1, <1>a, HeadTailProperties
<1>4. /\ p + m + k <= Len(l) /\ Len(l) \in Nat
      /\ \A i \in 1..m : c.list[i] = FrameOf(l, p + i)
      /\ \A i \in 1..k : n[i] = FrameOf(l, p + m + i)
  BY <1>1, LenProperties DEF InOrder
<1>5. f = FrameOf(l, p + m + 1) /\ f.id = p + m + 1
  <2>1. 1 \in 1..k /\ p + m + 1 \in 1..Len(l)
    BY <1>2, <1>4
  <2>2. FrameOf(l, p + m + 1).id = p + m + 1
    BY <2>1, FrameFacts
  <2> QED BY <2>1, <2>2, <1>3, <1>4
<1>6. c.list \in Seq(Frame) /\ c.info \in RecvInfo /\ DOMAIN c.list = 1..m
  BY <1>1, LenProperties DEF Context
<1>7. \A i \in 1..m : c.list[i].id = p + i
  <2> SUFFICES ASSUME NEW i \in 1..m PROVE c.list[i].id = p + i
    OBVIOUS
  <2>1. p + i \in 1..Len(l)
    BY <1>4
  <2>2. FrameOf(l, p + i).id = p + i
    BY <2>1, FrameFacts
  <2> QED BY <2>2, <1>4
<1>8. {i \in DOMAIN c.list : f.id < c.list[i].id} = {}
  <2>1. \A i \in 1..m : ~(f.id < c.list[i].id)
    BY <1>5, <1>7
  <2> QED BY <2>1, <1>6
<1>9. InsertById(c.list, f) = Append(c.list, f)
  BY <1>8 DEF InsertById
<1>b. PICK s : s = Append(c.list, f)
  OBVIOUS
<1>10. /\ s \in Seq(Frame)
       /\ s = Append(c.list, f) /\ Len(s) = m + 1 /\ s[m + 1] = f
       /\ \A i \in 1..m : s[i] = c.list[i]
  BY <1>1, <1>3, <1>6, <1>b, AppendProperties
<1>11. s # <<>> /\ Head(s) = s[1] /\ 1 \in 1..(m + 1)
  <2>1. s # <<>>
    <3>1. c.list \in Seq(Frame) /\ f \in Frame
      BY <1>3, <1>6
    <3>2. Append(c.list, f) # <<>>
      BY <3>1, AppendProperties, SMTT(30)
    <3> QED BY <3>2, <1>b, Zenon
  <2>2. Head(s) = s[1]
    BY <2>1
  <2>3. 1 \in 1..(m + 1)
    OBVIOUS
  <2> QED BY <2>1, <2>2, <2>3
<1>12. \A i \in 1..(m + 1) : s[i] = FrameOf(l, p + i)
  <2> SUFFICES ASSUME NEW i \in 1..(m + 1) PROVE s[i] = FrameOf(l, p + i)
    OBVIOUS
  <2>1. CASE i \in 1..m
    BY <2>1, <1>4, <1>10
  <2>2. CASE i = m + 1
    <3>1. p + i = p + m + 1
      BY <2>2
    <3> QED BY <2>2, <3>1, <1>5, <1>10
  <2> QED BY <2>1, <2>2
<1>13. \A i \in 1..(k - 1) : t[i] = FrameOf(l, p + (m + 1) + i)
  <2> SUFFICES ASSUME NEW i \in 1..(k - 1) PROVE t[i] = FrameOf(l, p + (m + 1) + i)
    OBVIOUS
  <2>1. i + 1 \in 1..k /\ p + (m + 1) + i = p + m + (i + 1)
    OBVIOUS
  <2> QED BY <2>1, <1>3, <1>4
<1>14. d = [list |-> s, info |-> Validate(c.info, s)]
  BY <1>3, <1>9, <1>10 DEF PutToRecvCtx
<1>15. /\ Validate(c.info, s) \in RecvInfo /\ Validate(c.info, s).prev = p
       /\ Validate(c.info, s).valid
       /\ IF c.info.valid THEN Validate(c.info, s) = c.info
          ELSE Validate(c.info, s).data = s[1].data /\ Validate(c.info, s).offset = 0
  <2>1. CASE c.info.valid
    BY <2>1, <1>1, <1>6 DEF Validate
  <2>2. CASE ~c.info.valid
    <3>1. m = 0
      <4>1. c.list = <<>>
        BY <2>2 DEF Cursor
      <4> QED BY <4>1, <1>1
    <3>2. s[1] = f /\ f.id = p + 1
      BY <3>1, <1>5, <1>10
    <3>3. Validate(c.info, s) = Info(s[1].data, 0, p, TRUE)
      BY <3>2, <2>2, <1>1, <1>11 DEF Validate
    <3>4. s[1].data \in Seq(Nat)
      BY <3>2, <1>3 DEF Frame
    <3> QED BY <3>3, <3>4, <2>2 DEF Info, RecvInfo
  <2> QED BY <2>1, <2>2
<1> DEFINE v == Validate(c.info, s)
<1>16. d = [list |-> s, info |-> v]
  BY <1>14
<1>17. /\ v \in RecvInfo /\ v.prev = p /\ v.valid
       /\ IF c.info.valid THEN v = c.info ELSE v.data = s[1].data /\ v.offset = 0
  BY <1>15
<1> HIDE DEF d, v
<1>18. d.list = s /\ d.info = v /\ d \in Context
  BY <1>10, <1>16, <1>17 DEF Context
<1>19. InOrder(l, d, t)
  <2>1. p + (m + 1) + (k - 1) <= Len(l)
    BY <1>4
  <2>2. d.info.prev = p /\ d.list = s /\ Len(s) = m + 1 /\ Len(t) = k - 1
    BY <1>3, <1>10, <1>17, <1>18
  <2>3. d.info.prev + Len(d.list) + Len(t) <= Len(l)
    BY <2>1, <2>2
  <2>4. \A i \in 1..Len(d.list) : d.list[i] = FrameOf(l, d.info.prev + i)
    BY <2>2, <1>12
  <2>5. \A i \in 1..Len(t) : t[i] = FrameOf(l, d.info.prev + Len(d.list) + i)
    BY <2>2, <1>13
  <2> QED BY <2>3, <2>4, <2>5 DEF InOrder
<1>20. Cursor(l, d, r)
  <2>1. CASE c.info.valid
    <3>1. c.list # <<>> /\ c.info.data = c.list[1].data /\ c.info.offset < Len(c.info.data)
          /\ r = Bytes(0, Sum(l)[p] + c.info.offset)
      BY <2>1, <1>1 DEF Cursor
    <3>2. 1 \in 1..m
      BY <3>1, <1>1, <1>6, EmptySeq
    <3>3. s[1] = c.list[1]
      BY <3>2, <1>10
    <3> QED BY <2>1, <3>1, <3>3, <1>1, <1>11, <1>17, <1>18 DEF Cursor
  <2>2. CASE ~c.info.valid
    <3>1. r = Bytes(0, Sum(l)[p] + 0)
      BY <2>2, <1>1 DEF Cursor
    <3>2. s[1] \in Frame
      BY <1>10, <1>11, ElementOfSeq
    <3>3. 0 < Len(s[1].data)
      BY <3>2, EmptySeq, LenProperties DEF Frame
    <3> QED BY <2>2, <3>1, <3>3, <1>11, <1>17, <1>18 DEF Cursor
  <2> QED BY <2>1, <2>2
<1> QED BY <1>1, <1>3, <1>10, <1>11, <1>17, <1>18, <1>19, <1>20 DEF d

(* What a turn of the receive loop takes are the next bytes of the stream, *)
(* all within the current frame; if that is used up, the cursor moves onto *)
(* the next one in the list.                                               *)
LEMMA TakeNext ==
    ASSUME NEW l \in Seq(Nat \ {0}), NEW c \in Context, NEW n \in Seq(Frame),
           NEW r, InOrder(l, c, n), Cursor(l, c, r), c.info.valid,
           NEW w \in Nat \ {0}
    PROVE  /\ Len(Taken(c, w)) \in 1..w
           /\ r \in Seq(Nat)
           /\ r \o Taken(c, w) = Bytes(0, Len(r) + Len(Taken(c, w)))
           /\ Len(r) + Len(Taken(c, w)) <= Sum(l)[c.info.prev + 1]
           /\ RecvFromRecvCtx(c, w) \in Context
           /\ InOrder(l, RecvFromRecvCtx(c, w), n)
           /\ Cursor(l, RecvFromRecvCtx(c, w), r \o Taken(c, w))
           /\ RecvFromRecvCtx(c, w).info.prev + Len(RecvFromRecvCtx(c, w).list)
                = c.info.prev + Len(c.list)
<1> DEFINE d == RecvFromRecvCtx(c, w)
           t == Taken(c, w)
<1>1. PICK p \in Nat, m \in Nat, k \in Nat, o \in Nat, data \in Seq(Nat) :
          /\ p = c.info.prev /\ m = Len(c.list) /\ k = Len(n)
          /\ o = c.info.offset /\ data = c.info.data
  BY LenProperties DEF Context, RecvInfo
<1>2. /\ c.list # <<>> /\ c.list \in Seq(Frame)
      /\ data = c.list[1].data /\ o < Len(data)
      /\ r = Bytes(0, Sum(l)[p] + o)
  BY <1>1 DEF Cursor, Context
<1>3. m > 0
  BY <1>1, <1>2, EmptySeq
<1>4. p + m + k <= Len(l) /\ Len(l) \in Nat
  BY <1>1, LenProperties DEF InOrder
<1>5. /\ \A i \in 1..m : c.list[i] = FrameOf(l, p + i)
      /\ \A i \in 1..k : n[i] = FrameOf(l, p + m + i)
  BY <1>1 DEF InOrder
(* The frame at the head.                                                  *)
<1>6. PICK begin \in Nat, size \in Nat \ {0} :
          /\ begin = Sum(l)[p] /\ size = l[p + 1] /\ Sum(l)[p + 1] = begin + size
          /\ data = Bytes(begin, size) /\ Len(data) = size /\ c.list[1].id = p + 1
  <2>1. 1 \in 1..m /\ p + 1 \in 1..Len(l) /\ (p + 1) - 1 = p
    BY <1>3, <1>4
  <2>2. c.list[1] = FrameOf(l, p + 1)
    BY <2>1, <1>5
  <2>3. /\ FrameOf(l, p + 1).id = p + 1
        /\ FrameOf(l, p + 1).data = Bytes(Sum(l)[(p + 1) - 1], l[p + 1])
        /\ Len(FrameOf(l, p + 1).data) = l[p + 1]
        /\ l[p + 1] \in Nat \ {0}
        /\ Sum(l)[(p + 1) - 1] \in Nat
        /\ Sum(l)[p + 1] = Sum(l)[(p + 1) - 1] + l[p + 1]
    BY <2>1, FrameFacts
  <2> QED BY <2>1, <2>2, <2>3, <1>2
<1>7. PICK g : g = MinOf(Len(data) - o, w)
  OBVIOUS
<1>8. o < size
  BY <1>2, <1>6
<1>9. g \in Nat \ {0} /\ g <= w /\ o + g <= size /\ (g = size - o \/ o + g < size)
  <2>1. g = IF size - o < w THEN size - o ELSE w
    BY <1>6, <1>7 DEF MinOf
  <2> QED BY <2>1, <1>8
<1>10. t = Bytes(begin + o, g) /\ Len(t) = g
  <2>1. t = SubSeq(data, o + 1, o + g)
    BY <1>1, <1>7 DEF Taken
  <2>2. SubSeq(Bytes(begin, size), o + 1, o + g) = Bytes(begin + o, g)
    <3>1. g \in Nat /\ size \in Nat /\ o + g <= size /\ begin + o \in Nat
      BY <1>9
    <3>2. PICK a : a = Bytes(begin, size)
      OBVIOUS
    <3>3. a \in Seq(Nat) /\ Len(a) = size /\ \A i \in 1..size : a[i] = begin + i
      BY <3>2, BytesType
    <3>4. PICK b : b = Bytes(begin + o, g)
      OBVIOUS
    <3>5. b \in Seq(Nat) /\ Len(b) = g /\ \A i \in 1..g : b[i] = (begin + o) + i
      BY <3>1, <3>4, BytesType
    <3>6. PICK u : u = SubSeq(a, o + 1, o + g)
      OBVIOUS
    <3>7. u \in Seq(Nat) /\ Len(u) = g /\ \A i \in 1..g : u[i] = a[o + i]
      BY <3>1, <3>3, <3>6, Piece
    <3>8. \A i \in 1..g : u[i] = b[i]
      <4> SUFFICES ASSUME NEW i \in 1..g PROVE u[i] = b[i]
        OBVIOUS
      <4>1. o + i \in 1..size /\ begin + (o + i) = (begin + o) + i
        BY <3>1
      <4> QED BY <4>1, <3>3, <3>5, <3>7
    <3>9. u = b
      BY <3>5, <3>7, <3>8, SeqEqual
    <3> QED BY <3>2, <3>4, <3>6, <3>9
  <2>3. Len(Bytes(begin + o, g)) = g
    <3>1. begin + o \in Nat /\ g \in Nat
      BY <1>9
    <3> QED BY <3>1, BytesType
  <2> QED BY <2>1, <2>2, <2>3, <1>6
<1>11. r \in Seq(Nat) /\ Len(r) = begin + o
  <2>1. begin + o \in Nat
    OBVIOUS
  <2>2. Bytes(0, begin + o) \in Seq(Nat) /\ Len(Bytes(0, begin + o)) = begin + o
    BY <2>1, BytesType
  <2> QED BY <2>2, <1>2, <1>6
<1>12. r \o t = Bytes(0, begin + o + g)
  <2>1. PICK e \in Nat : e = begin + o
    OBVIOUS
  <2>2. Bytes(0, e) \o Bytes(0 + e, g) = Bytes(0, e + g)
    <3>1. g \in Nat /\ 0 \in Nat
      BY <1>9
    <3> QED BY <3>1, BytesConcat, ZenonT(40)
  <2>3. 0 + e = begin + o /\ e + g = begin + o + g
    BY <2>1, <1>9
  <2>4. r = Bytes(0, e)
    BY <2>1, <1>2, <1>6
  <2> QED BY <2>2, <2>3, <2>4, <1>10, Zenon
<1>13. PICK q : q = Tail(c.list)
  OBVIOUS
<1>14. /\ q \in Seq(Frame) /\ Len(q) = m - 1 /\ Head(c.list) = c.list[1]
       /\ \A i \in 1..(m - 1) : q[i] = c.list[i + 1]
  <2>1. Head(c.list) = c.list[1]
    BY <1>2
  <2> QED BY <2>1, <1>1, <1>2, <1>13, HeadTailProperties
<1>15. \A i \in 1..(m - 1) : q[i] = FrameOf(l, (p + 1) + i)
  <2> SUFFICES ASSUME NEW i \in 1..(m - 1) PROVE q[i] = FrameOf(l, (p + 1) + i)
    OBVIOUS
  <2>1. i + 1 \in 1..m /\ p + (i + 1) = (p + 1) + i
    BY <1>3
  <2> QED BY <2>1, <1>5, <1>14
<1>16. Len(r) + Len(t) = begin + o + g
  BY <1>10, <1>11
<1>17. PICK y : y = r \o t
  OBVIOUS
<1>a. Len(Taken(c, w)) = g
  BY <1>10
<1> HIDE DEF t
(* The context behind it, whether bytes of the frame are left ...          *)
<1> DEFINE Claim == /\ d \in Context /\ InOrder(l, d, n) /\ Cursor(l, d, y)
                    /\ d.info.prev + Len(d.list) = p + m
<1>18. ASSUME o + g < size PROVE Claim
  <2> DEFINE v == Info(data, o + g, p, TRUE)
  <2>1. /\ v \in RecvInfo /\ v.valid /\ v.prev = p /\ v.offset = o + g /\ v.data = data
    <3>1. o + g \in Nat
      BY <1>9
    <3> QED BY <3>1 DEF Info, RecvInfo
  <2>2. d = [list |-> c.list, info |-> Validate(v, c.list)]
    <3>1. o + Len(Taken(c, w)) = o + g /\ o + g # Len(data)
      BY <1>6, <1>18, <1>a
    <3> QED BY <3>1, <1>1 DEF RecvFromRecvCtx
  <2> HIDE DEF v, d
  <2>3. d = [list |-> c.list, info |-> v]
    BY <2>1, <2>2 DEF Validate
  <2>4. d.list = c.list /\ d.info = v /\ d \in Context
    BY <2>1, <2>3, <1>2 DEF Context
  <2>5. InOrder(l, d, n)
    BY <2>1, <2>4, <1>1 DEF InOrder
  <2>6. y = Bytes(0, Sum(l)[p] + (o + g))
    <3>1. begin + o + g = begin + (o + g)
      BY <1>9
    <3> QED BY <3>1, <1>6, <1>12, <1>17
  <2>7. Cursor(l, d, y)
    BY <2>1, <2>4, <2>6, <1>2, <1>6, <1>18 DEF Cursor
  <2> QED BY <2>1, <2>4, <2>5, <2>7, <1>1
(* ... or not.                                                             *)
<1>19. ASSUME g = size - o PROVE Claim
  <2> DEFINE v == Info(data, o + g, p + 1, FALSE)
             x == Validate(v, q)
  <2>1. v \in RecvInfo /\ ~v.valid /\ v.prev = p + 1
    <3>1. o + g \in Nat /\ p + 1 \in Nat
      BY <1>9
    <3> QED BY <3>1 DEF Info, RecvInfo
  <2>2. d = [list |-> q, info |-> x]
    <3>1. o + Len(Taken(c, w)) = o + g /\ o + g = Len(data) /\ o < Len(data)
      <4>1. o + g = size
        BY <1>8, <1>19
      <4> QED BY <4>1, <1>2, <1>6, <1>a
    <3>2. Head(c.list).id = p + 1
      BY <1>6, <1>14
    <3> QED BY <3>1, <3>2, <1>1, <1>13 DEF RecvFromRecvCtx
  <2> HIDE DEF v, d
  <2>3. /\ x \in RecvInfo /\ x.prev = p + 1
        /\ x.valid <=> q # <<>>
        /\ x.valid => x.data = q[1].data /\ x.offset = 0 /\ 0 < Len(x.data)
    <3>1. CASE q = <<>>
      BY <3>1, <2>1 DEF Validate
    <3>2. CASE q # <<>>
      <4>1. 1 \in 1..(m - 1)
        BY <3>2, <1>14, EmptySeq
      <4>2. q[1] \in Frame
        BY <4>1, <1>14, ElementOfSeq
      <4>3. Head(q) = q[1] /\ q[1] = FrameOf(l, (p + 1) + 1)
        BY <3>2, <4>1, <1>14, <1>15
      <4>4. q[1].id = (p + 1) + 1
        <5>1. (p + 1) + 1 \in 1..Len(l)
          BY <4>1, <1>4
        <5> QED BY <5>1, <4>3, FrameFacts
      <4>5. x = Info(q[1].data, 0, p + 1, TRUE)
        BY <3>2, <4>3, <4>4, <2>1 DEF Validate
      <4>6. q[1].data \in Seq(Nat) /\ 0 < Len(q[1].data)
        BY <4>2, EmptySeq, LenProperties DEF Frame
      <4> HIDE DEF x
      <4> QED BY <3>2, <4>5, <4>6 DEF Info, RecvInfo
    <3> QED BY <3>1, <3>2
  <2> HIDE DEF x
  <2>4. d.list = q /\ d.info = x /\ d \in Context
    <3>1. x \in RecvInfo /\ q \in Seq(Frame)
      BY <2>3, <1>14
    <3> QED BY <3>1, <2>2, ContextParts, Zenon
  <2>5. InOrder(l, d, n)
    <3>1. /\ (p + 1) + (m - 1) + k <= Len(l)
          /\ \A i \in 1..k : (p + 1) + (m - 1) + i = p + m + i
      BY <1>4
    <3>2. \A i \in 1..k : n[i] = FrameOf(l, (p + 1) + (m - 1) + i)
      BY <3>1, <1>5
    <3>3. /\ d.info.prev = p + 1 /\ d.list = q /\ Len(q) = m - 1 /\ Len(n) = k
          /\ (p + 1) + (m - 1) + k <= Len(l)
      BY <3>1, <2>3, <2>4, <1>1, <1>14
    <3>4. d.info.prev + Len(d.list) + Len(n) <= Len(l)
      BY <3>3
    <3>5. \A i \in 1..Len(d.list) : d.list[i] = FrameOf(l, d.info.prev + i)
      BY <3>3, <1>15
    <3>6. \A i \in 1..Len(n) : n[i] = FrameOf(l, d.info.prev + Len(d.list) + i)
      BY <3>2, <3>3
    <3> QED BY <3>4, <3>5, <3>6 DEF InOrder
  <2>6. y = Bytes(0, Sum(l)[p + 1] + 0)
    <3>1. begin + o + g = Sum(l)[p + 1] + 0
      <4>1. begin + o + g = begin + size
        BY <1>8, <1>19
      <4>2. Sum(l)[p + 1] = begin + size /\ begin + size \in Nat
        BY <1>6
      <4> QED BY <4>1, <4>2
    <3> QED BY <3>1, <1>12, <1>17
  <2>7. Cursor(l, d, y)
    <3>1. 0 = IF x.valid THEN x.offset ELSE 0
      BY <2>3
    <3>2. x.valid => x.data = q[1].data /\ x.offset < Len(x.data)
      BY <2>3
    <3>3. y = Bytes(0, Sum(l)[p + 1] + (IF x.valid THEN x.offset ELSE 0))
      BY <3>1, <2>6
    <3> QED BY <3>2, <3>3, <2>3, <2>4, CursorParts, SMTT(40)
  <2>8. (p + 1) + (m - 1) = p + m
    OBVIOUS
  <2> QED BY <2>3, <2>4, <2>5, <2>7, <2>8, <1>14
<1>20. Claim
  BY <1>18, <1>19, <1>9
<1> HIDE DEF d
<1>21. Len(t) \in 1..w
  BY <1>9, <1>10
<1>22. y = Bytes(0, Len(r) + Len(t))
  BY <1>12, <1>16, <1>17
<1>23. Len(r) + Len(t) <= Sum(l)[p + 1]
  <2>1. begin + o + g <= begin + size
    BY <1>9
  <2> QED BY <2>1, <1>6, <1>16
<1>24. /\ d \in Context /\ InOrder(l, d, n) /\ Cursor(l, d, r \o t)
       /\ d.info.prev + Len(d.list) = c.info.prev + Len(c.list)
       /\ r \o t = Bytes(0, Len(r) + Len(t))
       /\ Len(r) + Len(t) <= Sum(l)[c.info.prev + 1]
  BY <1>1, <1>17, <1>20, <1>22, <1>23
<1> QED BY <1>11, <1>21, <1>24 DEF d, t
-----------------------------------------------------------------------------
LEMMA Types ==
    ASSUME IInv
    PROVE  /\ program.frames \in Seq(Nat \ {0}) /\ program.requests \in Seq(Nat)
           /\ ctx \in Context /\ net \in Seq(Frame) /\ read \in Seq(Nat)
           /\ ctx.info.prev \in Nat /\ Len(ctx.list) \in Nat /\ Len(net) \in Nat
           /\ Len(program.frames) \in Nat
           /\ sent \in [frames : Nat, bytes : Nat] /\ want \in Nat
<1>1. /\ program \in Programs /\ ctx \in Context /\ net \in Seq(Frame)
      /\ read \in Seq(Nat) /\ sent \in [frames : Nat, bytes : Nat] /\ want \in Nat
  BY DEF IInv, TypeOK, Context, RecvInfo
<1>2. program.frames \in Seq(Nat \ {0}) /\ program.requests \in Seq(Nat)
  BY <1>1, ProgramsAssumption
<1>3. ctx.list \in Seq(Frame) /\ ctx.info.prev \in Nat
  BY <1>1 DEF Context, RecvInfo
<1> QED BY <1>1, <1>2, <1>3, LenProperties

(* Where the abstract stream does not move.                                *)
LEMMA StreamSame ==
    ASSUME sent' = sent, read' = read, want' = want, lost' = lost
    PROVE  UNCHANGED Stream!vars
BY DEF Stream!vars, Directions

(* Where the bytes are, an action that does not touch them leaves them.    *)
LEMMA DataSame ==
    ASSUME Received, Sent, UNCHANGED <<program, sent, net, lost, ctx, read>>
    PROVE  Received' /\ Sent'
BY DEF Received, Sent

LEMMA InvInit == Init => IInv
<1> SUFFICES ASSUME Init PROVE IInv
  OBVIOUS
<1> DEFINE l == program.frames
<1>1. l \in Seq(Nat \ {0}) /\ program \in Programs
  BY ProgramsAssumption DEF Init
<1>2. Len(l) \in Nat
  BY <1>1, LenProperties
<1> HIDE DEF l
<1>3. Sum(l)[0] = 0
  BY <1>1, SumFacts
<1>4. ctx = [list |-> <<>>, info |-> Info(<<>>, 0, 0, FALSE)]
  BY DEF Init, EmptyRecvCtx
<1>5. /\ Info(<<>>, 0, 0, FALSE) \in RecvInfo /\ <<>> \in Seq(Frame)
      /\ Info(<<>>, 0, 0, FALSE).prev = 0 /\ ~Info(<<>>, 0, 0, FALSE).valid
  BY EmptySeq DEF Info, RecvInfo
<1>6. ctx \in Context /\ ctx.list = <<>> /\ ctx.info.prev = 0 /\ ~ctx.info.valid
  BY <1>4, <1>5 DEF Context
<1>7. TypeOK
  <2>1. /\ ctx \in [list : Seq(Frame),
                    info : [data : Seq(Nat), offset : Nat, prev : Nat, valid : BOOLEAN]]
        /\ net \in Seq(Frame) /\ read \in Seq(Nat)
    BY <1>6 DEF Init, Context, RecvInfo
  <2>2. sent \in [frames : Nat, bytes : Nat]
    BY DEF Init
  <2>3. ended \in BOOLEAN /\ lost \in BOOLEAN /\ recv_zero \in BOOLEAN
    BY Zenon DEF Init
  <2>4. /\ readyState \in {"connecting", "open", "failing", "closed"}
        /\ at \in {"connect", "ready", "idle", "recv", "asleep", "awake", "failed", "closed"}
        /\ next \in Nat \ {0} /\ want \in Nat
    BY DEF Init
  <2> QED BY <2>1, <2>2, <2>3, <2>4, <1>1 DEF TypeOK
<1>8. InOrder(l, ctx, net)
  BY <1>2, <1>6 DEF Init, InOrder
<1>9. Cursor(l, ctx, read)
  <2>1. Bytes(0, 0) = <<>>
    BY BytesType, EmptySeq
  <2> QED BY <2>1, <1>3, <1>6 DEF Init, Cursor
<1>10. Sent
  BY <1>2, <1>3, <1>6 DEF Init, Sent, l
<1>11. End /\ Waiting /\ SleepsOnlyWithoutFrames
  BY DEF Init, End, Waiting, SleepsOnlyWithoutFrames
<1> QED BY <1>7, <1>8, <1>9, <1>10, <1>11 DEF IInv, Received, l

LEMMA PeerSendStep == ASSUME IInv, PeerSend PROVE Simulated
<1>1. PICK l \in Seq(Nat \ {0}) : l = program.frames
  BY Types
<1>2. PICK p, m, k, id : /\ p = ctx.info.prev /\ m = Len(ctx.list) /\ k = Len(net)
                         /\ id = sent.frames + 1
  OBVIOUS
<1>3. /\ p \in Nat /\ m \in Nat /\ k \in Nat /\ id \in Nat /\ Len(l) \in Nat
      /\ sent.frames \in Nat /\ sent.bytes \in Nat /\ net \in Seq(Frame)
  BY <1>1, <1>2, Types
<1>4. /\ ~ended /\ sent.frames < Len(l)
      /\ sent' = [frames |-> id, bytes |-> sent.bytes + l[id]]
      /\ net' = IF lost THEN net
                ELSE Append(net, [id |-> id, data |-> Bytes(sent.bytes, l[id])])
      /\ UNCHANGED <<program, ended, lost, readyState, ctx, recv_zero, at, next, want, read>>
  BY <1>1, <1>2 DEF PeerSend, Bytes, ctxVars, readerVars
<1>5. id \in 1..Len(l) /\ id - 1 = sent.frames
  <2>1. sent.frames < Len(l)
    BY <1>4
  <2>2. id = sent.frames + 1
    BY <1>2
  <2> QED BY <2>1, <2>2, <1>3
<1>6. sent.bytes = Sum(l)[id - 1]
  BY <1>1, <1>5 DEF IInv, Sent
<1>7. /\ [id |-> id, data |-> Bytes(sent.bytes, l[id])] = FrameOf(l, id)
      /\ FrameOf(l, id) \in Frame /\ l[id] \in Nat \ {0}
      /\ Sum(l)[id] = sent.bytes + l[id]
  BY <1>5, <1>6, FrameFacts DEF FrameOf
<1>8. /\ p + m + k <= sent.frames /\ (~lost => p + m + k = sent.frames)
      /\ InOrder(l, ctx, net) /\ Cursor(l, ctx, read)
  BY <1>1, <1>2 DEF IInv, Sent, Received
<1>9. sent'.frames = id /\ sent'.bytes = sent.bytes + l[id]
  BY <1>4
<1>10. net' \in Seq(Frame) /\ InOrder(l, ctx, net')
       /\ p + m + Len(net') <= id /\ (~lost => p + m + Len(net') = id)
  <2>1. CASE lost
    <3>1. net' = net
      BY <2>1, <1>4
    <3>2. Len(net') = k /\ p + m + k <= id
      <4>1. p + m + k <= sent.frames /\ id = sent.frames + 1
        BY <1>2, <1>8
      <4>2. p + m + k <= id
        BY <4>1, <1>3
      <4>3. Len(net') = k
        BY <3>1, <1>2
      <4> QED BY <4>2, <4>3
    <3> QED BY <2>1, <3>1, <3>2, <1>3, <1>8
  <2>2. CASE ~lost
    <3>1. net' = Append(net, FrameOf(l, id))
      BY <2>2, <1>4, <1>7
    <3>2. /\ net' \in Seq(Frame) /\ Len(net') = k + 1 /\ net'[k + 1] = FrameOf(l, id)
          /\ \A i \in 1..k : net'[i] = net[i]
      BY <3>1, <1>2, <1>3, <1>7, AppendProperties
    <3>3. p + m + (k + 1) = id
      <4>1. p + m + k = sent.frames /\ id = sent.frames + 1
        BY <2>2, <1>2, <1>8
      <4> QED BY <4>1, <1>3
    <3>4. /\ \A i \in 1..m : ctx.list[i] = FrameOf(l, p + i)
          /\ \A i \in 1..k : net[i] = FrameOf(l, p + m + i)
      BY <1>2, <1>8 DEF InOrder
    <3>5. \A i \in 1..(k + 1) : net'[i] = FrameOf(l, p + m + i)
      <4> SUFFICES ASSUME NEW i \in 1..(k + 1) PROVE net'[i] = FrameOf(l, p + m + i)
        OBVIOUS
      <4>1. CASE i \in 1..k
        BY <4>1, <3>2, <3>4
      <4>2. CASE i = k + 1
        BY <4>2, <3>2, <3>3
      <4> QED BY <4>1, <4>2, <1>3
    <3>6. p + m + (k + 1) <= Len(l)
      BY <3>3, <1>3, <1>5
    <3>7. InOrder(l, ctx, net')
      BY <3>2, <3>4, <3>5, <3>6, <1>2 DEF InOrder
    <3> QED BY <3>2, <3>3, <3>7, <1>3
  <2> QED BY <2>1, <2>2
<1>11. Received'
  BY <1>1, <1>4, <1>8, <1>10 DEF Received
<1>12. Sent'
  BY <1>1, <1>2, <1>4, <1>5, <1>7, <1>9, <1>10 DEF Sent
<1>13. TypeOK'
  <2>1. sent' \in [frames : Nat, bytes : Nat]
    BY <1>3, <1>4, <1>7
  <2> QED BY <2>1, <1>4, <1>10 DEF IInv, TypeOK
<1>14. End' /\ Waiting' /\ SleepsOnlyWithoutFrames'
  BY <1>4 DEF IInv, End, Waiting, SleepsOnlyWithoutFrames
<1>15. Stream!Write("server")
  <2>1. sent.bytes < sent'.bytes /\ sent'.bytes \in Nat
    BY <1>3, <1>7, <1>9
  <2>2. /\ Directions(sent.bytes, 0)' = [Directions(sent.bytes, 0) EXCEPT !["server"] = sent'.bytes]
        /\ Directions(sent.bytes, 0)["server"] = sent.bytes
        /\ Directions(sent.bytes, 0)'["server"] = sent'.bytes
    BY DEF Directions
  <2>3. UNCHANGED <<Directions(<<>>, read), Directions(0, want), lost>>
    BY <1>4 DEF Directions
  <2> QED BY <2>1, <2>2, <2>3, <1>3 DEF Stream!Write, Stream!ChangesAt
<1> QED BY <1>11, <1>12, <1>13, <1>14, <1>15 DEF Simulated, IInv, Stream!Next, Stream!Peers

LEMMA LoseStep == ASSUME IInv, Lose PROVE Simulated
<1>1. PICK l \in Seq(Nat \ {0}) : l = program.frames
  BY Types
<1>2. PICK p, m, k : p = ctx.info.prev /\ m = Len(ctx.list) /\ k = Len(net)
  OBVIOUS
<1>3. /\ p \in Nat /\ m \in Nat /\ k \in Nat /\ Len(l) \in Nat
      /\ sent.frames \in Nat /\ net \in Seq(Frame)
  BY <1>1, <1>2, Types
<1>4. /\ ~lost /\ lost' /\ lost' = TRUE /\ readyState \in {"connecting", "open"}
      /\ UNCHANGED <<program, sent, ended, readyState, ctx, recv_zero, at, next, want, read>>
  BY DEF Lose, peerVars, ctxVars, readerVars
<1>5. PICK n \in 0..k : net' = SubSeq(net, 1, n)
  BY <1>2 DEF Lose
<1>6. /\ net' \in Seq(Frame) /\ Len(net') = n /\ \A i \in 1..n : net'[i] = net[i]
  <2>1. PICK u : u = SubSeq(net, 0 + 1, 0 + n)
    OBVIOUS
  <2>2. u \in Seq(Frame) /\ Len(u) = n /\ \A i \in 1..n : u[i] = net[0 + i]
    BY <2>1, <1>2, <1>3, Piece
  <2>3. u = net'
    BY <2>1, <1>5
  <2> QED BY <2>2, <2>3
<1>7. /\ p + m + k <= sent.frames /\ InOrder(l, ctx, net) /\ Cursor(l, ctx, read)
      /\ sent.frames <= Len(l)
  BY <1>1, <1>2 DEF IInv, Sent, Received
<1>8. p + m + n <= sent.frames /\ p + m + n <= Len(l) /\ \A i \in 1..n : i \in 1..k
  BY <1>3, <1>7
<1>9. InOrder(l, ctx, net')
  <2>1. \A i \in 1..n : net'[i] = FrameOf(l, p + m + i)
    BY <1>2, <1>6, <1>7, <1>8 DEF InOrder
  <2>2. \A i \in 1..m : ctx.list[i] = FrameOf(l, p + i)
    BY <1>2, <1>7 DEF InOrder
  <2> QED BY <2>1, <2>2, <1>2, <1>6, <1>8 DEF InOrder
<1>10. Received' /\ Sent'
  BY <1>1, <1>2, <1>4, <1>6, <1>7, <1>8, <1>9 DEF IInv, Received, Sent
<1>11. TypeOK'
  BY <1>4, <1>6 DEF IInv, TypeOK
<1>12. End' /\ Waiting' /\ SleepsOnlyWithoutFrames'
  BY <1>4 DEF IInv, End, Waiting, SleepsOnlyWithoutFrames
<1>13. Stream!Lose
  BY <1>4 DEF Stream!Lose
<1> QED BY <1>10, <1>11, <1>12, <1>13 DEF Simulated, IInv, Stream!Next

LEMMA OnMessageStep == ASSUME IInv, OnMessage PROVE Simulated
<1>1. PICK l \in Seq(Nat \ {0}) : l = program.frames
  BY Types
<1>2. PICK d : d = PutToRecvCtx(ctx, Head(net))
  OBVIOUS
<1>3. /\ readyState = "open" /\ net # <<>> /\ ctx' = d /\ net' = Tail(net)
      /\ at' = (IF at = "asleep" THEN "awake" ELSE at)
      /\ UNCHANGED <<program, sent, ended, lost, readyState, recv_zero, next, want, read>>
  BY <1>2 DEF OnMessage, Notify, peerVars
<1>4. /\ d \in Context /\ InOrder(l, d, net') /\ Cursor(l, d, read)
      /\ d.info.prev = ctx.info.prev /\ d.list # <<>>
      /\ Len(d.list) = Len(ctx.list) + 1 /\ Len(net') = Len(net) - 1
  <2>1. /\ ctx \in Context /\ net \in Seq(Frame) /\ InOrder(l, ctx, net)
        /\ Cursor(l, ctx, read)
    BY <1>1, Types DEF IInv, Received
  <2> QED BY <2>1, <1>2, <1>3, PutNext
<1>5. net' \in Seq(Frame)
  BY <1>3, Types, HeadTailProperties
<1>6. Received'
  BY <1>1, <1>3, <1>4 DEF Received
<1>7. Sent'
  <2>1. d.info.prev + Len(d.list) + Len(net') = ctx.info.prev + Len(ctx.list) + Len(net)
    <3>1. PICK p \in Nat, m \in Nat, k \in Nat :
              p = ctx.info.prev /\ m = Len(ctx.list) /\ k = Len(net)
      BY Types
    <3>2. d.info.prev = p /\ Len(d.list) = m + 1 /\ Len(net') = k - 1
      BY <3>1, <1>4
    <3>3. p + (m + 1) + (k - 1) = p + m + k
      OBVIOUS
    <3> QED BY <3>1, <3>2, <3>3
  <2> QED BY <2>1, <1>3 DEF IInv, Sent
<1>8. TypeOK'
  <2>1. at' \in {"connect", "ready", "idle", "recv", "asleep", "awake", "failed", "closed"}
    BY <1>3 DEF IInv, TypeOK
  <2> QED BY <2>1, <1>3, <1>4, <1>5 DEF IInv, TypeOK, Context, RecvInfo
<1>9. End' /\ Waiting' /\ SleepsOnlyWithoutFrames'
  <2>1. ~recv_zero
    BY <1>3 DEF IInv, End
  <2> QED BY <2>1, <1>3 DEF IInv, End, Waiting, SleepsOnlyWithoutFrames
<1>10. UNCHANGED Stream!vars
  BY <1>3, StreamSame
<1> QED BY <1>6, <1>7, <1>8, <1>9, <1>10 DEF Simulated, IInv

LEMMA RecvStep == ASSUME IInv, Recv PROVE Simulated
<1>1. /\ at = "idle" /\ next <= Len(program.requests)
      /\ want' = program.requests[next]
      /\ at' = (IF want' = 0 THEN "idle" ELSE "recv")
      /\ next' = next + 1
      /\ UNCHANGED <<program, sent, ended, net, lost, readyState, ctx, recv_zero, read>>
  BY DEF Recv, peerVars, browserVars, ctxVars
<1>2. next \in Nat \ {0}
  BY DEF IInv, TypeOK
<1>3. want' \in Nat
  <2>1. PICK s \in Seq(Nat) : s = program.requests
    BY Types
  <2>2. next \in 1..Len(s)
    BY <2>1, <1>1, <1>2, LenProperties
  <2> QED BY <2>1, <2>2, <1>1, ElementOfSeq
<1>4. Received' /\ Sent'
  BY <1>1, DataSame DEF IInv
<1>5. TypeOK'
  BY <1>1, <1>2, <1>3 DEF IInv, TypeOK
<1>6. End' /\ Waiting' /\ SleepsOnlyWithoutFrames'
  BY <1>1, <1>3 DEF IInv, End, Waiting, SleepsOnlyWithoutFrames
<1>7. want = 0
  BY <1>1, Types DEF IInv, Waiting
<1>8. [Stream!Next]_(Stream!vars)
  <2>1. CASE want' = 0
    BY <2>1, <1>1, <1>7, StreamSame
  <2>2. CASE want' # 0
    <3>1. want' > 0
      BY <2>2, <1>3
    <3>2. Stream!Request("client")
      BY <3>1, <1>1, <1>7 DEF Stream!Request, Stream!ChangesAt, Directions
    <3> QED BY <3>2 DEF Stream!Next, Stream!Peers
  <2> QED BY <2>1, <2>2
<1> QED BY <1>4, <1>5, <1>6, <1>8 DEF Simulated, IInv

LEMMA RecvTakeStep == ASSUME IInv, RecvTake PROVE Simulated
<1>1. PICK l \in Seq(Nat \ {0}) : l = program.frames
  BY Types
<1>2. PICK d, t : d = RecvFromRecvCtx(ctx, want) /\ t = Taken(ctx, want)
  OBVIOUS
<1>3. /\ at \in {"recv", "awake"} /\ ctx.info.valid
      /\ read' = read \o t /\ want' = want - Len(t)
      /\ at' = (IF want' = 0 THEN "idle" ELSE "recv")
      /\ ctx' = d
      /\ UNCHANGED <<program, sent, ended, net, lost, readyState, recv_zero, next>>
  BY <1>2 DEF RecvTake, Receiving, peerVars, browserVars
<1>4. want \in Nat \ {0}
  BY <1>3, Types DEF IInv, Waiting
<1>5. /\ Len(t) \in 1..want
      /\ read \in Seq(Nat) /\ read \o t = Bytes(0, Len(read) + Len(t))
      /\ Len(read) + Len(t) <= Sum(l)[ctx.info.prev + 1]
      /\ d \in Context /\ InOrder(l, d, net) /\ Cursor(l, d, read \o t)
      /\ d.info.prev + Len(d.list) = ctx.info.prev + Len(ctx.list)
  <2>1. /\ ctx \in Context /\ net \in Seq(Frame) /\ InOrder(l, ctx, net)
        /\ Cursor(l, ctx, read)
    BY <1>1, Types DEF IInv, Received
  <2>2. ctx.info.valid /\ want \in Nat \ {0}
    BY <1>3, <1>4
  <2>3. /\ Len(Taken(ctx, want)) \in 1..want
        /\ read \in Seq(Nat)
        /\ read \o Taken(ctx, want) = Bytes(0, Len(read) + Len(Taken(ctx, want)))
        /\ Len(read) + Len(Taken(ctx, want)) <= Sum(l)[ctx.info.prev + 1]
        /\ RecvFromRecvCtx(ctx, want) \in Context
        /\ InOrder(l, RecvFromRecvCtx(ctx, want), net)
        /\ Cursor(l, RecvFromRecvCtx(ctx, want), read \o Taken(ctx, want))
        /\ RecvFromRecvCtx(ctx, want).info.prev + Len(RecvFromRecvCtx(ctx, want).list)
             = ctx.info.prev + Len(ctx.list)
    BY <2>1, <2>2, TakeNext, ZenonT(60)
  <2> QED BY <2>3, <1>2, Zenon
<1>6. PICK m \in Nat, n \in 1..want : m = Len(read) /\ n = Len(t)
  BY <1>5, LenProperties
<1>7. read' = Bytes(0, m + n) /\ read' \in Seq(Nat)
  <2>1. m + n \in Nat
    OBVIOUS
  <2> QED BY <2>1, <1>3, <1>5, <1>6, BytesType
<1>8. want' = want - n /\ want' \in Nat
  BY <1>3, <1>4, <1>6
<1>9. Received'
  BY <1>1, <1>3, <1>5 DEF Received
<1>10. Sent'
  BY <1>3, <1>5 DEF IInv, Sent
<1>11. TypeOK'
  <2>1. at' \in {"connect", "ready", "idle", "recv", "asleep", "awake", "failed", "closed"}
    BY <1>3
  <2> QED BY <2>1, <1>3, <1>5, <1>7, <1>8 DEF IInv, TypeOK, Context, RecvInfo
<1>12. End' /\ Waiting' /\ SleepsOnlyWithoutFrames'
  BY <1>3, <1>8 DEF IInv, End, Waiting, SleepsOnlyWithoutFrames
(* No more than what has been sent.                                        *)
<1>13. m + n <= sent.bytes
  <2>1. ctx.list # <<>>
    BY <1>3 DEF IInv, Received, Cursor
  <2>2. Len(ctx.list) > 0
    BY <2>1, Types, EmptySeq DEF Context
  <2>3. /\ ctx.info.prev + Len(ctx.list) + Len(net) <= sent.frames
        /\ sent.frames <= Len(l) /\ sent.bytes = Sum(l)[sent.frames]
    BY <1>1 DEF IInv, Sent
  <2>4. PICK i \in 0..Len(l), j \in 0..Len(l) :
            i = ctx.info.prev + 1 /\ j = sent.frames /\ i <= j
    <3>1. PICK p \in Nat, c \in Nat, k \in Nat, x \in Nat, z \in Nat :
              /\ p = ctx.info.prev /\ c = Len(ctx.list) /\ k = Len(net)
              /\ x = sent.frames /\ z = Len(l)
      BY <1>1, Types
    <3>2. c > 0 /\ p + c + k <= x /\ x <= z
      BY <2>2, <2>3, <3>1
    <3>3. p + 1 \in 0..z /\ x \in 0..z /\ p + 1 <= x
      BY <3>2
    <3> QED BY <3>1, <3>3
  <2>5. Sum(l)[i] <= Sum(l)[j] /\ Sum(l)[i] \in Nat /\ Sum(l)[j] \in Nat
    BY <2>4, SumFacts
  <2> QED BY <2>3, <2>4, <2>5, <1>5, <1>6
<1>14. Stream!Read("client")
  <2>1. n <= sent.bytes - m /\ sent.bytes \in Nat
    BY <1>13, Types
  <2>2. Directions(<<>>, read)' = [Directions(<<>>, read) EXCEPT
                                      !["client"] = [i \in 1..(Len(@) + n) |-> i]]
    <3>1. read' = [i \in 1..(Len(read) + n) |-> i]
      <4>1. Bytes(0, m + n) = [i \in 1..(m + n) |-> i]
        BY DEF Bytes
      <4> QED BY <4>1, <1>6, <1>7
    <3> QED BY <3>1 DEF Directions
  <2>3. Directions(0, want)' = [Directions(0, want) EXCEPT !["client"] = @ - n]
    BY <1>8 DEF Directions
  <2>4. n \in 1..Directions(0, want)["client"]
    BY <1>6 DEF Directions
  <2>5. n <= Stream!Available("client")
    BY <2>1, <1>6 DEF Stream!Available, Stream!Other, Directions
  <2> QED BY <2>2, <2>3, <2>4, <2>5, <1>3 DEF Stream!Read, Directions
<1> QED BY <1>9, <1>10, <1>11, <1>12, <1>14 DEF Simulated, IInv, Stream!Next, Stream!Peers

LEMMA RecvThrowStep == ASSUME IInv, RecvThrow PROVE Simulated
<1>1. /\ at \in {"recv", "awake"} /\ recv_zero /\ ~ctx.info.valid
      /\ at' = "failed" /\ want' = 0
      /\ UNCHANGED <<program, sent, ended, net, lost, readyState, ctx, recv_zero, next, read>>
  BY DEF RecvThrow, Receiving, peerVars, browserVars, ctxVars
<1>2. Received' /\ Sent'
  BY <1>1, DataSame DEF IInv
<1>3. TypeOK'
  BY <1>1 DEF IInv, TypeOK
<1>4. End' /\ Waiting' /\ SleepsOnlyWithoutFrames'
  BY <1>1 DEF IInv, End, Waiting, SleepsOnlyWithoutFrames
<1>5. want > 0
  BY <1>1 DEF IInv, Waiting
(* Nothing is in the list or on the way, so all has been read.             *)
<1>6. lost \/ Len(read) = sent.bytes
  <2> SUFFICES ASSUME ~lost PROVE Len(read) = sent.bytes
    OBVIOUS
  <2>1. net = <<>> /\ ctx.list = <<>>
    BY <1>1 DEF IInv, End, Received, Cursor
  <2>2. ctx.info.prev = sent.frames
    <3>1. ctx.info.prev + 0 + 0 = sent.frames
      BY <2>1 DEF IInv, Sent
    <3> QED BY <3>1, Types
  <2>3. sent.bytes = Sum(program.frames)[ctx.info.prev] /\ sent.bytes \in Nat
    BY <2>2, Types DEF IInv, Sent
  <2>4. read = Bytes(0, sent.bytes + 0) /\ sent.bytes + 0 = sent.bytes
    BY <2>3, <1>1 DEF IInv, Received, Cursor
  <2>5. Len(Bytes(0, sent.bytes)) = sent.bytes
    BY <2>3, BytesType
  <2> QED BY <2>4, <2>5
<1>7. Stream!Abort("client")
  <2>1. lost \/ Stream!Available("client") = 0
    BY <1>6, Types DEF Stream!Available, Stream!Other, Directions
  <2>2. Directions(0, want)["client"] > 0
    BY <1>5 DEF Directions
  <2>3. Directions(0, want)' = [Directions(0, want) EXCEPT !["client"] = 0]
    BY <1>1 DEF Directions
  <2> QED BY <2>1, <2>2, <2>3, <1>1 DEF Stream!Abort, Directions
<1> QED BY <1>2, <1>3, <1>4, <1>7 DEF Simulated, IInv, Stream!Next, Stream!Peers

(* The remaining actions move no byte.                                     *)
LEMMA ControlStep ==
    ASSUME IInv, \/ PeerClose \/ OnOpen \/ OnError \/ OnClose \/ Ready \/ CheckReady
                 \/ RecvWait \/ SpuriousWakeup \/ Close \/ UNCHANGED vars
    PROVE  Simulated
<1> USE DEF peerVars, browserVars, ctxVars, readerVars, vars
<1>1. UNCHANGED <<program, sent, net, lost, ctx, next, want, read>>
  BY DEF PeerClose, OnOpen, OnError, OnClose, Ready, CheckReady, RecvWait, SpuriousWakeup, Close
<1>2. Received' /\ Sent'
  BY <1>1, DataSame DEF IInv
<1>3. TypeOK' /\ End' /\ Waiting' /\ SleepsOnlyWithoutFrames'
  <2> USE DEF IInv, TypeOK, End, Waiting, SleepsOnlyWithoutFrames
  <2>1. CASE PeerClose
    BY <2>1, <1>1 DEF PeerClose
  <2>2. CASE OnOpen
    BY <2>2, <1>1 DEF OnOpen
  <2>3. CASE OnError
    BY <2>3, <1>1 DEF OnError, Notify
  <2>4. CASE OnClose
    BY <2>4, <1>1 DEF OnClose, Notify
  <2>5. CASE Ready
    BY <2>5, <1>1 DEF Ready
  <2>6. CASE CheckReady
    BY <2>6, <1>1 DEF CheckReady
  <2>7. CASE RecvWait
    BY <2>7, <1>1 DEF RecvWait, Receiving, Received, Cursor
  <2>8. CASE SpuriousWakeup
    BY <2>8, <1>1 DEF SpuriousWakeup
  <2>9. CASE Close
    BY <2>9, <1>1 DEF Close
  <2>10. CASE UNCHANGED vars
    BY <2>10, <1>1
  <2> QED BY <2>1, <2>2, <2>3, <2>4, <2>5, <2>6, <2>7, <2>8, <2>9, <2>10
<1>4. UNCHANGED Stream!vars
  BY <1>1, StreamSame
<1> QED BY <1>2, <1>3, <1>4 DEF Simulated, IInv

LEMMA InvNext == IInv /\ [Next]_vars => Simulated
<1> SUFFICES ASSUME IInv, [Next]_vars PROVE Simulated
  OBVIOUS
<1>1. CASE PeerSend
  BY <1>1, PeerSendStep
<1>2. CASE Lose
  BY <1>2, LoseStep
<1>3. CASE OnMessage
  BY <1>3, OnMessageStep
<1>4. CASE Recv
  BY <1>4, RecvStep
<1>5. CASE RecvTake
  BY <1>5, RecvTakeStep
<1>6. CASE RecvThrow
  BY <1>6, RecvThrowStep
<1>7. CASE \/ PeerClose \/ OnOpen \/ OnError \/ OnClose \/ Ready \/ CheckReady
           \/ RecvWait \/ SpuriousWakeup \/ Close \/ UNCHANGED vars
  BY <1>7, ControlStep
<1> QED BY <1>1, <1>2, <1>3, <1>4, <1>5, <1>6, <1>7 DEF Next, Peer, Browser, Reader
-----------------------------------------------------------------------------
(* The inductive invariant: what is in the receive context and on the way  *)
(* are the peer's frames behind those consumed, in the order of their ids  *)
(* and without a gap, and the reader has been given the bytes up to the    *)
(* cursor.                                                                 *)
THEOREM FramesStayInOrder == Spec => []IInv
<1>1. IInv /\ [Next]_vars => IInv'
  BY InvNext DEF Simulated
<1> QED BY <1>1, InvInit, PTL DEF Spec

(* Every variable keeps its type, for all programs.                        *)
THEOREM TypeCorrect == Spec => []TypeOK
<1>1. IInv => TypeOK
  BY DEF IInv
<1> QED BY <1>1, FramesStayInOrder, PTL

(* RecvMessage waits only while there is nothing to be received: whatever  *)
(* the order of the callbacks and of its own turns, no message, error or   *)
(* close goes past a reader that sleeps.                                   *)
THEOREM NoWakeupIsLost == Spec => []SleepsOnlyWithoutFrames
<1>1. IInv => SleepsOnlyWithoutFrames
  BY DEF IInv
<1> QED BY <1>1, FramesStayInOrder, PTL

(* The safety part of ImplementsByteChannel: the reader is given the       *)
(* peer's bytes in order, each once and none that was not sent, and its    *)
(* receive fails only if the connection is lost or all has been read.      *)
THEOREM ImplementsSafeByteChannel == Spec => Stream!Safe
<1>1. Init => Stream!Init
  BY DEF Init, Stream!Init, Stream!Peers, Directions
<1>2. IInv /\ [Next]_vars => [Stream!Next]_(Stream!vars)
  BY InvNext DEF Simulated
<1> QED BY <1>1, <1>2, FramesStayInOrder, PTL DEF Spec, Stream!Safe
=============================================================================

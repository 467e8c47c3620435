------------------------- MODULE SequenceInduction -------------------------
(***************************************************************************)
(* Facts about sequences that the proofs about the components share.       *)
(*                                                                         *)
(* First, what FlattenSeq of the community modules, defined by recursion,  *)
(* yields for a sequence of any length.  This is proved by induction, in a *)
(* form that needs no operator as a parameter: the set of the numbers for  *)
(* which a claim holds contains 0 and every successor of its members,      *)
(* hence it is Nat.  In the same form, the running sums of a function.     *)
(* Then, where the parts of a concatenation are.                           *)
(***************************************************************************)
EXTENDS Integers, SequencesExt, SequenceTheorems, WellFoundedInduction, TLAPS

(* Every non-empty set of naturals has a least member.                     *)
LEMMA LeastMember ==
    ASSUME NEW T \in SUBSET Nat, T # {}
    PROVE  \E n \in T : \A m \in T : n <= m
<1> DEFINE R == OpToRel(<, Nat)
<1>1. IsWellFoundedOn(R, Nat)
  BY NatLessThanWellFounded
<1>2. PICK n \in T : \A m \in T : ~ (<<m, n>> \in R)
  <2> HIDE DEF R
  <2> QED BY <1>1, WFMin, Zenon
<1>3. \A m \in T : ~ (m < n)
  BY <1>2 DEF OpToRel
<1> QED BY <1>3

(* Induction over the naturals.                                            *)
LEMMA InductiveSet ==
    ASSUME NEW T \in SUBSET Nat, 0 \in T, \A n \in T : n + 1 \in T
    PROVE  T = Nat
<1> DEFINE U == Nat \ T
<1>1. SUFFICES ASSUME U # {} PROVE FALSE
  OBVIOUS
<1>2. PICK n \in U : \A m \in U : n <= m
  BY <1>1, LeastMember, Zenon
<1>3. n - 1 \in Nat /\ n - 1 \notin U
  BY <1>2
<1>4. (n - 1) + 1 \in T
  BY <1>3
<1> QED BY <1>2, <1>4

(* The same up to a bound.                                                 *)
LEMMA InductiveRange ==
    ASSUME NEW n \in Nat, NEW T, 1 \in T, \A i \in T : i \in 1..(n - 1) => i + 1 \in T
    PROVE  1..n \subseteq T
<1> DEFINE U == {k \in Nat : k + 1 \in 1..n => k + 1 \in T}
<1>1. 0 \in U
  OBVIOUS
<1>2. ASSUME NEW k \in U PROVE k + 1 \in U
  <2> SUFFICES ASSUME k + 2 \in 1..n PROVE k + 2 \in T
    OBVIOUS
  <2>1. k + 1 \in 1..(n - 1) /\ k + 1 \in T
    OBVIOUS
  <2> QED BY <2>1
<1>3. U = Nat
  <2> HIDE DEF U
  <2>1. U \in SUBSET Nat
    BY DEF U
  <2> QED BY <2>1, <1>1, <1>2, InductiveSet
<1>4. ASSUME NEW i \in 1..n PROVE i \in T
  <2>1. i - 1 \in Nat /\ (i - 1) + 1 = i
    OBVIOUS
  <2>2. i - 1 \in U
    <3> HIDE DEF U
    <3> QED BY <2>1, <1>3
  <2> QED BY <2>1, <2>2
<1> QED BY <1>4
-----------------------------------------------------------------------------
(* The sums of the first 0, 1, ... n values of w.                          *)
IsRunningSum(f, w, n) ==
    f = [i \in 0..n |-> IF i = 0 THEN 0 ELSE f[i - 1] + w[i]]

(* They exist.                                                             *)
LEMMA RunningSumExists ==
    ASSUME NEW w, NEW n \in Nat
    PROVE  \E f : IsRunningSum(f, w, n)
<1> DEFINE Step(f, i) == IF i = 0 THEN 0 ELSE f[i - 1] + w[i]
           Upto(f, k) == f = [i \in 0..k |-> Step(f, i)]
           T == {k \in Nat : \E f : Upto(f, k)}
<1>1. 0 \in T
  <2>1. Upto([i \in 0..0 |-> 0], 0)
    OBVIOUS
  <2> QED BY <2>1
<1>2. ASSUME NEW k \in T PROVE k + 1 \in T
  <2>1. PICK f : Upto(f, k)
    OBVIOUS
  <2> DEFINE g == [i \in 0..(k + 1) |-> IF i = k + 1 THEN Step(f, i) ELSE f[i]]
  <2>2. ASSUME NEW i \in 0..(k + 1) PROVE g[i] = Step(g, i)
    <3>1. i # 0 => i - 1 \in 0..k
      OBVIOUS
    <3>2. i # 0 => g[i - 1] = f[i - 1]
      BY <3>1
    <3>3. Step(g, i) = Step(f, i)
      BY <3>2
    <3>4. CASE i = k + 1
      BY <3>3, <3>4
    <3>5. CASE i # k + 1
      <4>1. i \in 0..k /\ g[i] = f[i]
        BY <3>5
      <4> HIDE DEF g, Step
      <4>2. f[i] = Step(f, i)
        BY <4>1, <2>1
      <4> QED BY <4>1, <4>2, <3>3
    <3> QED BY <3>4, <3>5
  <2>3. Upto(g, k + 1)
    <3> HIDE DEF Step
    <3>1. DOMAIN g = 0..(k + 1) /\ g = [i \in 0..(k + 1) |-> g[i]]
      OBVIOUS
    <3> HIDE DEF g
    <3> QED BY <3>1, <2>2
  <2> HIDE DEF Upto, g
  <2> QED BY <2>3
<1> HIDE DEF T
<1>3. T = Nat
  <2>1. T \in SUBSET Nat
    BY DEF T
  <2> QED BY <2>1, <1>1, <1>2, InductiveSet
<1> QED BY <1>3 DEF T, IsRunningSum

(* They are naturals, each the one before it and a value more.             *)
LEMMA RunningSumStep ==
    ASSUME NEW w, NEW n \in Nat, \A i \in 1..n : w[i] \in Nat,
           NEW f, IsRunningSum(f, w, n)
    PROVE  /\ f[0] = 0
           /\ \A i \in 1..n : f[i] = f[i - 1] + w[i]
           /\ \A i \in 0..n : f[i] \in Nat
<1>1. \A i \in 0..n : f[i] = IF i = 0 THEN 0 ELSE f[i - 1] + w[i]
  BY DEF IsRunningSum
<1>2. f[0] = 0 /\ \A i \in 1..n : f[i] = f[i - 1] + w[i]
  BY <1>1
<1> DEFINE T == {i \in Nat : i \in 0..n => f[i] \in Nat}
<1>3. 0 \in T
  BY <1>2
<1>4. ASSUME NEW i \in T PROVE i + 1 \in T
  <2> SUFFICES ASSUME i + 1 \in 0..n PROVE f[i + 1] \in Nat
    OBVIOUS
  <2>1. i \in 0..n /\ i + 1 \in 1..n /\ f[i] \in Nat /\ (i + 1) - 1 = i
    OBVIOUS
  <2>2. f[i + 1] = f[i] + w[i + 1]
    BY <2>1, <1>2
  <2> QED BY <2>1, <2>2
<1>5. T = Nat
  <2> HIDE DEF T
  <2>1. T \in SUBSET Nat
    BY DEF T
  <2> QED BY <2>1, <1>3, <1>4, InductiveSet
<1>6. \A i \in 0..n : f[i] \in Nat
  BY <1>5
<1> QED BY <1>2, <1>6
-----------------------------------------------------------------------------
(* The function FlattenSeq is defined with: the concatenations of the      *)
(* prefixes of s.                                                          *)
IsFlattening(f, s) ==
    f = [i \in 1..Len(s) |-> IF i = 1 THEN s[i] ELSE f[i - 1] \o s[i]]

(* It exists.                                                              *)
LEMMA FlatteningExists ==
    ASSUME NEW s, Len(s) \in Nat
    PROVE  \E f : IsFlattening(f, s)
<1> DEFINE Step(f, i) == IF i = 1 THEN s[i] ELSE f[i - 1] \o s[i]
           Upto(f, k) == f = [i \in 1..k |-> Step(f, i)]
           T == {k \in Nat : \E f : Upto(f, k)}
<1>1. 0 \in T
  <2>1. Upto([i \in 1..0 |-> 0], 0)
    OBVIOUS
  <2> QED BY <2>1
<1>2. ASSUME NEW k \in T PROVE k + 1 \in T
  <2>1. PICK f : Upto(f, k)
    OBVIOUS
  <2> DEFINE g == [i \in 1..(k + 1) |-> IF i = k + 1 THEN Step(f, i) ELSE f[i]]
  <2>2. ASSUME NEW i \in 1..(k + 1) PROVE g[i] = Step(g, i)
    <3>1. i # 1 => i - 1 \in 1..k
      OBVIOUS
    <3>2. i # 1 => g[i - 1] = f[i - 1]
      BY <3>1
    <3>3. Step(g, i) = Step(f, i)
      BY <3>2
    <3>4. CASE i = k + 1
      BY <3>3, <3>4
    <3>5. CASE i # k + 1
      <4>1. i \in 1..k /\ g[i] = f[i]
        BY <3>5
      <4> HIDE DEF g, Step
      <4>2. f[i] = Step(f, i)
        BY <4>1, <2>1
      <4> QED BY <4>1, <4>2, <3>3
    <3> QED BY <3>4, <3>5
  <2>3. Upto(g, k + 1)
    <3> HIDE DEF Step
    <3>1. DOMAIN g = 1..(k + 1) /\ g = [i \in 1..(k + 1) |-> g[i]]
      OBVIOUS
    <3> HIDE DEF g
    <3> QED BY <3>1, <2>2
  <2> HIDE DEF Upto, g
  <2> QED BY <2>3
<1> HIDE DEF T
<1>3. T = Nat
  <2>1. T \in SUBSET Nat
    BY DEF T
  <2> QED BY <2>1, <1>1, <1>2, InductiveSet
<1>4. Len(s) \in T
  BY <1>3
<1> QED BY <1>4 DEF T, IsFlattening

(* The flattenings of a sequence of sequences, one prefix after the other. *)
LEMMA FlatteningStep ==
    ASSUME NEW S, NEW s \in Seq(Seq(S)), NEW f, IsFlattening(f, s)
    PROVE  /\ \A i \in 1..Len(s) : f[i] \in Seq(S)
           /\ \A i \in 1..Len(s) : f[i] = IF i = 1 THEN s[i] ELSE f[i - 1] \o s[i]
<1>1. Len(s) \in Nat /\ \A i \in 1..Len(s) : s[i] \in Seq(S)
  BY ElementOfSeq, LenProperties
<1>2. \A i \in 1..Len(s) : f[i] = IF i = 1 THEN s[i] ELSE f[i - 1] \o s[i]
  BY DEF IsFlattening
<1> DEFINE T == {i \in Nat : i \in 1..Len(s) => f[i] \in Seq(S)}
<1>3. 1 \in T
  BY <1>1, <1>2
<1>4. ASSUME NEW i \in T, i \in 1..(Len(s) - 1) PROVE i + 1 \in T
  <2>1. i \in 1..Len(s) /\ i + 1 \in 1..Len(s) /\ i + 1 # 1
    BY <1>1, <1>4
  <2>2. f[i + 1] = f[i] \o s[i + 1]
    <3>1. (i + 1) - 1 = i
      OBVIOUS
    <3> QED BY <2>1, <1>2, <3>1
  <2>3. f[i] \in Seq(S) /\ s[i + 1] \in Seq(S)
    BY <2>1, <1>1
  <2>4. f[i + 1] \in Seq(S)
    BY <2>2, <2>3, ConcatProperties
  <2> QED BY <2>4
<1> HIDE DEF T
<1>5. 1..Len(s) \subseteq T
  BY <1>1, <1>3, <1>4, InductiveRange
<1> QED BY <1>2, <1>5 DEF T

(* FlattenSeq is the last of them.                                         *)
LEMMA FlattenSeqDef ==
    ASSUME NEW s, Len(s) \in Nat
    PROVE  /\ Len(s) = 0 => FlattenSeq(s) = s
           /\ Len(s) # 0 => \E f : IsFlattening(f, s) /\ FlattenSeq(s) = f[Len(s)]
<1> DEFINE f == CHOOSE g : IsFlattening(g, s)
<1>1. IsFlattening(f, s)
  BY FlatteningExists
<1>2. FlattenSeq(s) = IF Len(s) = 0 THEN s ELSE f[Len(s)]
  BY DEF FlattenSeq, IsFlattening
<1> HIDE DEF f
<1> QED BY <1>1, <1>2

(* The flattening of a sequence is that of a longer one, up to its length. *)
LEMMA FlatteningPrefix ==
    ASSUME NEW S, NEW s \in Seq(Seq(S)), NEW x \in Seq(S)
    PROVE  \A f, g : IsFlattening(f, s) /\ IsFlattening(g, Append(s, x))
               => \A i \in 1..Len(s) : g[i] = f[i]
<1> SUFFICES ASSUME NEW f, IsFlattening(f, s), NEW g, IsFlattening(g, Append(s, x))
             PROVE  \A i \in 1..Len(s) : g[i] = f[i]
  OBVIOUS
<1>0. PICK t : t = Append(s, x)
  OBVIOUS
<1>1. /\ t \in Seq(Seq(S)) /\ Len(t) = Len(s) + 1
      /\ \A i \in 1..Len(s) : t[i] = s[i]
      /\ Len(s) \in Nat /\ IsFlattening(g, t)
  BY <1>0, LenProperties, AppendProperties
<1>2. /\ \A i \in 1..Len(s) : f[i] = IF i = 1 THEN s[i] ELSE f[i - 1] \o s[i]
      /\ \A i \in 1..Len(t) : g[i] = IF i = 1 THEN t[i] ELSE g[i - 1] \o t[i]
  <2>1. \A i \in 1..Len(s) : f[i] = IF i = 1 THEN s[i] ELSE f[i - 1] \o s[i]
    BY FlatteningStep
  <2>2. \A i \in 1..Len(t) : g[i] = IF i = 1 THEN t[i] ELSE g[i - 1] \o t[i]
    BY <1>1 DEF IsFlattening
  <2> QED BY <2>1, <2>2
<1> DEFINE T == {i \in Nat : i \in 1..Len(s) => g[i] = f[i]}
<1>3. 1 \in T
  <2> SUFFICES ASSUME 1 \in 1..Len(s) PROVE g[1] = f[1]
    OBVIOUS
  <2>1. 1 \in 1..Len(t)
    BY <1>1
  <2> QED BY <2>1, <1>1, <1>2
<1>4. ASSUME NEW i \in T, i \in 1..(Len(s) - 1) PROVE i + 1 \in T
  <2>1. /\ i \in 1..Len(s) /\ i + 1 \in 1..Len(s) /\ i + 1 \in 1..Len(t) /\ i + 1 # 1
        /\ (i + 1) - 1 = i
    BY <1>1, <1>4
  <2>2. f[i + 1] = f[i] \o s[i + 1] /\ g[i + 1] = g[i] \o t[i + 1]
    BY <2>1, <1>2
  <2>3. g[i + 1] = f[i + 1]
    BY <2>1, <2>2, <1>1
  <2> QED BY <2>3
<1> HIDE DEF T
<1>5. 1..Len(s) \subseteq T
  BY <1>1, <1>3, <1>4, InductiveRange
<1> QED BY <1>5 DEF T
-----------------------------------------------------------------------------
(* FlattenSeq yields a sequence.                                           *)
LEMMA FlattenType ==
    ASSUME NEW S, NEW s \in Seq(Seq(S))
    PROVE  FlattenSeq(s) \in Seq(S)
<1>1. Len(s) \in Nat
  BY LenProperties
<1>2. CASE Len(s) = 0
  <2>1. FlattenSeq(s) = s
    BY <1>1, <1>2, FlattenSeqDef
  <2>2. s = <<>>
    BY <1>2, EmptySeq
  <2> QED BY <2>1, <2>2
<1>3. CASE Len(s) # 0
  <2>1. PICK f : IsFlattening(f, s) /\ FlattenSeq(s) = f[Len(s)]
    BY <1>1, <1>3, FlattenSeqDef
  <2>2. Len(s) \in 1..Len(s)
    BY <1>1, <1>3
  <2> QED BY <2>1, <2>2, FlatteningStep
<1> QED BY <1>2, <1>3

(* Nothing yields nothing.                                                 *)
LEMMA FlattenEmpty == FlattenSeq(<<>>) = <<>>
BY FlattenSeqDef

(* A sequence of one sequence yields that one.                             *)
LEMMA FlattenOne ==
    ASSUME NEW S, NEW x \in Seq(S)
    PROVE  FlattenSeq(<<x>>) = x
<1> DEFINE s == <<x>>
<1>1. s \in Seq(Seq(S)) /\ Len(s) = 1 /\ s[1] = x
  OBVIOUS
<1> HIDE DEF s
<1>2. PICK f : IsFlattening(f, s) /\ FlattenSeq(s) = f[Len(s)]
  <2>1. Len(s) \in Nat /\ Len(s) # 0
    BY <1>1
  <2> QED BY <2>1, FlattenSeqDef
<1>3. f[1] = s[1]
  BY <1>1, <1>2, FlatteningStep
<1> QED BY <1>1, <1>2, <1>3 DEF s

(* One more sequence at the end.                                           *)
LEMMA FlattenAppend ==
    ASSUME NEW S, NEW s \in Seq(Seq(S)), NEW x \in Seq(S)
    PROVE  FlattenSeq(Append(s, x)) = FlattenSeq(s) \o x
<1> DEFINE n == Len(s)
<1>0. PICK t : t = Append(s, x)
  OBVIOUS
<1>1. /\ t \in Seq(Seq(S)) /\ Len(t) = n + 1 /\ t[n + 1] = x
      /\ \A i \in 1..n : t[i] = s[i]
      /\ n \in Nat
  BY <1>0, LenProperties, AppendProperties
<1>2. PICK g : IsFlattening(g, t) /\ FlattenSeq(t) = g[n + 1]
  BY <1>1, FlattenSeqDef
<1>3. g[n + 1] = IF n + 1 = 1 THEN x ELSE g[n] \o x
  <2>1. n + 1 \in 1..Len(t) /\ (n + 1) - 1 = n
    BY <1>1
  <2>2. g[n + 1] = IF n + 1 = 1 THEN t[n + 1] ELSE g[(n + 1) - 1] \o t[n + 1]
    BY <2>1, <1>1, <1>2, FlatteningStep
  <2> QED BY <2>1, <2>2, <1>1
<1>4. CASE n = 0
  <2>1. FlattenSeq(s) = s /\ s = <<>>
    BY <1>1, <1>4, FlattenSeqDef, EmptySeq
  <2>2. <<>> \o x = x
    BY ConcatEmptySeq
  <2> QED BY <2>1, <2>2, <1>0, <1>2, <1>3, <1>4
<1>5. CASE n # 0
  <2>1. PICK f : IsFlattening(f, s) /\ FlattenSeq(s) = f[n]
    BY <1>1, <1>5, FlattenSeqDef
  <2>2. n \in 1..n /\ n <= n + 1
    BY <1>1, <1>5
  <2>3. IsFlattening(g, Append(s, x))
    BY <1>0, <1>2
  <2>4. \A i \in 1..Len(s) : g[i] = f[i]
    BY <2>1, <2>3, FlatteningPrefix
  <2>5. g[n] = f[n]
    BY <2>4, <2>2
  <2> HIDE DEF n
  <2>6. n + 1 # 1
    BY <1>1, <1>5
  <2> QED BY <2>1, <2>5, <2>6, <1>0, <1>2, <1>3
<1> QED BY <1>4, <1>5

(* The parts of a concatenation are flattened one after the other.         *)
LEMMA FlattenConcat ==
    ASSUME NEW S, NEW s \in Seq(Seq(S)), NEW t \in Seq(Seq(S))
    PROVE  FlattenSeq(s \o t) = FlattenSeq(s) \o FlattenSeq(t)
<1> DEFINE Holds(u) == FlattenSeq(s \o u) = FlattenSeq(s) \o FlattenSeq(u)
           T == {n \in Nat : \A u \in Seq(Seq(S)) : Len(u) = n => Holds(u)}
<1>0. FlattenSeq(s) \in Seq(S)
  BY FlattenType
<1>a. \A a, b, c \in Seq(S) : (a \o b) \o c = a \o (b \o c)
  BY ConcatAssociative, SMTT(40)
<1>1. 0 \in T
  <2> SUFFICES ASSUME NEW u \in Seq(Seq(S)), Len(u) = 0 PROVE Holds(u)
    OBVIOUS
  <2>1. u = <<>>
    BY EmptySeq
  <2>2. s \o <<>> = s /\ FlattenSeq(s) \o <<>> = FlattenSeq(s)
    BY <1>0, ConcatEmptySeq
  <2> QED BY <2>1, <2>2, FlattenEmpty
<1>2. ASSUME NEW n \in T PROVE n + 1 \in T
  <2> SUFFICES ASSUME NEW u \in Seq(Seq(S)), Len(u) = n + 1 PROVE Holds(u)
    OBVIOUS
  <2>1. n \in Nat /\ Len(u) # 0
    OBVIOUS
  <2>2. PICK v \in Seq(Seq(S)), x \in Seq(S) : u = Append(v, x) /\ Len(v) = n
    <3> DEFINE v == SubSeq(u, 1, n)
    <3>1. v \in Seq(Seq(S)) /\ Len(v) = n /\ u[n + 1] \in Seq(S)
            /\ \A i \in 1..n : v[i] = u[i]
      BY <2>1, SubSeqProperties, ElementOfSeq
    <3>2. u = Append(v, u[n + 1])
      <4> HIDE DEF v
      <4>1. /\ Append(v, u[n + 1]) \in Seq(Seq(S)) /\ Len(Append(v, u[n + 1])) = n + 1
            /\ \A i \in 1..(n + 1) : Append(v, u[n + 1])[i] = u[i]
        BY <3>1, <2>1, AppendProperties
      <4> QED BY <4>1, SeqEqual
    <3> QED BY <3>1, <3>2
  <2>3. Holds(v)
    BY <2>2
  <2> HIDE DEF T, Holds
  <2>4. s \o Append(v, x) = Append(s \o v, x) /\ s \o v \in Seq(Seq(S))
    <3>1. Append(v, x) = v \o <<x>> /\ <<x>> \in Seq(Seq(S))
      BY AppendIsConcat
    <3>2. s \o (v \o <<x>>) = (s \o v) \o <<x>>
      BY <3>1, ConcatAssociative
    <3>3. s \o v \in Seq(Seq(S))
      BY ConcatProperties
    <3>4. Append(s \o v, x) = (s \o v) \o <<x>>
      BY <3>3, AppendIsConcat
    <3> QED BY <3>1, <3>2, <3>3, <3>4
  <2>5. /\ FlattenSeq(s \o u) = FlattenSeq(s \o v) \o x
        /\ FlattenSeq(u) = FlattenSeq(v) \o x
    BY <2>2, <2>4, FlattenAppend
  <2>6. (FlattenSeq(s) \o FlattenSeq(v)) \o x = FlattenSeq(s) \o (FlattenSeq(v) \o x)
    <3>1. FlattenSeq(s) \in Seq(S) /\ FlattenSeq(v) \in Seq(S) /\ x \in Seq(S)
      BY FlattenType
    <3> QED BY <3>1, <1>a, Zenon
  <2> QED BY <2>3, <2>5, <2>6 DEF Holds
<1> HIDE DEF T
<1>3. T = Nat
  <2>1. T \in SUBSET Nat
    BY DEF T
  <2> QED BY <2>1, <1>1, <1>2, InductiveSet
<1>4. Len(t) \in T
  BY <1>3, LenProperties
<1> QED BY <1>4 DEF T

(* Where at most one of the sequences has elements, they are what is left. *)
LEMMA FlattenSingle ==
    ASSUME NEW S, NEW s \in Seq(Seq(S)), NEW k \in Nat,
           \A i \in 1..Len(s) : i # k => s[i] = <<>>
    PROVE  FlattenSeq(s) = IF k \in 1..Len(s) THEN s[k] ELSE <<>>
<1>1. Len(s) \in Nat
  BY LenProperties
<1>2. CASE Len(s) = 0
  <2>1. FlattenSeq(s) = s /\ s = <<>>
    BY <1>1, <1>2, FlattenSeqDef, EmptySeq
  <2> QED BY <2>1, <1>2
<1>3. CASE Len(s) # 0
  <2>1. PICK f : IsFlattening(f, s) /\ FlattenSeq(s) = f[Len(s)]
    BY <1>1, <1>3, FlattenSeqDef
  <2>2. \A i \in 1..Len(s) : f[i] = IF i = 1 THEN s[i] ELSE f[i - 1] \o s[i]
    BY <2>1, FlatteningStep
  <2> DEFINE T == {i \in Nat : i \in 1..Len(s) =>
                                 f[i] = IF k \in 1..i THEN s[k] ELSE <<>>}
  <2>3. 1 \in T
    <3> SUFFICES ASSUME 1 \in 1..Len(s) PROVE f[1] = IF k \in 1..1 THEN s[k] ELSE <<>>
      OBVIOUS
    <3>1. f[1] = s[1]
      BY <2>2
    <3>2. k \in 1..1 <=> k = 1
      OBVIOUS
    <3> QED BY <3>1, <3>2
  <2>4. ASSUME NEW i \in T, i \in 1..(Len(s) - 1) PROVE i + 1 \in T
    <3>1. /\ i \in 1..Len(s) /\ i + 1 \in 1..Len(s) /\ i + 1 # 1 /\ (i + 1) - 1 = i
          /\ i + 1 \in Nat
      BY <1>1, <2>4
    <3>2. f[i + 1] = f[i] \o s[i + 1]
      BY <3>1, <2>2
    <3>3. f[i] = IF k \in 1..i THEN s[k] ELSE <<>>
      BY <3>1
    <3> HIDE DEF T
    <3>4. s[i + 1] \in Seq(S) /\ (k \in 1..Len(s) => s[k] \in Seq(S))
      BY <3>1, ElementOfSeq
    <3>5. CASE k \in 1..i
      <4>1. i + 1 # k /\ k \in 1..(i + 1) /\ k \in 1..Len(s)
        BY <3>1, <3>5, <1>1
      <4>2. s[i + 1] = <<>> /\ s[k] \in Seq(S)
        BY <3>1, <3>4, <4>1
      <4>3. s[k] \o <<>> = s[k]
        BY <4>2, ConcatEmptySeq
      <4> QED BY <3>1, <3>2, <3>3, <3>5, <4>1, <4>2, <4>3 DEF T
    <3>6. CASE k = i + 1
      <4>1. k \notin 1..i /\ k \in 1..(i + 1)
        BY <3>1, <3>6
      <4>2. <<>> \o s[i + 1] = s[i + 1]
        BY <3>4, ConcatEmptySeq
      <4> QED BY <3>1, <3>2, <3>3, <3>6, <4>1, <4>2 DEF T
    <3>7. CASE k \notin 1..i /\ k # i + 1
      <4>1. k \notin 1..(i + 1) /\ s[i + 1] = <<>>
        BY <3>1, <3>7
      <4>2. <<>> \o <<>> = <<>>
        OBVIOUS
      <4> QED BY <3>1, <3>2, <3>3, <3>7, <4>1, <4>2 DEF T
    <3> QED BY <3>5, <3>6, <3>7
  <2> HIDE DEF T
  <2>5. 1..Len(s) \subseteq T
    BY <1>1, <2>3, <2>4, InductiveRange
  <2>6. Len(s) \in 1..Len(s) /\ Len(s) \in T
    BY <1>1, <1>3, <2>5
  <2> QED BY <2>1, <2>6 DEF T
<1> QED BY <1>2, <1>3
-----------------------------------------------------------------------------
(* The elements of a concatenation.                                        *)
LEMMA Concat ==
    ASSUME NEW S, NEW a \in Seq(S), NEW b \in Seq(S)
    PROVE  /\ a \o b \in Seq(S) /\ Len(a \o b) = Len(a) + Len(b)
           /\ \A i \in 1..Len(a) : (a \o b)[i] = a[i]
           /\ \A i \in 1..Len(b) : (a \o b)[Len(a) + i] = b[i]
<1>0. PICK m \in Nat, n \in Nat : m = Len(a) /\ n = Len(b)
  BY LenProperties
<1>1. PICK c : c = a \o b /\ m = Len(a) /\ n = Len(b)
  BY <1>0
<1>2. /\ c \in Seq(S) /\ Len(c) = m + n
      /\ \A i \in 1..(m + n) : c[i] = IF i <= m THEN a[i] ELSE b[i - m]
  <2>1. /\ a \o b \in Seq(S) /\ Len(a \o b) = Len(a) + Len(b)
        /\ \A i \in 1..(Len(a) + Len(b)) :
               (a \o b)[i] = IF i <= Len(a) THEN a[i] ELSE b[i - Len(a)]
    BY ConcatProperties
  <2> QED BY <2>1, <1>1, Zenon
<1>3. ASSUME NEW i \in 1..m PROVE c[i] = a[i]
  <2>1. i \in 1..(m + n) /\ i <= m
    OBVIOUS
  <2> QED BY <2>1, <1>2
<1>4. ASSUME NEW i \in 1..n PROVE c[m + i] = b[i]
  <2>1. m + i \in 1..(m + n) /\ ~(m + i <= m) /\ (m + i) - m = i
    OBVIOUS
  <2> QED BY <2>1, <1>2
<1> QED BY <1>1, <1>2, <1>3, <1>4, Zenon

(* Sequences are equal when their elements are.                            *)
LEMMA Equal ==
    ASSUME NEW S, NEW a \in Seq(S), NEW b \in Seq(S), Len(a) = Len(b),
           \A i \in 1..Len(a) : a[i] = b[i]
    PROVE  a = b
BY SeqEqual

(* A piece of a sequence.                                                  *)
LEMMA Piece ==
    ASSUME NEW S, NEW s \in Seq(S), NEW m \in Nat, NEW n \in Nat, m + n <= Len(s)
    PROVE  /\ SubSeq(s, m + 1, m + n) \in Seq(S) /\ Len(SubSeq(s, m + 1, m + n)) = n
           /\ \A i \in 1..n : SubSeq(s, m + 1, m + n)[i] = s[m + i]
<1>1. PICK l \in Nat : l = Len(s)
  BY LenProperties
<1>2. \A i \in 1..l : s[i] \in S
  BY <1>1, ElementOfSeq
<1>3. PICK a \in Nat, b \in Nat : a = m + 1 /\ b = m + n
  OBVIOUS
<1>4. \A i \in a..b : s[i] \in S
  BY <1>1, <1>2, <1>3
<1>5. b - a + 1 = n /\ b - a + 1 \in Nat
  BY <1>3
<1>6. \A i \in 1..n : a + i - 1 = m + i /\ m + i \in a..b
  BY <1>3
<1>7. SubSeq(s, a, b) = [i \in 1..(b - a + 1) |-> s[a + i - 1]]
  OBVIOUS
<1>8. PICK q : q = [i \in 1..n |-> s[m + i]]
  OBVIOUS
<1>9. q \in Seq(S) /\ Len(q) = n /\ \A i \in 1..n : q[i] = s[m + i]
  BY <1>4, <1>6, <1>8
<1>10. SubSeq(s, a, b) = q
  BY <1>5, <1>6, <1>7, <1>8
<1> QED BY <1>3, <1>9, <1>10, Zenon

(* The middle of a concatenation.                                          *)
LEMMA Middle ==
    ASSUME NEW S, NEW a \in Seq(S), NEW b \in Seq(S), NEW c \in Seq(S)
    PROVE  SubSeq((a \o b) \o c, Len(a) + 1, Len(a) + Len(b)) = b
<1>0. PICK m \in Nat, n \in Nat : m = Len(a) /\ n = Len(b)
  BY LenProperties
<1>1. PICK d, e : m = Len(a) /\ n = Len(b) /\ d = a \o b /\ e = d \o c
  BY <1>0
<1>2. /\ d \in Seq(S) /\ Len(d) = m + n
      /\ \A i \in 1..n : d[m + i] = b[i]
  BY <1>1, Concat
<1>3. /\ e \in Seq(S) /\ Len(e) = Len(d) + Len(c)
      /\ \A i \in 1..Len(d) : e[i] = d[i]
  BY <1>1, <1>2, Concat
<1>4. m + n <= Len(e) /\ \A i \in 1..n : m + i \in 1..Len(d)
  BY <1>2, <1>3, LenProperties
<1>5. PICK q : q = SubSeq(e, m + 1, m + n)
  OBVIOUS
<1>6. q \in Seq(S) /\ Len(q) = n /\ \A i \in 1..n : q[i] = e[m + i]
  BY <1>3, <1>4, <1>5, Piece
<1>7. \A i \in 1..n : q[i] = b[i]
  BY <1>2, <1>3, <1>4, <1>6
<1>8. q = b
  BY <1>1, <1>6, <1>7, Equal
<1> QED BY <1>1, <1>5, <1>8

(* A sequence cut in two.                                                  *)
LEMMA Cut ==
    ASSUME NEW S, NEW s \in Seq(S), NEW k \in Nat, k <= Len(s)
    PROVE  /\ SubSeq(s, 1, k) \in Seq(S) /\ SubSeq(s, k + 1, Len(s)) \in Seq(S)
           /\ Len(SubSeq(s, 1, k)) = k /\ Len(SubSeq(s, k + 1, Len(s))) = Len(s) - k
           /\ SubSeq(s, 1, k) \o SubSeq(s, k + 1, Len(s)) = s
<1>1. PICK m \in Nat, n \in Nat : m = Len(s) /\ m = k + n
  <2>1. Len(s) \in Nat /\ Len(s) - k \in Nat /\ Len(s) = k + (Len(s) - k)
    BY LenProperties
  <2> QED BY <2>1
<1>2. PICK a, b, c : a = SubSeq(s, 1, k) /\ b = SubSeq(s, k + 1, m) /\ c = a \o b
  OBVIOUS
<1>3. /\ a \in Seq(S) /\ Len(a) = k
      /\ \A i \in 1..k : a[i] = s[i]
  <2>1. 0 + 1 = 1 /\ 0 + k = k /\ \A i \in 1..k : 0 + i = i
    OBVIOUS
  <2>2. /\ SubSeq(s, 0 + 1, 0 + k) \in Seq(S) /\ Len(SubSeq(s, 0 + 1, 0 + k)) = k
        /\ \A i \in 1..k : SubSeq(s, 0 + 1, 0 + k)[i] = s[0 + i]
    <3>1. 0 \in Nat /\ 0 + k <= Len(s)
      OBVIOUS
    <3> QED BY <3>1, Piece
  <2> QED BY <2>1, <2>2, <1>2
<1>4. /\ b \in Seq(S) /\ Len(b) = n
      /\ \A i \in 1..n : b[i] = s[k + i]
  <2>1. k + n <= Len(s) /\ m = k + n
    BY <1>1
  <2> QED BY <2>1, <1>2, Piece
<1>5. /\ c \in Seq(S) /\ Len(c) = k + n
      /\ \A i \in 1..k : c[i] = a[i]
      /\ \A i \in 1..n : c[k + i] = b[i]
  BY <1>2, <1>3, <1>4, Concat
<1>6. ASSUME NEW i \in 1..m PROVE c[i] = s[i]
  <2>1. CASE i <= k
    BY <2>1, <1>3, <1>5
  <2>2. CASE ~(i <= k)
    <3>1. PICK j \in 1..n : i = k + j
      <4>1. i - k \in 1..n /\ i = k + (i - k)
        BY <2>2, <1>1
      <4> QED BY <4>1
    <3> QED BY <3>1, <1>4, <1>5
  <2> QED BY <2>1, <2>2
<1>7. c = s
  BY <1>1, <1>5, <1>6, Equal
<1>8. Len(b) = m - k
  BY <1>1, <1>4
<1> QED BY <1>1, <1>2, <1>3, <1>4, <1>7, <1>8

(* Concatenation under a name that the provers do not look into: they      *)
(* reason about it with the lemmas below only.                             *)
Cat(a, b) == a \o b

LEMMA CatParts ==
    ASSUME NEW S, NEW a \in Seq(S), NEW b \in Seq(S)
    PROVE  /\ Cat(a, b) \in Seq(S) /\ Len(Cat(a, b)) = Len(a) + Len(b)
           /\ \A i \in 1..Len(a) : Cat(a, b)[i] = a[i]
           /\ \A i \in 1..Len(b) : Cat(a, b)[Len(a) + i] = b[i]
BY Concat DEF Cat

LEMMA CatAssociative ==
    ASSUME NEW S, NEW a \in Seq(S), NEW b \in Seq(S), NEW c \in Seq(S)
    PROVE  Cat(Cat(a, b), c) = Cat(a, Cat(b, c))
BY ConcatAssociative DEF Cat

LEMMA CatEmpty ==
    ASSUME NEW S, NEW a \in Seq(S)
    PROVE  Cat(a, <<>>) = a /\ Cat(<<>>, a) = a
BY ConcatEmptySeq DEF Cat

(* What lies behind the same beginning is the same.                        *)
LEMMA Overlap ==
    ASSUME NEW S
    PROVE  \A a, t, b, u \in Seq(S) :
               Cat(a, t) = Cat(b, u) /\ Len(b) <= Len(a)
                   => \E c \in Seq(S) : a = Cat(b, c) /\ u = Cat(c, t)
<1>0. \A p, q \in Seq(S) :
          /\ Cat(p, q) \in Seq(S) /\ Len(Cat(p, q)) = Len(p) + Len(q)
          /\ \A i \in 1..Len(p) : Cat(p, q)[i] = p[i]
          /\ \A i \in 1..Len(q) : Cat(p, q)[Len(p) + i] = q[i]
  <2>1. ASSUME NEW p \in Seq(S), NEW q \in Seq(S)
        PROVE  /\ Cat(p, q) \in Seq(S) /\ Len(Cat(p, q)) = Len(p) + Len(q)
               /\ \A i \in 1..Len(p) : Cat(p, q)[i] = p[i]
               /\ \A i \in 1..Len(q) : Cat(p, q)[Len(p) + i] = q[i]
    <3>1. Cat(p, q) \in Seq(S) /\ Len(Cat(p, q)) = Len(p) + Len(q)
      BY CatParts
    <3>2. \A i \in 1..Len(p) : Cat(p, q)[i] = p[i]
      BY CatParts
    <3>3. \A i \in 1..Len(q) : Cat(p, q)[Len(p) + i] = q[i]
      BY CatParts
    <3> QED BY <3>1, <3>2, <3>3
  <2> QED BY <2>1, Zenon
<1> TAKE a, t, b, u \in Seq(S)
<1>1. /\ Cat(a, t) \in Seq(S) /\ Len(Cat(a, t)) = Len(a) + Len(t)
      /\ \A i \in 1..Len(a) : Cat(a, t)[i] = a[i]
      /\ \A i \in 1..Len(t) : Cat(a, t)[Len(a) + i] = t[i]
  BY <1>0, Zenon
<1>2. /\ Cat(b, u) \in Seq(S) /\ Len(Cat(b, u)) = Len(b) + Len(u)
      /\ \A i \in 1..Len(b) : Cat(b, u)[i] = b[i]
      /\ \A i \in 1..Len(u) : Cat(b, u)[Len(b) + i] = u[i]
  BY <1>0, Zenon
<1>3. SUFFICES ASSUME Cat(a, t) = Cat(b, u), Len(b) <= Len(a)
               PROVE  \E c \in Seq(S) : a = Cat(b, c) /\ u = Cat(c, t)
  OBVIOUS
<1>4. PICK k \in Nat, n \in Nat, l \in Nat, o \in Nat :
          k = Len(b) /\ Len(a) = k + n /\ l = Len(t) /\ o = Len(u)
  <2>1. Len(b) \in Nat /\ Len(a) - Len(b) \in Nat /\ Len(a) = Len(b) + (Len(a) - Len(b))
    BY <1>3, LenProperties
  <2>2. Len(t) \in Nat /\ Len(u) \in Nat
    BY LenProperties
  <2> QED BY <2>1, <2>2
<1>5. PICK x : x = Cat(a, t)
  OBVIOUS
<1>6. x = Cat(b, u)
  BY <1>3, <1>5
<1>7. /\ x \in Seq(S) /\ Len(x) = (k + n) + l
      /\ \A i \in 1..(k + n) : x[i] = a[i]
      /\ \A i \in 1..l : x[(k + n) + i] = t[i]
  BY <1>1, <1>4, <1>5, Zenon
<1>8. /\ Len(x) = k + o
      /\ \A i \in 1..k : x[i] = b[i]
      /\ \A i \in 1..o : x[k + i] = u[i]
  BY <1>2, <1>4, <1>6, Zenon
<1>9. o = n + l
  <2>1. k + o = (k + n) + l
    BY <1>7, <1>8
  <2> QED BY <2>1
<1>10. PICK c : c \in Seq(S) /\ Len(c) = n /\ \A i \in 1..n : c[i] = a[k + i]
  <2>1. k + n <= Len(a)
    BY <1>4
  <2>2. PICK c : c = SubSeq(a, k + 1, k + n)
    OBVIOUS
  <2>3. c \in Seq(S) /\ Len(c) = n /\ \A i \in 1..n : c[i] = a[k + i]
    BY <2>1, <2>2, Piece
  <2> QED BY <2>3
<1>11. a = Cat(b, c)
  <2>1. /\ Cat(b, c) \in Seq(S) /\ Len(Cat(b, c)) = Len(b) + Len(c)
        /\ \A i \in 1..Len(b) : Cat(b, c)[i] = b[i]
        /\ \A i \in 1..Len(c) : Cat(b, c)[Len(b) + i] = c[i]
    BY <1>0, <1>10, Zenon
  <2>2. PICK y : y = Cat(b, c)
    OBVIOUS
  <2>3. /\ y \in Seq(S) /\ Len(y) = k + n
        /\ \A i \in 1..k : y[i] = b[i]
        /\ \A i \in 1..n : y[k + i] = c[i]
    BY <2>1, <2>2, <1>4, <1>10, Zenon
  <2>4. ASSUME NEW i \in 1..(k + n) PROVE a[i] = y[i]
    <3>1. CASE i <= k
      <4>1. i \in 1..k
        BY <3>1
      <4> QED BY <4>1, <2>3, <1>7, <1>8
    <3>2. CASE ~(i <= k)
      <4>1. PICK j \in 1..n : i = k + j
        <5>1. i - k \in 1..n /\ i = k + (i - k)
          BY <3>2
        <5> QED BY <5>1
      <4> QED BY <4>1, <2>3, <1>10
    <3> QED BY <3>1, <3>2
  <2>5. a = y
    BY <1>4, <2>3, <2>4, Equal
  <2> QED BY <2>2, <2>5
<1>12. u = Cat(c, t)
  <2>1. /\ Cat(c, t) \in Seq(S) /\ Len(Cat(c, t)) = Len(c) + Len(t)
        /\ \A i \in 1..Len(c) : Cat(c, t)[i] = c[i]
        /\ \A i \in 1..Len(t) : Cat(c, t)[Len(c) + i] = t[i]
    BY <1>0, <1>10, Zenon
  <2>2. PICK y : y = Cat(c, t)
    OBVIOUS
  <2>3. /\ y \in Seq(S) /\ Len(y) = n + l
        /\ \A i \in 1..n : y[i] = c[i]
        /\ \A i \in 1..l : y[n + i] = t[i]
    BY <2>1, <2>2, <1>4, <1>10, Zenon
  <2>4. ASSUME NEW i \in 1..(n + l) PROVE u[i] = y[i]
    <3>0. u[i] = x[k + i]
      BY <1>8, <1>9
    <3>1. CASE i <= n
      <4>1. i \in 1..n /\ k + i \in 1..(k + n)
        BY <3>1
      <4> QED BY <3>0, <4>1, <2>3, <1>7, <1>10
    <3>2. CASE ~(i <= n)
      <4>1. PICK j \in 1..l : i = n + j
        <5>1. i - n \in 1..l /\ i = n + (i - n)
          BY <3>2
        <5> QED BY <5>1
      <4>2. k + i = (k + n) + j
        BY <4>1
      <4> QED BY <3>0, <4>1, <4>2, <2>3, <1>7
    <3> QED BY <3>1, <3>2
  <2>5. u = y
    BY <1>4, <1>9, <2>3, <2>4, Equal
  <2> QED BY <2>2, <2>5
<1> QED BY <1>10, <1>11, <1>12

(* Equal beginnings of the same length, and equal ends.                    *)
LEMMA SameBeginning ==
    ASSUME NEW S, NEW a \in Seq(S), NEW t \in Seq(S), NEW b \in Seq(S), NEW u \in Seq(S)
    PROVE  Cat(a, t) = Cat(b, u) /\ Len(b) = Len(a) => a = b /\ t = u
<1>1. Len(a) \in Nat /\ Len(b) \in Nat
  BY LenProperties
<1>2. Cat(a, t) = Cat(b, u) /\ Len(b) <= Len(a) => \E c \in Seq(S) : a = Cat(b, c) /\ u = Cat(c, t)
  BY Overlap
<1>3. \A c \in Seq(S) : Len(Cat(b, c)) = Len(b) + Len(c) /\ Len(c) \in Nat
  BY CatParts, LenProperties
<1>4. \A c \in Seq(S) : Len(c) = 0 => c = <<>>
  BY EmptySeq
<1>5. Cat(b, <<>>) = b /\ Cat(<<>>, t) = t
  BY CatEmpty
<1>6. SUFFICES ASSUME Cat(a, t) = Cat(b, u), Len(b) = Len(a) PROVE a = b /\ t = u
  OBVIOUS
<1>7. PICK c \in Seq(S) : a = Cat(b, c) /\ u = Cat(c, t)
  <2>1. Len(b) <= Len(a)
    BY <1>1, <1>6
  <2> QED BY <2>1, <1>2, <1>6, Zenon
<1>8. Len(c) = 0
  BY <1>1, <1>3, <1>6, <1>7
<1> QED BY <1>4, <1>5, <1>7, <1>8, Zenon

(* The same element in both beginnings.                                    *)
LEMMA SameElement ==
    ASSUME NEW S, NEW a \in Seq(S), NEW t \in Seq(S), NEW b \in Seq(S), NEW u \in Seq(S),
           NEW i, i \in 1..Len(a), i \in 1..Len(b)
    PROVE  Cat(a, t) = Cat(b, u) => a[i] = b[i]
<1>1. Cat(a, t)[i] = a[i]
  BY CatParts
<1>2. Cat(b, u)[i] = b[i]
  BY CatParts
<1> QED BY <1>1, <1>2, Zenon

(* A sequence with something behind it is a strict prefix.                 *)
LEMMA StrictPrefix ==
    ASSUME NEW S, NEW a \in Seq(S), NEW c \in Seq(S), Len(c) # 0
    PROVE  IsStrictPrefix(a, Cat(a, c))
<1>1. PICK m \in Nat, n \in Nat : m = Len(a) /\ n = Len(c)
  BY LenProperties
<1>2. /\ Cat(a, c) \in Seq(S) /\ Len(Cat(a, c)) = Len(a) + Len(c)
      /\ \A i \in 1..Len(a) : Cat(a, c)[i] = a[i]
  BY CatParts
<1>3. PICK x : x = Cat(a, c)
  OBVIOUS
<1>4. x \in Seq(S) /\ Len(x) = m + n /\ \A i \in 1..m : x[i] = a[i]
  BY <1>1, <1>2, <1>3, Zenon
<1>5. m <= Len(x) /\ Len(x) # m
  BY <1>1, <1>4
<1>6. /\ SubSeq(a, 1, m) \in Seq(S) /\ Len(SubSeq(a, 1, m)) = m
      /\ \A i \in 1..m : SubSeq(a, 1, m)[i] = a[i]
  <2>1. /\ SubSeq(a, 0 + 1, 0 + m) \in Seq(S) /\ Len(SubSeq(a, 0 + 1, 0 + m)) = m
        /\ \A i \in 1..m : SubSeq(a, 0 + 1, 0 + m)[i] = a[0 + i]
    <3>1. 0 \in Nat /\ 0 + m <= Len(a)
      BY <1>1
    <3> QED BY <3>1, Piece
  <2>2. 0 + 1 = 1 /\ 0 + m = m /\ \A i \in 1..m : 0 + i = i
    OBVIOUS
  <2> QED BY <2>1, <2>2
<1>7. /\ SubSeq(x, 1, m) \in Seq(S) /\ Len(SubSeq(x, 1, m)) = m
      /\ \A i \in 1..m : SubSeq(x, 1, m)[i] = x[i]
  <2>1. /\ SubSeq(x, 0 + 1, 0 + m) \in Seq(S) /\ Len(SubSeq(x, 0 + 1, 0 + m)) = m
        /\ \A i \in 1..m : SubSeq(x, 0 + 1, 0 + m)[i] = x[0 + i]
    <3>1. 0 \in Nat /\ 0 + m <= Len(x)
      BY <1>5
    <3> QED BY <3>1, <1>4, Piece
  <2>2. 0 + 1 = 1 /\ 0 + m = m /\ \A i \in 1..m : 0 + i = i
    OBVIOUS
  <2> QED BY <2>1, <2>2
<1>8. SubSeq(a, 1, m) = SubSeq(x, 1, m)
  BY <1>4, <1>6, <1>7, Equal
<1>9. a # x
  BY <1>1, <1>5
<1> QED BY <1>1, <1>3, <1>5, <1>8, <1>9 DEF IsStrictPrefix, IsPrefix
=============================================================================

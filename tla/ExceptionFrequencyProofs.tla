---------------------- MODULE ExceptionFrequencyProofs ----------------------
(***************************************************************************)
(* Proofs about ExceptionFrequency.tla, for every Count, every Duration    *)
(* and any number of exceptions.                                           *)
(*                                                                         *)
(* The record is described element by element: it is the end of the        *)
(* history (Latest), no time in it lies in the future, and it has as many  *)
(* elements as the check looks at, if there were so many exceptions.       *)
(***************************************************************************)
EXTENDS ExceptionFrequency, SequenceTheorems, TLAPS

Time == 0 .. MaxTime

Types ==
    /\ now \in Time
    /\ timestamps \in Seq(Time) /\ history \in Seq(Time)
    /\ aborted \in BOOLEAN

(* The sequence s is the end of the sequence t.                            *)
Latest(s, t) ==
    /\ Len(s) <= Len(t)
    /\ \A i \in 1 .. Len(s) : s[i] = t[Len(t) - Len(s) + i]

Enough(s, t) == Len(s) >= Count \/ Len(s) = Len(t)

Past(t) == \A i \in 1 .. Len(t) : t[i] <= now

(* The record of a listener that never gives up stays bounded.             *)
RecordBounded == ~aborted => Len(timestamps) < 2 * Count

IInv ==
    /\ Types
    /\ Latest(timestamps, history) /\ Enough(timestamps, history) /\ Past(history)
    /\ RecordBounded
    /\ AbortsOnlyOnBurst
-----------------------------------------------------------------------------
(* A difference taken the wrong way round is large, unless it is zero.     *)
LEMMA WrappedDifference ==
    ASSUME NEW old \in Time, NEW new \in Time, old <= new,
           (old - new) % Width < Duration
    PROVE  old = new /\ 0 < Duration
<1>1. CASE old = new
  <2>1. (old - new) % Width = 0
    BY <1>1, WidthAssumption DEF Time
  <2> QED BY <1>1, <2>1
<1>2. CASE old < new
  <2>1. (old - new) % Width = old - new + Width
    BY <1>2, WidthAssumption DEF Time
  <2>2. old - new + Width > Duration
    BY <1>2, WidthAssumption DEF Time
  <2> QED BY <2>1, <2>2, WidthAssumption DEF Time
<1> QED BY <1>1, <1>2 DEF Time

LEMMA AppendTime ==
    ASSUME NEW s \in Seq(Time), NEW e \in Time
    PROVE  /\ Append(s, e) \in Seq(Time) /\ Len(Append(s, e)) = Len(s) + 1
           /\ \A i \in 1 .. Len(s) : Append(s, e)[i] = s[i]
           /\ Append(s, e)[Len(s) + 1] = e
BY LenProperties

(* The end of the history stays its end when both get the same time.       *)
LEMMA LatestAppend ==
    ASSUME NEW s \in Seq(Time), NEW t \in Seq(Time), NEW e \in Time, Latest(s, t)
    PROVE  Latest(Append(s, e), Append(t, e))
<1> DEFINE s1 == Append(s, e)
           t1 == Append(t, e)
<1>1. Len(s) \in Nat /\ Len(t) \in Nat /\ Len(s) <= Len(t)
  BY LenProperties DEF Latest
<1>2. /\ Len(s1) = Len(s) + 1 /\ Len(t1) = Len(t) + 1
      /\ \A i \in 1 .. Len(s) : s1[i] = s[i]
      /\ \A i \in 1 .. Len(t) : t1[i] = t[i]
      /\ s1[Len(s) + 1] = e /\ t1[Len(t) + 1] = e
  BY AppendTime
<1>3. ASSUME NEW i \in 1 .. Len(s1)
      PROVE  s1[i] = t1[Len(t1) - Len(s1) + i]
  <2>1. CASE i = Len(s) + 1
    <3>1. Len(t1) - Len(s1) + i = Len(t) + 1
      BY <1>1, <1>2, <2>1
    <3> QED BY <1>2, <2>1, <3>1
  <2>2. CASE i \in 1 .. Len(s)
    <3>1. Len(t1) - Len(s1) + i = Len(t) - Len(s) + i
      BY <1>1, <1>2, <2>2
    <3>2. Len(t) - Len(s) + i \in 1 .. Len(t)
      BY <1>1, <2>2
    <3>3. s[i] = t[Len(t) - Len(s) + i]
      BY <2>2 DEF Latest
    <3> QED BY <1>2, <2>2, <3>1, <3>2, <3>3
  <2> QED BY <1>1, <1>2, <1>3, <2>1, <2>2
<1> HIDE DEF s1, t1
<1>4. Latest(s1, t1)
  BY <1>1, <1>2, <1>3 DEF Latest
<1> QED BY <1>4 DEF s1, t1

(* So does the second half of it.                                          *)
LEMMA TruncateEffect ==
    ASSUME NEW s \in Seq(Time), NEW t \in Seq(Time), Latest(s, t), Enough(s, t),
           Len(s) <= 2 * Count
    PROVE  /\ Truncate(s) \in Seq(Time) /\ Len(Truncate(s)) < 2 * Count
           /\ Latest(Truncate(s), t) /\ Enough(Truncate(s), t)
<1>1. Len(s) \in Nat /\ Len(t) \in Nat /\ Len(s) <= Len(t) /\ Count \in Nat \ {0}
  BY LenProperties, CountAssumption DEF Latest
<1>2. CASE Len(s) < 2 * Count
  <2>1. Truncate(s) = s
    BY <1>1, <1>2 DEF Truncate
  <2> QED BY <1>2, <2>1
<1>3. CASE Len(s) = 2 * Count
  <2> DEFINE u == SubSeq(s, Count + 1, Len(s))
  <2>1. Truncate(s) = u
    BY <1>1, <1>3 DEF Truncate
  <2>2. \A i \in Count + 1 .. Len(s) : s[i] \in Time
    BY <1>1, ElementOfSeq
  <2>3. Count + 1 \in Int /\ Len(s) \in Int /\ Len(s) - (Count + 1) + 1 = Count
    BY <1>1, <1>3
  <2>4. /\ u \in Seq(Time) /\ Len(u) = Count
        /\ \A i \in 1 .. Count : u[i] = s[Count + 1 + i - 1]
    BY <1>1, <1>3, <2>2, <2>3, SubSeqProperties
  <2> HIDE DEF u
  <2>5. ASSUME NEW i \in 1 .. Count
        PROVE  u[i] = t[Len(t) - Len(u) + i]
    <3>1. Count + 1 + i - 1 = Count + i /\ Count + i \in 1 .. Len(s)
      BY <1>1, <1>3
    <3>2. s[Count + i] = t[Len(t) - Len(s) + (Count + i)]
      BY <3>1 DEF Latest
    <3>3. Len(t) - Len(s) + (Count + i) = Len(t) - Len(u) + i
      BY <1>1, <1>3, <2>4
    <3> QED BY <2>4, <3>1, <3>2, <3>3
  <2>6. Latest(u, t)
    BY <1>1, <1>3, <2>4, <2>5 DEF Latest
  <2>7. Enough(u, t) /\ Len(u) < 2 * Count
    BY <1>1, <2>4 DEF Enough
  <2> QED BY <2>1, <2>4, <2>6, <2>7
<1> QED BY <1>1, <1>2, <1>3
-----------------------------------------------------------------------------
LEMMA InvInit == Init => IInv
<1> SUFFICES ASSUME Init PROVE IInv
  OBVIOUS
<1>1. Types
  <2>1. <<>> \in Seq(Time)
    BY EmptySeq
  <2>2. 0 \in Time
    BY WidthAssumption DEF Time
  <2> QED BY <2>1, <2>2 DEF Init, Types
<1>2. Len(timestamps) = 0 /\ Len(history) = 0
  BY EmptySeq DEF Init
<1>3. Latest(timestamps, history) /\ Enough(timestamps, history) /\ Past(history)
  BY <1>2 DEF Latest, Enough, Past
<1>4. RecordBounded /\ AbortsOnlyOnBurst
  BY <1>2, CountAssumption DEF Init, RecordBounded, AbortsOnlyOnBurst
<1> QED BY <1>1, <1>3, <1>4 DEF IInv

LEMMA InvTick == IInv /\ Tick => IInv'
<1> SUFFICES ASSUME IInv, Tick PROVE IInv'
  OBVIOUS
<1>1. now' = now + 1 /\ UNCHANGED <<timestamps, history, aborted>>
  BY DEF Tick
<1>2. Types'
  BY <1>1, WidthAssumption DEF IInv, Types, Tick, Time
<1>3. (Latest(timestamps, history) /\ Enough(timestamps, history))'
  BY <1>1 DEF IInv, Latest, Enough
<1>4. Past(history)'
  <2> SUFFICES ASSUME NEW i \in 1 .. Len(history) PROVE history[i] <= now + 1
    BY <1>1 DEF Past
  <2>1. history[i] \in Time /\ history[i] <= now
    BY ElementOfSeq DEF IInv, Types, Past
  <2> QED BY <2>1 DEF IInv, Types, Time
<1>5. (RecordBounded /\ AbortsOnlyOnBurst)'
  BY <1>1 DEF IInv, RecordBounded, AbortsOnlyOnBurst, Burst
<1> QED BY <1>2, <1>3, <1>4, <1>5 DEF IInv

LEMMA InvException == IInv /\ Exception => IInv'
<1> SUFFICES ASSUME IInv, Exception PROVE IInv'
  OBVIOUS
<1> DEFINE times == Append(timestamps, now)
           burst == Len(times) >= Count /\ (Oldest(times) - now) % Width < Duration
<1>1. /\ history' = Append(history, now) /\ now' = now /\ ~aborted
      /\ aborted' = burst
      /\ timestamps' = IF burst THEN times ELSE Truncate(times)
  BY DEF Exception
<1>2. /\ now \in Time /\ Count \in Nat \ {0}
      /\ Len(timestamps) \in Nat /\ Len(history) \in Nat
  BY CountAssumption, LenProperties DEF IInv, Types
<1>3. /\ times \in Seq(Time) /\ Len(times) = Len(timestamps) + 1
      /\ history' \in Seq(Time) /\ Len(history') = Len(history) + 1
      /\ \A i \in 1 .. Len(history) : history'[i] = history[i]
      /\ history'[Len(history) + 1] = now
  BY <1>1, AppendTime DEF IInv, Types
<1>4. Latest(times, history')
  BY <1>1, LatestAppend DEF IInv, Types
<1>5. Enough(times, history') /\ Len(times) <= 2 * Count
  BY <1>1, <1>2, <1>3 DEF IInv, Enough, RecordBounded
<1>6. /\ Truncate(times) \in Seq(Time) /\ Len(Truncate(times)) < 2 * Count
      /\ Latest(Truncate(times), history') /\ Enough(Truncate(times), history')
  BY <1>3, <1>4, <1>5, TruncateEffect
<1> HIDE DEF times
<1>7. timestamps' \in Seq(Time) /\ Latest(timestamps', history') /\ Enough(timestamps', history')
  BY <1>1, <1>3, <1>4, <1>5, <1>6
<1>8. Types'
  BY <1>1, <1>2, <1>3, <1>7 DEF Types
<1>9. Past(history)'
  <2> SUFFICES ASSUME NEW i \in 1 .. Len(history') PROVE history'[i] <= now
    BY <1>1 DEF Past
  <2>1. CASE i \in 1 .. Len(history)
    BY <1>3, <2>1 DEF IInv, Past
  <2>2. CASE i = Len(history) + 1
    BY <1>2, <1>3, <2>2 DEF Time
  <2> QED BY <1>2, <1>3, <2>1, <2>2
<1>10. RecordBounded'
  BY <1>1, <1>6 DEF RecordBounded
<1>11. AbortsOnlyOnBurst'
  <2> SUFFICES ASSUME burst PROVE Burst'
    BY <1>1 DEF AbortsOnlyOnBurst
  <2> DEFINE k == Len(times) - Count + 1
             j == Len(history') - Count + 1
  <2>1. /\ k \in 1 .. Len(times) /\ j \in 1 .. Len(history')
        /\ Len(history') - Len(times) + k = j /\ Len(history') >= Count
    BY <1>2, <1>3, <1>4 DEF Latest
  <2>2. Oldest(times) = history'[j]
    BY <1>4, <2>1 DEF Latest, Oldest
  <2>3. history'[j] \in Time /\ history'[j] <= now
    BY <1>3, <1>9, <1>1, <2>1, ElementOfSeq DEF Past
  <2> HIDE DEF j
  <2>4. history'[j] = now /\ 0 < Duration
    BY <1>2, <2>2, <2>3, WrappedDifference
  <2>5. history'[Len(history')] - history'[j] = 0
    BY <1>2, <1>3, <2>4 DEF Time
  <2> QED BY <2>1, <2>4, <2>5 DEF Burst, j
<1> QED BY <1>7, <1>8, <1>9, <1>10, <1>11 DEF IInv

LEMMA InvNext == IInv /\ [Next]_vars => IInv'
<1> SUFFICES ASSUME IInv, [Next]_vars PROVE IInv'
  OBVIOUS
<1>1. CASE Tick
  BY <1>1, InvTick
<1>2. CASE Exception
  BY <1>2, InvException
<1>3. CASE UNCHANGED vars
  BY <1>3 DEF vars, IInv, Types, Latest, Enough, Past, RecordBounded,
              AbortsOnlyOnBurst, Burst
<1> QED BY <1>1, <1>2, <1>3 DEF Next
-----------------------------------------------------------------------------
(* What the invariant gives.                                               *)
THEOREM Invariance == Spec => []IInv
BY InvInit, InvNext, PTL DEF Spec

(* Cutting the record never takes away what the check needs: it holds the  *)
(* latest exceptions, and Count of them if there were so many; without an  *)
(* abort it stays below 2 * Count, for any number of exceptions.           *)
THEOREM RecordStaysLatest == Spec => []RecordIsLatest
<1>1. IInv => RecordIsLatest
  <2> SUFFICES ASSUME IInv PROVE RecordIsLatest
    OBVIOUS
  <2> DEFINE n == Len(timestamps)
             u == SubSeq(history, Len(history) - n + 1, Len(history))
  <2>1. n \in Nat /\ Len(history) \in Nat /\ n <= Len(history)
    BY LenProperties DEF IInv, Types, Latest
  <2>2. \A i \in Len(history) - n + 1 .. Len(history) : history[i] \in Time
    BY <2>1, ElementOfSeq DEF IInv, Types
  <2>3. /\ Len(history) - n + 1 \in Int /\ Len(history) \in Int
        /\ Len(history) - (Len(history) - n + 1) + 1 = n
        /\ Len(history) - n + 1 <= Len(history) <=> n > 0
    BY <2>1
  <2>4. /\ u \in Seq(Time) /\ Len(u) = n
        /\ \A i \in 1 .. n : u[i] = history[Len(history) - n + 1 + i - 1]
    BY <2>1, <2>2, <2>3, SubSeqProperties
  <2> HIDE DEF u
  <2>5. \A i \in 1 .. n : timestamps[i] = u[i]
    <3> TAKE i \in 1 .. n
    <3>1. Len(history) - n + 1 + i - 1 = Len(history) - n + i
      BY <2>1
    <3> QED BY <2>4, <3>1 DEF IInv, Latest
  <2>6. timestamps = u
    BY <2>4, <2>5, SeqEqual DEF IInv, Types
  <2> QED BY <2>1, <2>6 DEF IInv, Enough, RecordBounded, RecordIsLatest, u
<1> QED BY <1>1, Invariance, PTL

(* The unsigned difference that is taken the wrong way round makes the     *)
(* check too weak, never too strong: no abort without a burst.             *)
THEOREM NoAbortWithoutBurst == Spec => []AbortsOnlyOnBurst
<1>1. IInv => AbortsOnlyOnBurst
  BY DEF IInv
<1> QED BY <1>1, Invariance, PTL
=============================================================================

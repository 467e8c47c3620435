------------------------- MODULE ExceptionFrequency -------------------------
(***************************************************************************)
(* How the listener decides to give up (IOManager::check_exception_        *)
(* frequency, network/io_manager.cpp): the times of the exceptions of its  *)
(* loop are recorded, and a burst of them aborts the program.              *)
(***************************************************************************)
EXTENDS Integers, Sequences

CONSTANTS
    Count,         \* EXCEPTION_COUNT
    Duration,      \* EXCEPTION_DURATION
    Width,         \* times are unsigned, modulo this (2^32 in the code)
    MaxTime,       \* bound: no exception after this second
    MaxExceptions  \* bound: no more exceptions than this

ASSUME CountAssumption == Count \in Nat \ {0}
ASSUME WidthAssumption ==
    /\ Duration \in Nat /\ MaxTime \in Nat /\ Width \in Nat
    /\ Width > MaxTime + Duration

VARIABLES
    now,         \* time(NULL)
    timestamps,  \* exception_timestamp
    history,     \* the times of all exceptions
    aborted      \* the program has been aborted

vars == <<now, timestamps, history, aborted>>

Init == now = 0 /\ timestamps = <<>> /\ history = <<>> /\ aborted = FALSE

Tick == now < MaxTime /\ now' = now + 1 /\ UNCHANGED <<timestamps, history, aborted>>

(* Faulty variants: an index one too high, the wrong half erased.          *)
OldestOffByOne(times) == times[Len(times) - Count + 2]

TruncateKeepingOld(times) ==
    IF Len(times) >= 2 * Count THEN SubSeq(times, 1, Count) ELSE times

(* The Count-th latest exception.                                          *)
Oldest(times) == times[Len(times) - Count + 1]

Truncate(times) ==
    IF Len(times) >= 2 * Count THEN SubSeq(times, Count + 1, Len(times)) ELSE times

(* An exception, and the check: the difference is taken the wrong way      *)
(* round, and is small only if it is zero.                                 *)
Exception ==
    /\ ~aborted /\ Len(history) < MaxExceptions
    /\ history' = Append(history, now)
    /\ LET times == Append(timestamps, now)
           burst == Len(times) >= Count /\ (Oldest(times) - now) % Width < Duration
       IN  /\ aborted' = burst
           /\ timestamps' = IF burst THEN times ELSE Truncate(times)
    /\ UNCHANGED now

Next == Tick \/ Exception

Spec == Init /\ [][Next]_vars
-----------------------------------------------------------------------------
(* PROPERTIES.                                                             *)

(* The last Count exceptions happened within Duration seconds.             *)
Burst ==
    /\ Len(history) >= Count
    /\ history[Len(history)] - history[Len(history) - Count + 1] < Duration

(* However often the record has been cut, it holds the latest exceptions,  *)
(* as many of them as the check looks at, and less than twice as many      *)
(* unless the listener gives up.                                           *)
RecordIsLatest ==
    LET n == Len(timestamps)
    IN  /\ n <= Len(history)
        /\ timestamps = SubSeq(history, Len(history) - n + 1, Len(history))
        /\ n >= Count \/ n = Len(history)
        /\ ~aborted => n < 2 * Count

(* The program is never aborted without a burst.                           *)
AbortsOnlyOnBurst == aborted => Burst

(* What the comment in check_exception_frequency says: exit if             *)
(* EXCEPTION_COUNT exceptions happened in EXCEPTION_DURATION seconds.      *)
AbortsOnBurst == Burst => aborted
=============================================================================

----------------------------- MODULE RateLimiter -----------------------------
(***************************************************************************)
(* The sliding-window limiter of api/middleware.py: one deque of hits for  *)
(* every client address and kind of path, kept in the process.             *)
(*                                                                         *)
(* dispatch does all of this between two awaits, so a request is admitted  *)
(* or turned away in one step.  The module says nothing of what happens to *)
(* an admitted request: RequestLedger composes it with that.               *)
(***************************************************************************)
EXTENDS Integers, Sequences, FiniteSets

CONSTANTS
    Buckets,      \* client addresses, each with the kind of path it asks for
    Limits,       \* bucket -> its limit per minute, 0 for none
    Window,       \* the 60 s of the window
    MaxBuckets,   \* the 10,000 deques that are kept at most
    MaxClears,    \* bound on the times they are all dropped in one window,
                  \* be it for their number or with the process
    MaxTime       \* bound on the clock

ASSUME LimiterAssumption ==
    /\ IsFiniteSet(Buckets)
    /\ Limits \in [Buckets -> Nat]
    /\ {Window, MaxBuckets, MaxClears, MaxTime} \subseteq Nat

VARIABLES
    now,       \* time.monotonic()
    hits,      \* _hits: a deque for each bucket seen since the last clear
    admitted,  \* history: bucket -> times its requests were let through
    clears     \* history: times all the deques were dropped

limiterVars == <<hits, admitted, clears>>

Times == Seq(0 .. MaxTime)

LimiterTypeOK ==
    /\ now \in 0 .. MaxTime
    /\ DOMAIN hits \subseteq Buckets
    /\ Cardinality(DOMAIN hits) <= MaxBuckets
    /\ \A b \in DOMAIN hits : hits[b] \in Times
    /\ admitted \in [Buckets -> Times]
    /\ clears \in Times

LimiterInit ==
    /\ now = 0
    /\ hits = << >>
    /\ admitted = [b \in Buckets |-> << >>]
    /\ clears = << >>

-----------------------------------------------------------------------------
(* What is left of a deque once the hits of more than a span ago have been *)
(* popped from its left, up to the first that is younger.                  *)
Within(times, time, span) ==
    LET popped == CHOOSE n \in 0 .. Len(times) :
                     /\ \A i \in 1 .. n : time - times[i] > span
                     /\ n < Len(times) => time - times[n + 1] <= span
    IN SubSeq(times, popped + 1, Len(times))

(* A wrong variant: a hit of exactly a window ago is dropped.              *)
DropsEarly(times) == Within(times, now, Window - 1)

(* A wrong variant: old hits stay in the deque.                            *)
KeepsOld(times) == times

(* The hits that are not strictly older than the window.                   *)
Recent(times) == Within(times, now, Window)

(* The deque of a bucket after the old hits have left it; the look-up in   *)
(* the defaultdict makes an empty one.                                     *)
Current(b) == IF b \in DOMAIN hits THEN Recent(hits[b]) ELSE << >>

With(b, times) ==
    [x \in DOMAIN hits \union {b} |-> IF x = b THEN times ELSE hits[x]]

(* A wrong variant: one deque more than the bound.                         *)
OneTooMany(m) == Cardinality(DOMAIN m) > MaxBuckets + 1

TooMany(m) == Cardinality(DOMAIN m) > MaxBuckets

(* As many hits as the limit are left: a request is turned away.           *)
Full(b) == Limits[b] > 0 /\ Len(Current(b)) >= Limits[b]

(* A request of bucket b is let through: its hit is counted, and if there  *)
(* are too many deques by now they are all dropped, its own included.      *)
Admit(b) ==
    LET grown == With(b, Append(Current(b), now)) IN
    /\ ~Full(b)
    /\ IF Limits[b] = 0
         THEN UNCHANGED limiterVars
         ELSE /\ admitted' = [admitted EXCEPT ![b] = Append(@, now)]
              /\ hits' = IF TooMany(grown) THEN << >> ELSE grown
              /\ clears' = IF TooMany(grown) THEN Append(clears, now) ELSE clears
    /\ Len(clears') <= MaxClears

(* A request over the limit is turned away and is not counted.             *)
TurnAway(b) ==
    /\ Full(b)
    /\ hits' = With(b, Current(b))
    /\ UNCHANGED <<admitted, clears>>

(* The deques live in the process and end with it.                         *)
ForgetHits ==
    /\ hits' = << >>
    /\ clears' = Append(clears, now)
    /\ Len(clears') <= MaxClears
    /\ UNCHANGED admitted

(* The histories keep what lies in the window.                             *)
Elapse ==
    /\ now < MaxTime
    /\ now' = now + 1
    /\ admitted' = [b \in Buckets |-> Within(admitted[b], now + 1, Window)]
    /\ clears' = Within(clears, now + 1, Window)
    /\ UNCHANGED hits

-----------------------------------------------------------------------------
(* Properties.                                                             *)

(* In any window of sixty seconds, its two ends included, a bucket gets at *)
(* most its limit, and that much again for each time the deques of all the *)
(* clients were dropped in it, or the process was started again            *)
(* (middleware.py:103-123).                                                *)
RateHolds ==
    \A b \in Buckets : Limits[b] > 0 =>
        Len(admitted[b]) <= Limits[b] * (Len(clears) + 1)

(* Whoever would be turned away now has had as many requests as the limit  *)
(* let through in the sixty seconds up to now: none that was itself turned *)
(* away counts against him, nor one that is older (middleware.py:105-120). *)
RefusalIsDeserved ==
    \A b \in Buckets : Full(b) => Len(admitted[b]) >= Limits[b]
=============================================================================

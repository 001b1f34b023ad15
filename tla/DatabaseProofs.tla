----------------------------- MODULE DatabaseProofs -----------------------------
(***************************************************************************)
(* Proofs about the two modules whose state the database keeps:            *)
(* RequestLedger, for any number of requests, clients, keys and log        *)
(* entries, on either database; and, after it, ModelCatalogue: the process *)
(* works with the settings the database holds, a listed name is served,    *)
(* and an upsert takes back no edit it has not seen.                       *)
(***************************************************************************)
EXTENDS RequestLedger, ModelCatalogue, InductionLemmas, SequenceTheorems

(* The part of the types the keys rest on.                                 *)
RowsOK ==
    /\ now \in Nat
    /\ keys \subseteq Keys
    /\ key \in [Keys -> KeyRows]
    /\ tally \in [Requests -> KeyRows]
    /\ at \in [Requests -> Stages]
    /\ caller \in [Requests -> Keys \union {0}]
    /\ status \in [Requests -> Statuses]

(* A request past the key check has a key.                                 *)
CallerOK ==
    \A r \in Requests : at[r] \in {"run", "stream", "persist", "commit"} =>
        caller[r] \in Keys

(* A revoked key still has its row, which says so.                         *)
BarredOK ==
    /\ barred \subseteq keys
    /\ \A k \in barred : key[k].revoked

KeyInv == RowsOK /\ CallerOK /\ BarredOK

-----------------------------------------------------------------------------
(* What the operators on rows return.                                      *)

LEMMA NewKeyType ==
    ASSUME NEW days \in Nat, now \in Nat
    PROVE  NewKey(days) \in KeyRows
BY DEF NewKey, KeyRows

LEMMA CountedType ==
    ASSUME NEW row \in KeyRows, NEW old \in KeyRows, NEW s \in Statuses
    PROVE  Counted(row, old, s) \in KeyRows
<1> DEFINE successes == IF s = "success" THEN old.successes + 1 ELSE row.successes
           failures  == IF s = "error" THEN old.failures + 1 ELSE row.failures
<1>1. old.requests + 1 \in Nat /\ successes \in Nat /\ failures \in Nat
  BY DEF KeyRows, Statuses
<1> HIDE DEF successes, failures
<1>2. [row EXCEPT !.requests = old.requests + 1, !.successes = successes,
                  !.failures = failures] \in KeyRows
  BY <1>1 DEF KeyRows
<1> QED
  BY <1>2 DEF Counted, successes, failures

LEMMA CountedKeepsRevoked ==
    ASSUME NEW row \in KeyRows, NEW old \in KeyRows, NEW s \in Statuses
    PROVE  Counted(row, old, s).revoked = row.revoked
BY DEF Counted, KeyRows, Statuses

LEMMA RevokedType ==
    ASSUME NEW row \in KeyRows
    PROVE  Revoked(row) \in KeyRows /\ Revoked(row).revoked
BY DEF Revoked, KeyRows

LEMMA EnabledType ==
    ASSUME NEW row \in KeyRows, NEW b \in BOOLEAN
    PROVE  /\ [row EXCEPT !.enabled = b] \in KeyRows
           /\ [row EXCEPT !.enabled = b].revoked = row.revoked
BY DEF KeyRows

-----------------------------------------------------------------------------
LEMMA KeyInit == Init => KeyInv
<1> SUFFICES ASSUME Init PROVE KeyInv
  OBVIOUS
<1>1. now \in Nat /\ NewKey(0) \in KeyRows
  BY NewKeyType DEF Init, LimiterInit
<1>2. RowsOK
  BY <1>1 DEF Init, RowsOK, Stages, Statuses
<1>3. CallerOK
  BY DEF Init, CallerOK
<1>4. BarredOK
  BY DEF Init, BarredOK
<1> QED
  BY <1>2, <1>3, <1>4 DEF KeyInv

(* A request goes back to idle.                                            *)
LEMMA ForgetKeeps ==
    ASSUME KeyInv, NEW r \in Requests, Forget(r)
    PROVE  /\ at' \in [Requests -> Stages]
           /\ caller' \in [Requests -> Keys \union {0}]
           /\ status' \in [Requests -> Statuses]
           /\ tally' \in [Requests -> KeyRows]
           /\ CallerOK'
<1>1. NewKey(0) \in KeyRows
  BY NewKeyType DEF KeyInv, RowsOK
<1> QED
  BY <1>1 DEF KeyInv, RowsOK, CallerOK, Forget, Stages, Statuses

(* The steps of a request up to its record leave the keys alone.           *)
LEMMA RequestKeeps ==
    ASSUME KeyInv, NEW r \in Requests,
           \/ \E b \in Buckets : Arrive(r, b)
           \/ Authenticate(r) \/ Drop(r) \/ Complete(r) \/ StartBody(r)
           \/ EndBody(r) \/ LeaveBody(r) \/ BeginPersist(r) \/ LosePersist(r)
    PROVE  KeyInv'
<1> USE DEF KeyInv, RowsOK, BarredOK, tableVars, ownVars, histories
<1>1. CASE \E b \in Buckets : Arrive(r, b)
  BY <1>1 DEF Arrive, CallerOK, Stages
<1>2. CASE Authenticate(r)
  <2>1. PICK k \in keys : caller' = [caller EXCEPT ![r] = k]
    BY <1>2 DEF Authenticate
  <2> QED
    BY <1>2, <2>1 DEF Authenticate, CallerOK, Stages
<1>3. CASE Drop(r)
  BY <1>3, ForgetKeeps DEF Drop
<1>4. CASE Complete(r)
  <2>1. PICK s \in {"success", "error"} : status' = [status EXCEPT ![r] = s]
    BY <1>4 DEF Complete
  <2> QED
    BY <1>4, <2>1 DEF Complete, CallerOK, Stages, Statuses
<1>5. CASE StartBody(r)
  BY <1>5 DEF StartBody, CallerOK, Stages
<1>6. CASE EndBody(r)
  <2>1. PICK s \in Statuses : status' = [status EXCEPT ![r] = s]
    BY <1>6 DEF EndBody
  <2> QED
    BY <1>6, <2>1 DEF EndBody, CallerOK, Stages
<1>7. CASE LeaveBody(r)
  BY <1>7, ForgetKeeps DEF LeaveBody
<1>8. CASE BeginPersist(r)
  <2>1. key[caller[r]] \in KeyRows
    BY <1>8 DEF BeginPersist, CallerOK
  <2> QED
    BY <1>8, <2>1 DEF BeginPersist, CallerOK, Stages
<1>9. CASE LosePersist(r)
  BY <1>9, ForgetKeeps DEF LosePersist
<1> QED
  BY <1>1, <1>2, <1>3, <1>4, <1>5, <1>6, <1>7, <1>8, <1>9

(* A commit writes the counters of a key, and no more of it.               *)
LEMMA CommitKeeps ==
    ASSUME KeyInv, NEW r \in Requests, CommitPersist(r)
    PROVE  KeyInv'
<1> DEFINE k == caller[r]
           c == Counted(key[k], tally[r], status[r])
<1>1. UNCHANGED <<now, keys, barred>> /\ Forget(r)
  BY DEF CommitPersist, histories
<1>2. key' = IF k \in keys THEN [key EXCEPT ![k] = c] ELSE key
  BY DEF CommitPersist
<1>3. ASSUME k \in keys
      PROVE  c \in KeyRows /\ c.revoked = key[k].revoked
  BY <1>3, CountedType, CountedKeepsRevoked DEF KeyInv, RowsOK
<1>4. key' \in [Keys -> KeyRows]
  BY <1>2, <1>3 DEF KeyInv, RowsOK
<1>5. \A l \in keys : key'[l].revoked = key[l].revoked
  BY <1>2, <1>3 DEF KeyInv, RowsOK
<1> QED
  BY <1>1, <1>4, <1>5, ForgetKeeps DEF KeyInv, RowsOK, BarredOK

(* The operator, whatever is edited.                                       *)
LEMMA OperatorKeeps ==
    ASSUME KeyInv, LedgerAssumption, NEW k \in Keys,
           \/ \E b \in BOOLEAN : SetEnabled(k, b)
           \/ Revoke(k) \/ Delete(k) \/ Create(k)
    PROVE  KeyInv'
<1> USE DEF KeyInv, RowsOK, CallerOK, BarredOK, ownVars, histories
<1>1. CASE \E b \in BOOLEAN : SetEnabled(k, b)
  <2>1. PICK b \in BOOLEAN : SetEnabled(k, b)
    BY <1>1
  <2>2. key' = [key EXCEPT ![k] = [key[k] EXCEPT !.enabled = b]]
    BY <2>1 DEF SetEnabled
  <2> QED
    BY <2>1, <2>2, EnabledType DEF SetEnabled
<1>2. CASE Revoke(k)
  BY <1>2, RevokedType DEF Revoke
<1>3. CASE Delete(k)
  BY <1>3 DEF Delete
<1>4. CASE Create(k)
  <2>1. PICK days \in Lifetimes : key' = [key EXCEPT ![k] = NewKey(days)]
    BY <1>4 DEF Create
  <2>2. NewKey(days) \in KeyRows
    BY NewKeyType DEF LedgerAssumption
  <2> QED
    BY <1>4, <2>1, <2>2 DEF Create
<1> QED
  BY <1>1, <1>2, <1>3, <1>4

LEMMA KeyStep == KeyInv /\ [Next]_vars => KeyInv'
<1> SUFFICES ASSUME KeyInv, [Next]_vars PROVE KeyInv'
  OBVIOUS
<1> USE LedgerAssumption
<1>1. CASE \E r \in Requests : CommitPersist(r)
  BY <1>1, CommitKeeps
<1>2. CASE \E r \in Requests :
              \/ \E b \in Buckets : Arrive(r, b)
              \/ Authenticate(r) \/ Drop(r) \/ Complete(r) \/ StartBody(r)
              \/ EndBody(r) \/ LeaveBody(r) \/ BeginPersist(r) \/ LosePersist(r)
  BY <1>2, RequestKeeps
<1>3. CASE \E k \in Keys :
              \/ \E b \in BOOLEAN : SetEnabled(k, b)
              \/ Revoke(k) \/ Delete(k) \/ Create(k)
  BY <1>3, OperatorKeeps
<1>4. CASE (\E b \in Buckets : Refuse(b)) \/ Purge \/ UNCHANGED vars
  BY <1>4 DEF Refuse, Purge, vars, tableVars, ownVars, histories,
              KeyInv, RowsOK, CallerOK, BarredOK
<1>5. CASE Clock
  BY <1>5 DEF Clock, Elapse, tableVars, ownVars, histories,
              KeyInv, RowsOK, CallerOK, BarredOK
<1>6. CASE Restart
  <2>1. NewKey(0) \in KeyRows
    BY NewKeyType DEF KeyInv, RowsOK
  <2> QED
    BY <1>6, <2>1 DEF Restart, tableVars, histories, Stages, Statuses,
                      KeyInv, RowsOK, CallerOK, BarredOK
<1> QED
  BY <1>1, <1>2, <1>3, <1>4, <1>5, <1>6 DEF Next

THEOREM KeysHold == Spec => []KeyInv
BY KeyInit, KeyStep, PTL DEF Spec

(* A revoked key is never accepted again, whatever the operator sets on it *)
(* and whichever requests are recorded on it (api_key_service.py:50-82,    *)
(* api_key.py:57-62).                                                      *)
THEOREM RevocationHolds == Spec => []RevocationIsFinal
<1>1. KeyInv => RevocationIsFinal
  BY DEF KeyInv, BarredOK, RevocationIsFinal, Accepts
<1> QED
  BY <1>1, KeysHold, PTL

-----------------------------------------------------------------------------
(* The bodies being sent.                                                  *)

Sending == {r \in Requests : at[r] = "stream"}

StreamInv == at \in [Requests -> Stages] /\ streams = Cardinality(Sending)

(* A request that does not begin or end its body leaves the count alone.   *)
LEMMA SameSending ==
    ASSUME StreamInv, NEW r \in Requests, NEW a \in Stages \ {"stream"},
           at[r] # "stream", at' = [at EXCEPT ![r] = a], UNCHANGED streams
    PROVE  StreamInv'
<1>1. Sending' = Sending
  BY DEF Sending, StreamInv
<1> QED
  BY <1>1 DEF StreamInv

LEMMA BodyBegins ==
    ASSUME StreamInv, LedgerAssumption, NEW r \in Requests, at[r] # "stream",
           at' = [at EXCEPT ![r] = "stream"], streams' = streams + 1
    PROVE  StreamInv'
<1>1. Sending' = Sending \union {r} /\ r \notin Sending
  BY DEF Sending, StreamInv
<1>2. IsFiniteSet(Sending)
  BY FS_Subset DEF Sending, LedgerAssumption
<1>3. Cardinality(Sending') = Cardinality(Sending) + 1
  BY <1>1, <1>2, FS_AddElement
<1> QED
  BY <1>3 DEF StreamInv, Stages

(* The sender itself keeps the count above zero, so that the max of        *)
(* stream_finished never takes effect.                                     *)
LEMMA BodyEnds ==
    ASSUME StreamInv, LedgerAssumption, NEW r \in Requests, at[r] = "stream",
           NEW a \in Stages \ {"stream"}, at' = [at EXCEPT ![r] = a], StreamFinished
    PROVE  StreamInv'
<1>1. Sending' = Sending \ {r} /\ r \in Sending
  BY DEF Sending, StreamInv
<1>2. IsFiniteSet(Sending) /\ Cardinality(Sending) \in Nat
  BY FS_Subset, FS_CardinalityType DEF Sending, LedgerAssumption
<1>3. Cardinality(Sending') = Cardinality(Sending) - 1
  BY <1>1, <1>2, FS_RemoveElement
<1>4. Cardinality(Sending) > 0
  BY <1>1, <1>2, FS_EmptySet
<1> QED
  BY <1>2, <1>3, <1>4 DEF StreamInv, StreamFinished

LEMMA StreamInit == Init => StreamInv
<1> SUFFICES ASSUME Init PROVE StreamInv
  OBVIOUS
<1>1. Sending = {}
  BY DEF Init, Sending
<1> QED
  BY <1>1, FS_EmptySet DEF Init, StreamInv, Stages

LEMMA StreamStep == StreamInv /\ [Next]_vars => StreamInv'
<1> SUFFICES ASSUME StreamInv, [Next]_vars PROVE StreamInv'
  OBVIOUS
<1> USE LedgerAssumption
<1>1. ASSUME NEW r \in Requests, StartBody(r) PROVE StreamInv'
  BY <1>1, BodyBegins DEF StartBody
<1>2. ASSUME NEW r \in Requests, EndBody(r) \/ LeaveBody(r) PROVE StreamInv'
  BY <1>2, BodyEnds DEF EndBody, LeaveBody, Forget, Stages
<1>3. ASSUME NEW r \in Requests,
             \/ \E b \in Buckets : Arrive(r, b)
             \/ Authenticate(r) \/ Complete(r) \/ BeginPersist(r)
      PROVE  StreamInv'
  BY <1>3, SameSending DEF Arrive, Authenticate, Complete, BeginPersist, Stages
<1>4. ASSUME NEW r \in Requests, Drop(r) \/ CommitPersist(r) \/ LosePersist(r)
      PROVE  StreamInv'
  BY <1>4, SameSending DEF Drop, CommitPersist, LosePersist, Forget, Stages
<1>5. CASE \/ \E b \in Buckets : Refuse(b)
           \/ \E k \in Keys : \/ \E b \in BOOLEAN : SetEnabled(k, b)
                              \/ Revoke(k) \/ Delete(k) \/ Create(k)
           \/ Purge \/ Clock \/ UNCHANGED vars
  <2>1. UNCHANGED <<at, streams>>
    BY <1>5 DEF Refuse, SetEnabled, Revoke, Delete, Create, Purge, Clock, vars, ownVars
  <2> QED
    BY <2>1 DEF StreamInv, Sending
<1>6. CASE Restart
  <2>1. Sending' = {} /\ streams' = 0 /\ at' \in [Requests -> Stages]
    BY <1>6 DEF Restart, Sending, Stages
  <2> QED
    BY <2>1, FS_EmptySet DEF StreamInv
<1> QED
  BY <1>1, <1>2, <1>3, <1>4, <1>5, <1>6 DEF Next

(* active_streams is the number of bodies being sent, for any number of    *)
(* requests and however their bodies end (public.py:158-182).              *)
THEOREM StreamsHold == Spec => []StreamsAreCounted
<1>1. StreamInv => StreamsAreCounted
  BY DEF StreamInv, Sending, StreamsAreCounted
<1> QED
  BY <1>1, StreamInit, StreamStep, PTL DEF Spec
-----------------------------------------------------------------------------
(* The deques of the limiter and the histories of what it let through.     *)

(* What Within returns: the times from the first that is not too old on.   *)
LEMMA WithinIs ==
    ASSUME NEW A \in SUBSET Nat, NEW s \in Seq(A), NEW time \in Nat, NEW span \in Nat
    PROVE  /\ Within(s, time, span) \in Seq(A)
           /\ \E p \in 0 .. Len(s) :
                 /\ Len(Within(s, time, span)) = Len(s) - p
                 /\ \A i \in 1 .. Len(s) - p : Within(s, time, span)[i] = s[p + i]
                 /\ \A i \in 1 .. p : time - s[i] > span
                 /\ p < Len(s) => time - s[p + 1] <= span
<1> DEFINE Stops(n) == n < Len(s) => time - s[n + 1] <= span
           Pops(n) == (\A i \in 1 .. n : time - s[i] > span) /\ Stops(n)
           T == {n \in 0 .. Len(s) : Stops(n)}
           p == CHOOSE n \in 0 .. Len(s) : Pops(n)
<1>1. Len(s) \in Nat /\ \A i \in 1 .. Len(s) : s[i] \in A
  BY LenProperties, ElementOfSeq
<1>2. PICK m \in T : \A n \in T : m <= n
  <2>1. T \in SUBSET Nat /\ Len(s) \in T
    BY <1>1
  <2> HIDE DEF T
  <2> QED BY <2>1, LeastNatural
<1>3. Pops(m)
  <2>1. ASSUME NEW i \in 1 .. m PROVE time - s[i] > span
    <3>1. i - 1 \in 0 .. Len(s) /\ ~(m <= i - 1) /\ (i - 1) + 1 = i
      BY <1>1, <1>2, <2>1
    <3>2. ~Stops(i - 1)
      <4> HIDE DEF Stops
      <4> QED BY <1>2, <3>1
    <3>3. i \in 1 .. Len(s)
      BY <1>1, <1>2, <2>1
    <3>4. s[i] \in Nat
      BY <1>1, <3>3
    <3> QED BY <3>1, <3>2, <3>4
  <2> QED BY <1>2, <2>1
<1>4. p \in 0 .. Len(s) /\ Pops(p)
  <2> HIDE DEF Pops
  <2> QED BY <1>2, <1>3
<1>5. Within(s, time, span) = SubSeq(s, p + 1, Len(s))
  BY DEF Within
<1> HIDE DEF p
<1>6. \A i \in p + 1 .. Len(s) : s[i] \in A
  BY <1>1, <1>4
<1>7. /\ SubSeq(s, p + 1, Len(s)) \in Seq(A)
      /\ Len(SubSeq(s, p + 1, Len(s))) =
            IF p + 1 <= Len(s) THEN Len(s) - (p + 1) + 1 ELSE 0
      /\ \A i \in 1 .. Len(s) - (p + 1) + 1 :
            SubSeq(s, p + 1, Len(s))[i] = s[(p + 1) + i - 1]
  <2>1. p + 1 \in Int /\ Len(s) \in Int
    BY <1>1, <1>4
  <2> QED BY <1>6, <2>1, SubSeqProperties
<1>8. Len(SubSeq(s, p + 1, Len(s))) = Len(s) - p
  BY <1>1, <1>4, <1>7
<1>9. ASSUME NEW i \in 1 .. Len(s) - p PROVE SubSeq(s, p + 1, Len(s))[i] = s[p + i]
  <2>1. i \in 1 .. Len(s) - (p + 1) + 1 /\ (p + 1) + i - 1 = p + i
    BY <1>1, <1>4, <1>9
  <2> QED BY <1>7, <2>1
<1> QED
  BY <1>4, <1>5, <1>7, <1>8, <1>9

(* As many hits of a deque as are still in the history of its bucket: they *)
(* came after the last clear.                                              *)
Era(b) ==
    IF b \notin DOMAIN hits THEN 0
    ELSE IF Len(hits[b]) <= Len(admitted[b]) THEN Len(hits[b]) ELSE Len(admitted[b])

(* The history is in order of time and lies in the window.                 *)
InOrder(b) ==
    \A i \in 1 .. Len(admitted[b]) :
       /\ now - admitted[b][i] \in 0 .. Window
       /\ \A j \in i .. Len(admitted[b]) : admitted[b][i] <= admitted[b][j]

(* A deque and its history end alike; what a deque has more is too old.    *)
SameEnd(b) ==
    LET h == Len(hits[b])
        a == Len(admitted[b])
    IN \A i \in 0 .. h - 1 :
          IF i < a THEN hits[b][h - i] = admitted[b][a - i]
                   ELSE now - hits[b][h - i] > Window

(* What was let through before the last clear is at most one limit for     *)
(* each clear, and so is what of it came after any of the clears.          *)
Spread(b) ==
    LET n == Len(admitted[b]) - Era(b)
        k == Len(clears)
    IN /\ n <= Limits[b] * k
       /\ \A j \in 1 .. k, i \in 1 .. n :
             admitted[b][i] > clears[j] => n - i + 1 <= Limits[b] * (k - j)

DequeOK(b) == Limits[b] > 0 /\ Len(hits[b]) <= Limits[b] /\ SameEnd(b)

WindowInv ==
    /\ \A b \in Buckets : InOrder(b) /\ (Limits[b] > 0 => Spread(b))
    /\ \A b \in DOMAIN hits : DequeOK(b)

LimiterInv == LimiterTypeOK /\ WindowInv

LEMMA TimesAre ==
    ASSUME NEW s \in Times
    PROVE  /\ Len(s) \in Nat
           /\ \A i \in 1 .. Len(s) : s[i] \in Nat /\ s[i] \in 0 .. MaxTime
<1>1. Len(s) \in Nat /\ \A i \in 1 .. Len(s) : s[i] \in 0 .. MaxTime
  BY LenProperties, ElementOfSeq DEF Times
<1> QED
  BY <1>1

LEMMA LimiterInits == LimiterInit /\ LimiterAssumption => LimiterInv
<1> SUFFICES ASSUME LimiterInit, LimiterAssumption PROVE LimiterInv
  OBVIOUS
<1>1. << >> \in Times /\ Len(<< >>) = 0
  BY EmptySeq DEF Times
<1>2. DOMAIN hits = {}
  BY DEF LimiterInit
<1>3. LimiterTypeOK
  BY <1>1, <1>2, FS_EmptySet DEF LimiterInit, LimiterTypeOK, LimiterAssumption
<1>4. ASSUME NEW b \in Buckets PROVE Len(admitted[b]) = 0 /\ Era(b) = 0
  BY <1>1, <1>2 DEF LimiterInit, Era
<1>5. ASSUME NEW b \in Buckets PROVE InOrder(b) /\ (Limits[b] > 0 => Spread(b))
  <2>1. Len(clears) = 0 /\ Limits[b] * 0 = 0
    BY <1>1 DEF LimiterInit, LimiterAssumption
  <2> QED BY <1>4, <2>1 DEF InOrder, Spread
<1> QED
  BY <1>2, <1>3, <1>5 DEF LimiterInv, WindowInv

(* The deque a request meets, once the old hits are gone: the end of its   *)
(* history.                                                                *)
LEMMA CurrentIs ==
    ASSUME LimiterAssumption, LimiterInv, NEW b \in Buckets
    PROVE  /\ Current(b) \in Times
           /\ Len(Current(b)) = Era(b)
           /\ Era(b) \in 0 .. Len(admitted[b])
           /\ \A i \in 0 .. Era(b) - 1 :
                 Current(b)[Era(b) - i] = admitted[b][Len(admitted[b]) - i]
<1> DEFINE h == Len(hits[b])
           a == Len(admitted[b])
<1>1. admitted[b] \in Times /\ a \in Nat
  BY TimesAre DEF LimiterInv, LimiterTypeOK
<1>2. CASE b \notin DOMAIN hits
  <2>1. Current(b) = << >> /\ Era(b) = 0
    BY <1>2 DEF Current, Era
  <2> QED BY <1>1, <2>1, EmptySeq DEF Times
<1>3. CASE b \in DOMAIN hits
  <2>1. hits[b] \in Times /\ h \in Nat /\ \A i \in 1 .. h : hits[b][i] \in Nat
    BY <1>3, TimesAre DEF LimiterInv, LimiterTypeOK
  <2>2. now \in Nat /\ Window \in Nat /\ (0 .. MaxTime) \in SUBSET Nat
    BY DEF LimiterInv, LimiterTypeOK, LimiterAssumption
  <2>3. Current(b) = Within(hits[b], now, Window)
    BY <1>3 DEF Current, Recent
  <2>4. Current(b) \in Times
    BY <2>1, <2>2, <2>3, WithinIs DEF Times
  <2>5. PICK p \in 0 .. h :
             /\ Len(Current(b)) = h - p
             /\ \A i \in 1 .. h - p : Current(b)[i] = hits[b][p + i]
             /\ \A i \in 1 .. p : now - hits[b][i] > Window
             /\ p < h => now - hits[b][p + 1] <= Window
    <3> HIDE DEF h, a
    <3>1. hits[b] \in Seq(0 .. MaxTime)
      BY <2>1 DEF Times
    <3>2. \E p \in 0 .. Len(hits[b]) :
             /\ Len(Within(hits[b], now, Window)) = Len(hits[b]) - p
             /\ \A i \in 1 .. Len(hits[b]) - p :
                   Within(hits[b], now, Window)[i] = hits[b][p + i]
             /\ \A i \in 1 .. p : now - hits[b][i] > Window
             /\ p < Len(hits[b]) => now - hits[b][p + 1] <= Window
      BY <2>2, <3>1, WithinIs
    <3> QED BY <2>3, <3>2 DEF h
  <2>6. \A i \in 0 .. h - 1 :
           IF i < a THEN hits[b][h - i] = admitted[b][a - i]
                    ELSE now - hits[b][h - i] > Window
    BY <1>3 DEF LimiterInv, WindowInv, DequeOK, SameEnd
  <2>7. \A i \in 1 .. a : now - admitted[b][i] <= Window
    BY <2>2 DEF LimiterInv, WindowInv, InOrder
  <2>8. Era(b) = IF h <= a THEN h ELSE a
    BY <1>3 DEF Era
  <2> HIDE DEF h, a
  <2>9. p = h - Era(b)
    <3>1. CASE h <= a
      <4>1. ASSUME p # 0 PROVE FALSE
        <5>1. h - 1 \in 0 .. h - 1 /\ h - 1 < a /\ h - (h - 1) = 1 /\ 1 \in 1 .. p
          BY <1>1, <2>1, <2>5, <3>1, <4>1
        <5>2. hits[b][1] = admitted[b][a - (h - 1)] /\ a - (h - 1) \in 1 .. a
          BY <1>1, <2>1, <2>6, <3>1, <5>1
        <5>3. now - hits[b][1] > Window /\ now - hits[b][1] <= Window /\ hits[b][1] \in Nat
          BY <2>1, <2>5, <2>7, <5>1, <5>2
        <5> QED BY <2>2, <5>3
      <4> QED BY <2>1, <2>8, <3>1, <4>1
    <3>2. CASE a < h
      <4>1. ASSUME p < h - a PROVE FALSE
        <5>1. h - (p + 1) \in 0 .. h - 1 /\ ~(h - (p + 1) < a) /\ h - (h - (p + 1)) = p + 1
          BY <1>1, <2>1, <3>2, <4>1
        <5>2. now - hits[b][p + 1] > Window
          BY <2>6, <5>1
        <5>3. p < h /\ p + 1 \in 1 .. h
          BY <1>1, <2>1, <3>2, <4>1
        <5> PICK u : u = hits[b][p + 1]
          OBVIOUS
        <5>4. u \in Nat /\ now - u > Window /\ now - u <= Window
          BY <2>1, <2>5, <5>2, <5>3
        <5> QED BY <2>2, <5>4
      <4>2. ASSUME p > h - a PROVE FALSE
        <5>1. a - 1 \in 0 .. h - 1 /\ a - 1 < a /\ h - (a - 1) = h - a + 1 /\ a - (a - 1) = 1
          BY <1>1, <2>1, <2>5, <3>2, <4>2
        <5>2. hits[b][h - a + 1] = admitted[b][1] /\ 1 \in 1 .. a
          BY <1>1, <2>1, <2>6, <5>1
        <5>3. h - a + 1 \in 1 .. p /\ h - a + 1 \in 1 .. h
          BY <1>1, <2>1, <3>2, <4>2
        <5>4. hits[b][h - a + 1] \in Nat /\ now - hits[b][h - a + 1] > Window
          BY <2>1, <2>5, <5>3
        <5>5. now - hits[b][h - a + 1] <= Window
          BY <2>7, <5>2
        <5> QED BY <2>2, <5>4, <5>5
      <4> QED BY <1>1, <2>1, <2>8, <3>2, <4>1, <4>2
    <3> QED BY <1>1, <2>1, <3>1, <3>2
  <2>10. Era(b) \in 0 .. a /\ Era(b) <= h /\ Len(Current(b)) = Era(b)
    BY <1>1, <2>1, <2>5, <2>8, <2>9
  <2>11. ASSUME NEW i \in 0 .. Era(b) - 1
         PROVE  Current(b)[Era(b) - i] = admitted[b][a - i]
    <3> DEFINE e == Era(b)
    <3>1. e - i \in 1 .. h - p /\ p + (e - i) = h - i
      <4>1. h \in Nat /\ e \in Nat /\ e <= h /\ p = h - e /\ i \in 0 .. e - 1
        BY <1>1, <2>1, <2>9, <2>10
      <4> HIDE DEF e
      <4> QED BY <4>1
    <3>2. i \in 0 .. h - 1 /\ i < a
      BY <1>1, <2>1, <2>10
    <3> QED BY <2>5, <2>6, <3>1, <3>2
  <2> QED BY <2>4, <2>10, <2>11 DEF a
<1> QED
  BY <1>2, <1>3

(* A bucket that a step does not concern.                                  *)
LEMMA OthersKeep ==
    ASSUME LimiterInv, NEW x \in Buckets, now' = now, clears' = clears,
           admitted'[x] = admitted[x], x \in DOMAIN hits' <=> x \in DOMAIN hits,
           x \in DOMAIN hits => hits'[x] = hits[x]
    PROVE  /\ InOrder(x)' /\ (Limits[x] > 0 => Spread(x)')
           /\ x \in DOMAIN hits' => DequeOK(x)'
<1>1. /\ InOrder(x) /\ (Limits[x] > 0 => Spread(x))
      /\ x \in DOMAIN hits => DequeOK(x)
  BY DEF LimiterInv, WindowInv
<1>2. InOrder(x)'
  BY <1>1 DEF InOrder
<1>3. Era(x)' = Era(x)
  BY DEF Era
<1>4. Limits[x] > 0 => Spread(x)'
  BY <1>1, <1>3 DEF Spread
<1>5. x \in DOMAIN hits' => DequeOK(x)'
  BY <1>1 DEF DequeOK, SameEnd
<1> QED
  BY <1>2, <1>4, <1>5

LEMMA Multiples ==
    ASSUME NEW n \in Nat, NEW q \in Nat
    PROVE  n * q \in Nat /\ n * (q + 1) = n * q + n /\ n <= n * (q + 1)
OBVIOUS

(* A deque that loses its old hits only.                                   *)
LEMMA TurnAwayKeeps ==
    ASSUME LimiterAssumption, LimiterInv, NEW b \in Buckets, TurnAway(b), now' = now
    PROVE  LimiterInv'
<1> DEFINE a == Len(admitted[b])
           e == Era(b)
<1>1. a \in Nat /\ Limits[b] \in Nat
  BY TimesAre DEF LimiterInv, LimiterTypeOK, LimiterAssumption
<1>2. /\ Current(b) \in Times /\ Len(Current(b)) = e /\ e \in 0 .. a
      /\ \A i \in 0 .. e - 1 : Current(b)[e - i] = admitted[b][a - i]
  BY CurrentIs
<1>3. /\ Limits[b] > 0 /\ e >= Limits[b]
      /\ hits' = With(b, Current(b)) /\ UNCHANGED <<admitted, clears>>
  BY <1>2 DEF TurnAway, Full
<1>4. b \in DOMAIN hits
  BY <1>1, <1>3 DEF Era
<1>5. DOMAIN hits' = DOMAIN hits /\ hits'[b] = Current(b)
  BY <1>3, <1>4 DEF With
<1>6. \A x \in DOMAIN hits : x # b => hits'[x] = hits[x]
  BY <1>3 DEF With
<1>7. LimiterTypeOK'
  BY <1>2, <1>3, <1>5, <1>6 DEF LimiterTypeOK, LimiterInv
<1>8. ASSUME NEW x \in Buckets, x # b
      PROVE  /\ InOrder(x)' /\ (Limits[x] > 0 => Spread(x)')
             /\ x \in DOMAIN hits' => DequeOK(x)'
  BY <1>3, <1>5, <1>6, <1>8, OthersKeep
<1>9. DequeOK(b) /\ InOrder(b) /\ Spread(b)
  BY <1>3, <1>4 DEF LimiterInv, WindowInv
<1>10. Era(b)' = e
  BY <1>1, <1>2, <1>3, <1>4, <1>5 DEF Era
<1>11. InOrder(b)' /\ Spread(b)'
  BY <1>3, <1>9, <1>10 DEF InOrder, Spread
<1>12. e <= Limits[b]
  BY <1>1, <1>2, <1>4, <1>9, TimesAre DEF DequeOK, Era, LimiterInv, LimiterTypeOK
<1>13. SameEnd(b)'
  <2>1. Len(hits'[b]) = e /\ Len(admitted'[b]) = a
    BY <1>2, <1>3, <1>5
  <2>2. \A i \in 0 .. e - 1 : i < a /\ hits'[b][e - i] = admitted'[b][a - i]
    BY <1>1, <1>2, <1>3, <1>5
  <2> HIDE DEF a, e
  <2> QED BY <2>1, <2>2 DEF SameEnd
<1>14. DequeOK(b)'
  BY <1>2, <1>3, <1>5, <1>12, <1>13 DEF DequeOK
<1>15. WindowInv'
  BY <1>5, <1>8, <1>11, <1>14 DEF WindowInv, LimiterInv, LimiterTypeOK
<1> QED
  BY <1>1, <1>2, <1>3, <1>7, <1>15 DEF LimiterInv

(* All the deques are dropped: what was let through since the last time is *)
(* at most one limit more.                                                 *)
LEMMA ClearSpreads ==
    ASSUME LimiterAssumption, LimiterInv, NEW x \in Buckets, Limits[x] > 0,
           DOMAIN hits' = {}, clears' = Append(clears, now), now' = now,
           InOrder(x)', admitted'[x] \in Times,
           Len(admitted'[x]) <= Len(admitted[x]) - Era(x) + Limits[x],
           \A i \in 1 .. Len(admitted[x]) - Era(x) : admitted'[x][i] = admitted[x][i]
    PROVE  Spread(x)'
<1> DEFINE L == Limits[x]
           n == Len(admitted[x]) - Era(x)
           n1 == Len(admitted'[x])
           k == Len(clears)
<1>1. Spread(x)
  BY DEF LimiterInv, WindowInv
<1>2. L \in Nat /\ n \in Nat /\ n1 \in Nat /\ now \in Nat /\ now \in 0 .. MaxTime
  <2>1. L \in Nat /\ now \in Nat /\ now \in 0 .. MaxTime /\ admitted[x] \in Times
    BY DEF LimiterInv, LimiterTypeOK, LimiterAssumption
  <2>2. n1 \in Nat /\ Len(admitted[x]) \in Nat
    BY <2>1, TimesAre
  <2>3. Era(x) \in 0 .. Len(admitted[x])
    BY CurrentIs
  <2>4. n \in Nat
    BY <2>2, <2>3
  <2> QED BY <2>1, <2>2, <2>4
<1>3. clears \in Seq(0 .. MaxTime) /\ k \in Nat /\ \A j \in 1 .. k : clears[j] \in Nat
  BY TimesAre DEF LimiterInv, LimiterTypeOK, Times
<1>4. Len(clears') = k + 1 /\ clears'[k + 1] = now /\ \A j \in 1 .. k : clears'[j] = clears[j]
  BY <1>2, <1>3, AppendProperties
<1>5. Era(x)' = 0
  BY DEF Era
<1>6. \A i \in 1 .. n1 : admitted'[x][i] \in Nat /\ admitted'[x][i] <= now
  <2> SUFFICES ASSUME NEW i \in 1 .. n1
               PROVE  admitted'[x][i] \in Nat /\ admitted'[x][i] <= now
    OBVIOUS
  <2>1. PICK y : y = admitted'[x][i]
    OBVIOUS
  <2>2. y \in Nat
    BY <2>1, TimesAre
  <2>3. now - y \in 0 .. Window
    BY <2>1 DEF InOrder
  <2>4. y <= now
    BY <1>2, <2>2, <2>3
  <2> QED BY <2>1, <2>2, <2>4
<1>7. \A i \in 1 .. n : admitted'[x][i] = admitted[x][i]
  OBVIOUS
<1>8. /\ n <= L * k
      /\ \A j \in 1 .. k, i \in 1 .. n :
            admitted[x][i] > clears[j] => n - i + 1 <= L * (k - j)
  BY <1>1 DEF Spread
<1>9. n1 <= n + L
  OBVIOUS
<1> HIDE DEF L, n, n1, k
<1>10. n1 <= L * (k + 1)
  <2>1. L * (k + 1) = L * k + L /\ L * k \in Nat
    BY <1>2, <1>3, Multiples
  <2> QED BY <1>2, <1>8, <1>9, <2>1
<1>11. ASSUME NEW j \in 1 .. k + 1, NEW i \in 1 .. n1, admitted'[x][i] > clears'[j]
       PROVE  n1 - i + 1 <= L * ((k + 1) - j)
  <2>1. j \in 1 .. k
    <3>1. j # k + 1
      BY <1>2, <1>4, <1>6, <1>11
    <3> QED BY <1>3, <3>1
  <2>0. PICK q, y : q = k - j /\ y = n1 - i + 1
    OBVIOUS
  <2>2. q \in Nat /\ (k + 1) - j = q + 1
    BY <1>3, <2>0, <2>1
  <2>3. L * (q + 1) = L * q + L /\ L * q \in Nat /\ L <= L * (q + 1)
    BY <1>2, <2>2, Multiples
  <2>4. CASE i \in 1 .. n
    <3>1. admitted[x][i] > clears[j]
      BY <1>4, <1>7, <1>11, <2>1, <2>4
    <3>2. n - i + 1 <= L * q
      BY <1>8, <2>0, <2>1, <2>4, <3>1
    <3>3. PICK u, v : u = L * q /\ v = L * (q + 1)
      OBVIOUS
    <3>4. n - i + 1 <= u /\ v = u + L /\ u \in Nat
      BY <2>3, <3>2, <3>3
    <3>5. n1 - i + 1 <= v
      <4>1. n \in Nat /\ n1 \in Nat /\ L \in Nat /\ i \in Nat
        BY <1>2, <2>4
      <4>2. n1 - i <= (n - i) + L
        BY <1>9, <4>1
      <4>3. (n - i) + 1 <= u
        BY <3>4, <4>1
      <4> QED BY <3>4, <4>1, <4>2, <4>3
    <3> QED BY <2>2, <3>3, <3>5
  <2>5. CASE ~(i \in 1 .. n)
    <3>1. y <= L /\ y \in Int
      BY <1>2, <1>9, <2>0, <2>5
    <3>2. PICK v : v = L * (q + 1)
      OBVIOUS
    <3>3. v \in Nat /\ L <= v
      <4>1. PICK u : u = L * q
        OBVIOUS
      <4>2. u \in Nat /\ v = u + L /\ L <= v
        BY <2>3, <3>2, <4>1
      <4>3. L \in Nat
        BY <1>2
      <4> QED BY <4>2, <4>3
    <3>4. y <= v
      BY <1>2, <3>1, <3>3
    <3> QED BY <2>0, <2>2, <3>2, <3>4
  <2> QED BY <2>4, <2>5
<1>12. Len(admitted'[x]) - Era(x)' = n1 /\ Len(clears') = k + 1
  <2>1. n1 - 0 = n1 /\ n1 = Len(admitted'[x])
    BY <1>2 DEF n1
  <2> QED BY <1>4, <1>5, <2>1
<1> QED
  BY <1>10, <1>11, <1>12 DEF Spread, L

LEMMA ForgetHitsKeeps ==
    ASSUME LimiterAssumption, LimiterInv, ForgetHits, now' = now
    PROVE  LimiterInv'
<1>1. DOMAIN hits' = {} /\ hits' = << >> /\ admitted' = admitted /\ clears' = Append(clears, now)
  BY DEF ForgetHits
<1>2. clears' \in Times
  BY <1>1, AppendProperties DEF LimiterInv, LimiterTypeOK, Times
<1>3. LimiterTypeOK'
  BY <1>1, <1>2, FS_EmptySet DEF LimiterInv, LimiterTypeOK, LimiterAssumption
<1>4. ASSUME NEW x \in Buckets PROVE InOrder(x)'
  BY <1>1 DEF InOrder, LimiterInv, WindowInv
<1>5. ASSUME NEW x \in Buckets, Limits[x] > 0 PROVE Spread(x)'
  <2>1. Len(admitted[x]) \in Nat /\ Era(x) \in 0 .. Len(admitted[x]) /\ Era(x) <= Limits[x]
    <3>1. Len(admitted[x]) \in Nat /\ Era(x) \in 0 .. Len(admitted[x])
      BY CurrentIs, TimesAre DEF LimiterInv, LimiterTypeOK
    <3>2. Limits[x] \in Nat
      BY DEF LimiterAssumption
    <3>3. x \in DOMAIN hits => Len(hits[x]) \in Nat /\ Len(hits[x]) <= Limits[x]
      BY TimesAre DEF LimiterInv, LimiterTypeOK, WindowInv, DequeOK
    <3> QED BY <3>1, <3>2, <3>3 DEF Era
  <2>2. Limits[x] \in Nat /\ admitted'[x] = admitted[x] /\ admitted'[x] \in Times
    BY <1>1 DEF LimiterAssumption, LimiterInv, LimiterTypeOK
  <2>3. Len(admitted'[x]) <= Len(admitted[x]) - Era(x) + Limits[x]
    BY <2>1, <2>2
  <2> QED BY <1>1, <1>4, <1>5, <2>2, <2>3, ClearSpreads
<1> QED
  BY <1>1, <1>3, <1>4, <1>5 DEF LimiterInv, WindowInv

(* A request that is let through, its deque kept or dropped with the rest. *)
LEMMA AdmitKeeps ==
    ASSUME LimiterAssumption, LimiterInv, NEW b \in Buckets, Admit(b), now' = now
    PROVE  LimiterInv'
<1> DEFINE a == Len(admitted[b])
           e == Era(b)
           grown == With(b, Append(Current(b), now))
<1>1. CASE Limits[b] = 0
  <2>1. UNCHANGED <<hits, admitted, clears>>
    BY <1>1 DEF Admit, limiterVars
  <2>2. LimiterTypeOK'
    BY <2>1 DEF LimiterInv, LimiterTypeOK
  <2>3. DOMAIN hits' = DOMAIN hits /\ DOMAIN hits \subseteq Buckets
    BY <2>1 DEF LimiterInv, LimiterTypeOK
  <2> QED BY <2>1, <2>2, <2>3, OthersKeep DEF LimiterInv, WindowInv
<1>2. CASE Limits[b] # 0
  <2>1. /\ a \in Nat /\ Limits[b] \in Nat /\ Limits[b] > 0
        /\ admitted \in [Buckets -> Times] /\ now \in Nat /\ now \in 0 .. MaxTime
    BY <1>2, TimesAre DEF LimiterInv, LimiterTypeOK, LimiterAssumption
  <2>2. /\ Current(b) \in Times /\ Len(Current(b)) = e /\ e \in 0 .. a
        /\ \A i \in 0 .. e - 1 : Current(b)[e - i] = admitted[b][a - i]
    BY CurrentIs
  <2>3. /\ e < Limits[b]
        /\ admitted' = [admitted EXCEPT ![b] = Append(admitted[b], now)]
        /\ hits' = IF TooMany(grown) THEN << >> ELSE grown
        /\ clears' = IF TooMany(grown) THEN Append(clears, now) ELSE clears
    BY <1>2, <2>1, <2>2 DEF Admit, Full
  <2>4. /\ Append(admitted[b], now) \in Times
        /\ Len(Append(admitted[b], now)) = a + 1
        /\ Append(admitted[b], now)[a + 1] = now
        /\ \A i \in 1 .. a : Append(admitted[b], now)[i] = admitted[b][i]
    BY <2>1, AppendProperties DEF Times
  <2>5. /\ Append(Current(b), now) \in Times
        /\ Len(Append(Current(b), now)) = e + 1
        /\ Append(Current(b), now)[e + 1] = now
        /\ \A i \in 1 .. e : Append(Current(b), now)[i] = Current(b)[i]
    BY <2>1, <2>2, AppendProperties DEF Times
  <2>6. admitted'[b] = Append(admitted[b], now) /\ \A x \in Buckets : x # b => admitted'[x] = admitted[x]
    BY <2>1, <2>3
  <2>7. admitted' \in [Buckets -> Times]
    BY <2>1, <2>3, <2>4
  <2>8. \A x \in Buckets : InOrder(x)
    BY DEF LimiterInv, WindowInv
  <2>9. InOrder(b)'
    <3>1. Len(admitted'[b]) = a + 1
      BY <2>4, <2>6
    <3>2. \A i \in 1 .. a : admitted[b][i] \in Nat /\ now - admitted[b][i] \in 0 .. Window
      BY <2>1, <2>8, TimesAre DEF InOrder
    <3>3. ASSUME NEW i \in 1 .. a + 1 PROVE now' - admitted'[b][i] \in 0 .. Window
      <4>1. Window \in Nat
        BY DEF LimiterAssumption
      <4>2. CASE i \in 1 .. a
        BY <2>4, <2>6, <3>2, <4>2
      <4>3. CASE i = a + 1
        BY <2>1, <2>4, <2>6, <4>1, <4>3
      <4> QED BY <2>1, <4>2, <4>3
    <3>4. ASSUME NEW i \in 1 .. a + 1, NEW j \in i .. a + 1
          PROVE  admitted'[b][i] <= admitted'[b][j]
      <4>1. CASE j \in 1 .. a
        <5>1. i \in 1 .. a /\ j \in i .. a
          BY <2>1, <4>1
        <5>2. admitted[b][i] <= admitted[b][j]
          BY <2>8, <5>1 DEF InOrder
        <5> QED BY <2>4, <2>6, <5>1, <5>2, <4>1
      <4>2. CASE i = a + 1 /\ j = a + 1
        BY <2>1, <2>4, <2>6, <4>2
      <4>3. CASE i \in 1 .. a /\ j = a + 1
        BY <2>1, <2>4, <2>6, <3>2, <4>3
      <4> QED BY <2>1, <4>1, <4>2, <4>3
    <3> QED BY <3>1, <3>3, <3>4 DEF InOrder
  <2>10. \A x \in Buckets : InOrder(x)'
    <3>1. ASSUME NEW x \in Buckets, x # b PROVE InOrder(x)'
      BY <2>6, <2>8, <3>1 DEF InOrder
    <3> QED BY <2>9, <3>1
  <2>11. CASE TooMany(grown)
    <3>1. DOMAIN hits' = {} /\ hits' = << >> /\ clears' = Append(clears, now)
      BY <2>3, <2>11
    <3>2. clears' \in Times
      BY <2>1, <3>1, AppendProperties DEF LimiterInv, LimiterTypeOK, Times
    <3>3. LimiterTypeOK'
      BY <2>1, <2>7, <3>1, <3>2, FS_EmptySet DEF LimiterInv, LimiterTypeOK, LimiterAssumption
    <3>4. ASSUME NEW x \in Buckets, Limits[x] > 0 PROVE Spread(x)'
      <4>1. /\ Len(admitted[x]) \in Nat /\ Limits[x] \in Nat
            /\ Era(x) \in 0 .. Len(admitted[x]) /\ Era(x) <= Limits[x]
        <5>1. Len(admitted[x]) \in Nat /\ Era(x) \in 0 .. Len(admitted[x]) /\ Limits[x] \in Nat
          BY CurrentIs, TimesAre DEF LimiterInv, LimiterTypeOK, LimiterAssumption
        <5>2. x \in DOMAIN hits => Len(hits[x]) \in Nat /\ Len(hits[x]) <= Limits[x]
          BY TimesAre DEF LimiterInv, LimiterTypeOK, WindowInv, DequeOK
        <5> QED BY <5>1, <5>2 DEF Era
      <4>2. admitted'[x] \in Times
        BY <2>7
      <4>3. CASE x = b
        <5>1. Len(admitted'[x]) = a + 1 /\ a + 1 <= a - e + Limits[x]
          BY <2>1, <2>2, <2>3, <2>4, <2>6, <4>3
        <5>2. \A i \in 1 .. a - e : i \in 1 .. a
          BY <2>1, <2>2
        <5> QED BY <2>4, <2>6, <2>10, <3>1, <3>4, <4>2, <4>3, <5>1, <5>2, ClearSpreads
      <4>4. CASE x # b
        <5>1. admitted'[x] = admitted[x]
          BY <2>6, <4>4
        <5>2. Len(admitted'[x]) <= Len(admitted[x]) - Era(x) + Limits[x]
          BY <4>1, <5>1
        <5> QED BY <2>10, <3>1, <3>4, <4>2, <5>1, <5>2, ClearSpreads
      <4> QED BY <4>3, <4>4
    <3> QED BY <2>10, <3>1, <3>3, <3>4 DEF LimiterInv, WindowInv
  <2>12. CASE ~TooMany(grown)
    <3>1. hits' = grown /\ clears' = clears
      BY <2>3, <2>12
    <3>2. /\ DOMAIN hits' = DOMAIN hits \union {b}
          /\ hits'[b] = Append(Current(b), now)
          /\ \A x \in DOMAIN hits : x # b => hits'[x] = hits[x]
      BY <3>1 DEF With
    <3>3. Cardinality(DOMAIN hits') <= MaxBuckets
      <4>1. Cardinality(DOMAIN grown) \in Nat
        <5>1. DOMAIN grown \subseteq Buckets
          BY <3>1, <3>2 DEF LimiterInv, LimiterTypeOK
        <5> QED BY <5>1, FS_Subset, FS_CardinalityType DEF LimiterAssumption
      <4>2. MaxBuckets \in Nat /\ ~(Cardinality(DOMAIN grown) > MaxBuckets)
        BY <2>12 DEF TooMany, LimiterAssumption
      <4> QED BY <3>1, <4>1, <4>2
    <3>4. LimiterTypeOK'
      BY <2>1, <2>5, <2>7, <3>1, <3>2, <3>3 DEF LimiterInv, LimiterTypeOK
    <3>5. ASSUME NEW x \in Buckets, x # b
          PROVE  /\ Limits[x] > 0 => Spread(x)'
                 /\ x \in DOMAIN hits' => DequeOK(x)'
      BY <2>6, <3>1, <3>2, <3>5, OthersKeep
    <3>6. Len(admitted'[b]) = a + 1 /\ Len(hits'[b]) = e + 1 /\ Era(b)' = e + 1
      BY <2>1, <2>2, <2>4, <2>5, <2>6, <3>2 DEF Era
    <3>7. Spread(b)'
      <4>1. Spread(b)
        BY <2>1 DEF LimiterInv, WindowInv
      <4>2. Len(admitted'[b]) - Era(b)' = a - e
        BY <2>1, <2>2, <3>6
      <4>3. \A i \in 1 .. a - e : admitted'[b][i] = admitted[b][i]
        BY <2>1, <2>2, <2>4, <2>6
      <4> HIDE DEF grown
      <4> QED BY <3>1, <4>1, <4>2, <4>3 DEF Spread
    <3>8. SameEnd(b)'
      <4>1. ASSUME NEW i \in 0 .. e
            PROVE  i < a + 1 /\ hits'[b][(e + 1) - i] = admitted'[b][(a + 1) - i]
        <5>1. CASE i = 0
          BY <2>1, <2>2, <2>4, <2>5, <2>6, <3>2, <5>1
        <5>2. CASE i # 0
          <6>1. i - 1 \in 0 .. e - 1 /\ e - (i - 1) = (e + 1) - i /\ a - (i - 1) = (a + 1) - i
            BY <2>1, <2>2, <5>2
          <6>2. (e + 1) - i \in 1 .. e /\ (a + 1) - i \in 1 .. a /\ i < a + 1
            BY <2>1, <2>2, <5>2
          <6>3. admitted'[b][(a + 1) - i] = admitted[b][a - (i - 1)]
            BY <2>4, <2>6, <6>1, <6>2
          <6>4. hits'[b][(e + 1) - i] = Current(b)[e - (i - 1)]
            <7>1. Append(Current(b), now)[(e + 1) - i] = Current(b)[(e + 1) - i]
              BY <2>5, <6>2
            <7> QED BY <3>2, <6>1, <7>1
          <6>5. Current(b)[e - (i - 1)] = admitted[b][a - (i - 1)]
            BY <2>2, <2>5, <6>1
          <6> QED BY <6>2, <6>3, <6>4, <6>5
        <5> QED BY <5>1, <5>2
      <4>2. (e + 1) - 1 = e
        BY <2>2
      <4> HIDE DEF grown, a, e
      <4> QED BY <3>6, <4>1, <4>2 DEF SameEnd
    <3>9. DequeOK(b)'
      BY <2>1, <2>2, <2>3, <3>6, <3>8 DEF DequeOK
    <3> QED BY <2>10, <3>2, <3>4, <3>5, <3>7, <3>9 DEF LimiterInv, WindowInv, LimiterTypeOK
  <2> QED BY <2>11, <2>12
<1> QED
  BY <1>1, <1>2

(* The clock: what leaves the window leaves the histories, and a clear     *)
(* leaves them after everything that it came after.                        *)
(* What is in the window is younger than what is out of it.                *)
LEMMA Younger ==
    ASSUME NEW t \in Nat, NEW u \in Nat, NEW v \in Nat, NEW w \in Nat,
           (t + 1) - v > w, (t + 1) - u <= w
    PROVE  u > v
  OBVIOUS

LEMMA ElapseKeeps ==
    ASSUME LimiterAssumption, LimiterInv, Elapse
    PROVE  LimiterInv'
<1>1. /\ now \in Nat /\ now' = now + 1 /\ now' \in 0 .. MaxTime /\ Window \in Nat
      /\ (0 .. MaxTime) \in SUBSET Nat
  BY DEF Elapse, LimiterInv, LimiterTypeOK, LimiterAssumption
<1>2. /\ \A b \in Buckets : admitted'[b] = Within(admitted[b], now + 1, Window)
      /\ clears' = Within(clears, now + 1, Window) /\ hits' = hits
      /\ DOMAIN admitted' = Buckets
  BY DEF Elapse
<1>3. clears \in Seq(0 .. MaxTime) /\ \A b \in Buckets : admitted[b] \in Seq(0 .. MaxTime)
  BY DEF LimiterInv, LimiterTypeOK, Times
<1>4. clears' \in Times /\ \A b \in Buckets : admitted'[b] \in Times
  <2>1. now + 1 \in Nat
    BY <1>1
  <2>2. clears' \in Times
    BY <1>1, <1>2, <1>3, <2>1, WithinIs DEF Times
  <2>3. ASSUME NEW b \in Buckets PROVE admitted'[b] \in Times
    <3>1. admitted[b] \in Seq(0 .. MaxTime)
      BY <1>3
    <3>2. Within(admitted[b], now + 1, Window) \in Seq(0 .. MaxTime)
      BY <1>1, <2>1, <3>1, WithinIs
    <3> QED BY <1>2, <3>2 DEF Times
  <2> QED BY <2>2, <2>3
<1>5. LimiterTypeOK'
  <2>1. admitted' = [b \in Buckets |-> admitted'[b]]
    BY DEF Elapse
  <2>2. admitted' \in [Buckets -> Times]
    BY <1>4, <2>1
  <2> QED BY <1>1, <1>2, <1>4, <2>2 DEF LimiterInv, LimiterTypeOK
<1>6. PICK q \in 0 .. Len(clears) :
         /\ Len(clears') = Len(clears) - q
         /\ \A i \in 1 .. Len(clears) - q : clears'[i] = clears[q + i]
         /\ \A i \in 1 .. q : (now + 1) - clears[i] > Window
  <2>1. now + 1 \in Nat
    BY <1>1
  <2> QED BY <1>1, <1>2, <1>3, <2>1, WithinIs
<1>7. ASSUME NEW b \in Buckets
      PROVE  /\ InOrder(b)' /\ (Limits[b] > 0 => Spread(b)')
             /\ b \in DOMAIN hits' => DequeOK(b)'
  <2> DEFINE a == Len(admitted[b])
             h == Len(hits[b])
             k == Len(clears)
  <2>1. /\ a \in Nat /\ \A i \in 1 .. a : admitted[b][i] \in Nat
        /\ k \in Nat /\ \A i \in 1 .. k : clears[i] \in Nat
    BY <1>3, TimesAre DEF Times
  <2>2. b \in DOMAIN hits => h \in Nat /\ \A i \in 1 .. h : hits[b][i] \in Nat
    BY TimesAre DEF LimiterInv, LimiterTypeOK
  <2>3. PICK m \in 0 .. a :
           /\ Len(admitted'[b]) = a - m
           /\ \A i \in 1 .. a - m : admitted'[b][i] = admitted[b][m + i]
           /\ \A i \in 1 .. m : (now + 1) - admitted[b][i] > Window
           /\ m < a => (now + 1) - admitted[b][m + 1] <= Window
    <3>1. now + 1 \in Nat
      BY <1>1
    <3>2. \E p \in 0 .. Len(admitted[b]) :
             /\ Len(Within(admitted[b], now + 1, Window)) = Len(admitted[b]) - p
             /\ \A i \in 1 .. Len(admitted[b]) - p :
                   Within(admitted[b], now + 1, Window)[i] = admitted[b][p + i]
             /\ \A i \in 1 .. p : (now + 1) - admitted[b][i] > Window
             /\ p < Len(admitted[b]) => (now + 1) - admitted[b][p + 1] <= Window
      BY <1>1, <1>3, <3>1, WithinIs
    <3> QED BY <1>2, <3>2
  <2>4. InOrder(b) /\ (Limits[b] > 0 => Spread(b)) /\ (b \in DOMAIN hits => DequeOK(b))
    BY DEF LimiterInv, WindowInv
  <2>5. /\ \A i \in 1 .. a : now - admitted[b][i] \in 0 .. Window
        /\ \A i \in 1 .. a : \A j \in i .. a : admitted[b][i] <= admitted[b][j]
    BY <2>4 DEF InOrder
  <2> HIDE DEF a, h, k
  <2>6. InOrder(b)'
    <3>1. ASSUME NEW i \in 1 .. a - m PROVE now' - admitted'[b][i] \in 0 .. Window
      <4>1. m + i \in 1 .. a /\ m + 1 \in 1 .. a /\ m + i \in m + 1 .. a /\ m < a
        BY <2>1, <3>1
      <4>2. /\ admitted[b][m + 1] <= admitted[b][m + i]
            /\ now - admitted[b][m + i] \in 0 .. Window
            /\ (now + 1) - admitted[b][m + 1] <= Window
        BY <2>3, <2>5, <4>1
      <4>3. admitted[b][m + 1] \in Nat /\ admitted[b][m + i] \in Nat
        BY <2>1, <4>1
      <4>4. admitted'[b][i] = admitted[b][m + i]
        BY <2>3, <3>1
      <4>5. (now + 1) - admitted[b][m + i] \in 0 .. Window
        <5> DEFINE x == admitted[b][m + 1]
                   y == admitted[b][m + i]
        <5>1. /\ x \in Nat /\ y \in Nat /\ x <= y
              /\ now - y \in 0 .. Window /\ (now + 1) - x <= Window
          BY <4>2, <4>3
        <5> HIDE DEF x, y
        <5>2. (now + 1) - y \in 0 .. Window
          BY <1>1, <5>1
        <5> QED BY <5>2 DEF y
      <4> QED BY <1>1, <4>4, <4>5
    <3>2. ASSUME NEW i \in 1 .. a - m, NEW j \in i .. a - m
          PROVE  admitted'[b][i] <= admitted'[b][j]
      <4>1. m + i \in 1 .. a /\ m + j \in m + i .. a /\ j \in 1 .. a - m
        BY <2>1, <3>2
      <4> QED BY <2>3, <2>5, <4>1
    <3> QED BY <2>3, <3>1, <3>2 DEF InOrder
  <2>7. ASSUME b \in DOMAIN hits PROVE DequeOK(b)'
    <3>1. Limits[b] > 0 /\ h <= Limits[b] /\ SameEnd(b)
      BY <2>4, <2>7 DEF DequeOK, h
    <3>2. \A i \in 0 .. h - 1 :
             IF i < a THEN hits[b][h - i] = admitted[b][a - i]
                      ELSE now - hits[b][h - i] > Window
      BY <3>1 DEF SameEnd, h, a
    <3>3. ASSUME NEW i \in 0 .. h - 1
          PROVE  IF i < a - m THEN hits[b][h - i] = admitted'[b][(a - m) - i]
                              ELSE now' - hits[b][h - i] > Window
      <4>1. h - i \in 1 .. h /\ hits[b][h - i] \in Nat
        BY <2>2, <2>7, <3>3
      <4>2. CASE i < a - m
        <5>1. m \in Nat /\ m <= a /\ i \in Nat
          BY <2>1, <2>2, <2>7, <3>3
        <5>2. (a - m) - i \in 1 .. a - m /\ m + ((a - m) - i) = a - i /\ i < a
          BY <2>1, <4>2, <5>1
        <5> QED BY <2>3, <3>2, <4>2, <5>2
      <4>3. CASE i < a /\ ~(i < a - m)
        <5>1. a - i \in 1 .. m
          BY <2>1, <4>3
        <5>2. hits[b][h - i] = admitted[b][a - i] /\ (now + 1) - admitted[b][a - i] > Window
          BY <2>3, <3>2, <4>3, <5>1
        <5> QED BY <1>1, <4>1, <4>3, <5>2
      <4>4. CASE ~(i < a)
        <5>1. now - hits[b][h - i] > Window /\ ~(i < a - m)
          BY <2>1, <3>2, <4>4
        <5>2. PICK x : x = hits[b][h - i]
          OBVIOUS
        <5>3. (now + 1) - x > Window
          <6>1. /\ x \in Nat /\ now \in Nat /\ Window \in Nat
                /\ now - x > Window
            BY <1>1, <4>1, <5>1, <5>2
          <6> QED BY <6>1
        <5> QED BY <1>1, <5>1, <5>2, <5>3
      <4> QED BY <4>2, <4>3, <4>4
    <3>4. SameEnd(b)'
      BY <1>2, <2>3, <3>3 DEF SameEnd, h
    <3> QED BY <1>2, <3>1, <3>4 DEF DequeOK, h
  <2>8. ASSUME Limits[b] > 0 PROVE Spread(b)'
    <3> DEFINE L == Limits[b]
               e == Era(b)
               e1 == IF e <= a - m THEN e ELSE a - m
               n == a - e
               n1 == (a - m) - e1
    <3>1. L \in Nat /\ e \in 0 .. a
      BY CurrentIs DEF LimiterAssumption, a
    <3>2. Era(b)' = e1
      <4>1. CASE b \notin DOMAIN hits
        BY <1>2, <2>1, <2>3, <4>1 DEF Era
      <4>2. CASE b \in DOMAIN hits
        <5>1. e = IF h <= a THEN h ELSE a
          BY <4>2 DEF Era, h, a
        <5>2. Era(b)' = IF h <= a - m THEN h ELSE a - m
          BY <1>2, <2>3, <4>2 DEF Era, h
        <5> QED BY <2>1, <2>2, <2>3, <4>2, <5>1, <5>2
      <4> QED BY <4>1, <4>2
    <3>3. /\ n <= L * k
          /\ \A j \in 1 .. k, i \in 1 .. n :
                admitted[b][i] > clears[j] => n - i + 1 <= L * (k - j)
      BY <2>4, <2>8 DEF Spread, a, k
    <3>4. Len(admitted'[b]) - Era(b)' = n1
      BY <2>3, <3>2
    <3>5. n \in Nat /\ n1 = IF m <= n THEN n - m ELSE 0
      BY <2>1, <3>1
    <3> HIDE DEF n, n1, e, e1, L
    <3>6. ASSUME NEW j \in 1 .. k - q, NEW i \in 1 .. n1, admitted'[b][i] > clears'[j]
          PROVE  n1 - i + 1 <= L * ((k - q) - j)
      <4>1. /\ m <= n /\ n1 = n - m /\ m + i \in 1 .. n /\ i \in 1 .. a - m
            /\ q + j \in 1 .. k /\ (k - q) - j = k - (q + j) /\ n1 - i + 1 = n - (m + i) + 1
        <5>1. n <= a
          BY <2>1, <3>1 DEF n, e
        <5> QED BY <2>1, <3>5, <3>6, <5>1
      <4>2. admitted[b][m + i] > clears[q + j]
        BY <1>6, <2>3, <3>6, <4>1 DEF k
      <4>3. n - (m + i) + 1 <= L * (k - (q + j))
        BY <3>3, <4>1, <4>2
      <4> QED BY <4>1, <4>3
    <3>7. n1 <= L * (k - q)
      <4>1. k - q \in Nat /\ L * (k - q) \in Nat
        BY <2>1, <3>1, Multiples DEF k
      <4>2. CASE ~(m < n)
        <5>1. n1 = 0
          BY <3>5, <4>2
        <5> QED BY <4>1, <5>1
      <4>3. CASE m < n /\ q = 0
        <5>1. k - q = k /\ n1 <= n
          BY <2>1, <3>5, <4>3
        <5> QED BY <3>3, <3>5, <4>1, <4>3, <5>1
      <4>4. CASE m < n /\ q # 0
        <5>1. q \in 1 .. k /\ q \in 1 .. q /\ m + 1 \in 1 .. n /\ m + 1 \in 1 .. a /\ m < a
          <6>1. n <= a
            BY <2>1, <3>1 DEF n, e
          <6> QED BY <2>1, <3>5, <4>4, <6>1 DEF k
        <5>2. (now + 1) - clears[q] > Window /\ (now + 1) - admitted[b][m + 1] <= Window
          BY <1>6, <2>3, <5>1
        <5>3. admitted[b][m + 1] > clears[q]
          <6> PICK u, v : u = admitted[b][m + 1] /\ v = clears[q]
            OBVIOUS
          <6>1. u \in Nat /\ v \in Nat
            BY <2>1, <5>1
          <6>2. (now + 1) - v > Window /\ (now + 1) - u <= Window
            BY <5>2
          <6>3. now \in Nat /\ Window \in Nat
            BY <1>1
          <6>4. u > v
            BY <6>1, <6>2, <6>3, Younger
          <6> QED BY <6>4
        <5>4. n - (m + 1) + 1 <= L * (k - q)
          BY <3>3, <5>1, <5>3
        <5> QED BY <3>5, <4>4, <5>4
      <4> QED BY <4>2, <4>3, <4>4
    <3>8. Len(clears') = k - q
      BY <1>6 DEF k
    <3> QED BY <3>4, <3>6, <3>7, <3>8 DEF Spread, L
  <2> QED BY <1>2, <2>6, <2>7, <2>8
<1> QED
  BY <1>2, <1>5, <1>7 DEF LimiterInv, WindowInv, LimiterTypeOK

LEMMA LimiterStep == LimiterInv /\ [Next]_vars => LimiterInv'
<1> SUFFICES ASSUME LimiterInv, [Next]_vars PROVE LimiterInv'
  OBVIOUS
<1> USE LimiterAssumption
<1>1. CASE \E r \in Requests, b \in Buckets : Arrive(r, b)
  BY <1>1, AdmitKeeps DEF Arrive
<1>2. CASE \E b \in Buckets : Refuse(b)
  BY <1>2, TurnAwayKeeps DEF Refuse
<1>3. CASE Clock
  BY <1>3, ElapseKeeps DEF Clock
<1>4. CASE Restart
  BY <1>4, ForgetHitsKeeps DEF Restart
<1>5. CASE \/ \E r \in Requests :
                \/ Authenticate(r) \/ Drop(r) \/ Complete(r) \/ StartBody(r)
                \/ EndBody(r) \/ LeaveBody(r)
                \/ BeginPersist(r) \/ CommitPersist(r) \/ LosePersist(r)
           \/ \E k \in Keys :
                \/ \E b \in BOOLEAN : SetEnabled(k, b)
                \/ Revoke(k) \/ Delete(k) \/ Create(k)
           \/ Purge \/ UNCHANGED vars
  <2>1. UNCHANGED <<now, limiterVars>>
    BY <1>5 DEF Authenticate, Drop, Complete, StartBody, EndBody, LeaveBody,
                BeginPersist, CommitPersist, LosePersist, SetEnabled, Revoke,
                Delete, Create, Purge, vars
  <2>2. \A b \in Buckets : /\ InOrder(b)' /\ (Limits[b] > 0 => Spread(b)')
                           /\ b \in DOMAIN hits' => DequeOK(b)'
    BY <2>1, OthersKeep DEF limiterVars
  <2> QED BY <2>1, <2>2 DEF LimiterInv, LimiterTypeOK, WindowInv, limiterVars
<1> QED
  BY <1>1, <1>2, <1>3, <1>4, <1>5 DEF Next

THEOREM WindowsHold == Spec => []LimiterInv
<1>1. Init => LimiterInv
  BY LimiterInits, LimiterAssumption DEF Init
<1> QED
  BY <1>1, LimiterStep, PTL DEF Spec

(* In any window a bucket gets at most its limit, and that much again for  *)
(* each time all the deques were dropped in it, for any limits, window and *)
(* number of clients (middleware.py:103-123).                              *)
THEOREM RatesHold == Spec => []RateHolds
<1>1. ASSUME LimiterInv PROVE RateHolds
  <2> SUFFICES ASSUME NEW b \in Buckets, Limits[b] > 0
               PROVE  Len(admitted[b]) <= Limits[b] * (Len(clears) + 1)
    BY DEF RateHolds
  <2> DEFINE n == Len(admitted[b]) - Era(b)
  <2>1. Len(admitted[b]) \in Nat /\ Len(clears) \in Nat /\ Limits[b] \in Nat
    BY <1>1, TimesAre, LimiterAssumption DEF LimiterInv, LimiterTypeOK, LimiterAssumption
  <2>2. Era(b) \in 0 .. Len(admitted[b])
    BY <1>1, CurrentIs, LimiterAssumption
  <2>3. Era(b) <= Limits[b]
    <3>1. b \in DOMAIN hits => Len(hits[b]) \in Nat /\ Len(hits[b]) <= Limits[b]
      BY <1>1, TimesAre DEF LimiterInv, LimiterTypeOK, WindowInv, DequeOK
    <3> QED BY <2>1, <3>1 DEF Era
  <2>4. n <= Limits[b] * Len(clears)
    BY <1>1 DEF LimiterInv, WindowInv, Spread
  <2>5. /\ Limits[b] * (Len(clears) + 1) = Limits[b] * Len(clears) + Limits[b]
        /\ Limits[b] * Len(clears) \in Nat
    BY <2>1, Multiples
  <2> QED BY <2>1, <2>2, <2>3, <2>4, <2>5
<1> QED
  BY <1>1, WindowsHold, PTL

(* Whoever would be turned away has had as many requests as its limit let  *)
(* through in the window (middleware.py:105-120).                          *)
THEOREM RefusalsHold == Spec => []RefusalIsDeserved
<1>1. ASSUME LimiterInv
      PROVE  RefusalIsDeserved
  <2> SUFFICES ASSUME NEW b \in Buckets, Full(b)
               PROVE  Len(admitted[b]) >= Limits[b]
    BY DEF RefusalIsDeserved
  <2>1. Len(admitted[b]) \in Nat /\ Limits[b] \in Nat
    BY <1>1, TimesAre, LimiterAssumption DEF LimiterInv, LimiterTypeOK, LimiterAssumption
  <2>2. Len(Current(b)) \in 0 .. Len(admitted[b])
    BY <1>1, CurrentIs, LimiterAssumption
  <2>3. Len(Current(b)) >= Limits[b]
    BY DEF Full
  <2> QED BY <2>1, <2>2, <2>3
<1> QED
  BY <1>1, WindowsHold, PTL

-----------------------------------------------------------------------------
(* The request log and the counters of the keys.                           *)

RestOK ==
    /\ database \in Databases
    /\ writer \in Requests \union {NoWriter}
    /\ streams \in Nat
    /\ log \in Seq(Entries)
    /\ deleted \subseteq Keys

LEMMA LogIs ==
    ASSUME log \in Seq(Entries)
    PROVE  /\ Len(log) \in Nat /\ DOMAIN log = 1 .. Len(log)
           /\ \A i \in DOMAIN log : log[i] \in Entries
BY LenProperties, ElementOfSeq

(* The log under the steps that mark its entries.                          *)
LEMMA RelabelType ==
    ASSUME log \in Seq(Entries), NEW f, f \in [DOMAIN log -> Entries]
    PROVE  f \in Seq(Entries) /\ DOMAIN f = DOMAIN log
<1>1. f \in [1 .. Len(log) -> Entries] /\ Len(log) \in Nat /\ DOMAIN log = 1 .. Len(log)
  BY LogIs
<1> QED
  BY <1>1, SeqDef

LEMMA RestInit == Init => RestOK
BY EmptySeq DEF Init, RestOK

LEMMA RestStep == KeyInv /\ RestOK /\ [Next]_vars => RestOK'
<1> SUFFICES ASSUME KeyInv, RestOK, [Next]_vars PROVE RestOK'
  OBVIOUS
<1>1. ASSUME NEW r \in Requests,
             \/ \E b \in Buckets : Arrive(r, b)
             \/ Authenticate(r) \/ Drop(r) \/ Complete(r)
      PROVE  RestOK'
  BY <1>1 DEF Arrive, Authenticate, Drop, Complete, RestOK, tableVars, histories
<1>2. ASSUME NEW r \in Requests, StartBody(r) \/ EndBody(r) \/ LeaveBody(r)
      PROVE  RestOK'
  BY <1>2 DEF StartBody, EndBody, LeaveBody, StreamFinished, RestOK, tableVars, histories
<1>3. ASSUME NEW r \in Requests, BeginPersist(r) \/ LosePersist(r)
      PROVE  RestOK'
  BY <1>3 DEF BeginPersist, LosePersist, TakeLock, FreeLock, RestOK, tableVars, histories
<1>4. ASSUME NEW r \in Requests, CommitPersist(r) PROVE RestOK'
  <2> DEFINE e == [key |-> caller[r], status |-> status[r], created |-> now,
                   purged |-> FALSE]
  <2>1. e \in Entries
    BY DEF KeyInv, RowsOK, Entries
  <2>2. log' = Append(log, e)
    BY <1>4 DEF CommitPersist
  <2>3. log' \in Seq(Entries)
    BY <2>1, <2>2, AppendProperties DEF RestOK
  <2> QED BY <1>4, <2>3 DEF CommitPersist, FreeLock, RestOK, histories
<1>5. ASSUME NEW k \in Keys,
             (\E b \in BOOLEAN : SetEnabled(k, b)) \/ Revoke(k) \/ Create(k)
      PROVE  RestOK'
  BY <1>5 DEF SetEnabled, Revoke, Create, RestOK, histories
<1>6. ASSUME NEW k \in Keys, Delete(k) PROVE RestOK'
  <2>1. log' \in [DOMAIN log -> Entries]
    <3>1. \A e \in Entries : [e EXCEPT !.key = 0] \in Entries
      BY DEF Entries
    <3> QED BY <1>6, <3>1, LogIs DEF Delete, RestOK
  <2> QED BY <1>6, <2>1, RelabelType DEF Delete, RestOK, histories
<1>7. CASE Purge
  <2>1. log' \in [DOMAIN log -> Entries]
    <3>1. \A e \in Entries : [e EXCEPT !.purged = TRUE] \in Entries
      BY DEF Entries
    <3> QED BY <1>7, <3>1, LogIs DEF Purge, RestOK
  <2> QED BY <1>7, <2>1, RelabelType DEF Purge, RestOK, tableVars, histories
<1>8. CASE Clock \/ Restart \/ (\E b \in Buckets : Refuse(b)) \/ UNCHANGED vars
  BY <1>8 DEF Clock, Restart, Refuse, vars, RestOK, tableVars, histories
<1> QED
  BY <1>1, <1>2, <1>3, <1>4, <1>5, <1>6, <1>7, <1>8 DEF Next

(* Every variable keeps its type: at most MaxBuckets deques are kept, and  *)
(* the log holds nothing but entries of a key or of none (middleware.py:   *)
(* 121-123, metrics.py:112-147).                                           *)
THEOREM LedgerTyped == Spec => []TypeOK
<1>1. KeyInv /\ LimiterInv /\ RestOK => TypeOK
  BY DEF KeyInv, RowsOK, BarredOK, LimiterInv, RestOK, TypeOK
<1> QED
  BY <1>1, RestInit, RestStep, KeysHold, WindowsHold, PTL DEF Spec

(* How many entries of a log there are on a key, with a status of S.       *)
Places(l, k, S) == {i \in DOMAIN l : l[i].key = k /\ l[i].status \in S}

LEMMA EnteredIs ==
    ASSUME log \in Seq(Entries), NEW k, NEW S
    PROVE  /\ Entered(k, S) = Cardinality(Places(log, k, S))
           /\ IsFiniteSet(Places(log, k, S))
           /\ Entered(k, S) \in Nat
<1>1. Entered(k, S) = Cardinality(Places(log, k, S))
  BY DEF Entered, Places
<1>2. IsFiniteSet(DOMAIN log)
  BY LogIs, FS_Interval
<1>3. IsFiniteSet(Places(log, k, S))
  BY <1>2, FS_Subset DEF Places
<1> QED
  BY <1>1, <1>3, FS_CardinalityType

(* A new entry counts for its own key and status alone.                    *)
LEMMA EnteredGrows ==
    ASSUME log \in Seq(Entries), NEW e \in Entries, log' = Append(log, e),
           NEW k, NEW S
    PROVE  Entered(k, S)' = IF e.key = k /\ e.status \in S
                              THEN Entered(k, S) + 1 ELSE Entered(k, S)
<1> DEFINE n == Len(log)
<1>1. n \in Nat /\ DOMAIN log = 1 .. n
  BY LogIs
<1>2. /\ DOMAIN log' = 1 .. n + 1 /\ log'[n + 1] = e
      /\ \A i \in 1 .. n : log'[i] = log[i]
  <2>1. log' \in Seq(Entries) /\ Len(log') = n + 1
    BY AppendProperties
  <2>2. DOMAIN log' = 1 .. n + 1
    BY <2>1, LenProperties
  <2> QED BY <2>2, AppendProperties
<1>3. Entered(k, S)' = Cardinality(Places(log', k, S))
  BY DEF Entered, Places
<1> HIDE DEF n
<1>4. CASE e.key = k /\ e.status \in S
  <2>1. Places(log', k, S) = Places(log, k, S) \union {n + 1}
    BY <1>1, <1>2, <1>4 DEF Places
  <2>2. n + 1 \notin Places(log, k, S)
    BY <1>1 DEF Places
  <2>3. /\ Entered(k, S) = Cardinality(Places(log, k, S))
        /\ IsFiniteSet(Places(log, k, S))
    BY EnteredIs
  <2>4. Cardinality(Places(log', k, S)) = Cardinality(Places(log, k, S)) + 1
    BY <2>1, <2>2, <2>3, FS_AddElement
  <2> QED BY <1>3, <1>4, <2>3, <2>4
<1>5. CASE ~(e.key = k /\ e.status \in S)
  <2>1. Places(log', k, S) = Places(log, k, S)
    BY <1>1, <1>2, <1>5 DEF Places
  <2>2. Entered(k, S) = Cardinality(Places(log, k, S))
    BY EnteredIs
  <2> QED BY <1>3, <1>5, <2>1, <2>2
<1> QED
  BY <1>4, <1>5

(* Marking entries changes no count of a key whose entries keep it.        *)
LEMMA EnteredStays ==
    ASSUME log \in Seq(Entries), NEW k, NEW S, DOMAIN log' = DOMAIN log,
           \A i \in DOMAIN log : /\ log'[i].status = log[i].status
                                 /\ log'[i].key = k <=> log[i].key = k
    PROVE  Entered(k, S)' = Entered(k, S)
<1>1. Places(log', k, S) = Places(log, k, S)
  BY DEF Places
<1> QED
  BY <1>1, EnteredIs DEF Entered, Places

(* The counters of a row against the entries of a key.                     *)
Below(row, k) ==
    /\ row.requests <= Entered(k, Statuses)
    /\ row.successes <= Entered(k, {"success"})
    /\ row.failures <= Entered(k, {"error"})

ExactRow(row, k) ==
    /\ row.requests = Entered(k, Statuses)
    /\ row.successes = Entered(k, {"success"})
    /\ row.failures = Entered(k, {"error"})

SameCounts(row, other) ==
    /\ row.requests = other.requests
    /\ row.successes = other.successes
    /\ row.failures = other.failures

(* On SQLite one request at a time is between its reading of the key and   *)
(* its commit.                                                             *)
LockOK == database = "sqlite" => \A r \in Requests : at[r] = "commit" <=> writer = r

(* A key that a request or an entry names has its row, or was deleted.     *)
KnownOK ==
    /\ \A i \in DOMAIN log : log[i].key \in keys \union deleted \union {0}
    /\ \A r \in Requests : caller[r] \in keys \union deleted \union {0}

RowOK(k) ==
    /\ Below(key[k], k)
    /\ database = "sqlite" /\ k \notin deleted => ExactRow(key[k], k)

(* What a request has read is behind the log, and on SQLite up to date.    *)
TallyOK(r) ==
    at[r] = "commit" /\ caller[r] \in keys =>
       /\ Below(tally[r], caller[r])
       /\ database = "sqlite" => SameCounts(tally[r], key[caller[r]])

CounterInv ==
    /\ LockOK
    /\ KnownOK
    /\ \A k \in keys : RowOK(k)
    /\ \A r \in Requests : TallyOK(r)

LEMMA CounterInit == KeyInv /\ Init => CounterInv
<1> SUFFICES ASSUME KeyInv, Init PROVE CounterInv
  OBVIOUS
<1>1. log \in Seq(Entries) /\ DOMAIN log = {}
  BY EmptySeq DEF Init
<1>2. ASSUME NEW k, NEW S PROVE Entered(k, S) = 0
  <2>1. {i \in DOMAIN log : log[i].key = k /\ log[i].status \in S} = {}
    BY <1>1
  <2> QED BY <2>1, FS_EmptySet DEF Entered
<1>3. \A k \in keys : RowOK(k)
  BY <1>2 DEF Init, RowOK, Below, ExactRow, NewKey
<1>4. LockOK /\ KnownOK /\ \A r \in Requests : TallyOK(r)
  BY <1>1, LedgerAssumption DEF Init, LockOK, KnownOK, TallyOK, LedgerAssumption
<1> QED
  BY <1>3, <1>4 DEF CounterInv

(* A row whose counters stay, and whose entries do.                        *)
LEMMA RowStays ==
    ASSUME NEW k \in keys, RowOK(k), database' = database, deleted \subseteq deleted',
           SameCounts(key'[k], key[k]),
           \A S : Entered(k, S)' = Entered(k, S)
    PROVE  RowOK(k)'
<1>1. /\ Entered(k, Statuses)' = Entered(k, Statuses)
      /\ Entered(k, {"success"})' = Entered(k, {"success"})
      /\ Entered(k, {"error"})' = Entered(k, {"error"})
  OBVIOUS
<1>2. Below(key[k], k)'
  BY <1>1 DEF RowOK, Below, SameCounts
<1>3. ExactRow(key[k], k) => ExactRow(key[k], k)'
  BY <1>1 DEF ExactRow, SameCounts
<1> QED
  BY <1>2, <1>3 DEF RowOK

LEMMA TallyStays ==
    ASSUME NEW r \in Requests, TallyOK(r), database' = database,
           at'[r] = "commit" /\ caller'[r] \in keys' =>
              /\ at[r] = "commit" /\ caller[r] \in keys
              /\ caller'[r] = caller[r] /\ tally'[r] = tally[r]
              /\ SameCounts(key'[caller[r]], key[caller[r]])
              /\ \A S : Entered(caller[r], S)' = Entered(caller[r], S)
    PROVE  TallyOK(r)'
<1> SUFFICES ASSUME at'[r] = "commit", caller'[r] \in keys' PROVE TallyOK(r)'
  BY DEF TallyOK
<1>1. PICK k : k = caller[r]
  OBVIOUS
<1>2. /\ at[r] = "commit" /\ k \in keys
      /\ caller'[r] = k /\ tally'[r] = tally[r] /\ SameCounts(key'[k], key[k])
  BY <1>1
<1>3. /\ Entered(k, Statuses)' = Entered(k, Statuses)
      /\ Entered(k, {"success"})' = Entered(k, {"success"})
      /\ Entered(k, {"error"})' = Entered(k, {"error"})
  BY <1>1
<1>4. Below(tally[r], k) /\ (database = "sqlite" => SameCounts(tally[r], key[k]))
  BY <1>1, <1>2 DEF TallyOK
<1>5. Below(tally[r], k)'
  BY <1>2, <1>3, <1>4 DEF Below
<1>6. database' = "sqlite" => SameCounts(tally'[r], key'[k])
  BY <1>2, <1>4 DEF SameCounts
<1>7. (Below(tally[r], caller[r]))'
  BY <1>2, <1>5 DEF Below
<1> QED
  BY <1>2, <1>6, <1>7 DEF TallyOK

(* The steps that leave the log and the counters alone, and read no key.   *)
LEMMA QuietKeeps ==
    ASSUME CounterInv, UNCHANGED <<database, log, keys, deleted>>,
           \A k \in keys : SameCounts(key'[k], key[k]),
           \A q \in Requests :
              /\ caller'[q] \in {caller[q], 0} \union keys
              /\ at'[q] = "commit" => /\ at[q] = "commit" /\ caller'[q] = caller[q]
                                      /\ tally'[q] = tally[q],
           LockOK'
    PROVE  CounterInv'
<1>1. \A k : \A S : Entered(k, S)' = Entered(k, S)
  BY DEF Entered
<1>2. KnownOK'
  BY DEF CounterInv, KnownOK
<1>3. ASSUME NEW k \in keys PROVE RowOK(k)'
  BY <1>1, <1>3, RowStays DEF CounterInv
<1>4. ASSUME NEW q \in Requests PROVE TallyOK(q)'
  BY <1>1, TallyStays DEF CounterInv
<1> QED
  BY <1>2, <1>3, <1>4 DEF CounterInv

LEMMA SameCountsRefl == \A row : SameCounts(row, row)
BY DEF SameCounts

(* A request that goes to a stage other than the commit.                   *)
LEMMA MovesKeep ==
    ASSUME KeyInv, CounterInv, NEW r \in Requests, NEW a \in Stages \ {"commit"},
           UNCHANGED <<database, log, keys, deleted, key>>,
           at' = [at EXCEPT ![r] = a],
           \A q \in Requests \ {r} : caller'[q] = caller[q] /\ tally'[q] = tally[q],
           caller'[r] \in {caller[r], 0} \union keys,
           \/ at[r] # "commit" /\ writer' = writer
           \/ FreeLock(r)
    PROVE  CounterInv'
<1>1. at \in [Requests -> Stages]
  BY DEF KeyInv, RowsOK
<1>2. LockOK'
  <2> SUFFICES ASSUME database = "sqlite", NEW q \in Requests
               PROVE  at'[q] = "commit" <=> writer' = q
    BY DEF LockOK
  <2>1. \A p \in Requests : at[p] = "commit" <=> writer = p
    BY DEF CounterInv, LockOK
  <2> QED BY <1>1, <2>1, LedgerAssumption DEF FreeLock, LedgerAssumption
<1>3. \A q \in Requests :
          /\ caller'[q] \in {caller[q], 0} \union keys
          /\ at'[q] = "commit" => /\ at[q] = "commit" /\ caller'[q] = caller[q]
                                  /\ tally'[q] = tally[q]
  BY <1>1
<1>4. \A k \in keys : SameCounts(key'[k], key[k])
  BY SameCountsRefl
<1> QED
  BY <1>2, <1>3, <1>4, QuietKeeps

LEMMA WayKeeps ==
    ASSUME KeyInv, CounterInv, NEW r \in Requests,
           \/ \E b \in Buckets : Arrive(r, b)
           \/ Authenticate(r) \/ Drop(r) \/ Complete(r) \/ StartBody(r)
           \/ EndBody(r) \/ LeaveBody(r) \/ LosePersist(r)
    PROVE  CounterInv'
<1> USE DEF tableVars, histories, Stages
<1>1. at \in [Requests -> Stages] /\ caller \in [Requests -> Keys \union {0}]
      /\ tally \in [Requests -> KeyRows]
  BY DEF KeyInv, RowsOK
<1>2. CASE \/ \E b \in Buckets : Arrive(r, b)
           \/ Complete(r) \/ StartBody(r) \/ EndBody(r)
  BY <1>1, <1>2, MovesKeep DEF Arrive, Complete, StartBody, EndBody
<1>3. CASE Authenticate(r)
  <2>1. PICK k \in keys : caller' = [caller EXCEPT ![r] = k]
    BY <1>3 DEF Authenticate
  <2> QED BY <1>1, <1>3, <2>1, MovesKeep DEF Authenticate
<1>4. CASE Drop(r) \/ LeaveBody(r)
  BY <1>1, <1>4, MovesKeep DEF Drop, LeaveBody, Forget
<1>5. CASE LosePersist(r)
  BY <1>1, <1>5, MovesKeep DEF LosePersist, Forget
<1> QED
  BY <1>2, <1>3, <1>4, <1>5

LEMMA BeginKeeps ==
    ASSUME KeyInv, CounterInv, NEW r \in Requests, BeginPersist(r)
    PROVE  CounterInv'
<1> USE DEF tableVars, histories
<1>1. /\ at \in [Requests -> Stages] /\ caller \in [Requests -> Keys \union {0}]
      /\ tally \in [Requests -> KeyRows]
  BY DEF KeyInv, RowsOK
<1>2. /\ UNCHANGED <<database, keys, key, log, deleted, caller>>
      /\ at[r] = "persist" /\ at' = [at EXCEPT ![r] = "commit"]
      /\ tally' = [tally EXCEPT ![r] = key[caller[r]]] /\ TakeLock(r)
  BY DEF BeginPersist
<1>3. \A k : \A S : Entered(k, S)' = Entered(k, S)
  BY <1>2 DEF Entered
<1>4. LockOK'
  <2> SUFFICES ASSUME database = "sqlite", NEW q \in Requests
               PROVE  at'[q] = "commit" <=> writer' = q
    BY <1>2 DEF LockOK
  <2>1. \A p \in Requests : at[p] = "commit" <=> writer = p
    BY DEF CounterInv, LockOK
  <2> QED
    BY <1>1, <1>2, <2>1, LedgerAssumption DEF TakeLock, LedgerAssumption
<1>5. KnownOK'
  BY <1>2 DEF CounterInv, KnownOK
<1>6. ASSUME NEW k \in keys PROVE RowOK(k)'
  BY <1>2, <1>3, <1>6, RowStays, SameCountsRefl DEF CounterInv
<1>7. ASSUME NEW q \in Requests PROVE TallyOK(q)'
  <2>1. CASE q # r
    BY <1>1, <1>2, <1>3, <2>1, TallyStays, SameCountsRefl DEF CounterInv
  <2>2. CASE q = r /\ caller[r] \in keys
    <3>1. tally'[r] = key[caller[r]] /\ key' = key /\ caller' = caller
      BY <1>1, <1>2
    <3>2. Below(key[caller[r]], caller[r])
      BY <2>2 DEF CounterInv, RowOK
    <3>3. Below(tally[r], caller[r])'
      BY <1>3, <3>1, <3>2 DEF Below
    <3>4. SameCounts(tally[r], key[caller[r]])'
      BY <3>1, SameCountsRefl
    <3> QED BY <2>2, <3>3, <3>4 DEF TallyOK
  <2>3. CASE q = r /\ caller[r] \notin keys
    BY <1>2, <2>3 DEF TallyOK
  <2> QED BY <2>1, <2>2, <2>3
<1> QED
  BY <1>2, <1>4, <1>5, <1>6, <1>7 DEF CounterInv

LEMMA CommitCounts ==
    ASSUME KeyInv, RestOK, CounterInv, NEW r \in Requests, CommitPersist(r)
    PROVE  CounterInv'
<1> PICK k : k = caller[r]
  OBVIOUS
<1> PICK e : e = [key |-> k, status |-> status[r], created |-> now, purged |-> FALSE]
  OBVIOUS
<1>1. /\ at \in [Requests -> Stages] /\ caller \in [Requests -> Keys \union {0}]
      /\ tally \in [Requests -> KeyRows] /\ key \in [Keys -> KeyRows]
      /\ status[r] \in Statuses /\ keys \subseteq Keys /\ log \in Seq(Entries)
  BY DEF KeyInv, RowsOK, RestOK
<1>2. at[r] = "commit" /\ k \in Keys /\ e \in Entries
  BY DEF CommitPersist, KeyInv, RowsOK, CallerOK, Entries
<1>3. /\ UNCHANGED <<database, keys, deleted>> /\ log' = Append(log, e)
      /\ key' = IF k \in keys
                  THEN [key EXCEPT ![k] = Counted(key[k], tally[r], status[r])] ELSE key
      /\ FreeLock(r) /\ at' = [at EXCEPT ![r] = "idle"]
      /\ caller' = [caller EXCEPT ![r] = 0]
      /\ \A q \in Requests \ {r} : tally'[q] = tally[q]
  BY <1>1 DEF CommitPersist, Forget, histories
<1>4. \A l : \A S : /\ Entered(l, S)' = IF k = l /\ status[r] \in S
                                          THEN Entered(l, S) + 1 ELSE Entered(l, S)
                    /\ Entered(l, S) \in Nat
  <2>1. ASSUME NEW l, NEW S
        PROVE  Entered(l, S)' = IF e.key = l /\ e.status \in S
                                  THEN Entered(l, S) + 1 ELSE Entered(l, S)
    BY <1>1, <1>2, <1>3, EnteredGrows
  <2> QED BY <1>1, <2>1, EnteredIs
<1>5. LockOK'
  <2> SUFFICES ASSUME database = "sqlite", NEW q \in Requests
               PROVE  at'[q] = "commit" <=> writer' = q
    BY <1>3 DEF LockOK
  <2>1. \A p \in Requests : at[p] = "commit" <=> writer = p
    BY DEF CounterInv, LockOK
  <2> QED
    BY <1>1, <1>2, <1>3, <2>1, LedgerAssumption DEF FreeLock, LedgerAssumption
<1>6. KnownOK'
  <2>1. DOMAIN log' = DOMAIN log \union {Len(log) + 1} /\ log'[Len(log) + 1] = e
        /\ \A i \in DOMAIN log : log'[i] = log[i]
    <3>1. Len(log) \in Nat /\ DOMAIN log = 1 .. Len(log)
      BY <1>1, LogIs
    <3>2. log' \in Seq(Entries) /\ Len(log') = Len(log) + 1
      BY <1>1, <1>2, <1>3, AppendProperties
    <3>3. DOMAIN log' = 1 .. Len(log) + 1
      BY <3>2, LenProperties
    <3>4. /\ log'[Len(log) + 1] = e
          /\ \A i \in 1 .. Len(log) : log'[i] = log[i]
      BY <1>1, <1>2, <1>3, AppendProperties
    <3> QED BY <3>1, <3>3, <3>4
  <2>2. e.key \in keys \union deleted \union {0}
    BY DEF CounterInv, KnownOK
  <2> QED BY <1>1, <1>3, <2>1, <2>2 DEF CounterInv, KnownOK
<1>7. ASSUME NEW l \in keys PROVE RowOK(l)'
  <2>1. CASE l # k
    <3>1. \A S : Entered(l, S)' = Entered(l, S)
      BY <1>4, <2>1
    <3>2. key'[l] = key[l]
      BY <1>1, <1>3, <2>1
    <3> QED BY <1>3, <3>1, <3>2, RowStays, SameCountsRefl DEF CounterInv
  <2>2. CASE l = k
    <3>1. key'[k] = Counted(key[k], tally[r], status[r])
      BY <1>1, <1>2, <1>3, <2>2
    <3>2. key[k] \in KeyRows /\ tally[r] \in KeyRows
      BY <1>1, <1>2
    <3>3. /\ key'[k].requests = tally[r].requests + 1
          /\ key'[k].successes = IF status[r] = "success" THEN tally[r].successes + 1
                                                          ELSE key[k].successes
          /\ key'[k].failures = IF status[r] = "error" THEN tally[r].failures + 1
                                                       ELSE key[k].failures
      BY <3>1, <3>2 DEF Counted, KeyRows
    <3>4. /\ Entered(k, Statuses)' = Entered(k, Statuses) + 1
          /\ Entered(k, {"success"})' = IF status[r] = "success"
                THEN Entered(k, {"success"}) + 1 ELSE Entered(k, {"success"})
          /\ Entered(k, {"error"})' = IF status[r] = "error"
                THEN Entered(k, {"error"}) + 1 ELSE Entered(k, {"error"})
      BY <1>1, <1>4
    <3>5. /\ Entered(k, Statuses) \in Nat /\ Entered(k, {"success"}) \in Nat
          /\ Entered(k, {"error"}) \in Nat
      BY <1>4
    <3>6. /\ Below(key[k], k) /\ Below(tally[r], k)
          /\ database = "sqlite" /\ k \notin deleted =>
                ExactRow(key[k], k) /\ SameCounts(tally[r], key[k])
      BY <1>2, <2>2 DEF CounterInv, RowOK, TallyOK
    <3>7. Below(key[k], k)'
      <4>1. /\ tally[r].requests <= Entered(k, Statuses)
            /\ tally[r].successes <= Entered(k, {"success"})
            /\ tally[r].failures <= Entered(k, {"error"})
            /\ key[k].successes <= Entered(k, {"success"})
            /\ key[k].failures <= Entered(k, {"error"})
        BY <3>6 DEF Below
      <4>2. /\ tally[r].requests \in Nat /\ tally[r].successes \in Nat
            /\ tally[r].failures \in Nat /\ key[k].successes \in Nat
            /\ key[k].failures \in Nat
        BY <3>2 DEF KeyRows
      <4>3. key'[k].requests <= Entered(k, Statuses)'
        BY <3>3, <3>4, <3>5, <4>1, <4>2
      <4>4. key'[k].successes <= Entered(k, {"success"})'
        BY <3>3, <3>4, <3>5, <4>1, <4>2
      <4>5. key'[k].failures <= Entered(k, {"error"})'
        BY <3>3, <3>4, <3>5, <4>1, <4>2
      <4> QED BY <4>3, <4>4, <4>5 DEF Below
    <3>8. database = "sqlite" /\ k \notin deleted => ExactRow(key[k], k)'
      BY <1>3, <3>2, <3>3, <3>4, <3>5, <3>6 DEF ExactRow, SameCounts, KeyRows
    <3> QED BY <1>3, <2>2, <3>7, <3>8 DEF RowOK
  <2> QED BY <2>1, <2>2
<1>8. ASSUME NEW q \in Requests PROVE TallyOK(q)'
  <2> SUFFICES ASSUME at'[q] = "commit", caller'[q] \in keys' PROVE TallyOK(q)'
    BY DEF TallyOK
  <2>1. q # r /\ at[q] = "commit" /\ caller'[q] = caller[q] /\ tally'[q] = tally[q]
    BY <1>1, <1>3
  <2>2. database # "sqlite"
    BY <1>2, <2>1 DEF CounterInv, LockOK
  <2>3. PICK l \in keys : l = caller[q]
    BY <1>3, <2>1
  <2>4. Below(tally[q], l)
    BY <2>1, <2>3 DEF CounterInv, TallyOK
  <2>5. tally[q] \in KeyRows
    BY <1>1
  <2>6. \A S : Entered(l, S)' >= Entered(l, S) /\ Entered(l, S)' \in Nat /\ Entered(l, S) \in Nat
    BY <1>4
  <2>8. /\ tally[q].requests <= Entered(l, Statuses)'
        /\ tally[q].successes <= Entered(l, {"success"})'
        /\ tally[q].failures <= Entered(l, {"error"})'
    BY <2>4, <2>5, <2>6 DEF Below, KeyRows
  <2>9. Below(tally[q], caller[q])'
    BY <2>1, <2>3, <2>8 DEF Below
  <2> QED BY <1>3, <2>2, <2>9 DEF TallyOK
<1> QED
  BY <1>3, <1>5, <1>6, <1>7, <1>8 DEF CounterInv

(* On SQLite nobody writes while a request is on its way to a commit.      *)
LEMMA NobodyCommits ==
    ASSUME CounterInv, CanWrite, database = "sqlite", NEW q \in Requests
    PROVE  at[q] # "commit"
BY LedgerAssumption DEF CounterInv, LockOK, CanWrite, LedgerAssumption

LEMMA MarkKeeps ==
    ASSUME KeyInv, RestOK, CounterInv, NEW k \in Keys,
           (\E b \in BOOLEAN : SetEnabled(k, b)) \/ Revoke(k)
    PROVE  CounterInv'
<1> USE DEF ownVars, histories
<1>1. key \in [Keys -> KeyRows] /\ keys \subseteq Keys
  BY DEF KeyInv, RowsOK
<1>2. \A row \in KeyRows : \A b \in BOOLEAN :
          /\ SameCounts([row EXCEPT !.enabled = b], row)
          /\ SameCounts(Revoked(row), row)
  BY DEF SameCounts, KeyRows, Revoked
<1>3. \E row : /\ key' = [key EXCEPT ![k] = row] /\ SameCounts(row, key[k])
  <2>1. CASE \E b \in BOOLEAN : SetEnabled(k, b)
    <3>1. PICK b \in BOOLEAN : SetEnabled(k, b)
      BY <2>1
    <3>2. key' = [key EXCEPT ![k] = [key[k] EXCEPT !.enabled = b]]
      BY <3>1 DEF SetEnabled
    <3> QED BY <1>1, <1>2, <3>2
  <2>2. CASE Revoke(k)
    BY <1>1, <1>2, <2>2 DEF Revoke
  <2> QED BY <2>1, <2>2
<1>4. \A l \in keys : SameCounts(key'[l], key[l])
  BY <1>1, <1>3, SameCountsRefl
<1>5. UNCHANGED <<database, keys, log, deleted, ownVars, writer>>
  BY DEF SetEnabled, Revoke
<1>6. LockOK'
  BY <1>5 DEF CounterInv, LockOK
<1> QED
  BY <1>4, <1>5, <1>6, QuietKeeps

(* The entries of a deleted key are nobody's.                              *)
LEMMA DeleteKeeps ==
    ASSUME KeyInv, RestOK, CounterInv, NEW k \in Keys, Delete(k)
    PROVE  CounterInv'
<1> USE DEF ownVars
<1>1. /\ UNCHANGED <<database, key, at, caller, tally, writer>>
      /\ keys' = keys \ {k} /\ deleted' = deleted \union {k} /\ k \in keys
      /\ DOMAIN log' = DOMAIN log
      /\ log' = [i \in DOMAIN log |->
                   IF log[i].key = k THEN [log[i] EXCEPT !.key = 0] ELSE log[i]]
  BY DEF Delete
<1>2. \A i \in DOMAIN log : log[i] \in Entries
  BY LogIs DEF RestOK
<1>3. \A i \in DOMAIN log : /\ log'[i].status = log[i].status
                            /\ log'[i].key = IF log[i].key = k THEN 0 ELSE log[i].key
  BY <1>1, <1>2 DEF Entries
<1>4. ASSUME NEW l \in keys', NEW S PROVE Entered(l, S)' = Entered(l, S)
  <2>1. l # 0 /\ l # k
    BY <1>1, LedgerAssumption DEF LedgerAssumption, KeyInv, RowsOK
  <2>2. \A i \in DOMAIN log : /\ log'[i].status = log[i].status
                              /\ log'[i].key = l <=> log[i].key = l
    BY <1>3, <2>1
  <2>3. log \in Seq(Entries)
    BY DEF RestOK
  <2> QED BY <1>1, <2>2, <2>3, EnteredStays
<1>5. LockOK'
  BY <1>1 DEF CounterInv, LockOK
<1>6. KnownOK'
  BY <1>1, <1>3 DEF CounterInv, KnownOK
<1>7. ASSUME NEW l \in keys' PROVE RowOK(l)'
  <2>1. \A S : Entered(l, S)' = Entered(l, S)
    BY <1>4
  <2>2. l \in keys /\ RowOK(l) /\ deleted \subseteq deleted' /\ key'[l] = key[l]
    BY <1>1 DEF CounterInv
  <2> QED BY <1>1, <2>1, <2>2, RowStays, SameCountsRefl
<1>8. ASSUME NEW q \in Requests PROVE TallyOK(q)'
  <2>1. caller[q] \in keys' => \A S : Entered(caller[q], S)' = Entered(caller[q], S)
    <3>1. \A l \in keys' : \A S : Entered(l, S)' = Entered(l, S)
      BY <1>4
    <3> QED BY <1>1, <3>1
  <2>2. TallyOK(q)
    BY DEF CounterInv
  <2> QED BY <1>1, <2>1, <2>2, TallyStays, SameCountsRefl
<1> QED
  BY <1>5, <1>6, <1>7, <1>8 DEF CounterInv

(* A new key starts at zero: no entry is on its id, unless the id has been *)
(* used before, and no request counts on it yet.                           *)
LEMMA CreateKeeps ==
    ASSUME KeyInv, RestOK, CounterInv, NEW k \in Keys, Create(k)
    PROVE  CounterInv'
<1> USE DEF ownVars, histories
<1>1. PICK days \in Lifetimes : key' = [key EXCEPT ![k] = NewKey(days)]
  BY DEF Create
<1>2. /\ UNCHANGED <<database, at, caller, tally, writer, log, deleted>>
      /\ keys' = keys \union {k} /\ k \notin keys
      /\ database # "sqlite" => k \notin deleted
      /\ CanWrite
  BY DEF Create
<1>3. key \in [Keys -> KeyRows] /\ keys \subseteq Keys /\ k # 0
  BY LedgerAssumption DEF LedgerAssumption, KeyInv, RowsOK
<1>4. \A l : \A S : Entered(l, S)' = Entered(l, S) /\ Entered(l, S) \in Nat
  <2>1. log \in Seq(Entries)
    BY DEF RestOK
  <2>2. \A l : \A S : Entered(l, S) \in Nat
    BY <2>1, EnteredIs
  <2> QED BY <1>2, <2>2 DEF Entered
<1>5. key'[k].requests = 0 /\ key'[k].successes = 0 /\ key'[k].failures = 0
  BY <1>1, <1>3 DEF NewKey
<1>6. k \notin deleted => \A S : Entered(k, S) = 0
  <2> SUFFICES ASSUME k \notin deleted, NEW S PROVE Entered(k, S) = 0
    OBVIOUS
  <2>1. {i \in DOMAIN log : log[i].key = k /\ log[i].status \in S} = {}
    BY <1>2, <1>3 DEF CounterInv, KnownOK
  <2> QED BY <2>1, FS_EmptySet DEF Entered
<1>7. LockOK' /\ KnownOK'
  BY <1>2 DEF CounterInv, LockOK, KnownOK
<1>8. ASSUME NEW l \in keys' PROVE RowOK(l)'
  <2>1. CASE l = k
    <3>1. \A S : Entered(k, S)' \in Nat /\ (k \notin deleted => Entered(k, S)' = 0)
      BY <1>4, <1>6
    <3>2. Below(key[k], k)'
      BY <1>5, <3>1 DEF Below
    <3>3. k \notin deleted' => ExactRow(key[k], k)'
      BY <1>2, <1>5, <3>1 DEF ExactRow
    <3> QED BY <2>1, <3>2, <3>3 DEF RowOK
  <2>2. CASE l # k
    <3>1. l \in keys /\ key'[l] = key[l] /\ RowOK(l)
      BY <1>1, <1>2, <1>3, <2>2 DEF CounterInv
    <3> QED BY <1>2, <1>4, <3>1, RowStays, SameCountsRefl
  <2> QED BY <2>1, <2>2
<1>9. ASSUME NEW q \in Requests PROVE TallyOK(q)'
  <2>1. CASE database = "sqlite"
    <3>1. at'[q] # "commit"
      BY <1>2, <2>1, NobodyCommits
    <3> QED BY <3>1 DEF TallyOK
  <2>2. CASE database # "sqlite"
    <3>1. caller[q] # k
      BY <1>2, <1>3, <2>2 DEF CounterInv, KnownOK
    <3>2. caller'[q] \in keys' => caller[q] \in keys /\ key'[caller[q]] = key[caller[q]]
      BY <1>1, <1>2, <1>3, <3>1
    <3>3. TallyOK(q)
      BY DEF CounterInv
    <3> QED BY <1>2, <1>4, <3>2, <3>3, TallyStays, SameCountsRefl
  <2> QED BY <2>1, <2>2
<1> QED
  BY <1>7, <1>8, <1>9 DEF CounterInv

(* A purged entry still counts.                                            *)
LEMMA PurgeKeeps ==
    ASSUME KeyInv, RestOK, CounterInv, Purge
    PROVE  CounterInv'
<1> USE DEF tableVars, ownVars, histories
<1>1. /\ UNCHANGED <<database, keys, key, at, caller, tally, writer, deleted>>
      /\ DOMAIN log' = DOMAIN log
      /\ \A i \in DOMAIN log : \/ log'[i] = log[i]
                               \/ log'[i] = [log[i] EXCEPT !.purged = TRUE]
  BY DEF Purge
<1>2. \A i \in DOMAIN log : log[i] \in Entries
  BY LogIs DEF RestOK
<1>3. \A i \in DOMAIN log : log'[i].status = log[i].status /\ log'[i].key = log[i].key
  BY <1>1, <1>2 DEF Entries
<1>4. ASSUME NEW l, NEW S PROVE Entered(l, S)' = Entered(l, S)
  <2>1. log \in Seq(Entries)
    BY DEF RestOK
  <2>2. \A i \in DOMAIN log : /\ log'[i].status = log[i].status
                              /\ log'[i].key = l <=> log[i].key = l
    BY <1>3
  <2> QED BY <1>1, <2>1, <2>2, EnteredStays
<1>5. LockOK' /\ KnownOK'
  BY <1>1, <1>3 DEF CounterInv, LockOK, KnownOK
<1>6. ASSUME NEW l \in keys PROVE RowOK(l)'
  <2>1. RowOK(l) /\ \A S : Entered(l, S)' = Entered(l, S)
    BY <1>4 DEF CounterInv
  <2> QED BY <1>1, <2>1, RowStays, SameCountsRefl
<1>7. ASSUME NEW q \in Requests PROVE TallyOK(q)'
  <2>1. TallyOK(q)
    BY DEF CounterInv
  <2>2. \A S : Entered(caller[q], S)' = Entered(caller[q], S)
    <3>1. \A l : \A S : Entered(l, S)' = Entered(l, S)
      BY <1>4
    <3> QED BY <1>1, <3>1
  <2> QED BY <1>1, <2>1, <2>2, TallyStays, SameCountsRefl
<1> QED
  BY <1>1, <1>5, <1>6, <1>7 DEF CounterInv

LEMMA CounterStep == KeyInv /\ RestOK /\ CounterInv /\ [Next]_vars => CounterInv'
<1> SUFFICES ASSUME KeyInv, RestOK, CounterInv, [Next]_vars PROVE CounterInv'
  OBVIOUS
<1>1. ASSUME NEW r \in Requests,
             \/ \E b \in Buckets : Arrive(r, b)
             \/ Authenticate(r) \/ Drop(r) \/ Complete(r) \/ StartBody(r)
             \/ EndBody(r) \/ LeaveBody(r) \/ LosePersist(r)
      PROVE  CounterInv'
  BY <1>1, WayKeeps
<1>2. ASSUME NEW r \in Requests, BeginPersist(r) PROVE CounterInv'
  BY <1>2, BeginKeeps
<1>3. ASSUME NEW r \in Requests, CommitPersist(r) PROVE CounterInv'
  BY <1>3, CommitCounts
<1>4. ASSUME NEW k \in Keys, (\E b \in BOOLEAN : SetEnabled(k, b)) \/ Revoke(k)
      PROVE  CounterInv'
  BY <1>4, MarkKeeps
<1>5. ASSUME NEW k \in Keys, Delete(k) \/ Create(k) PROVE CounterInv'
  BY <1>5, DeleteKeeps, CreateKeeps
<1>6. CASE Purge
  BY <1>6, PurgeKeeps
<1>7. CASE Clock \/ Restart \/ (\E b \in Buckets : Refuse(b)) \/ UNCHANGED vars
  <2>1. UNCHANGED <<database, log, keys, key, deleted>>
    BY <1>7 DEF Clock, Restart, Refuse, vars, tableVars, histories
  <2>2. \A q \in Requests :
           /\ caller'[q] \in {caller[q], 0}
           /\ at'[q] = "commit" => /\ at[q] = "commit" /\ caller'[q] = caller[q]
                                   /\ tally'[q] = tally[q]
    BY <1>7 DEF Clock, Restart, Refuse, vars, ownVars
  <2>3. LockOK'
    BY <1>7, LedgerAssumption DEF Clock, Restart, Refuse, vars, ownVars, tableVars,
       CounterInv, LockOK, LedgerAssumption
  <2>4. \A k \in keys : SameCounts(key'[k], key[k])
    BY <2>1, SameCountsRefl
  <2> QED BY <2>1, <2>2, <2>3, <2>4, QuietKeeps
<1> QED
  BY <1>1, <1>2, <1>3, <1>4, <1>5, <1>6, <1>7 DEF Next

(* The statistics of a key never run ahead of the log, on either database, *)
(* and on SQLite they are exact (metrics.py:137-147).                      *)
THEOREM CountersHold == Spec => []CountersFollowLog
<1>1. CounterInv => CountersFollowLog
  <2> SUFFICES ASSUME CounterInv, NEW k \in keys
               PROVE  LET c == <<key[k].requests, key[k].successes, key[k].failures>>
                          n == <<Entered(k, Statuses), Entered(k, {"success"}),
                                 Entered(k, {"error"})>>
                      IN /\ \A i \in 1 .. 3 : c[i] <= n[i]
                         /\ database = "sqlite" /\ k \notin deleted => c = n
    BY DEF CountersFollowLog
  <2>1. Below(key[k], k) /\ (database = "sqlite" /\ k \notin deleted => ExactRow(key[k], k))
    BY DEF CounterInv, RowOK
  <2> QED BY <2>1 DEF Below, ExactRow
<1>2. Init => CounterInv
  BY KeyInit, CounterInit
<1> QED
  BY <1>1, <1>2, RestInit, RestStep, KeyInit, KeyStep, CounterStep, PTL DEF Spec

-----------------------------------------------------------------------------
(***************************************************************************)
(* ModelCatalogue.                                                         *)
(***************************************************************************)

(* What update_settings writes for a value reads back as the value.        *)
LEMMA TextReadsBack ==
    ASSUME NEW setting \in Settings, NEW value \in Options[setting]
    PROVE  /\ Parse(setting, Text(setting, value)) = value
           /\ Text(setting, value) \in TextsOf(setting)
           /\ Text(setting, value) # Unset
  <1>1. CASE setting \in Flags
    <2>1. value \in BOOLEAN
      BY <1>1, SettingsAssumption
    <2>2. CASE value = TRUE
      BY <1>1, <2>2, SettingsAssumption DEF Text, Parse, TextsOf
    <2>3. CASE value = FALSE
      <3>1. Text(setting, value) = "false"
        BY <1>1, <2>3 DEF Text
      <3>2. "false" \notin {"1", "true", "yes", "on"}
        OBVIOUS
      <3>3. Parse(setting, "false") = ("false" \in {"1", "true", "yes", "on"})
        BY <1>1, Zenon DEF Parse
      <3>4. ASSUME NEW P \in BOOLEAN, ~P PROVE P = FALSE
        BY <3>4
      <3>5. ("false" \in {"1", "true", "yes", "on"}) = FALSE
        <4>. DEFINE read == "false" \in {"1", "true", "yes", "on"}
        <4>1. read \in BOOLEAN /\ ~read
          BY <3>2
        <4>. HIDE DEF read
        <4>2. read = FALSE
          BY <3>4, <4>1
        <4>. QED BY <4>2 DEF read
      <3>. QED BY <1>1, <2>3, <3>1, <3>3, <3>5, SettingsAssumption DEF TextsOf
    <2>. QED BY <2>1, <2>2, <2>3
  <1>2. CASE setting \notin Flags
    BY <1>2, SettingsAssumption DEF Text, Parse, TextsOf
  <1>. QED BY <1>1, <1>2

LEMMA ParseTyped ==
    ASSUME NEW setting \in Settings, NEW text \in TextsOf(setting)
    PROVE  Parse(setting, text) \in Options[setting]
  <1>1. CASE setting \in Flags
    <2>1. (text \in {"1", "true", "yes", "on"}) \in BOOLEAN
      OBVIOUS
    <2>2. Parse(setting, text) \in BOOLEAN
      BY <1>1, <2>1, Zenon DEF Parse
    <2>. QED BY <1>1, <2>2, SettingsAssumption
  <1>2. CASE setting \notin Flags
    BY <1>2 DEF TextsOf, Parse
  <1>. QED BY <1>1, <1>2

-----------------------------------------------------------------------------
(* An update of a setting that no other open update has touched will leave *)
(* the value the process has.                                              *)
WillAgree(a, setting) ==
    IF setting \in DOMAIN patch[a].dirty
      THEN Parse(setting, patch[a].dirty[setting]) = process[setting] /\ patch[a].dirty[setting] # Unset
      ELSE stored[setting] # Unset /\ Parse(setting, stored[setting]) = process[setting]

Sound(a) ==
    /\ ~patch[a].open => patch[a].set = {}
    /\ DOMAIN patch[a].dirty \subseteq patch[a].set
    /\ patch[a].alone \subseteq patch[a].set
    /\ patch[a].set \ patch[a].alone \subseteq contested
    /\ \A setting \in patch[a].alone :
         /\ WillAgree(a, setting)
         /\ \A b \in Admins \ {a} : setting \notin patch[b].set

PatchInv ==
    /\ SettingsTypeOK
    /\ SettingsAgree
    /\ \A a \in Admins : Sound(a)

LEMMA ClosedTyped == Closed \in Updates
  <1>1. <<>> \in Drafts
    <2>1. {} \in SUBSET Settings /\ <<>> \in [{} -> Texts]
      OBVIOUS
    <2>. QED BY <2>1 DEF Drafts
  <1>. QED BY <1>1 DEF Closed, Updates

LEMMA PatchInvInit == SettingsInit => PatchInv
  <1>. SUFFICES ASSUME SettingsInit PROVE PatchInv
    OBVIOUS
  <1>1. Closed \in Updates
    BY ClosedTyped
  <1>2. SettingsAgree
    BY SettingsAssumption DEF SettingsInit, SettingsAgree, Override
  <1>3. SettingsTypeOK
    BY <1>1, SettingsAssumption DEF SettingsInit, SettingsTypeOK
  <1>. QED BY <1>2, <1>3 DEF SettingsInit, PatchInv, Sound, Closed

-----------------------------------------------------------------------------
(* Each step of an update keeps the invariant.                             *)
LEMMA PatchBeginKeeps ==
    ASSUME PatchInv, NEW a \in Admins, NEW todo \in Patches,
           ~patch[a].open, BeginPatch(a, todo)
    PROVE  PatchInv'
  <1>. DEFINE begun == [Closed EXCEPT !.open = TRUE, !.todo = todo]
  <1>1. begun \in Updates
    BY ClosedTyped, SettingsAssumption DEF Closed, Updates
  <1>2. patch' \in [Admins -> Updates]
    BY <1>1 DEF BeginPatch, PatchInv, SettingsTypeOK
  <1>3. \A b \in Admins : patch'[b] = IF b = a THEN begun ELSE patch[b]
    BY DEF BeginPatch, PatchInv, SettingsTypeOK
  <1>4. begun.open /\ begun.set = {} /\ DOMAIN begun.dirty = {} /\ begun.alone = {}
    BY DEF Closed
  <1>5. patch[a].set = {}
    BY DEF PatchInv, Sound
  <1>6. SettingsAgree'
    BY <1>3, <1>4, <1>5 DEF SettingsAgree, Override, BeginPatch, PatchInv
  <1>. HIDE DEF begun
  <1>7. \A b \in Admins : patch'[b].set = patch[b].set
    BY <1>3, <1>4, <1>5
  <1>8. ASSUME NEW b \in Admins PROVE Sound(b)'
    <2>1. CASE b = a
      BY <1>3, <1>4, <2>1 DEF Sound
    <2>2. CASE b # a
      <3>1. patch'[b] = patch[b] /\ Sound(b)
        BY <1>3, <2>2 DEF PatchInv
      <3>2. \A setting : WillAgree(b, setting)' = WillAgree(b, setting)
        BY <3>1 DEF WillAgree, BeginPatch
      <3>. QED BY <1>7, <3>1, <3>2 DEF Sound, BeginPatch
    <2>. QED BY <2>1, <2>2
  <1>9. SettingsTypeOK'
    BY <1>2 DEF BeginPatch, PatchInv, SettingsTypeOK
  <1>. QED BY <1>6, <1>8, <1>9 DEF PatchInv

LEMMA PatchCommitKeeps ==
    ASSUME PatchInv, NEW a \in Admins, CommitPatch(a)
    PROVE  PatchInv'
  <1>1. Closed \in Updates
    BY ClosedTyped
  <1>2. patch' \in [Admins -> Updates]
    BY <1>1 DEF CommitPatch, PatchInv, SettingsTypeOK
  <1>3. \A b \in Admins : patch'[b] = IF b = a THEN Closed ELSE patch[b]
    BY DEF CommitPatch, PatchInv, SettingsTypeOK
  <1>4. \A b \in Admins : patch[b].alone \subseteq Settings /\ patch[b].set \subseteq Settings
    BY DEF PatchInv, SettingsTypeOK, Updates
  <1>5. ASSUME NEW setting \in Settings, setting \notin DOMAIN patch[a].dirty
        PROVE  stored'[setting] = stored[setting]
    BY <1>5 DEF CommitPatch
  <1>6. SettingsAgree'
    <2>. SUFFICES ASSUME NEW setting \in Settings \ contested',
                         \A b \in Admins : setting \notin patch'[b].set
                  PROVE  process'[setting] = Override(setting)'
      BY DEF SettingsAgree
    <2>1. CASE setting \in patch[a].alone
      <3>1. WillAgree(a, setting)
        BY <2>1 DEF PatchInv, Sound
      <3>2. CASE setting \in DOMAIN patch[a].dirty
        BY <3>1, <3>2 DEF WillAgree, CommitPatch, Override
      <3>3. CASE setting \notin DOMAIN patch[a].dirty
        BY <1>5, <3>1, <3>3 DEF WillAgree, CommitPatch, Override
      <3>. QED BY <3>2, <3>3
    <2>2. CASE setting \notin patch[a].alone
      <3>1. setting \notin contested
        BY <2>2 DEF CommitPatch
      <3>2. setting \notin patch[a].set
        BY <2>2, <3>1 DEF PatchInv, Sound
      <3>3. \A b \in Admins : setting \notin patch[b].set
        BY <1>3, <3>2
      <3>4. process[setting] = Override(setting)
        BY <3>1, <3>3 DEF PatchInv, SettingsAgree
      <3>5. stored'[setting] = stored[setting]
        BY <1>5, <3>2 DEF PatchInv, Sound
      <3>. QED BY <3>4, <3>5 DEF Override, CommitPatch
    <2>. QED BY <2>1, <2>2
  <1>7. ASSUME NEW b \in Admins PROVE Sound(b)'
    <2>1. CASE b = a
      BY <1>3, <2>1 DEF Sound, Closed
    <2>2. CASE b # a
      <3>1. patch'[b] = patch[b] /\ Sound(b) /\ Sound(a)
        BY <1>3, <2>2 DEF PatchInv
      <3>2. patch[b].set \ patch[b].alone \subseteq contested'
        BY <2>2, <3>1 DEF Sound, CommitPatch
      <3>3. ASSUME NEW setting \in patch[b].alone
            PROVE  /\ WillAgree(b, setting)'
                   /\ \A c \in Admins \ {b} : setting \notin patch'[c].set
        <4>1. setting \in Settings /\ setting \notin patch[a].set
          BY <1>4, <2>2, <3>1, <3>3 DEF Sound
        <4>2. stored'[setting] = stored[setting]
          BY <1>5, <3>1, <4>1 DEF Sound
        <4>3. WillAgree(b, setting)'
          BY <3>1, <3>3, <4>2 DEF Sound, WillAgree, CommitPatch
        <4>4. \A c \in Admins \ {b} : setting \notin patch'[c].set
          BY <1>3, <3>1, <3>3 DEF Sound, Closed
        <4>. QED BY <4>3, <4>4
      <3>. QED BY <3>1, <3>2, <3>3 DEF Sound
    <2>. QED BY <2>1, <2>2
  <1>8. ASSUME NEW setting \in Settings PROVE stored'[setting] \in TextsOf(setting) \union {Unset}
    <2>1. CASE setting \in DOMAIN patch[a].dirty
      <3>1. patch[a].dirty \in Drafts
        BY DEF PatchInv, SettingsTypeOK, Updates
      <3>. QED BY <2>1, <3>1 DEF CommitPatch, Drafts
    <2>2. CASE setting \notin DOMAIN patch[a].dirty
      BY <1>5, <2>2 DEF PatchInv, SettingsTypeOK
    <2>. QED BY <2>1, <2>2
  <1>9. SettingsTypeOK'
    BY <1>2, <1>8 DEF CommitPatch, PatchInv, SettingsTypeOK
  <1>. QED BY <1>6, <1>7, <1>9 DEF PatchInv

LEMMA FailKeeps ==
    ASSUME PatchInv, NEW a \in Admins, FailPatch(a)
    PROVE  PatchInv'
  <1>1. Closed \in Updates
    BY ClosedTyped
  <1>2. patch' \in [Admins -> Updates]
    BY <1>1 DEF FailPatch, PatchInv, SettingsTypeOK
  <1>3. \A b \in Admins : patch'[b] = IF b = a THEN Closed ELSE patch[b]
    BY DEF FailPatch, PatchInv, SettingsTypeOK
  <1>4. SettingsAgree'
    BY <1>3 DEF SettingsAgree, Override, FailPatch, PatchInv
  <1>5. ASSUME NEW b \in Admins PROVE Sound(b)'
    <2>1. CASE b = a
      BY <1>3, <2>1 DEF Sound, Closed
    <2>2. CASE b # a
      <3>1. patch'[b] = patch[b] /\ Sound(b)
        BY <1>3, <2>2 DEF PatchInv
      <3>2. \A setting : WillAgree(b, setting)' = WillAgree(b, setting)
        BY <3>1 DEF WillAgree, FailPatch
      <3>3. \A c \in Admins : patch'[c].set \subseteq patch[c].set
        BY <1>3 DEF Closed
      <3>. QED BY <3>1, <3>2, <3>3 DEF Sound, FailPatch
    <2>. QED BY <2>1, <2>2
  <1>6. patch[a].set \subseteq Settings
    BY DEF PatchInv, SettingsTypeOK, Updates
  <1>7. SettingsTypeOK'
    BY <1>2, <1>6 DEF FailPatch, PatchInv, SettingsTypeOK
  <1>. QED BY <1>4, <1>5, <1>7 DEF PatchInv

LEMMA RestartKeeps ==
    ASSUME PatchInv, RestartSettings
    PROVE  PatchInv'
  <1>1. Closed \in Updates
    BY ClosedTyped
  <1>2. SettingsAgree'
    BY DEF RestartSettings, SettingsAgree, Override
  <1>3. ASSUME NEW setting \in Settings PROVE Override(setting) \in Options[setting]
    BY ParseTyped, SettingsAssumption DEF Override, PatchInv, SettingsTypeOK
  <1>4. SettingsTypeOK'
    BY <1>1, <1>3 DEF RestartSettings, PatchInv, SettingsTypeOK
  <1>. QED BY <1>2, <1>4 DEF RestartSettings, PatchInv, Sound, Closed

(* SetKey changes one key and one update, and marks the others.            *)
LEMMA SetKeyKeeps ==
    ASSUME PatchInv, NEW a \in Admins, SetKey(a)
    PROVE  PatchInv'
  <1>. DEFINE setting == Head(patch[a].todo).key
              value == Head(patch[a].todo).value
              text == Text(setting, value)
              seen == stored[setting]
              others == {b \in Admins \ {a} : setting \in patch[b].set}
              changed == IF seen = text THEN {} ELSE {setting}
              draft == [k \in (DOMAIN patch[a].dirty \ {setting}) \union changed |->
                          IF k = setting THEN text ELSE patch[a].dirty[k]]
  <1>1. setting \in Settings /\ value \in Options[setting]
    <2>1. patch[a] \in Updates
      BY DEF PatchInv, SettingsTypeOK
    <2>2. patch[a].todo \in Seq(SettingEntries) /\ patch[a].todo # <<>>
      BY <2>1 DEF Updates, SetKey
    <2>3. Head(patch[a].todo) \in SettingEntries
      BY <2>2
    <2>. QED BY <2>3 DEF SettingEntries
  <1>2. Parse(setting, text) = value /\ text \in TextsOf(setting) /\ text # Unset
    BY <1>1, TextReadsBack
  <1>3. patch[a] \in Updates /\ Sound(a)
    BY DEF PatchInv, SettingsTypeOK
  <1>4. draft \in Drafts /\ DOMAIN draft \subseteq patch[a].set \union {setting}
    <2>1. PICK S \in SUBSET Settings : patch[a].dirty \in [S -> Texts]
      BY <1>3 DEF Updates, Drafts
    <2>2. DOMAIN patch[a].dirty \subseteq patch[a].set
      BY <1>3 DEF Sound
    <2>3. draft \in [(S \ {setting}) \union changed -> Texts]
      BY <1>1, <1>2, <2>1 DEF Texts
    <2>4. (S \ {setting}) \union changed \in SUBSET Settings
      BY <1>1, <2>1
    <2>5. DOMAIN draft \subseteq patch[a].set \union {setting}
      BY <2>2
    <2>6. \A k \in DOMAIN draft : draft[k] \in TextsOf(k)
      BY <1>2, <1>3 DEF Updates, Drafts
    <2>. HIDE DEF draft
    <2>. QED BY <2>3, <2>4, <2>5, <2>6 DEF Drafts
  <1>5. /\ \A k : k # setting => (k \in DOMAIN draft <=> k \in DOMAIN patch[a].dirty)
        /\ \A k \in DOMAIN draft \ {setting} : draft[k] = patch[a].dirty[k]
        /\ IF setting \in DOMAIN draft THEN draft[setting] = text ELSE stored[setting] = text
    OBVIOUS
  <1>6. process' = [process EXCEPT ![setting] = value] /\ stored' = stored
    BY DEF SetKey
  <1>7. contested' = IF others = {} THEN contested ELSE contested \union {setting}
    BY DEF SetKey
  <1>8. \A b \in Admins \ {a} :
            patch'[b] = IF b \in others THEN [patch[b] EXCEPT !.alone = @ \ {setting}]
                        ELSE patch[b]
    BY DEF SetKey
  <1>10. /\ patch[a].open /\ patch[a].todo # <<>>
         /\ patch[a].todo \in Seq(SettingEntries)
         /\ patch[a].set \in SUBSET Settings /\ patch[a].inserts \in SUBSET Settings
         /\ patch[a].alone \in SUBSET Settings
    BY <1>3 DEF SetKey, Updates
  <1>. DEFINE alone == patch[a].alone \union IF others = {} THEN {setting} ELSE {}
              inserts == patch[a].inserts \union IF seen = Unset THEN {setting} ELSE {}
              after == [open |-> TRUE, todo |-> Tail(patch[a].todo),
                        set |-> patch[a].set \union {setting}, dirty |-> draft,
                        inserts |-> inserts, alone |-> alone,
                        flushed |-> DOMAIN patch[a].dirty # {}]
  <1>11. patch'[a] = after
    BY DEF SetKey
  <1>. HIDE DEF draft, others, seen, text, value, changed
  <1>12. after \in Updates
    <2>1. Tail(patch[a].todo) \in Seq(SettingEntries)
      BY <1>10
    <2>2. alone \in SUBSET Settings /\ inserts \in SUBSET Settings
      BY <1>1, <1>10
    <2>. HIDE DEF alone, inserts
    <2>. QED BY <1>1, <1>4, <1>10, <2>1, <2>2 DEF Updates
  <1>13. ASSUME NEW b \in Admins \ {a}
         PROVE  /\ patch'[b] \in Updates
                /\ patch'[b].open = patch[b].open /\ patch'[b].set = patch[b].set
                /\ patch'[b].dirty = patch[b].dirty
                /\ patch'[b].alone = patch[b].alone \ (IF b \in others THEN {setting} ELSE {})
    <2>1. patch[b] \in Updates
      BY DEF PatchInv, SettingsTypeOK
    <2>2. CASE b \in others
      BY <1>8, <2>1, <2>2 DEF Updates
    <2>3. CASE b \notin others
      BY <1>8, <2>1, <2>3
    <2>. QED BY <2>2, <2>3
  <1>. HIDE DEF alone, inserts
  <1>14. patch' \in [Admins -> Updates]
    <2>1. patch' = [b \in Admins |-> patch'[b]]
      BY DEF SetKey
    <2>2. \A b \in Admins : patch'[b] \in Updates
      BY <1>11, <1>12, <1>13
    <2>. QED BY <2>1, <2>2
  <1>15. \A b \in Admins : patch'[b].set = IF b = a THEN patch[a].set \union {setting}
                                            ELSE patch[b].set
    <2>. SUFFICES ASSUME NEW b \in Admins
                  PROVE  patch'[b].set = IF b = a THEN patch[a].set \union {setting}
                                         ELSE patch[b].set
      OBVIOUS
    <2>1. CASE b = a
      BY <1>11, <2>1
    <2>2. CASE b # a
      BY <1>13, <2>2
    <2>. QED BY <2>1, <2>2
  <1>16. SettingsAgree'
    <2>. SUFFICES ASSUME NEW k \in Settings \ contested',
                         \A b \in Admins : k \notin patch'[b].set
                  PROVE  process'[k] = Override(k)'
      BY DEF SettingsAgree
    <2>1. k # setting /\ k \notin contested /\ \A b \in Admins : k \notin patch[b].set
      BY <1>7, <1>15
    <2>2. process[k] = Override(k)
      BY <2>1 DEF PatchInv, SettingsAgree
    <2>. QED BY <1>6, <2>1, <2>2 DEF Override
  <1>17. Sound(a)'
    <2>1. contested \subseteq contested' /\ (others # {} => setting \in contested')
      BY <1>7
    <2>2. DOMAIN patch'[a].dirty \subseteq patch'[a].set
      BY <1>4, <1>11
    <2>3. patch'[a].set \ patch'[a].alone \subseteq contested'
      <3>1. patch[a].set \ patch[a].alone \subseteq contested
        BY <1>3 DEF Sound
      <3>. QED BY <1>11, <2>1, <3>1 DEF alone
    <2>5. patch'[a].alone \subseteq patch'[a].set
      BY <1>3, <1>11 DEF alone, Sound
    <2>4. ASSUME NEW k \in patch'[a].alone
          PROVE  WillAgree(a, k)' /\ \A b \in Admins \ {a} : k \notin patch'[b].set
      <3>1. CASE k = setting
        <4>1. others = {}
          <5>1. setting \notin patch[a].alone \/ others = {}
            BY <1>3 DEF Sound, others
          <5>. QED BY <1>11, <2>4, <3>1, <5>1 DEF alone
        <4>2. process'[setting] = value
          BY <1>1, <1>6 DEF PatchInv, SettingsTypeOK
        <4>3. WillAgree(a, k)'
          <5>1. patch'[a].dirty = draft
            BY <1>11
          <5>2. CASE setting \in DOMAIN draft
            <6>1. draft[setting] = text
              BY <1>5, <5>2
            <6>. QED BY <1>2, <3>1, <4>2, <5>1, <5>2, <6>1 DEF WillAgree
          <5>3. CASE setting \notin DOMAIN draft
            <6>1. stored'[setting] = text
              BY <1>5, <1>6, <5>3
            <6>. QED BY <1>2, <3>1, <4>2, <5>1, <5>3, <6>1 DEF WillAgree
          <5>. QED BY <5>2, <5>3
        <4>4. \A b \in Admins \ {a} : k \notin patch'[b].set
          BY <1>13, <3>1, <4>1 DEF others
        <4>. QED BY <4>3, <4>4
      <3>2. CASE k # setting
        <4>1. k \in patch[a].alone
          BY <1>11, <2>4, <3>2 DEF alone
        <4>2. WillAgree(a, k) /\ \A b \in Admins \ {a} : k \notin patch[b].set
          BY <1>3, <4>1 DEF Sound
        <4>3. WillAgree(a, k)'
          BY <1>5, <1>6, <1>11, <3>2, <4>2 DEF WillAgree
        <4>. QED BY <1>15, <4>2, <4>3
      <3>. QED BY <3>1, <3>2
    <2>. QED BY <1>11, <2>2, <2>3, <2>4, <2>5 DEF Sound
  <1>18. ASSUME NEW b \in Admins \ {a} PROVE Sound(b)'
    <2>1. Sound(b)
      BY DEF PatchInv
    <2>2. patch'[b].set \ patch'[b].alone \subseteq contested'
      BY <1>7, <1>13, <2>1 DEF Sound
    <2>3. ASSUME NEW k \in patch'[b].alone
          PROVE  WillAgree(b, k)' /\ \A c \in Admins \ {b} : k \notin patch'[c].set
      <3>1. k \in patch[b].alone
        BY <1>13, <2>3
      <3>2. WillAgree(b, k) /\ \A c \in Admins \ {b} : k \notin patch[c].set
        BY <2>1, <3>1 DEF Sound
      <3>3. k # setting
        <4>1. CASE b \in others
          BY <1>13, <2>3, <4>1
        <4>2. CASE b \notin others
          BY <2>1, <3>1, <4>2 DEF others, Sound
        <4>. QED BY <4>1, <4>2
      <3>4. WillAgree(b, k)'
        BY <1>6, <1>13, <3>2, <3>3 DEF WillAgree
      <3>. QED BY <1>15, <3>2, <3>3, <3>4
    <2>. QED BY <1>13, <2>1, <2>2, <2>3 DEF Sound
  <1>19. SettingsTypeOK'
    BY <1>1, <1>6, <1>7, <1>14 DEF PatchInv, SettingsTypeOK
  <1>. QED BY <1>16, <1>17, <1>18, <1>19 DEF PatchInv

-----------------------------------------------------------------------------
(* The rows and the upserts in progress.                                   *)
RowsInv ==
    /\ DOMAIN rows \subseteq Nat \ {0}
    /\ \A pk \in DOMAIN rows : rows[pk] \in Rows
    /\ job \in [Actors -> [todo : Seq(Rows), read : Readings]]

IInv == PatchInv /\ RowsInv

Offers == [model : Names, aliases : SUBSET Names]

LEMMA TrimmedTyped ==
    ASSUME NEW aliases \in SUBSET Names
    PROVE  Trimmed(aliases) \subseteq Names
  <1>1. \A alias \in aliases : Strip[alias] \in Names \union {NoName}
    BY NamesAssumption DEF Typed
  <1>. QED BY <1>1 DEF Trimmed

LEMMA InfosTyped ==
    ASSUME NEW provider \in Providers, NEW models \in Seq(Offers)
    PROVE  Infos(provider, models) \in Seq(Rows)
  <1>1. \A model : EnvNames(model) \subseteq Names
    <2>1. \A alias \in DOMAIN EnvAlias : alias \in Names
      BY NamesAssumption
    <2>. QED BY <2>1 DEF EnvNames
  <1>2. \A i \in DOMAIN models : Infos(provider, models)[i] \in Rows
    <2>. TAKE i \in DOMAIN models
    <2>1. models[i] \in Offers
      OBVIOUS
    <2>2. Trimmed(models[i].aliases \union EnvNames(models[i].model)) \subseteq Names
      BY <1>1, <2>1, TrimmedTyped DEF Offers
    <2>3. provider \in Labels
      BY NamesAssumption
    <2>. QED BY <2>1, <2>2, <2>3 DEF Infos, Rows, Offers
  <1>3. Infos(provider, models) \in [1 .. Len(models) -> Rows]
    BY <1>2 DEF Infos
  <1>. QED BY <1>3

LEMMA IdleTyped == Idle \in [todo : Seq(Rows), read : Readings]
  BY DEF Idle, Readings, NotRead

LEMMA StartingTyped ==
    ASSUME NEW seeds \in Seq(Rows)
    PROVE  Starting(seeds) \in [Actors -> [todo : Seq(Rows), read : Readings]]
  BY IdleTyped DEF Starting

LEMMA SeedsTyped ==
    ASSUME NEW provider \in Providers
    PROVE  Seeds(provider) \in Seq(Rows)
  <1>1. PICK models \in Seq(Names) : models = SeedOrder[provider]
    BY CatalogueAssumption
  <1>2. PICK offers : offers = [i \in DOMAIN models |-> [model |-> models[i], aliases |-> {}]]
    OBVIOUS
  <1>3. \A i \in DOMAIN models : [model |-> models[i], aliases |-> {}] \in Offers
    BY DEF Offers
  <1>4. offers \in [1 .. Len(models) -> Offers]
    BY <1>2, <1>3
  <1>5. offers \in Seq(Offers)
    BY <1>4
  <1>. QED BY <1>1, <1>2, <1>5, InfosTyped DEF Seeds

LEMMA DefaultTyped == SettingsTypeOK => process["default_provider"] \in Providers
  BY CatalogueAssumption DEF SettingsTypeOK

LEMMA IInvInit == CatalogueInit => IInv
  <1>. SUFFICES ASSUME CatalogueInit PROVE IInv
    OBVIOUS
  <1>1. PatchInv
    BY PatchInvInit DEF CatalogueInit
  <1>2. RowsInv
    <2>1. Seeds(process["default_provider"]) \in Seq(Rows)
      BY <1>1, SeedsTyped, DefaultTyped DEF PatchInv
    <2>2. job = Starting(Seeds(process["default_provider"])) /\ rows = <<>>
      BY DEF CatalogueInit
    <2>. QED BY <2>1, <2>2, StartingTyped DEF RowsInv
  <1>. QED BY <1>1, <1>2 DEF IInv

(* What a step does to the settings: a step of one update, or a restart.   *)
LEMMA PatchInvStep == IInv /\ [CatalogueNext]_catalogueVars => PatchInv'
  <1>. SUFFICES ASSUME IInv, [CatalogueNext]_catalogueVars PROVE PatchInv'
    OBVIOUS
  <1>. USE DEF IInv
  <1>1. CASE UNCHANGED settings
    BY <1>1 DEF settings, PatchInv, SettingsTypeOK, SettingsAgree, Override, Sound, WillAgree
  <1>2. ASSUME NEW a \in Admins, UpdateSettings(a) PROVE PatchInv'
    BY <1>2, PatchBeginKeeps, SetKeyKeeps, PatchCommitKeeps, FailKeeps DEF UpdateSettings, Free
  <1>3. CASE ProcessRestarts
    BY <1>3, RestartKeeps DEF ProcessRestarts
  <1>4. ASSUME NEW a \in Actors, SelectRow(a) \/ InsertRow(a) \/ UpdateRow(a) \/ JobFails(a)
        PROVE UNCHANGED settings
    BY <1>4 DEF SelectRow, InsertRow, UpdateRow, JobFails, Saving, settings
  <1>5. ASSUME NEW a \in Admins,
               \/ \E info \in Edits : UpsertModel(a, info)
               \/ \E provider \in Providers, models \in Discoverable :
                      DiscoverModels(a, provider, models)
        PROVE UNCHANGED settings
    BY <1>5 DEF UpsertModel, DiscoverModels, settings
  <1>6. ASSUME NEW pk \in DOMAIN rows, DeleteModel(pk) PROVE UNCHANGED settings
    BY <1>6 DEF DeleteModel, settings
  <1>7. CASE UNCHANGED catalogueVars
    BY <1>1, <1>7 DEF catalogueVars
  <1>. QED BY <1>1, <1>2, <1>3, <1>4, <1>5, <1>6, <1>7 DEF CatalogueNext

LEMMA FoundTyped ==
    ASSUME RowsInv, NEW info \in Rows
    PROVE  Found(info) \in Readings
  <1>. DEFINE same == {pk \in DOMAIN rows : /\ rows[pk].provider = info.provider
                                           /\ rows[pk].model = info.model}
  <1>1. CASE same = {}
    BY <1>1 DEF Found, Readings
  <1>2. CASE same # {}
    <2>1. (CHOOSE pk \in same : TRUE) \in same
      BY <1>2
    <2>2. LET one == CHOOSE pk \in same : TRUE
          IN one \in Nat \ {0} /\ rows[one] \in Rows
      BY <2>1 DEF RowsInv
    <2>. QED BY <1>2, <2>2 DEF Found, Readings
  <1>. QED BY <1>1, <1>2

LEMMA RowsInvStep == IInv /\ [CatalogueNext]_catalogueVars => RowsInv'
  <1>. SUFFICES ASSUME IInv, [CatalogueNext]_catalogueVars PROVE RowsInv'
    OBVIOUS
  <1>. DEFINE Jobs == [todo : Seq(Rows), read : Readings]
  <1>1. RowsInv /\ PatchInv
    BY DEF IInv
  <1>2. job \in [Actors -> Jobs]
    BY <1>1 DEF RowsInv
  <1>3. ASSUME NEW a \in Actors, SelectRow(a) PROVE RowsInv'
    <2>1. Head(job[a].todo) \in Rows
      BY <1>2, <1>3 DEF SelectRow
    <2>2. Found(Head(job[a].todo)) \in Readings
      BY <1>1, <2>1, FoundTyped
    <2>3. job' \in [Actors -> Jobs]
      BY <1>2, <1>3, <2>2 DEF SelectRow
    <2>. QED BY <1>1, <1>3, <2>3 DEF SelectRow, RowsInv
  <1>4. ASSUME NEW a \in Actors, Saving(a)
        PROVE job' \in [Actors -> Jobs] /\ Head(job[a].todo) \in Rows
    <2>1. job[a] \in Jobs /\ job[a].todo # <<>>
      BY <1>2, <1>4 DEF Saving
    <2>2. Tail(job[a].todo) \in Seq(Rows) /\ Head(job[a].todo) \in Rows
      BY <2>1
    <2>3. [todo |-> Tail(job[a].todo), read |-> NotRead] \in Jobs
      BY <2>2 DEF Readings
    <2>. QED BY <1>2, <1>4, <2>2, <2>3 DEF Saving
  <1>5. ASSUME NEW a \in Actors, InsertRow(a) PROVE RowsInv'
    <2>1. job' \in [Actors -> Jobs] /\ Head(job[a].todo) \in Rows
      BY <1>4, <1>5 DEF InsertRow
    <2>2. PICK pk \in 1 .. MaxRow :
             rows' = [k \in DOMAIN rows \union {pk} |->
                        IF k = pk THEN Head(job[a].todo) ELSE rows[k]]
      BY <1>5 DEF InsertRow
    <2>3. pk \in Nat \ {0}
      BY CatalogueAssumption
    <2>. QED BY <1>1, <2>1, <2>2, <2>3 DEF RowsInv
  <1>6. ASSUME NEW a \in Actors, UpdateRow(a) PROVE RowsInv'
    <2>1. job' \in [Actors -> Jobs] /\ Head(job[a].todo) \in Rows
      BY <1>4, <1>6 DEF UpdateRow
    <2>2. ASSUME NEW row \in Rows, NEW read, NEW info \in Rows
          PROVE  Merged(row, read, info) \in Rows
      BY DEF Merged, Rows
    <2>3. \A pk \in DOMAIN rows' : pk \in DOMAIN rows /\ rows'[pk] \in Rows
      <3>. SUFFICES ASSUME NEW pk \in DOMAIN rows'
                    PROVE  pk \in DOMAIN rows /\ rows'[pk] \in Rows
        OBVIOUS
      <3>1. pk \in DOMAIN rows /\ rows[pk] \in Rows
        BY <1>1, <1>6 DEF UpdateRow, RowsInv
      <3>2. rows'[pk] = rows[pk]
              \/ rows'[pk] = Merged(rows[pk], job[a].read.row, Head(job[a].todo))
        BY <1>6, <3>1 DEF UpdateRow
      <3>. QED BY <2>1, <2>2, <3>1, <3>2
    <2>. QED BY <1>1, <2>1, <2>3 DEF RowsInv
  <1>7. ASSUME NEW a \in Actors, JobFails(a) PROVE RowsInv'
    BY <1>1, <1>2, <1>7, IdleTyped DEF JobFails, RowsInv
  <1>8. ASSUME NEW a \in Admins, UpdateSettings(a) PROVE RowsInv'
    BY <1>1, <1>8 DEF UpdateSettings, RowsInv
  <1>9. ASSUME NEW a \in Admins, NEW seq \in Seq(Rows),
               job' = [job EXCEPT ![a].todo = seq], rows' = rows
        PROVE RowsInv'
    BY <1>1, <1>2, <1>9 DEF RowsInv, Actors
  <1>10. ASSUME NEW a \in Admins, NEW info \in Edits, UpsertModel(a, info)
         PROVE RowsInv'
    <2>1. info \in Rows /\ Trimmed(info.aliases) \in SUBSET Names
      BY CatalogueAssumption, TrimmedTyped DEF Rows
    <2>2. [info EXCEPT !.aliases = Trimmed(info.aliases)] \in Rows
      BY <2>1 DEF Rows
    <2>3. <<[info EXCEPT !.aliases = Trimmed(info.aliases)]>> \in Seq(Rows)
      BY <2>2
    <2>. QED BY <1>9, <1>10, <2>3 DEF UpsertModel
  <1>11. ASSUME NEW a \in Admins, NEW provider \in Providers,
                NEW models \in Discoverable, DiscoverModels(a, provider, models)
         PROVE RowsInv'
    <2>1. Infos(provider, models) \in Seq(Rows)
      BY InfosTyped, CatalogueAssumption DEF Offers
    <2>. QED BY <1>9, <1>11, <2>1 DEF DiscoverModels
  <1>12. ASSUME NEW pk \in DOMAIN rows, DeleteModel(pk) PROVE RowsInv'
    BY <1>1, <1>12 DEF DeleteModel, RowsInv
  <1>13. CASE ProcessRestarts
    <2>1. PatchInv'
      BY PatchInvStep
    <2>2. Seeds(process'["default_provider"]) \in Seq(Rows)
      BY <2>1, SeedsTyped, CatalogueAssumption DEF PatchInv, SettingsTypeOK
    <2>3. PICK seeds \in Seq(Rows) : job' = Starting(seeds)
      <3>1. CASE DOMAIN rows # {}
        <4>1. job' = Starting(<<>>) /\ <<>> \in Seq(Rows)
          BY <1>13, <3>1 DEF ProcessRestarts
        <4>. QED BY <4>1
      <3>2. CASE DOMAIN rows = {}
        <4>1. job' = Starting(Seeds(process'["default_provider"]))
          BY <1>13, <3>2 DEF ProcessRestarts
        <4>. QED BY <2>2, <4>1
      <3>. QED BY <3>1, <3>2
    <2>4. job' \in [Actors -> Jobs]
      BY <2>3, StartingTyped
    <2>. QED BY <1>1, <1>13, <2>4 DEF ProcessRestarts, RowsInv
  <1>14. CASE UNCHANGED catalogueVars
    BY <1>1, <1>14 DEF catalogueVars, RowsInv
  <1>. QED BY <1>3, <1>5, <1>6, <1>7, <1>8, <1>10, <1>11, <1>12, <1>13, <1>14 DEF CatalogueNext

THEOREM Inductive == CatalogueSpec => []IInv
  <1>1. IInv /\ [CatalogueNext]_catalogueVars => IInv'
    BY PatchInvStep, RowsInvStep DEF IInv
  <1>. QED BY IInvInit, <1>1, PTL DEF CatalogueSpec

-----------------------------------------------------------------------------
(* The process works with the settings the database holds, whatever        *)
(* updates and restarts there are, but for keys whose updates overlap or   *)
(* fail.                                                                   *)
THEOREM SettingsHold == CatalogueSpec => []SettingsAgree
  <1>1. IInv => SettingsAgree
    BY DEF IInv, PatchInv
  <1>. QED BY Inductive, <1>1, PTL

(* Whatever the rows and the aliases are, a listed id and an alias of a    *)
(* listed model are found, if they are looked up as they are written.      *)
LEMMA Listed ==
    ASSUME RowsInv, SettingsTypeOK
    PROVE  ListedIsServed
  <1>. DEFINE provider == process["default_provider"]
              served(name) == Plain(name) => Served(name)
  <1>. SUFFICES ASSUME Enabled(rows) # {} \/ DOMAIN rows = {}
                PROVE  /\ \A card \in Listing(rows, provider) : served(card.id)
                       /\ \A card \in Cards(rows, provider) :
                            \A alias \in card.aliases : served(alias)
    BY DEF ListedIsServed
  <1>0. ASSUME NEW name \in Names, Plain(name)
        PROVE  LET asked == Fold[name]
                   r == Resolve(rows, name, process["default_model"], provider)
               IN /\ Exact(rows, asked) # {} => r.by = "exact"
                  /\ Exact(rows, asked) = {} /\ Aliased(rows, asked) # {} => r.by = "db_alias"
                  /\ Exact(rows, asked) = {} /\ Aliased(rows, asked) = {} =>
                       IF asked \in DOMAIN EnvAlias THEN r.by = "env_alias"
                       ELSE provider = "mock" \/ DOMAIN rows = {} => r.by = "passthrough"
    <2>1. name # NoName /\ Strip[name] = name /\ Base[name] = name
      BY <1>0, NamesAssumption DEF Plain
    <2>. QED BY <2>1 DEF Resolve, Route
  <1>1. ASSUME NEW name \in Names, DOMAIN rows = {} PROVE served(name)
    <2>1. Exact(rows, Fold[name]) = {} /\ Aliased(rows, Fold[name]) = {}
      BY <1>1 DEF Exact, Aliased, Enabled
    <2>. QED BY <1>0, <1>1, <2>1 DEF Served
  <1>2. ASSUME NEW name \in Names,
               Fold[name] \in DOMAIN EnvAlias \/ Exact(rows, Fold[name]) # {}
                 \/ Aliased(rows, Fold[name]) # {}
        PROVE served(name)
    BY <1>0, <1>2 DEF Served
  <1>3. ASSUME NEW alias \in DOMAIN EnvAlias PROVE served(alias)
    <2>1. alias \in Names /\ Fold[alias] = alias
      BY NamesAssumption DEF Typed
    <2>. QED BY <1>2, <2>1
  <1>4. ASSUME NEW pk \in Enabled(rows) PROVE served(rows[pk].model)
    <2>1. rows[pk].model \in Names /\ pk \in Exact(rows, Fold[rows[pk].model])
      BY DEF Enabled, Exact, RowsInv, Rows
    <2>. QED BY <1>2, <2>1
  <1>5. ASSUME NEW pk \in Enabled(rows), NEW alias \in rows[pk].aliases
        PROVE served(alias)
    <2>1. alias \in Names /\ pk \in Aliased(rows, Fold[alias])
      BY DEF Enabled, Aliased, RowsInv, Rows
    <2>. QED BY <1>2, <2>1
  <1>6. CASE Enabled(rows) # {}
    <2>1. \A entry \in Catalogue(rows, provider) :
            \E pk \in Enabled(rows) : entry.id = rows[pk].model
                                     /\ entry.aliases = rows[pk].aliases
      BY <1>6 DEF Catalogue
    <2>. HIDE DEF served
    <2>2. \A card \in Cards(rows, provider) :
            served(card.id) /\ \A alias \in card.aliases : served(alias)
      BY <1>3, <1>4, <1>5, <2>1 DEF Cards, EnvNames
    <2>3. \A card \in Listing(rows, provider) :
            card \in Cards(rows, provider) \/ card.id \in DOMAIN EnvAlias
      BY DEF Listing
    <2>. QED BY <1>3, <2>2, <2>3
  <1>7. CASE DOMAIN rows = {}
    <2>1. Enabled(rows) = {}
      BY <1>7 DEF Enabled
    <2>2. Shipped[provider] \subseteq Names
      BY NamesAssumption, DefaultTyped
    <2>3. \A entry \in Catalogue(rows, provider) :
             entry.id \in Names /\ entry.aliases = {}
      BY <2>1, <2>2 DEF Catalogue
    <2>. HIDE DEF served
    <2>4. \A card \in Cards(rows, provider) :
            served(card.id) /\ \A alias \in card.aliases : served(alias)
      BY <1>1, <1>3, <1>7, <2>3 DEF Cards, EnvNames
    <2>5. \A card \in Listing(rows, provider) :
            card \in Cards(rows, provider) \/ card.id \in DOMAIN EnvAlias
      BY DEF Listing
    <2>. QED BY <1>3, <2>4, <2>5
  <1>. QED BY <1>6, <1>7

(* A client may ask for any listed id and for any alias of a listed model  *)
(* that is looked up as it is written: with no # in it and no space around *)
(* it (router.py:45-82).                                                   *)
THEOREM ListedHolds == CatalogueSpec => []ListedIsServed
  <1>1. IInv => ListedIsServed
    BY Listed DEF IInv, PatchInv
  <1>. QED BY Inductive, <1>1, PTL

(* No upsert, of an operator, of discovery or of the start, takes back an  *)
(* edit it has not seen.                                                   *)
THEOREM UnseenHolds == CatalogueSpec => UnseenEditsSurvive
  <1>. DEFINE Kept == \A pk \in DOMAIN rows \intersect DOMAIN rows' :
                        \A column \in {"aliases", "enabled"} :
                           rows'[pk][column] # rows[pk][column] =>
                             \E a \in Actors :
                                /\ job[a].read.pk = pk
                                /\ job[a].read.row[column] # rows'[pk][column]
  <1>1. IInv /\ [CatalogueNext]_catalogueVars => [Kept]_catalogueVars
    <2>. SUFFICES ASSUME IInv, CatalogueNext PROVE Kept
      OBVIOUS
    <2>1. RowsInv
      BY DEF IInv
    <2>2. CASE rows' = rows
      BY <2>2
    <2>3. ASSUME NEW a \in Actors, InsertRow(a) PROVE Kept
      <3>1. PICK new \in 1 .. MaxRow :
               /\ IsNextKey(new)
               /\ rows' = [k \in DOMAIN rows \union {new} |->
                             IF k = new THEN Head(job[a].todo) ELSE rows[k]]
        BY <2>3 DEF InsertRow
      <3>2. new \notin DOMAIN rows
        BY <2>1, <3>1, CatalogueAssumption DEF IsNextKey, RowsInv
      <3>. QED BY <3>1, <3>2
    <2>4. ASSUME NEW a \in Actors, UpdateRow(a) PROVE Kept
      <3>. DEFINE read == job[a].read
                  info == Head(job[a].todo)
      <3>. SUFFICES ASSUME NEW pk \in DOMAIN rows, NEW column \in {"aliases", "enabled"},
                           rows'[pk][column] # rows[pk][column]
                    PROVE  read.pk = pk /\ read.row[column] # rows'[pk][column]
        BY DEF Kept
      <3>1. rows' = [rows EXCEPT ![read.pk] = Merged(rows[read.pk], read.row, info)]
        BY <2>4 DEF UpdateRow
      <3>2. read.pk = pk
        BY <3>1
      <3>3. rows'[pk] = Merged(rows[pk], read.row, info) /\ rows[pk] \in Rows
        BY <2>1, <3>1, <3>2 DEF RowsInv
      <3>4. CASE column = "aliases"
        <4>1. rows'[pk].aliases = IF info.aliases = read.row.aliases
                                    THEN rows[pk].aliases ELSE info.aliases
          BY <3>3 DEF Merged, Rows
        <4>. QED BY <3>2, <3>4, <4>1
      <3>5. CASE column = "enabled"
        <4>1. rows'[pk].enabled = IF info.enabled = read.row.enabled
                                    THEN rows[pk].enabled ELSE info.enabled
          BY <3>3 DEF Merged, Rows
        <4>. QED BY <3>2, <3>5, <4>1
      <3>. QED BY <3>4, <3>5
    <2>5. ASSUME NEW pk \in DOMAIN rows, DeleteModel(pk) PROVE Kept
      BY <2>5 DEF DeleteModel
    <2>. HIDE DEF Kept
    <2>. QED
      BY <2>2, <2>3, <2>4, <2>5 DEF CatalogueNext, SelectRow, JobFails, UpdateSettings,
         UpsertModel, DiscoverModels, ProcessRestarts
  <1>. QED BY Inductive, <1>1, PTL DEF CatalogueSpec, UnseenEditsSurvive
=============================================================================

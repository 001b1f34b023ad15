----------------------- MODULE CredentialSchedulerProofs -----------------------
(***************************************************************************)
(* What the selection of CredentialScheduler returns, for every set of     *)
(* credentials, every load and every cursor: a credential of the set that  *)
(* carries as few leases as any other.  Both strategies choose by a CHOOSE *)
(* among the least loaded, so the proof shows that the minimum exists.     *)
(* Then what the operations of the pool keep: the types of its rows.       *)
(* Last, the loop of _choose (SchedulerScan): it returns the credential    *)
(* that formula names, and on an idle pool serves every one in turn.  The  *)
(* rotation is a matter of remainders, so a few facts about them come      *)
(* first.                                                                  *)
(***************************************************************************)
EXTENDS SchedulerScan, InductionLemmas

(* A function into the naturals is minimal somewhere.                      *)
LEMMA LeastValue ==
    ASSUME NEW T, T # {}, NEW f \in [T -> Nat]
    PROVE  \E c \in T : \A d \in T : f[c] <= f[d]
<1> DEFINE V == {f[c] : c \in T}
<1>1. V \in SUBSET Nat /\ V # {}
  OBVIOUS
<1>2. PICK m \in V : \A n \in V : m <= n
  BY <1>1, LeastNatural
<1>3. PICK c \in T : f[c] = m
  BY <1>2
<1>4. \A d \in T : f[c] <= f[d]
  BY <1>2, <1>3
<1> QED
  BY <1>4

(* Some candidate is least loaded.                                         *)
LEMMA LeastLoadedExists ==
    ASSUME PoolTypeOK, NEW S \in SUBSET Creds, S # {}
    PROVE  LeastLoaded(S) # {} /\ LeastLoaded(S) \subseteq S
<1> DEFINE f == [c \in S |-> leases[c]]
<1>1. f \in [S -> Nat]
  BY DEF PoolTypeOK
<1>2. \E c \in S : \A d \in S : f[c] <= f[d]
  <2> HIDE DEF f
  <2> QED BY <1>1, LeastValue
<1> QED
  BY <1>2 DEF LeastLoaded

(* The rotation positions are natural numbers below the number of          *)
(* candidates, so the cursor stays one too.                                *)
LEMMA OffsetType ==
    ASSUME PoolTypeOK, NEW S \in SUBSET Creds, NEW c \in S
    PROVE  /\ Cardinality(S) \in Nat \ {0}
           /\ Offset(c, S) \in Nat
<1>1. IsFiniteSet(S)
  BY CredsAssumption, FS_Subset
<1>2. Cardinality(S) \in Nat /\ Cardinality(S) # 0
  BY <1>1, FS_CardinalityType, FS_EmptySet
<1>3. Rank(c, S) \in Nat
  <2>1. {d \in S : d < c} \in SUBSET S
    OBVIOUS
  <2> QED BY <1>1, <2>1, FS_Subset, FS_CardinalityType DEF Rank
<1>4. cursor \in Nat
  BY DEF PoolTypeOK
<1>5. \A a \in Int, b \in Nat \ {0} : a % b \in Nat
  OBVIOUS
<1> QED
  BY <1>2, <1>3, <1>4, <1>5 DEF Offset

LEMMA RoundRobinPickIsLeast ==
    ASSUME PoolTypeOK, NEW S \in SUBSET Creds, S # {}
    PROVE  RoundRobinPick(S) \in LeastLoaded(S)
<1> DEFINE T == LeastLoaded(S)
           f == [c \in T |-> Offset(c, S)]
<1>1. T # {} /\ T \subseteq S
  BY LeastLoadedExists
<1>2. f \in [T -> Nat]
  BY <1>1, OffsetType
<1>3. PICK c \in T : \A d \in T : f[c] <= f[d]
  <2> HIDE DEF f, T
  <2> QED BY <1>1, <1>2, LeastValue
<1>4. \A d \in T : Offset(c, S) <= Offset(d, S)
  BY <1>3
<1> QED
  BY <1>4 DEF RoundRobinPick

LEMMA LeastRecentPickIsLeast ==
    ASSUME PoolTypeOK, NEW S \in SUBSET Creds, S # {}
    PROVE  LeastRecentPick(S) \in LeastLoaded(S)
<1> DEFINE T == LeastLoaded(S)
           used == [c \in T |-> row[c].used]
           T1 == {c \in T : \A d \in T : used[c] <= used[d]}
           last == [c \in T1 |-> lastSelected[c]]
           T2 == {c \in T1 : \A d \in T1 : last[c] <= last[d]}
           id == [c \in T2 |-> c]
<1>1. T # {} /\ T \subseteq Creds /\ Creds \subseteq Nat
  BY LeastLoadedExists, CredsAssumption
<1>2. used \in [T -> Nat]
  BY <1>1 DEF PoolTypeOK, Rows
<1>3. T1 # {}
  <2> HIDE DEF T, used
  <2> QED BY <1>1, <1>2, LeastValue
<1>4. last \in [T1 -> Nat]
  BY <1>1 DEF PoolTypeOK
<1>5. T2 # {}
  <2> HIDE DEF T1, last
  <2> QED BY <1>3, <1>4, LeastValue
<1>6. id \in [T2 -> Nat]
  BY <1>1
<1>7. PICK c \in T2 : \A d \in T2 : id[c] <= id[d]
  <2> HIDE DEF T2, id
  <2> QED BY <1>5, <1>6, LeastValue
<1>8. \A d \in T : UsedBefore(c, d)
  <2> SUFFICES ASSUME NEW d \in T PROVE UsedBefore(c, d)
    OBVIOUS
  <2>1. /\ row[c].used \in Nat /\ row[d].used \in Nat
        /\ lastSelected[c] \in Nat /\ lastSelected[d] \in Nat
        /\ c \in Nat /\ d \in Nat
    BY <1>1, <1>7 DEF PoolTypeOK, Rows
  <2>2. row[c].used <= row[d].used
    BY <1>7
  <2>3. CASE row[c].used # row[d].used
    BY <2>1, <2>2, <2>3 DEF UsedBefore
  <2>4. CASE row[c].used = row[d].used
    <3>1. d \in T1
      BY <1>7, <2>4
    <3>2. lastSelected[c] <= lastSelected[d]
      BY <1>7, <3>1
    <3>3. CASE lastSelected[c] # lastSelected[d]
      BY <2>1, <2>4, <3>2, <3>3 DEF UsedBefore
    <3>4. CASE lastSelected[c] = lastSelected[d]
      <4>1. d \in T2
        BY <1>7, <3>1, <3>4
      <4>2. c <= d
        BY <1>7, <4>1
      <4> QED BY <2>4, <3>4, <4>2 DEF UsedBefore
    <3> QED BY <3>3, <3>4
  <2> QED BY <2>3, <2>4
<1> QED
  BY <1>7, <1>8 DEF LeastRecentPick

(* _choose returns one of its candidates, and none of them carries fewer   *)
(* leases, under either strategy (scheduler.py:134-162).                   *)
THEOREM ChoiceIsLeastLoaded ==
    ASSUME PoolTypeOK, NEW S \in SUBSET Creds, S # {}, NEW s \in Strategies
    PROVE  /\ Pick(S, s) \in S
           /\ \A d \in S : leases[Pick(S, s)] <= leases[d]
<1>1. Pick(S, s) \in LeastLoaded(S)
  BY RoundRobinPickIsLeast, LeastRecentPickIsLeast DEF Pick
<1> QED
  BY <1>1 DEF LeastLoaded

(* The cursor the round robin leaves is a position.                        *)
LEMMA CursorType ==
    ASSUME PoolTypeOK, NEW S \in SUBSET Creds, S # {}
    PROVE  RoundRobinCursor(S) \in Nat
<1> DEFINE c == RoundRobinPick(S)
<1>1. c \in S
  BY RoundRobinPickIsLeast, LeastLoadedExists
<1>2. Cardinality(S) \in Nat \ {0} /\ Offset(c, S) \in Nat
  BY <1>1, OffsetType
<1>3. cursor \in Nat
  BY DEF PoolTypeOK
<1>4. \A a \in Nat, b \in Nat \ {0} : a % b \in Nat
  OBVIOUS
<1>5. cursor + Offset(c, S) + 1 \in Nat /\ cursor + 1 \in Nat
  BY <1>2, <1>3
<1>6. /\ (cursor + Offset(c, S) + 1) % Cardinality(S) \in Nat
      /\ (cursor + 1) % Cardinality(S) \in Nat
  BY <1>2, <1>4, <1>5
<1> QED
  BY <1>6, Zenon DEF RoundRobinCursor

(* GET /api/health and _eligible agree on every row: stats counts a row as *)
(* healthy exactly when the scheduler may choose it.                       *)
THEOREM HealthyIsEligible ==
    ASSUME NEW r \in Rows
    PROVE  Bucket(r) = "healthy" <=> IsEligible(r)
  BY DEF Rows, Statuses, Bucket, IsEligible

-----------------------------------------------------------------------------
(* The operators of the pool keep its types.                               *)

LEMMA FreshRowType ==
    ASSUME NEW e \in Nat
    PROVE  FreshRow(e) \in Rows
  BY DEF FreshRow, Rows, Statuses

LEMMA ExpiriesType == Expiries \subseteq Nat
  BY TimesAssumption

LEMMA StatusType ==
    ASSUME NEW category \in Categories, NEW failures \in Nat
    PROVE  StatusFor(category, failures) \in Statuses
  BY DEF Categories, StatusFor, Statuses

LEMMA CooldownType ==
    ASSUME NEW category \in Categories, NEW failures \in Nat \ {0},
           NEW retryAfter \in Nat
    PROVE  CooldownFor(category, failures, retryAfter) \in Nat
<1>1. /\ DefaultCooldown \in Nat /\ RateLimitCooldown \in Nat
      /\ BackoffUnit \in Nat /\ 2 * DefaultCooldown \in Nat
  BY TimesAssumption
<1>2. Backoff(failures) \in Nat
  <2>1. BackoffFactor[IF failures < 5 THEN failures ELSE 5] \in Nat
    <3>1. \A n \in {1, 2, 3, 4, 5} : BackoffFactor[n] \in Nat
      BY DEF BackoffFactor
    <3>2. (IF failures < 5 THEN failures ELSE 5) \in {1, 2, 3, 4, 5}
      OBVIOUS
    <3> QED BY <3>1, <3>2
  <2>2. BackoffUnit * BackoffFactor[IF failures < 5 THEN failures ELSE 5] \in Nat
    BY <1>1, <2>1
  <2> QED BY <1>1, <2>2 DEF Backoff
<1> QED
  BY <1>1, <1>2 DEF CooldownFor, Categories

LEMMA FailedRowType ==
    ASSUME NEW r \in Rows, NEW old \in Rows, NEW category \in Categories,
           NEW retryAfter \in Nat, NEW length \in Nat, now \in Nat
    PROVE  FailedRow(r, old, category, retryAfter, length) \in Rows
<1> DEFINE failures == old.failures + 1
           status   == StatusFor(category, failures)
           cooldown == IF length # 0 THEN length
                       ELSE CooldownFor(category, failures, retryAfter)
           newStatus == IF status # old.status THEN status ELSE r.status
           newCooldown == IF cooldown > 0 THEN now + cooldown ELSE r.cooldown
<1>1. failures \in Nat \ {0}
  BY DEF Rows
<1>2. newStatus \in Statuses
  BY <1>1, StatusType DEF Rows
<1>3. cooldown \in Nat
  BY <1>1, CooldownType
<1>4. newCooldown \in Nat
  <2> HIDE DEF cooldown
  <2> QED BY <1>3 DEF Rows
<1>5. FailedRow(r, old, category, retryAfter, length)
         = [r EXCEPT !.failures = failures, !.status = newStatus,
                     !.cooldown = newCooldown]
  BY DEF FailedRow
<1> HIDE DEF failures, newStatus, newCooldown
<1> QED
  BY <1>1, <1>2, <1>4, <1>5 DEF Rows

LEMMA MarkFailureType ==
    ASSUME PoolTypeOK, NEW c \in Creds, NEW old \in Rows,
           NEW category \in Categories, NEW retryAfter \in Nat,
           NEW length \in Nat, MarkFailure(c, old, category, retryAfter, length)
    PROVE  row' \in [Creds -> Rows]
<1>1. FailedRow(row[c], old, category, retryAfter, length) \in Rows
  BY FailedRowType DEF PoolTypeOK
<1> QED
  BY <1>1 DEF MarkFailure, PoolTypeOK

LEMMA MarkSuccessType ==
    ASSUME PoolTypeOK, NEW c \in Creds, MarkSuccess(c)
    PROVE  row' \in [Creds -> Rows]
<1>1. row \in [Creds -> Rows] /\ row[c] \in Rows
  BY DEF PoolTypeOK
<1>2. [row[c] EXCEPT !.status = "healthy", !.failures = 0, !.cooldown = 0] \in Rows
  BY <1>1 DEF Rows, Statuses
<1> QED
  BY <1>1, <1>2 DEF MarkSuccess

LEMMA UnleaseType ==
    ASSUME PoolTypeOK, NEW c \in Creds, Unlease(c)
    PROVE  leases' \in [Creds -> Nat]
  BY DEF PoolTypeOK, Unlease

LEMMA LeaseType ==
    ASSUME PoolTypeOK, NEW S \in SUBSET Creds, S # {}, NEW s \in Strategies,
           Lease(S, s)
    PROVE  /\ Pick(S, s) \in S
           /\ tick' \in Nat
           /\ lastSelected' \in [Creds -> Nat]
           /\ leases' \in [Creds -> Nat]
           /\ cursor' \in Nat
<1>1. Pick(S, s) \in S
  BY ChoiceIsLeastLoaded
<1>2. RoundRobinCursor(S) \in Nat
  BY CursorType
<1> QED
  BY <1>1, <1>2 DEF Lease, PoolTypeOK

LEMMA AdminType ==
    ASSUME PoolTypeOK, NEW c \in Creds, AdminStep(c)
    PROVE  PoolTypeOK'
<1>1. CASE \E b \in BOOLEAN : SetEnabled(c, b)
  BY <1>1 DEF SetEnabled, PoolTypeOK, hotVars, Rows
<1>2. CASE \E e \in Expiries : ReplaceSecret(c, e)
  <2> PICK e \in Expiries : ReplaceSecret(c, e)
    BY <1>2
  <2>1. [row[c] EXCEPT !.status = "unknown", !.failures = 0, !.cooldown = 0,
                       !.expires = e, !.readable = TRUE] \in Rows
    BY ExpiriesType DEF PoolTypeOK, Rows, Statuses
  <2> QED
    BY <2>1 DEF ReplaceSecret, PoolTypeOK, hotVars
<1>3. CASE ClearCooldown(c)
  <2> DEFINE r == row[c]
             status == IF r.status \in {"cooldown", "degraded", "invalid"}
                         THEN "unknown" ELSE r.status
  <2>1. r \in Rows /\ status \in Statuses
    BY DEF PoolTypeOK, Rows, Statuses
  <2>2. row' = [row EXCEPT ![c] = [r EXCEPT !.cooldown = 0, !.failures = 0,
                                            !.status = status]]
    BY <1>3 DEF ClearCooldown
  <2>3. UNCHANGED <<live, leases, lastSelected, tick, cursor, now>>
    BY <1>3 DEF ClearCooldown, hotVars
  <2>4. [r EXCEPT !.cooldown = 0, !.failures = 0, !.status = status] \in Rows
    <3> HIDE DEF r, status
    <3> QED BY <2>1 DEF Rows
  <2> QED
    BY <2>2, <2>3, <2>4 DEF PoolTypeOK
<1>4. CASE DeleteCredential(c)
  BY <1>4 DEF DeleteCredential, PoolTypeOK, hotVars
<1>5. CASE \E e \in Expiries : CreateCredential(c, e)
  BY <1>5, ExpiriesType, FreshRowType DEF CreateCredential, PoolTypeOK, hotVars
<1> QED
  BY <1>1, <1>2, <1>3, <1>4, <1>5 DEF AdminStep


-----------------------------------------------------------------------------
(* The rotation.                                                           *)

LEMMA Division ==
    ASSUME NEW a \in Int, NEW n \in Nat \ {0}
    PROVE  /\ a % n \in 0 .. n - 1
           /\ \E q \in Int : a = q * n + (a % n)
<1>1. a % n \in 0 .. n - 1
  OBVIOUS
<1>2. a \div n \in Int /\ a = (a \div n) * n + (a % n)
  OBVIOUS
<1> QED BY <1>1, <1>2

LEMMA Remainder ==
    ASSUME NEW n \in Nat \ {0}, NEW k \in 0 .. n - 1, NEW q \in Int
    PROVE  (q * n + k) % n = k
<1>1. PICK a : a = q * n + k
  OBVIOUS
<1>2. a \in Int
  BY <1>1
<1>3. PICK p \in Int : a = p * n + (a % n)
  BY <1>2, Division
<1>4. PICK r : r = a % n
  OBVIOUS
<1>5. r \in 0 .. n - 1
  BY <1>2, <1>4, Division
<1>6. PICK d : d = p - q
  OBVIOUS
<1>7. d \in Int /\ d * n = k - r
  BY <1>1, <1>2, <1>3, <1>4, <1>5, <1>6
<1>8. ~(d >= 1)
  <2>1. ASSUME d >= 1 PROVE FALSE
    <3>1. d * n >= n
      BY <1>7, <2>1
    <3> QED BY <1>5, <1>7, <3>1
  <2> QED BY <2>1
<1>9. ~(d <= -1)
  <2>1. ASSUME d <= -1 PROVE FALSE
    <3>1. d * n <= -n
      BY <1>7, <2>1
    <3> QED BY <1>5, <1>7, <3>1
  <2> QED BY <2>1
<1>10. d = 0
  BY <1>7, <1>8, <1>9
<1> QED BY <1>1, <1>4, <1>5, <1>7, <1>10

(* Numbers a multiple of n apart have the same remainder.                  *)
LEMMA SameRemainder ==
    ASSUME NEW n \in Nat \ {0}, NEW k \in 0 .. n - 1, NEW b \in Int, NEW q \in Int,
           b = k - q * n
    PROVE  b % n = k
<1>1. PICK p : p = 0 - q
  OBVIOUS
<1>2. p \in Int /\ p * n + k = b
  BY <1>1
<1> QED BY <1>2, Remainder

(* Going on from a by k, then back by a, leaves k; and back and on.        *)
LEMMA ThereAndBack ==
    ASSUME NEW n \in Nat \ {0}, NEW a \in Int, NEW k \in 0 .. n - 1
    PROVE  /\ (((a + k) % n) - a) % n = k
           /\ (a + ((k - a) % n)) % n = k
<1>1. PICK b, c : b = a + k /\ c = k - a
  OBVIOUS
<1>2. b \in Int /\ c \in Int
  BY <1>1
<1>3. PICK r, s : r = b % n /\ s = c % n
  OBVIOUS
<1>4. r \in 0 .. n - 1 /\ s \in 0 .. n - 1
  BY <1>2, <1>3, Division
<1>5. PICK q \in Int : b = q * n + r
  BY <1>2, <1>3, Division
<1>6. PICK p \in Int : c = p * n + s
  BY <1>2, <1>3, Division
<1>7. r - a = k - q * n /\ a + s = k - p * n
  BY <1>1, <1>4, <1>5, <1>6
<1>8. (r - a) % n = k
  <2>1. PICK d : d = r - a
    OBVIOUS
  <2>2. d \in Int /\ d = k - q * n /\ k \in Int
    BY <1>4, <1>7, <2>1
  <2> QED BY <2>1, <2>2, SameRemainder
<1>9. (a + s) % n = k
  <2>1. PICK d : d = a + s
    OBVIOUS
  <2>2. d \in Int /\ d = k - p * n /\ k \in Int
    BY <1>4, <1>7, <2>1
  <2> QED BY <2>1, <2>2, SameRemainder
<1> QED BY <1>1, <1>3, <1>8, <1>9

LEMMA Onward ==
    ASSUME NEW n \in Nat \ {0}, NEW a \in Int, NEW k \in Int
    PROVE  ((a % n) + k) % n = (a + k) % n
<1>1. PICK r, b : r = a % n /\ b = a + k
  OBVIOUS
<1>2. r \in 0 .. n - 1 /\ b \in Int
  BY <1>1, Division
<1>3. PICK q \in Int : a = q * n + r
  BY <1>1, Division
<1>4. PICK s : s = b % n
  OBVIOUS
<1>5. s \in 0 .. n - 1
  BY <1>2, <1>4, Division
<1>6. PICK p \in Int : b = p * n + s
  BY <1>2, <1>4, Division
<1>7. PICK d, e : d = r + k /\ e = q - p
  OBVIOUS
<1>8. d \in Int /\ e \in Int /\ d = s - e * n
  <2>1. PICK u, v : u = q * n /\ v = p * n
    OBVIOUS
  <2>2. u \in Int /\ v \in Int /\ e * n = u - v
    BY <1>7, <2>1
  <2>3. d = s - (u - v)
    <3>1. a = u + r /\ b = v + s
      BY <1>3, <1>6, <2>1
    <3>2. b = a + k /\ d = r + k
      BY <1>1, <1>7
    <3>3. r \in Int /\ s \in Int
      BY <1>2, <1>5
    <3> QED BY <2>2, <3>1, <3>2, <3>3
  <2> QED BY <1>2, <1>7, <2>2, <2>3
<1>9. d % n = s
  BY <1>5, <1>8, SameRemainder
<1> QED BY <1>1, <1>4, <1>7, <1>9

(* The candidates sorted by id: each has a position of its own, and every  *)
(* position its candidate.                                                 *)
LEMMA RankIs ==
    ASSUME NEW S \in SUBSET Creds, S # {}
    PROVE  /\ Cardinality(S) \in Nat \ {0}
           /\ \A c \in S : Rank(c, S) \in 0 .. Cardinality(S) - 1
           /\ \A c, d \in S : Rank(c, S) = Rank(d, S) => c = d
           /\ \A i \in 0 .. Cardinality(S) - 1 : \E c \in S : Rank(c, S) = i
<1> DEFINE below(c) == {d \in S : d < c}
<1>1. PICK n : n = Cardinality(S)
  OBVIOUS
<1>2. IsFiniteSet(S) /\ S \subseteq Nat
  BY CredsAssumption, FS_Subset
<1>3. n \in Nat \ {0}
  BY <1>1, <1>2, FS_CardinalityType, FS_EmptySet
<1>4. \A c \in S : IsFiniteSet(below(c)) /\ Rank(c, S) \in Nat
  BY <1>2, FS_Subset, FS_CardinalityType DEF Rank
<1>5. \A c, d \in S : c < d => Rank(c, S) < Rank(d, S)
  <2>1. ASSUME NEW c \in S, NEW d \in S, c < d PROVE Rank(c, S) < Rank(d, S)
    <3>1. c \in Nat /\ d \in Nat /\ \A x \in S : x \in Nat
      BY <1>2
    <3>2. (\A x \in S : x < c => x < d) /\ ~(c < c)
      BY <2>1, <3>1
    <3>3. PICK T, U : T = below(c) /\ U = below(d)
      OBVIOUS
    <3>4. T \in SUBSET U /\ c \in U /\ c \notin T /\ IsFiniteSet(U)
      BY <1>4, <2>1, <3>2, <3>3
    <3>5. Cardinality(T) <= Cardinality(U) /\ Cardinality(T) # Cardinality(U)
      BY <3>4, FS_Subset
    <3>6. PICK a, b : a = Rank(c, S) /\ b = Rank(d, S)
      OBVIOUS
    <3>7. a \in Nat /\ b \in Nat /\ a <= b /\ a # b
      BY <1>4, <3>3, <3>5, <3>6 DEF Rank
    <3>8. a < b
      BY <3>7
    <3> QED BY <3>6, <3>8
  <2> QED BY <2>1
<1>6. \A c, d \in S : Rank(c, S) = Rank(d, S) => c = d
  <2>1. ASSUME NEW c \in S, NEW d \in S, Rank(c, S) = Rank(d, S), c # d PROVE FALSE
    <3>1. c < d \/ d < c
      BY <1>2, <2>1
    <3>2. PICK a : a = Rank(c, S)
      OBVIOUS
    <3>3. a \in Nat /\ a < a
      BY <1>4, <1>5, <2>1, <3>1, <3>2
    <3> QED BY <3>3
  <2> QED BY <2>1
<1>7. \A c \in S : Rank(c, S) \in 0 .. n - 1
  <2>1. ASSUME NEW c \in S PROVE Rank(c, S) \in 0 .. n - 1
    <3>1. below(c) \in SUBSET S /\ c \notin below(c)
      BY <1>2
    <3>2. PICK a : a = Rank(c, S)
      OBVIOUS
    <3>3. a \in Nat /\ a <= n /\ a # n
      BY <1>1, <1>2, <1>4, <3>1, <3>2, FS_Subset DEF Rank
    <3>4. a \in 0 .. n - 1
      BY <1>3, <3>3
    <3> QED BY <3>2, <3>4
  <2> QED BY <2>1
<1>8. \A i \in 0 .. n - 1 : \E c \in S : Rank(c, S) = i
  <2>1. PICK f, T : f = [c \in S |-> Rank(c, S)] /\ T = 0 .. n - 1
    OBVIOUS
  <2>2. f \in [S -> T] /\ \A c, d \in S : f[c] = f[d] => c = d
    BY <1>6, <1>7, <2>1
  <2>3. f \in Injection(S, T)
    BY <2>2 DEF Injection, IsInjective
  <2>4. IsFiniteSet(T) /\ Cardinality(T) = n
    <3>1. 0 \in Int /\ n - 1 \in Int /\ ~(0 > n - 1) /\ (n - 1) - 0 + 1 = n
      BY <1>3
    <3> QED BY <2>1, <3>1, FS_Interval
  <2>5. f \in Surjection(S, T)
    BY <1>1, <2>3, <2>4, FS_Injection
  <2> QED BY <2>1, <2>5 DEF Surjection
<1> QED
  BY <1>1, <1>3, <1>6, <1>7, <1>8

LEMMA OrderedIs ==
    ASSUME NEW S \in SUBSET Creds, S # {}
    PROVE  /\ \A i \in 0 .. Cardinality(S) - 1 : Ordered(S)[i] \in S /\ Rank(Ordered(S)[i], S) = i
           /\ \A c \in S : Ordered(S)[Rank(c, S)] = c
<1>1. \A i \in 0 .. Cardinality(S) - 1 : Ordered(S)[i] = CHOOSE c \in S : Rank(c, S) = i
  BY DEF Ordered
<1>2. \A i \in 0 .. Cardinality(S) - 1 : Ordered(S)[i] \in S /\ Rank(Ordered(S)[i], S) = i
  BY <1>1, RankIs
<1>3. \A c \in S : Ordered(S)[Rank(c, S)] = c
  BY <1>2, RankIs
<1> QED
  BY <1>2, <1>3

(* The candidate at an offset from the cursor, and the offset of one.      *)
Turn(S, from, k)  == Ordered(S)[(from + k) % Cardinality(S)]
Ahead(S, from, c) == (Rank(c, S) - from) % Cardinality(S)

LEMMA TurnIs ==
    ASSUME NEW S \in SUBSET Creds, S # {}, NEW from \in Nat
    PROVE  /\ \A k \in 0 .. Cardinality(S) - 1 :
                 Turn(S, from, k) \in S /\ Ahead(S, from, Turn(S, from, k)) = k
           /\ \A c \in S :
                 /\ Ahead(S, from, c) \in 0 .. Cardinality(S) - 1
                 /\ Turn(S, from, Ahead(S, from, c)) = c
<1>1. PICK n, o : n = Cardinality(S) /\ o = Ordered(S)
  OBVIOUS
<1>2. /\ n \in Nat \ {0}
      /\ \A i \in 0 .. n - 1 : o[i] \in S /\ Rank(o[i], S) = i
      /\ \A c \in S : Rank(c, S) \in 0 .. n - 1 /\ o[Rank(c, S)] = c
  BY <1>1, RankIs, OrderedIs
<1>3. ASSUME NEW k \in 0 .. n - 1
      PROVE  Turn(S, from, k) \in S /\ Ahead(S, from, Turn(S, from, k)) = k
  <2>1. PICK i : i = (from + k) % n
    OBVIOUS
  <2>2. i \in 0 .. n - 1
    <3>1. from + k \in Int
      OBVIOUS
    <3> QED BY <1>2, <2>1, <3>1, Division
  <2>3. (i - from) % n = k
    BY <1>2, <2>1, ThereAndBack
  <2>4. Turn(S, from, k) = o[i]
    BY <1>1, <2>1 DEF Turn
  <2> QED BY <1>1, <1>2, <2>2, <2>3, <2>4 DEF Ahead
<1>4. ASSUME NEW c \in S
      PROVE  Ahead(S, from, c) \in 0 .. n - 1 /\ Turn(S, from, Ahead(S, from, c)) = c
  <2>1. PICK r, k : r = Rank(c, S) /\ k = (r - from) % n
    OBVIOUS
  <2>2. r \in 0 .. n - 1 /\ o[r] = c
    BY <1>2, <2>1
  <2>3. k \in 0 .. n - 1
    <3>1. r - from \in Int
      BY <2>2
    <3> QED BY <1>2, <2>1, <3>1, Division
  <2>4. (from + k) % n = r
    <3>0. from \in Int
      OBVIOUS
    <3>1. (from + ((r - from) % n)) % n = r
      BY <1>2, <2>2, <3>0, ThereAndBack, Zenon
    <3> QED BY <2>1, <3>1
  <2> QED BY <1>1, <2>1, <2>2, <2>3, <2>4 DEF Ahead, Turn
<1> QED
  BY <1>1, <1>3, <1>4


(* The passes of the loop, one candidate at a time.                        *)
Begun(S, from) == [found |-> FALSE, best |-> 0, cursor |-> (from + 1) % Cardinality(S)]

Passes(S, from, load, f) ==
    /\ f[0] = Begun(S, from)
    /\ \A k \in 1 .. Cardinality(S) :
          f[k] = Look(f[k - 1], Turn(S, from, k - 1), load, (from + k) % Cardinality(S))

Best == Creds \union {0}
Loop == [found : BOOLEAN, best : Best, cursor : Nat]

LEMMA LookType ==
    ASSUME NEW pass \in Loop, NEW candidate \in Best, NEW load, NEW next \in Nat
    PROVE  Look(pass, candidate, load, next) \in Loop
BY DEF Look, Loop

LEMMA NextCursor ==
    ASSUME NEW S \in SUBSET Creds, S # {}, NEW from \in Nat, NEW k \in Nat
    PROVE  (from + k) % Cardinality(S) \in Nat
<1>1. PICK n, a : n = Cardinality(S) /\ a = from + k
  OBVIOUS
<1>2. n \in Nat \ {0} /\ a \in Int
  BY <1>1, RankIs
<1>3. a % n \in 0 .. n - 1
  BY <1>2, Division
<1> QED
  BY <1>1, <1>2, <1>3

LEMMA PassesExist ==
    ASSUME NEW S \in SUBSET Creds, S # {}, NEW from \in Nat, NEW load
    PROVE  \E f : f = [k \in 0 .. Cardinality(S) |-> f[k]] /\ Passes(S, from, load, f)
<1>1. PICK n : n = Cardinality(S)
  OBVIOUS
<1> DEFINE F == [kp \in (1 .. n) \X Loop |->
                   Look(kp[2], Turn(S, from, kp[1] - 1), load, (from + kp[1]) % n)]
<1>2. n \in Nat \ {0}
  BY <1>1, RankIs
<1>3. Begun(S, from) \in Loop
  <2>1. 1 \in Nat
    OBVIOUS
  <2> QED BY <2>1, NextCursor DEF Begun, Loop, Best
<1>4. ASSUME NEW k \in 1 .. n, NEW p \in Loop
      PROVE  Look(p, Turn(S, from, k - 1), load, (from + k) % n) \in Loop
  <2>1. k \in Nat /\ k - 1 \in 0 .. n - 1
    BY <1>2
  <2>2. Turn(S, from, k - 1) \in Best
    BY <1>1, <2>1, TurnIs DEF Best
  <2>3. (from + k) % n \in Nat
    BY <1>1, <2>1, NextCursor
  <2> QED BY <2>2, <2>3, LookType
<1>5. F \in [(1 .. n) \X Loop -> Loop]
  <2>1. \A kp \in (1 .. n) \X Loop : kp[1] \in 1 .. n /\ kp[2] \in Loop
    OBVIOUS
  <2> QED BY <1>4, <2>1
<1>6. PICK f : f \in [0 .. n -> Loop] /\ Recurs(n, f, Begun(S, from), F)
  <2> HIDE DEF F
  <2> QED BY <1>2, <1>3, <1>5, RecursionExists
<1>7. ASSUME NEW k \in 1 .. n
      PROVE  f[k] = Look(f[k - 1], Turn(S, from, k - 1), load, (from + k) % n)
  <2>1. k - 1 \in 0 .. n
    BY <1>2
  <2>2. f[k - 1] \in Loop
    BY <1>6, <2>1
  <2>3. PICK p : p = f[k - 1]
    OBVIOUS
  <2>4. <<k, p>> \in (1 .. n) \X Loop
    BY <2>2, <2>3
  <2>5. f[k] = F[<<k, p>>]
    <3> HIDE DEF F
    <3> QED BY <1>6, <2>3 DEF Recurs
  <2> QED BY <2>3, <2>4, <2>5
<1>8. f[0] = Begun(S, from) /\ f = [k \in 0 .. n |-> f[k]]
  BY <1>6 DEF Recurs
<1> QED
  BY <1>1, <1>7, <1>8 DEF Passes

LEMMA ScanIs ==
    ASSUME NEW S \in SUBSET Creds, S # {}, NEW from \in Nat, NEW load
    PROVE  \E f : /\ Passes(S, from, load, f)
                  /\ Scan(S, from, load) = <<f[Cardinality(S)].best, f[Cardinality(S)].cursor>>
<1> DEFINE n == Cardinality(S)
           Pass(g, k) == IF k = 0 THEN Begun(S, from)
                         ELSE Look(g[k - 1], Turn(S, from, k - 1), load, (from + k) % n)
           Is(g) == g = [k \in 0 .. n |-> Pass(g, k)]
           the == CHOOSE g : Is(g)
<1>1. n \in Nat
  BY RankIs
<1>2. PICK f : f = [k \in 0 .. n |-> f[k]] /\ Passes(S, from, load, f)
  BY PassesExist
<1>3. Is(f)
  <2>1. \A k \in 0 .. n : f[k] = Pass(f, k)
    <3>1. ASSUME NEW k \in 0 .. n PROVE f[k] = Pass(f, k)
      <4>1. CASE k = 0
        BY <1>2, <4>1 DEF Passes
      <4>2. CASE k # 0
        <5>1. k \in 1 .. n
          BY <1>1, <4>2
        <5> QED BY <1>2, <4>2, <5>1 DEF Passes
      <4> QED BY <4>1, <4>2
    <3> QED BY <3>1
  <2> HIDE DEF Pass
  <2> QED BY <1>2, <2>1
<1>4. Is(the)
  <2> HIDE DEF Is
  <2> QED BY <1>3
<1>5. PICK g : g = the
  OBVIOUS
<1>6. \A k \in 0 .. n : g[k] = Pass(g, k)
  <2>1. g = [k \in 0 .. n |-> Pass(g, k)]
    <3> HIDE DEF the, Pass
    <3> QED BY <1>4, <1>5
  <2> HIDE DEF the, Pass
  <2> QED BY <2>1
<1>7. Passes(S, from, load, g)
  <2>1. 0 \in 0 .. n /\ \A k \in 1 .. n : k \in 0 .. n /\ k # 0
    BY <1>1
  <2> HIDE DEF the
  <2> QED BY <1>6, <2>1 DEF Passes
<1>8. Scan(S, from, load) = <<the[n].best, the[n].cursor>>
  BY DEF Scan, Turn, Begun
<1> HIDE DEF the
<1> QED
  BY <1>5, <1>7, <1>8


(* The candidate the formula names: none carries fewer leases, and those   *)
(* that carry as many come later in the rotation.                          *)
FirstLeast(S, from, load, p) ==
    /\ p \in S
    /\ \A d \in S : load[p] <= load[d]
    /\ \A d \in S : load[d] = load[p] => Ahead(S, from, p) <= Ahead(S, from, d)

LEMMA ScanFinds ==
    ASSUME NEW S \in SUBSET Creds, S # {}, NEW from \in Nat, NEW load \in [Creds -> Nat],
           NEW p, FirstLeast(S, from, load, p)
    PROVE  Scan(S, from, load) =
             <<p, IF load[p] = 0 THEN (from + Ahead(S, from, p) + 1) % Cardinality(S)
                                 ELSE (from + 1) % Cardinality(S)>>
<1>1. PICK n, j : n = Cardinality(S) /\ j = Ahead(S, from, p)
  OBVIOUS
<1>2. PICK f : Passes(S, from, load, f) /\ Scan(S, from, load) = <<f[n].best, f[n].cursor>>
  BY <1>1, ScanIs
<1>3. /\ n \in Nat \ {0} /\ j \in 0 .. n - 1 /\ p \in S /\ p \in Nat \ {0}
      /\ Turn(S, from, j) = p
  BY <1>1, RankIs, TurnIs, CredsAssumption DEF FirstLeast
<1>4. \A c \in S : load[c] \in Nat /\ load[p] <= load[c] /\ c # 0
  BY CredsAssumption DEF FirstLeast
<1>5. /\ f[0] = Begun(S, from)
      /\ \A k \in 1 .. n : f[k] = Look(f[k - 1], Turn(S, from, k - 1), load, (from + k) % n)
  BY <1>1, <1>2 DEF Passes
(* Those before it carry more.                                             *)
<1>6. ASSUME NEW k \in 0 .. j - 1
      PROVE  Turn(S, from, k) \in S /\ load[p] < load[Turn(S, from, k)]
  <2>1. k \in 0 .. n - 1 /\ k < j
    BY <1>3
  <2>2. PICK c : c = Turn(S, from, k)
    OBVIOUS
  <2>3. c \in S /\ Ahead(S, from, c) = k
    BY <1>1, <2>1, <2>2, TurnIs
  <2>4. load[c] # load[p]
    <3>1. ASSUME load[c] = load[p] PROVE FALSE
      <4>1. j <= k
        BY <1>1, <2>3, <3>1 DEF FirstLeast
      <4> QED BY <1>3, <2>1, <4>1
    <3> QED BY <3>1
  <2> QED BY <1>3, <1>4, <2>2, <2>3, <2>4
<1> DEFINE last == (from + 1) % n
           Before(s) == /\ s.found = FALSE /\ s.cursor = last
                        /\ s.best = 0 \/ (s.best \in S /\ load[p] < load[s.best])
                        /\ s = [found |-> s.found, best |-> s.best, cursor |-> s.cursor]
           From(s) == IF load[p] = 0
                      THEN s = [found |-> TRUE, best |-> p, cursor |-> (from + j + 1) % n]
                      ELSE s = [found |-> FALSE, best |-> p, cursor |-> last]
           X == {k \in Nat : k <= n => IF k <= j THEN Before(f[k]) ELSE From(f[k])}
<1>7. X \in SUBSET Nat
  OBVIOUS
<1>8. 0 \in X
  <2>1. Before(f[0])
    BY <1>1, <1>5 DEF Begun
  <2> HIDE DEF Before, From
  <2> QED BY <1>3, <2>1
<1>9. ASSUME NEW k \in X PROVE k + 1 \in X
  <2>1. k \in Nat /\ k + 1 \in Nat
    OBVIOUS
  <2>2. CASE ~(k + 1 <= n)
    BY <2>1, <2>2
  <2>3. CASE k + 1 <= n
    <3>1. PICK s, t, c : s = f[k] /\ t = f[k + 1] /\ c = Turn(S, from, k)
      OBVIOUS
    <3>2. t = Look(s, c, load, (from + (k + 1)) % n)
      <4>1. k + 1 \in 1 .. n /\ (k + 1) - 1 = k
        BY <2>1, <2>3
      <4> QED BY <1>5, <3>1, <4>1
    <3>3. IF k <= j THEN Before(s) ELSE From(s)
      <4>1. k <= n
        BY <1>3, <2>1, <2>3
      <4> HIDE DEF Before, From
      <4> QED BY <1>9, <3>1, <4>1
    <3>4. c \in S /\ load[c] \in Nat /\ c # 0 /\ load[p] <= load[c] /\ load[p] \in Nat
      <4>1. k \in 0 .. n - 1
        BY <1>3, <2>1, <2>3
      <4> QED BY <1>1, <1>3, <1>4, <3>1, <4>1, TurnIs
    <3>5. CASE k < j
      <4>1. Before(s) /\ k + 1 <= j
        BY <1>3, <2>1, <3>3, <3>5
      <4>2. load[p] < load[c]
        <5>1. k \in 0 .. j - 1
          BY <1>3, <2>1, <3>5
        <5> QED BY <1>6, <3>1, <5>1
      <4>3. load[c] # 0
        BY <3>4, <4>2
      <4>4. t = [s EXCEPT !.best = c] \/ t = s
        BY <3>2, <4>1, <4>3 DEF Look
      <4>5. Before(t)
        BY <3>4, <4>1, <4>2, <4>4
      <4> HIDE DEF Before, From
      <4> QED BY <2>1, <3>1, <4>1, <4>5
    <3>6. CASE k = j
      <4>1. Before(s) /\ c = p /\ ~(k + 1 <= j)
        BY <1>3, <2>1, <3>1, <3>3, <3>6
      <4>2. CASE load[p] = 0
        <5>1. t = [found |-> TRUE, best |-> p, cursor |-> (from + (k + 1)) % n]
          BY <3>2, <4>1, <4>2 DEF Look
        <5>2. from + (k + 1) = from + j + 1
          BY <1>3, <3>6
        <5>3. From(t)
          BY <4>2, <5>1, <5>2
        <5> HIDE DEF Before, From
        <5> QED BY <2>1, <3>1, <4>1, <5>3
      <4>3. CASE load[p] # 0
        <5>1. t = [s EXCEPT !.best = p]
          BY <3>2, <4>1, <4>3 DEF Look
        <5>2. t = [found |-> FALSE, best |-> p, cursor |-> last]
          BY <4>1, <5>1
        <5>3. From(t)
          BY <4>3, <5>2
        <5> HIDE DEF Before, From
        <5> QED BY <2>1, <3>1, <4>1, <5>3
      <4> QED BY <4>2, <4>3
    <3>7. CASE k > j
      <4>1. From(s) /\ ~(k + 1 <= j)
        BY <1>3, <2>1, <3>3, <3>7
      <4>2. t = s
        <5>1. CASE load[p] = 0
          BY <3>2, <4>1, <5>1 DEF Look
        <5>2. CASE load[p] # 0
          <6>1. load[c] # 0 /\ ~(load[c] < load[p])
            BY <3>4, <5>2
          <6>2. s.found = FALSE /\ s.best = p /\ p # 0
            BY <1>3, <4>1, <5>2
          <6> QED BY <3>2, <6>1, <6>2 DEF Look
        <5> QED BY <5>1, <5>2
      <4> HIDE DEF Before, From
      <4> QED BY <2>1, <3>1, <4>1, <4>2
    <3>8. k < j \/ k = j \/ k > j
      BY <1>3, <2>1
    <3> HIDE DEF X
    <3> QED BY <3>5, <3>6, <3>7, <3>8
  <2> QED BY <2>2, <2>3
<1>10. X = Nat
  <2> HIDE DEF X
  <2> QED BY <1>7, <1>8, <1>9, SetInduction
<1>11. From(f[n])
  <2>1. n \in X /\ n <= n /\ ~(n <= j)
    <3> HIDE DEF X
    <3> QED BY <1>3, <1>10
  <2> HIDE DEF Before, From
  <2> QED BY <2>1
<1> QED
  BY <1>1, <1>2, <1>11

LEMMA FirstLeastExists ==
    ASSUME NEW S \in SUBSET Creds, S # {}, NEW from \in Nat, NEW load \in [Creds -> Nat]
    PROVE  \E p : FirstLeast(S, from, load, p)
<1>1. PICK g : g = [c \in S |-> load[c]]
  OBVIOUS
<1>2. g \in [S -> Nat]
  BY <1>1
<1>3. PICK least : least = {c \in S : \A d \in S : load[c] <= load[d]}
  OBVIOUS
<1>4. least # {} /\ least \subseteq S
  <2>1. \E c \in S : \A d \in S : g[c] <= g[d]
    BY <1>2, LeastValue
  <2> QED BY <1>1, <1>3, <2>1
<1>5. PICK h : h = [c \in least |-> Ahead(S, from, c)]
  OBVIOUS
<1>6. h \in [least -> Nat]
  <2>1. \A c \in S : Ahead(S, from, c) \in Nat
    <3>1. PICK n : n = Cardinality(S)
      OBVIOUS
    <3>2. n \in Nat /\ \A c \in S : Ahead(S, from, c) \in 0 .. n - 1
      BY <3>1, RankIs, TurnIs
    <3> QED BY <3>2
  <2> QED BY <1>4, <1>5, <2>1
<1>7. PICK p \in least : \A d \in least : h[p] <= h[d]
  BY <1>4, <1>6, LeastValue
<1>8. \A d \in S : load[d] = load[p] => d \in least
  BY <1>3, <1>7
<1> QED
  BY <1>3, <1>4, <1>5, <1>7, <1>8 DEF FirstLeast


(* The instance counts as the module does.                                 *)
LEMMA CardinalityAt ==
    ASSUME NEW load, NEW from, NEW S
    PROVE  At(load, from)!Cardinality(S) = Cardinality(S)
BY DEF At!Cardinality, Cardinality

(* The loop of _choose returns the credential that RoundRobinPick names    *)
(* and leaves the cursor RoundRobinCursor says, for every non-empty set of *)
(* candidates, every load and every cursor (scheduler.py:147-162).         *)
THEOREM ScanIsPick ==
    ASSUME NEW S \in SUBSET Creds, S # {}, NEW load \in [Creds -> Nat], NEW from \in Nat
    PROVE  Scan(S, from, load) =
             <<At(load, from)!RoundRobinPick(S), At(load, from)!RoundRobinCursor(S)>>
<1> DEFINE least == {c \in S : \A d \in S : load[c] <= load[d]}
           p == At(load, from)!RoundRobinPick(S)
<1>1. At(load, from)!LeastLoaded(S) = least
  BY DEF At!LeastLoaded
<1>2. \A c : At(load, from)!Offset(c, S) = Ahead(S, from, c)
  <2>1. \A c : At(load, from)!Rank(c, S) = Rank(c, S)
    BY CardinalityAt DEF At!Rank, Rank
  <2>2. ASSUME NEW c PROVE At(load, from)!Offset(c, S) = Ahead(S, from, c)
    <3>1. At(load, from)!Offset(c, S) = (At(load, from)!Rank(c, S) - from) % Cardinality(S)
      BY CardinalityAt DEF At!Offset
    <3> QED BY <2>1, <3>1 DEF Ahead
  <2> QED BY <2>2
<1>3. p = CHOOSE c \in least : \A d \in least : Ahead(S, from, c) <= Ahead(S, from, d)
  BY <1>1, <1>2 DEF At!RoundRobinPick
<1>4. \E c \in least : \A d \in least : Ahead(S, from, c) <= Ahead(S, from, d)
  <2>1. PICK c : FirstLeast(S, from, load, c)
    BY FirstLeastExists
  <2>2. c \in least
    BY <2>1 DEF FirstLeast
  <2>3. ASSUME NEW d \in least PROVE load[d] = load[c]
    <3>1. load[d] <= load[c] /\ load[c] <= load[d] /\ load[c] \in Nat /\ load[d] \in Nat
      BY <2>2
    <3> QED BY <3>1
  <2>4. \A d \in least : Ahead(S, from, c) <= Ahead(S, from, d)
    BY <2>1, <2>3 DEF FirstLeast
  <2> QED BY <2>2, <2>4
<1>5. p \in least /\ \A d \in least : Ahead(S, from, p) <= Ahead(S, from, d)
  <2>1. PICK q : q = p
    OBVIOUS
  <2>2. q = CHOOSE c \in least : \A d \in least : Ahead(S, from, c) <= Ahead(S, from, d)
    BY <1>3, <2>1
  <2>3. q \in least /\ \A d \in least : Ahead(S, from, q) <= Ahead(S, from, d)
    <3> HIDE DEF least
    <3> QED BY <1>4, <2>2
  <2> QED BY <2>1, <2>3
<1>6. PICK q : q = p
  OBVIOUS
<1>7. FirstLeast(S, from, load, q)
  <2>1. q \in S /\ \A d \in S : load[q] <= load[d]
    BY <1>5, <1>6
  <2>2. ASSUME NEW d \in S, load[d] = load[q] PROVE d \in least
    BY <2>1, <2>2
  <2> HIDE DEF p
  <2> QED BY <1>5, <1>6, <2>1, <2>2 DEF FirstLeast
<1>8. At(load, from)!RoundRobinCursor(S) =
        IF load[q] = 0 THEN (from + Ahead(S, from, q) + 1) % Cardinality(S)
                       ELSE (from + 1) % Cardinality(S)
  <2>1. At(load, from)!Offset(q, S) = Ahead(S, from, q)
    BY <1>2
  <2>2. At(load, from)!RoundRobinCursor(S) =
          IF load[q] = 0 THEN (from + At(load, from)!Offset(q, S) + 1) % Cardinality(S)
                         ELSE (from + 1) % Cardinality(S)
    BY <1>6, CardinalityAt DEF At!RoundRobinCursor
  <2> QED BY <2>1, <2>2
<1>9. Scan(S, from, load) =
        <<q, IF load[q] = 0 THEN (from + Ahead(S, from, q) + 1) % Cardinality(S)
                            ELSE (from + 1) % Cardinality(S)>>
  BY <1>7, ScanFinds
<1> QED
  BY <1>6, <1>8, <1>9

(* In particular the agreement the run compares, in every state.           *)
THEOREM ScanHolds == ScanAgrees
<1> SUFFICES ASSUME NEW S \in (SUBSET Creds) \ {{}}, NEW load \in [Creds -> 0 .. 2],
                    NEW from \in 0 .. Cardinality(Creds)
             PROVE  Scan(S, from, load) =
                      <<At(load, from)!RoundRobinPick(S), At(load, from)!RoundRobinCursor(S)>>
  BY DEF ScanAgrees
<1>1. Cardinality(Creds) \in Nat
  BY CredsAssumption, FS_CardinalityType
<1>2. load \in [Creds -> Nat] /\ from \in Nat /\ S \in SUBSET Creds /\ S # {}
  <2>1. load \in [Creds -> Nat]
    <3>1. \A c \in Creds : load[c] \in 0 .. 2
      OBVIOUS
    <3>2. \A c \in Creds : load[c] \in Nat
      BY <3>1
    <3> QED BY <3>2
  <2>2. from \in Nat
    BY <1>1
  <2> QED BY <2>1, <2>2
<1> QED
  BY <1>2, ScanIsPick


(* On an idle pool the loop takes the candidate at the cursor.             *)
LEMMA IdleScan ==
    ASSUME NEW S \in SUBSET Creds, S # {}, NEW from \in Nat
    PROVE  Scan(S, from, [c \in Creds |-> 0]) =
             <<Turn(S, from, 0), (from + 1) % Cardinality(S)>>
<1>1. PICK n, idle, p : n = Cardinality(S) /\ idle = [c \in Creds |-> 0] /\ p = Turn(S, from, 0)
  OBVIOUS
<1>2. n \in Nat \ {0} /\ idle \in [Creds -> Nat] /\ \A c \in S : idle[c] = 0
  BY <1>1, RankIs
<1>3. p \in S /\ Ahead(S, from, p) = 0 /\ \A c \in S : Ahead(S, from, c) \in 0 .. n - 1
  <2>1. 0 \in 0 .. n - 1
    BY <1>2
  <2> QED BY <1>1, <2>1, TurnIs
<1>4. FirstLeast(S, from, idle, p)
  <2>1. \A c \in S : 0 <= Ahead(S, from, c)
    BY <1>3
  <2>2. \A c \in S : idle[p] <= idle[c]
    BY <1>2, <1>3
  <2> QED BY <1>3, <2>1, <2>2 DEF FirstLeast
<1>5. Scan(S, from, idle) = <<p, (from + 0 + 1) % n>>
  BY <1>1, <1>2, <1>3, <1>4, ScanFinds
<1>6. from + 0 + 1 = from + 1
  OBVIOUS
<1> QED
  BY <1>1, <1>5, <1>6

(* Selections that follow each other on an idle pool serve every           *)
(* credential before they serve one twice, wherever the cursor stands      *)
(* (scheduler.py:152-157).                                                 *)
LEMMA RotationServes == ASSUME cursor \in Nat PROVE RotationServesAll
<1> DEFINE n == Cardinality(Creds)
           idle == [c \in Creds |-> 0]
           Choice(g, i) == Scan(Creds, IF i = 1 THEN cursor ELSE g[i - 1][2], idle)
           Is(g) == g = [i \in 1 .. n |-> Choice(g, i)]
           the == CHOOSE g : Is(g)
           Value(i) == <<Turn(Creds, cursor, i - 1), (cursor + i) % n>>
<1>1. RotationServesAll = ({the[i][1] : i \in DOMAIN the} = Creds)
  BY DEF RotationServesAll
<1>2. IsFiniteSet(Creds) /\ n \in Nat
  BY CredsAssumption, FS_CardinalityType
(* One selection after another.                                            *)
<1>3. ASSUME NEW i \in 1 .. n, NEW g, i # 1 => g[i - 1] = Value(i - 1)
      PROVE  Choice(g, i) = Value(i)
  <2>1. Creds # {} /\ n \in Nat \ {0} /\ i \in Nat \ {0}
    BY <1>2, FS_EmptySet
  <2>2. CASE i = 1
    <3>1. Choice(g, i) = <<Turn(Creds, cursor, 0), (cursor + 1) % n>>
      BY <2>1, <2>2, IdleScan
    <3>2. i - 1 = 0
      BY <2>2
    <3> QED BY <2>2, <3>1, <3>2
  <2>3. CASE i # 1
    <3>1. PICK a, from : a = cursor + (i - 1) /\ from = a % n
      OBVIOUS
    <3>2. a \in Int /\ i - 1 \in Nat
      BY <2>1, <3>1
    <3>3. from \in 0 .. n - 1 /\ from \in Nat
      <4>1. from \in 0 .. n - 1
        BY <2>1, <3>1, <3>2, Division
      <4> QED BY <4>1
    <3>4. g[i - 1][2] = from
      BY <1>3, <2>3, <3>1
    <3>5. Choice(g, i) = <<Turn(Creds, from, 0), (from + 1) % n>>
      BY <2>1, <2>3, <3>3, <3>4, IdleScan
    <3>6. (from + 0) % n = a % n /\ (from + 1) % n = (cursor + i) % n
      <4>1. \A k \in Int : (from + k) % n = (a + k) % n
        <5>1. \A k \in Int : ((a % n) + k) % n = (a + k) % n
          BY <2>1, <3>2, Onward, Zenon
        <5> QED BY <3>1, <5>1, Zenon
      <4>2. a + 0 = a /\ a + 1 = cursor + i
        BY <2>1, <3>1
      <4> QED BY <4>1, <4>2
    <3>7. Turn(Creds, from, 0) = Turn(Creds, cursor, i - 1)
      BY <3>1, <3>6 DEF Turn
    <3> QED BY <3>5, <3>6, <3>7
  <2> QED BY <2>2, <2>3
<1>4. Is(the)
  <2>1. PICK g : g = [i \in 1 .. n |-> Value(i)]
    OBVIOUS
  <2>2. ASSUME NEW i \in 1 .. n PROVE Choice(g, i) = Value(i)
    <3>1. i # 1 => i - 1 \in 1 .. n
      BY <1>2
    <3>2. i # 1 => g[i - 1] = Value(i - 1)
      <4> HIDE DEF Value
      <4> QED BY <2>1, <3>1
    <3> HIDE DEF Choice, Value
    <3> QED BY <1>3, <3>2
  <2>3. Is(g)
    <3> HIDE DEF Choice, Value
    <3> QED BY <2>1, <2>2
  <2> HIDE DEF Is
  <2> QED BY <2>3
<1>5. PICK f : f = the
  OBVIOUS
<1>6. DOMAIN f = 1 .. n /\ \A i \in 1 .. n : f[i] = Choice(f, i)
  <2>1. f = [i \in 1 .. n |-> Choice(f, i)]
    <3> HIDE DEF the, Choice
    <3> QED BY <1>4, <1>5
  <2> HIDE DEF the, Choice
  <2> QED BY <2>1
<1>7. \A i \in 1 .. n : f[i] = Value(i)
  <2> DEFINE X == {i \in Nat : i + 1 <= n => f[i + 1] = Value(i + 1)}
  <2>1. X \in SUBSET Nat
    OBVIOUS
  <2>2. 0 \in X
    <3>1. ASSUME 1 <= n PROVE f[1] = Value(1)
      <4>1. 1 \in 1 .. n
        BY <1>2, <3>1
      <4>2. Choice(f, 1) = Value(1)
        <5> HIDE DEF Choice, Value, the
        <5> QED BY <1>3, <4>1
      <4> HIDE DEF Choice, Value, the
      <4> QED BY <1>6, <4>1, <4>2
    <3> HIDE DEF Value
    <3> QED BY <3>1
  <2>3. ASSUME NEW i \in X PROVE i + 1 \in X
    <3>1. i \in Nat /\ (i + 1) + 1 \in Nat /\ i + 1 \in Nat
      OBVIOUS
    <3>2. ASSUME (i + 1) + 1 <= n PROVE f[(i + 1) + 1] = Value((i + 1) + 1)
      <4>1. PICK k : k = (i + 1) + 1
        OBVIOUS
      <4>2. k \in 1 .. n /\ k - 1 = i + 1 /\ i + 1 <= n
        BY <1>2, <3>1, <3>2, <4>1
      <4>3. f[k - 1] = Value(k - 1)
        <5> HIDE DEF Value
        <5> QED BY <2>3, <4>2
      <4>4. Choice(f, k) = Value(k)
        <5> HIDE DEF Choice, Value, the
        <5> QED BY <1>3, <4>2, <4>3
      <4> HIDE DEF Choice, Value, the
      <4> QED BY <1>6, <4>1, <4>2, <4>4
    <3> HIDE DEF Value
    <3> QED BY <3>1, <3>2
  <2>4. X = Nat
    <3> HIDE DEF X
    <3> QED BY <2>1, <2>2, <2>3, SetInduction
  <2>5. ASSUME NEW i \in 1 .. n PROVE f[i] = Value(i)
    <3>1. PICK k : k = i - 1
      OBVIOUS
    <3>2. k \in Nat /\ k + 1 = i /\ k + 1 <= n
      BY <1>2, <3>1
    <3> HIDE DEF Value
    <3> QED BY <2>4, <3>2
  <2> HIDE DEF Value, the
  <2> QED BY <2>5
<1>8. \A i \in 1 .. n : f[i][1] = Turn(Creds, cursor, i - 1)
  BY <1>7
(* Every credential has its turn, and only credentials have one.           *)
<1>9. {Turn(Creds, cursor, i - 1) : i \in 1 .. n} = Creds
  <2>1. ASSUME NEW i \in 1 .. n PROVE Turn(Creds, cursor, i - 1) \in Creds
    <3>1. Creds # {} /\ i - 1 \in 0 .. n - 1
      BY <1>2, FS_EmptySet
    <3> QED BY <3>1, TurnIs
  <2>2. ASSUME NEW c \in Creds PROVE \E i \in 1 .. n : Turn(Creds, cursor, i - 1) = c
    <3>1. PICK k : k = Ahead(Creds, cursor, c)
      OBVIOUS
    <3>2. k \in 0 .. n - 1 /\ Turn(Creds, cursor, k) = c
      BY <3>1, TurnIs
    <3>3. k + 1 \in 1 .. n /\ (k + 1) - 1 = k
      BY <1>2, <3>2
    <3> QED BY <3>2, <3>3
  <2> QED BY <2>1, <2>2
<1>10. {f[i][1] : i \in DOMAIN f} = {Turn(Creds, cursor, i - 1) : i \in 1 .. n}
  BY <1>6, <1>8
<1> QED
  <2> HIDE DEF the
  <2> QED BY <1>1, <1>5, <1>9, <1>10
=============================================================================

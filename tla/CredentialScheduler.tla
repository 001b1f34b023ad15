-------------------------- MODULE CredentialScheduler --------------------------
(***************************************************************************)
(* The upstream credential pool of the gateway: the rows of the table      *)
(* qwen_credentials (models/db.py) and the hot state of the process-wide   *)
(* CredentialScheduler (gateway/scheduler.py).                             *)
(*                                                                         *)
(* The module holds the state of the pool, the operators that read it      *)
(* (eligibility, choice) and one action per operation that changes it.     *)
(* The actions say nothing of who calls them: CompletionService composes   *)
(* them with the requests, which take their steps between two awaits.      *)
(*                                                                         *)
(* Time is a natural number that only Tick advances; durations are small   *)
(* constants.  A row keeps what scheduling depends on: secrets, names and  *)
(* lifetime counters are left out.  The two columns that order selections  *)
(* under least_recently_used hold the tick of the selection, since only    *)
(* their order matters.                                                    *)
(***************************************************************************)
EXTENDS Integers, FiniteSets

CONSTANTS
    Creds,              \* ids of the rows the table may ever hold
    Strategies,         \* values scheduler_strategy takes during a run
    DefaultCooldown,    \* default_cooldown_seconds
    RateLimitCooldown,  \* rate_limit_cooldown_seconds
    DecryptCooldown,    \* the 3600 s given to a row that cannot be decrypted
    BackoffUnit,        \* the 15 s unit of the transport-failure backoff
    Expiries,           \* expires_at of a new or edited row; 0 is "never"
    InitialRows,        \* rows the table may hold when the process starts
    Edits,              \* kinds of edits the operator makes during a run
    MaxTime             \* bound on the clock

ASSUME CredsAssumption == Creds \subseteq Nat \ {0} /\ IsFiniteSet(Creds)

ASSUME StrategiesAssumption ==
    Strategies \subseteq {"round_robin", "least_recently_used"}

ASSUME TimesAssumption ==
    /\ {DefaultCooldown, RateLimitCooldown, DecryptCooldown, BackoffUnit}
          \subseteq Nat \ {0}
    /\ Expiries \subseteq Nat
    /\ MaxTime \in Nat

VARIABLES
    live,          \* ids of the rows in the table
    row,           \* id -> row (what the table holds, for the ids in live)
    leases,        \* _leases; 0 stands for an absent key
    lastSelected,  \* _last_selected; 0 stands for an absent key
    tick,          \* _tick
    cursor,        \* _cursor
    now            \* utcnow()

hotVars  == <<leases, lastSelected, tick, cursor>>
poolVars == <<live, row, leases, lastSelected, tick, cursor, now>>

Statuses == {"unknown", "healthy", "degraded", "cooldown", "invalid"}

(* Error categories of gateway/errors.py that reach the scheduler.         *)
Categories == {"rate_limit", "authentication", "permission", "upstream",
               "timeout", "network", "parse", "internal"}

Rows == [enabled  : BOOLEAN,
         status   : Statuses,
         failures : Nat,       \* consecutive_failures
         cooldown : Nat,       \* cooldown_until, 0 for NULL
         expires  : Nat,       \* expires_at, 0 for NULL
         used     : Nat,       \* last_used_at, 0 for NULL
         readable : BOOLEAN]   \* encrypted_secret decrypts

ASSUME RowsAssumption == InitialRows \subseteq Rows

PoolTypeOK ==
    /\ live \subseteq Creds
    /\ row \in [Creds -> Rows]
    /\ leases \in [Creds -> Nat]
    /\ lastSelected \in [Creds -> Nat]
    /\ tick \in Nat
    /\ cursor \in Nat
    /\ now \in Nat

(* A row as create_credential stores it.                                   *)
FreshRow(e) ==
    [enabled |-> TRUE, status |-> "unknown", failures |-> 0, cooldown |-> 0,
     expires |-> e, used |-> 0, readable |-> TRUE]

-----------------------------------------------------------------------------
(* Selection.                                                              *)

(* A wrong variant: an invalid row stays eligible.                         *)
EligibleForgetsStatus(r) ==
    /\ r.enabled
    /\ ~(r.cooldown # 0 /\ r.cooldown > now)
    /\ ~(r.expires # 0 /\ r.expires <= now)

(* _eligible: enabled, not cooling down, not expired, not invalid.         *)
IsEligible(r) ==
    /\ r.enabled
    /\ ~(r.cooldown # 0 /\ r.cooldown > now)
    /\ ~(r.expires # 0 /\ r.expires <= now)
    /\ r.status # "invalid"

(* A wrong variant: the selection reads enabled and nothing else.          *)
EnabledOnly == {c \in live : row[c].enabled}

Eligible == {c \in live : IsEligible(row[c])}

(* The counter of SchedulerStats a row falls under (stats).                *)
Bucket(r) ==
    CASE ~r.enabled -> "disabled"
      [] r.enabled /\ r.expires # 0 /\ r.expires <= now -> "expired"
      [] r.enabled /\ ~(r.expires # 0 /\ r.expires <= now)
         /\ r.cooldown # 0 /\ r.cooldown > now -> "cooling_down"
      [] OTHER -> IF r.status # "invalid" THEN "healthy" ELSE "uncounted"

LeastLoaded(S) == {c \in S : \A d \in S : leases[c] <= leases[d]}

(* Distance of c from the cursor in the rotation over S sorted by id.      *)
Rank(c, S)   == Cardinality({d \in S : d < c})
Offset(c, S) == (Rank(c, S) - cursor) % Cardinality(S)

(* The round-robin scan returns the first idle credential of the rotation, *)
(* or else the first of those with the smallest number of leases.          *)
RoundRobinPick(S) ==
    CHOOSE c \in LeastLoaded(S) :
        \A d \in LeastLoaded(S) : Offset(c, S) <= Offset(d, S)

(* A wrong variant: the cursor is left on the credential just picked.      *)
StuckCursor(S) == (cursor + Offset(RoundRobinPick(S), S)) % Cardinality(S)

(* A wrong variant: a busy pick moves the cursor back, below zero.         *)
BackwardCursor(S) ==
    LET pick == RoundRobinPick(S) IN
    IF leases[pick] = 0
      THEN (cursor + Offset(pick, S) + 1) % Cardinality(S)
      ELSE cursor - 1

(* An idle pick moves the cursor past it, a busy one moves it by one.      *)
RoundRobinCursor(S) ==
    LET pick == RoundRobinPick(S) IN
    IF leases[pick] = 0
      THEN (cursor + Offset(pick, S) + 1) % Cardinality(S)
      ELSE (cursor + 1) % Cardinality(S)

(* lru_key compares leases, then the last use, then the id.                *)
UsedBefore(c, d) ==
    \/ row[c].used < row[d].used
    \/ /\ row[c].used = row[d].used
       /\ \/ lastSelected[c] < lastSelected[d]
          \/ lastSelected[c] = lastSelected[d] /\ c <= d

LeastRecentPick(S) ==
    CHOOSE c \in LeastLoaded(S) : \A d \in LeastLoaded(S) : UsedBefore(c, d)

Pick(S, strategy) ==
    IF strategy = "least_recently_used" THEN LeastRecentPick(S)
                                        ELSE RoundRobinPick(S)

(* acquire, up to its commit: the choice, the lease and the cursor.        *)
Lease(S, strategy) ==
    LET c == Pick(S, strategy) IN
    /\ tick' = tick + 1
    /\ lastSelected' = [lastSelected EXCEPT ![c] = tick + 1]
    /\ leases' = [leases EXCEPT ![c] = @ + 1]
    /\ cursor' = IF strategy = "least_recently_used"
                   THEN cursor ELSE RoundRobinCursor(S)

(* The commit of acquire, which writes last_used_at.                       *)
Touch(c) == row' = [row EXCEPT ![c].used = tick]

(* A wrong variant: release removes the key whatever the count.            *)
PopLease(c) == leases' = [leases EXCEPT ![c] = 0]

(* release: the last lease removes the key.                                *)
Unlease(c) ==
    leases' = [leases EXCEPT ![c] = IF @ <= 1 THEN 0 ELSE @ - 1]

-----------------------------------------------------------------------------
(* Outcome reporting.                                                      *)

(* 15 * 2 ** min(failures - 1, 4), capped by the default cooldown.         *)
BackoffFactor == <<1, 2, 4, 8, 16>>
Backoff(failures) ==
    LET n == BackoffUnit * BackoffFactor[IF failures < 5 THEN failures ELSE 5]
    IN IF n < DefaultCooldown THEN n ELSE DefaultCooldown

(* A wrong variant: without Retry-After a 429 sets no cooldown.            *)
NoDefaultCooldown(category, failures, retryAfter) ==
    CASE category = "rate_limit" -> retryAfter
      [] category \in {"authentication", "permission"} -> 2 * DefaultCooldown
      [] category \in {"upstream", "timeout", "network", "parse"} ->
            Backoff(failures)
      [] OTHER -> 0

(* Length of the cooldown of mark_failure; 0 applies none.                 *)
CooldownFor(category, failures, retryAfter) ==
    CASE category = "rate_limit" ->
            IF retryAfter # 0 THEN retryAfter ELSE RateLimitCooldown
      [] category \in {"authentication", "permission"} -> 2 * DefaultCooldown
      [] category \in {"upstream", "timeout", "network", "parse"} ->
            Backoff(failures)
      [] OTHER -> 0

StatusFor(category, failures) ==
    CASE category = "rate_limit" -> "cooldown"
      [] category \in {"authentication", "permission"} ->
            IF failures >= 3 THEN "invalid" ELSE "degraded"
      [] OTHER -> "degraded"

(* mark_success is one UPDATE statement.                                   *)
MarkSuccess(c) ==
    row' = IF c \in live
             THEN [row EXCEPT ![c] = [row[c] EXCEPT !.status = "healthy",
                                      !.failures = 0, !.cooldown = 0]]
             ELSE row

(* mark_failure writes at its commit what it computed from the row it read *)
(* before (old): the counter is old.failures + 1 whatever the table holds  *)
(* by then (r), and the status column is only part of the UPDATE when it   *)
(* differs from the one read.  length is the cooldown_seconds argument, 0  *)
(* for none.                                                               *)
FailedRow(r, old, category, retryAfter, length) ==
    LET failures == old.failures + 1
        status   == StatusFor(category, failures)
        cooldown == IF length # 0 THEN length
                    ELSE CooldownFor(category, failures, retryAfter)
    IN [r EXCEPT !.failures = failures,
                 !.status   = IF status # old.status THEN status ELSE r.status,
                 !.cooldown = IF cooldown > 0 THEN now + cooldown ELSE r.cooldown]

MarkFailure(c, old, category, retryAfter, length) ==
    row' = [row EXCEPT
              ![c] = FailedRow(row[c], old, category, retryAfter, length)]

-----------------------------------------------------------------------------
(* The operator's edits (services/credential_service.py) and the clock.    *)

SetEnabled(c, b) ==
    /\ c \in live
    /\ row[c].enabled # b
    /\ row' = [row EXCEPT ![c].enabled = b]
    /\ UNCHANGED <<live, hotVars, now>>

ReplaceSecret(c, e) ==
    /\ c \in live
    /\ row' = [row EXCEPT
                 ![c] = [row[c] EXCEPT !.status = "unknown", !.failures = 0,
                                       !.cooldown = 0, !.expires = e,
                                       !.readable = TRUE]]
    /\ UNCHANGED <<live, hotVars, now>>

ClearCooldown(c) ==
    /\ c \in live
    /\ LET r == row[c] IN
       row' = [row EXCEPT
                 ![c] = [r EXCEPT
                           !.cooldown = 0, !.failures = 0,
                           !.status = IF r.status \in {"cooldown", "degraded",
                                                       "invalid"}
                                        THEN "unknown" ELSE r.status]]
    /\ UNCHANGED <<live, hotVars, now>>

DeleteCredential(c) ==
    /\ c \in live
    /\ live' = live \ {c}
    /\ UNCHANGED <<row, hotVars, now>>

(* SQLite gives a new row the id after the largest one in the table, so    *)
(* the id of the row deleted last comes back.                              *)
CreateCredential(c, e) ==
    /\ c \in Creds \ live
    /\ \A d \in live : d < c
    /\ \A d \in Creds : d < c => \E l \in live : d <= l
    /\ live' = live \union {c}
    /\ row' = [row EXCEPT ![c] = FreshRow(e)]
    /\ UNCHANGED <<hotVars, now>>

AdminStep(c) ==
    \/ "enable" \in Edits /\ \E b \in BOOLEAN : SetEnabled(c, b)
    \/ "secret" \in Edits /\ \E e \in Expiries : ReplaceSecret(c, e)
    \/ "clear" \in Edits /\ ClearCooldown(c)
    \/ "delete" \in Edits /\ DeleteCredential(c)
    \/ "create" \in Edits /\ \E e \in Expiries : CreateCredential(c, e)

Tick ==
    /\ now < MaxTime
    /\ now' = now + 1
    /\ UNCHANGED <<live, row, hotVars>>

=============================================================================

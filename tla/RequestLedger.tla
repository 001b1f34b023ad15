----------------------------- MODULE RequestLedger -----------------------------
(***************************************************************************)
(* The way of a request through the gateway, around the completion itself: *)
(* the rate limiter, its API key (auth/api_key.py, api_key_service.py), the*)
(* body of a stream (api/public.py) and the request log with the counters  *)
(* of the key (services/metrics.py).  CompletionService is inside one step *)
(* here: it leaves the recorder with a status.                             *)
(*                                                                         *)
(* The service runs on SQLite or on PostgreSQL, which differ where two     *)
(* writers meet.  session.get flushes the new log entry first, so on SQLite*)
(* a request holds the only write lock of the database from there to its   *)
(* commit; on PostgreSQL it holds the key's row against deletion only.     *)
(***************************************************************************)
EXTENDS RateLimiter

CONSTANTS
    Requests,    \* requests the process serves at the same time
    Streams,     \* those that ask for a stream
    Keys,        \* ids of the rows of api_keys
    Lifetimes,   \* expires_in_days of a new key, 0 for none
    Databases,   \* "sqlite", "postgresql"
    Retention,   \* request_log_retention_days, 0 for none
    MaxEntries,  \* bound on the entries ever logged
    NoWriter     \* the holder of the write lock when it is free

ASSUME LedgerAssumption ==
    /\ IsFiniteSet(Requests)
    /\ Streams \subseteq Requests
    /\ Lifetimes \subseteq Nat
    /\ Keys \subseteq Nat \ {0}
    /\ Databases \subseteq {"sqlite", "postgresql"}
    /\ NoWriter \notin Requests

VARIABLES
    database,  \* the one this process runs on
    keys,      \* ids of the rows in the table
    key,       \* id -> row
    at,        \* where each request stands
    caller,    \* the id of its key, 0 for none
    status,    \* its recorder's status
    tally,     \* the key's row as persist read it
    writer,    \* holder of SQLite's write lock
    streams,   \* _ACTIVE_STREAMS
    log,       \* the request log, in the order of its entries; one that the
               \* retention has removed is marked as purged
    deleted,   \* history: ids of deleted keys
    barred     \* history: ids of the keys that were revoked

tableVars == <<database, keys, key>>
ownVars   == <<at, caller, status, tally>>
histories == <<deleted, barred>>
vars      == <<now, limiterVars, tableVars, ownVars, writer, streams, log, histories>>

KeyRows == [enabled : BOOLEAN, revoked : BOOLEAN, expires : Nat,
            requests : Nat, successes : Nat, failures : Nat]

(* request_count, success_count and failure_count of a key start at zero.  *)
NewKey(days) ==
    [enabled |-> TRUE, revoked |-> FALSE,
     expires |-> IF days = 0 THEN 0 ELSE now + days,
     requests |-> 0, successes |-> 0, failures |-> 0]

Statuses == {"pending", "success", "error"}
Entries  == [key : Keys \union {0}, status : Statuses, created : Nat,
             purged : BOOLEAN]

(* Awaits of a request: authenticating, about to run, streaming its body,  *)
(* about to be recorded, committing its record.                            *)
Stages == {"idle", "auth", "run", "stream", "persist", "commit"}

TypeOK ==
    /\ LimiterTypeOK
    /\ database \in Databases
    /\ keys \subseteq Keys
    /\ key \in [Keys -> KeyRows]
    /\ at \in [Requests -> Stages]
    /\ caller \in [Requests -> Keys \union {0}]
    /\ status \in [Requests -> Statuses]
    /\ tally \in [Requests -> KeyRows]
    /\ writer \in Requests \union {NoWriter}
    /\ streams \in Nat
    /\ log \in Seq(Entries)
    /\ deleted \subseteq Keys /\ barred \subseteq Keys

Init ==
    /\ LimiterInit
    /\ database \in Databases
    /\ keys = {k \in Keys : \A l \in Keys : k <= l}
    /\ key = [k \in Keys |-> NewKey(0)]
    /\ at = [r \in Requests |-> "idle"]
    /\ caller = [r \in Requests |-> 0]
    /\ status = [r \in Requests |-> "pending"]
    /\ tally = [r \in Requests |-> NewKey(0)]
    /\ writer = NoWriter
    /\ streams = 0
    /\ log = << >>
    /\ deleted = {}
    /\ barred = {}

-----------------------------------------------------------------------------
(* Entry: the limiter and the key.                                         *)

Arrive(r, b) ==
    /\ at[r] = "idle"
    /\ Admit(b)
    /\ at' = [at EXCEPT ![r] = "auth"]
    /\ UNCHANGED <<now, tableVars, caller, status, tally, writer, streams, log, histories>>

Refuse(b) ==
    /\ TurnAway(b)
    /\ UNCHANGED <<now, tableVars, ownVars, writer, streams, log, histories>>

(* authenticate_api_key: neither revoked, nor disabled, nor expired.       *)
Accepts(k) ==
    /\ ~key[k].revoked
    /\ key[k].enabled
    /\ key[k].expires = 0 \/ key[k].expires > now

Authenticate(r) ==
    /\ at[r] = "auth"
    /\ \E k \in keys : Accepts(k) /\ caller' = [caller EXCEPT ![r] = k]
    /\ at' = [at EXCEPT ![r] = "run"]
    /\ UNCHANGED <<now, limiterVars, tableVars, status, tally, writer, streams, log, histories>>

(* The request is over, and its recorder with it.                          *)
Forget(r) ==
    /\ at' = [at EXCEPT ![r] = "idle"]
    /\ caller' = [caller EXCEPT ![r] = 0]
    /\ status' = [status EXCEPT ![r] = "pending"]
    /\ tally' = [tally EXCEPT ![r] = NewKey(0)]

(* Gone without a trace in the log: the key is unknown or not accepted,    *)
(* the body is not valid, or the client leaves before its stream starts.   *)
Drop(r) ==
    /\ at[r] \in {"auth", "run"}
    /\ Forget(r)
    /\ UNCHANGED <<now, limiterVars, tableVars, writer, streams, log, histories>>

-----------------------------------------------------------------------------
(* The completion, and the body of a stream around it.                     *)

Complete(r) ==
    /\ at[r] = "run"
    /\ r \notin Streams
    /\ \E s \in {"success", "error"} : status' = [status EXCEPT ![r] = s]
    /\ at' = [at EXCEPT ![r] = "persist"]
    /\ UNCHANGED <<now, limiterVars, tableVars, caller, tally, writer, streams, log, histories>>

(* stream_started, when the body is first asked for.                       *)
StartBody(r) ==
    /\ at[r] = "run"
    /\ r \in Streams
    /\ streams' = streams + 1
    /\ at' = [at EXCEPT ![r] = "stream"]
    /\ UNCHANGED <<now, limiterVars, tableVars, caller, status, tally, writer, log, histories>>

(* A wrong variant: stream_finished is not called.                         *)
NotFinished == UNCHANGED streams

StreamFinished == streams' = IF streams > 0 THEN streams - 1 ELSE 0

(* The body ends or breaks off, with any status the stream has reached.    *)
EndBody(r) ==
    /\ at[r] = "stream"
    /\ StreamFinished
    /\ \E s \in Statuses : status' = [status EXCEPT ![r] = s]
    /\ at' = [at EXCEPT ![r] = "persist"]
    /\ UNCHANGED <<now, limiterVars, tableVars, caller, tally, writer, log, histories>>

(* The client leaves: the finally counts the stream down, and the record   *)
(* is cancelled with the rest, unless it is reached (EndBody).             *)
LeaveBody(r) ==
    /\ at[r] = "stream"
    /\ StreamFinished
    /\ Forget(r)
    /\ UNCHANGED <<now, limiterVars, tableVars, writer, log, histories>>

-----------------------------------------------------------------------------
(* persist.                                                                *)

(* A wrong variant: the key is read before the entry is flushed.           *)
TakesNoLock(r) == UNCHANGED writer

(* On SQLite the flush of the entry waits for the write lock.              *)
TakeLock(r) ==
    IF database = "sqlite" THEN writer = NoWriter /\ writer' = r
                           ELSE UNCHANGED writer

FreeLock(r) == writer' = IF writer = r THEN NoWriter ELSE writer

BeginPersist(r) ==
    /\ at[r] = "persist"
    /\ database = "postgresql" => caller[r] \in keys
    /\ TakeLock(r)
    /\ tally' = [tally EXCEPT ![r] = key[caller[r]]]
    /\ at' = [at EXCEPT ![r] = "commit"]
    /\ UNCHANGED <<now, limiterVars, tableVars, caller, status, streams, log, histories>>

(* The values written are those read plus one; a pending status counts as  *)
(* a request only.                                                         *)
Counted(row, old, s) ==
    [row EXCEPT !.requests  = old.requests + 1,
                !.successes = IF s = "success" THEN old.successes + 1 ELSE @,
                !.failures  = IF s = "error" THEN old.failures + 1 ELSE @]

CommitPersist(r) ==
    LET k == caller[r] IN
    /\ at[r] = "commit"
    /\ log' = Append(log, [key |-> k, status |-> status[r], created |-> now,
                           purged |-> FALSE])
    /\ key' = IF k \in keys
                THEN [key EXCEPT ![k] = Counted(key[k], tally[r], status[r])]
                ELSE key
    /\ FreeLock(r)
    /\ Forget(r)
    /\ UNCHANGED <<now, limiterVars, database, keys, streams, histories>>

(* The record is lost: the entry refers to a key that is gone, which only  *)
(* PostgreSQL refuses, or the client of a stream leaves before the commit. *)
LosePersist(r) ==
    /\ \/ at[r] = "persist" /\ database = "postgresql" /\ caller[r] \notin keys
       \/ at[r] \in {"persist", "commit"} /\ r \in Streams
    /\ FreeLock(r)
    /\ Forget(r)
    /\ UNCHANGED <<now, limiterVars, tableVars, streams, log, histories>>

-----------------------------------------------------------------------------
(* The operator, the retention and the clock.                              *)

CanWrite == database = "sqlite" => writer = NoWriter

SetEnabled(k, b) ==
    /\ k \in keys /\ CanWrite
    /\ key[k].enabled # b
    /\ key' = [key EXCEPT ![k].enabled = b]
    /\ UNCHANGED <<now, limiterVars, database, keys, ownVars, writer, streams, log, histories>>

(* A wrong variant: the key is disabled, and marked in no other way.       *)
Disabled(row) == [row EXCEPT !.enabled = FALSE]

Revoked(row) == [row EXCEPT !.revoked = TRUE, !.enabled = FALSE]

Revoke(k) ==
    /\ k \in keys /\ CanWrite
    /\ key' = [key EXCEPT ![k] = Revoked(key[k])]
    /\ barred' = barred \union {k}
    /\ UNCHANGED <<now, limiterVars, database, keys, ownVars, writer, streams,
                   log, deleted>>

(* The log entries of a deleted key lose their reference to it.            *)
Delete(k) ==
    /\ k \in keys /\ CanWrite
    /\ database = "postgresql" =>
          \A r \in Requests : ~(at[r] = "commit" /\ caller[r] = k)
    /\ keys' = keys \ {k}
    /\ log' = [i \in DOMAIN log |->
                  IF log[i].key = k THEN [log[i] EXCEPT !.key = 0] ELSE log[i]]
    /\ deleted' = deleted \union {k}
    /\ barred' = barred \ {k}
    /\ UNCHANGED <<now, limiterVars, database, key, ownVars, writer, streams>>

(* SQLite gives the id of the last row again once that row is gone.        *)
Create(k) ==
    /\ k \in Keys \ keys /\ CanWrite
    /\ IF database = "sqlite"
         THEN \A l \in Keys : l < k => \E m \in keys : m >= l
         ELSE k \notin deleted
    /\ \A l \in keys : l < k
    /\ keys' = keys \union {k}
    /\ \E days \in Lifetimes : key' = [key EXCEPT ![k] = NewKey(days)]
    /\ UNCHANGED <<now, limiterVars, database, ownVars, writer, streams, log, histories>>

(* purge_old_logs, from the loop of main.py or the dashboard.              *)
Purge ==
    LET old == {i \in DOMAIN log : ~log[i].purged /\ log[i].created + Retention < now}
    IN /\ CanWrite
       /\ Retention > 0
       /\ old # {}
       /\ log' = [i \in DOMAIN log |->
                     IF i \in old THEN [log[i] EXCEPT !.purged = TRUE] ELSE log[i]]
       /\ UNCHANGED <<now, limiterVars, tableVars, ownVars, writer, streams, histories>>

Clock == Elapse /\ UNCHANGED <<tableVars, ownVars, writer, streams, log, histories>>

(* The process dies and is started again: every request is gone, with what *)
(* it had not committed, and the deques and the counts start anew.         *)
Restart ==
    /\ ForgetHits
    /\ at' = [r \in Requests |-> "idle"]
    /\ caller' = [r \in Requests |-> 0]
    /\ status' = [r \in Requests |-> "pending"]
    /\ tally' = [r \in Requests |-> NewKey(0)]
    /\ writer' = NoWriter
    /\ streams' = 0
    /\ UNCHANGED <<now, tableVars, log, histories>>

-----------------------------------------------------------------------------
Next ==
    \/ \E r \in Requests :
          \/ Len(log) < MaxEntries /\ \E b \in Buckets : Arrive(r, b)
          \/ Authenticate(r) \/ Drop(r) \/ Complete(r) \/ StartBody(r)
          \/ EndBody(r) \/ LeaveBody(r)
          \/ BeginPersist(r) \/ CommitPersist(r) \/ LosePersist(r)
    \/ \E b \in Buckets : Refuse(b)
    \/ \E k \in Keys :
          \/ \E b \in BOOLEAN : SetEnabled(k, b)
          \/ Revoke(k) \/ Delete(k) \/ Create(k)
    \/ Purge
    \/ Clock
    \/ Restart

Spec == Init /\ [][Next]_vars

-----------------------------------------------------------------------------
(* Properties.                                                             *)

(* How many of a key's requests were logged with a status of S.            *)
Entered(k, S) == Cardinality({i \in DOMAIN log : log[i].key = k /\ log[i].status \in S})

(* The statistics of a key agree with its log entries, purged ones         *)
(* included.  On PostgreSQL two requests that end together may count as    *)
(* one, never the other way round; on SQLite the counts are exact, but for *)
(* an id that has been used before (metrics.py:137-147).                   *)
CountersFollowLog ==
    \A k \in keys :
       LET c == <<key[k].requests, key[k].successes, key[k].failures>>
           n == <<Entered(k, Statuses), Entered(k, {"success"}), Entered(k, {"error"})>>
       IN /\ \A i \in 1 .. 3 : c[i] <= n[i]
          /\ database = "sqlite" /\ k \notin deleted => c = n

(* Whatever the operator edits later, a revoked key is never accepted      *)
(* again, even when it is enabled (api_key_service.py:50-82,               *)
(* api_key.py:57-62).                                                      *)
RevocationIsFinal == \A k \in barred : ~Accepts(k)

(* active_streams, which /api/health and the dashboard show, is the number *)
(* of bodies that are being sent, however they end, also when they end     *)
(* with the process (public.py:158-182).                                   *)
StreamsAreCounted == streams = Cardinality({r \in Requests : at[r] = "stream"})
=============================================================================

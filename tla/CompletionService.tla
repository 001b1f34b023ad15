--------------------------- MODULE CompletionService ---------------------------
(***************************************************************************)
(* The requests of services/completion_service.py over the credential pool *)
(* of CredentialScheduler: complete() and stream(), their helper _acquire, *)
(* and the failover loop.                                                  *)
(*                                                                         *)
(* The process is one asyncio event loop, so a step of this module is what *)
(* a request does between two awaits; any other request, the operator, the *)
(* clock and the disconnection of a client run in between.  Waiting for    *)
(* the scheduler's lock, reading a row, committing a row, and every call   *)
(* to the provider are awaits.                                             *)
(*                                                                         *)
(* pc[p] names the await the request stands at:                            *)
(*   idle     not yet arrived                                              *)
(*   acquire  scheduler.acquire, waiting for the lock                      *)
(*   commit   scheduler.acquire, leased and committing, lock held          *)
(*   auth     provider.authenticate                                        *)
(*   rotate   scheduler.persist_rotation                                   *)
(*   call     provider.create_completion / the upstream stream             *)
(*   succeed  scheduler.mark_success                                       *)
(*   read     scheduler.mark_failure, reading the row                      *)
(*   write    scheduler.mark_failure, committing the row                   *)
(*   release  scheduler.release, waiting for the lock                      *)
(*   done     the response, or the error, is on its way                    *)
(***************************************************************************)
EXTENDS CredentialScheduler

CONSTANTS
    Requests,      \* requests that may arrive during a run
    Streams,       \* those that asked for a stream
    MaxAttempts,   \* max(1, max_failover_attempts)
    AuthResults,   \* what authenticate may answer: "ok", "reject", "rotate"
    Faults,        \* the failures of an upstream call
    NoRequest      \* the lock's holder when it is free

ASSUME RequestsAssumption ==
    /\ IsFiniteSet(Requests)
    /\ Streams \subseteq Requests
    /\ NoRequest \notin Requests
    /\ MaxAttempts \in Nat \ {0}
    /\ AuthResults \subseteq {"ok", "reject", "rotate"}

ASSUME FaultsAssumption ==
    Faults \subseteq [category : Categories, retryable : BOOLEAN, retryAfter : Nat]

VARIABLES
    pc,         \* where each request stands
    cred,       \* the credential it works with, 0 for none
    tried,      \* the list tried, as a set
    attempts,   \* attempts
    emitted,    \* emitted_any: the client has had a chunk of this attempt
    why,        \* what led to mark_failure or release, see Causes
    fault,      \* the error being handled
    seen,       \* the row as the request read it
    lastError,  \* category of last_error, "none" for None
    authError,  \* category of _acquire's auth_error, "none" for None
    recorded,   \* recorder.status: "pending", "error", "success"
    outcome,    \* what the request ended with
    lock,       \* holder of scheduler._lock
    orphans     \* history: leases whose request ended without releasing them

requestVars == <<pc, cred, tried, attempts, emitted, why, fault, seen,
                 lastError, authError, recorded, outcome>>
vars == <<poolVars, requestVars, lock, orphans>>

NoFault == [category |-> "internal", retryable |-> FALSE, retryAfter |-> 0]
AuthFault == [category |-> "authentication", retryable |-> TRUE, retryAfter |-> 0]

Phases == {"idle", "acquire", "commit", "auth", "rotate", "call", "succeed",
           "read", "write", "release", "done"}

(* Why a request marks or releases its credential: the call succeeded, the *)
(* pre-flight authentication rejected it, the call failed, it could not be *)
(* decrypted, or the client left while the lock was taken.                 *)
Causes == {"none", "auth", "call", "decrypt", "disconnect"}
Errors == Categories \union {"none", "no_credentials"}
Outcomes == Errors \union {"invalid_request", "success", "disconnected"}

LocalsTypeOK ==
    /\ pc \in [Requests -> Phases]
    /\ cred \in [Requests -> Creds \union {0}]
    /\ tried \in [Requests -> SUBSET Creds]
    /\ attempts \in [Requests -> Nat]
    /\ emitted \in [Requests -> BOOLEAN]
    /\ why \in [Requests -> Causes]
    /\ fault \in [Requests -> [category : Categories, retryable : BOOLEAN,
                               retryAfter : Nat]]
    /\ seen \in [Requests -> Rows]
    /\ lastError \in [Requests -> Errors]
    /\ authError \in [Requests -> Errors]
    /\ recorded \in [Requests -> {"pending", "error", "success"}]
    /\ outcome \in [Requests -> Outcomes]

TypeOK ==
    /\ PoolTypeOK
    /\ LocalsTypeOK
    /\ lock \in Requests \union {NoRequest}
    /\ orphans \in [Creds -> Nat]

(* The pool at start-up: rows in any state the service may have left in    *)
(* the table, hot state empty.                                             *)
Init ==
    /\ live = Creds
    /\ row \in [Creds -> InitialRows]
    /\ leases = [c \in Creds |-> 0]
    /\ lastSelected = [c \in Creds |-> 0]
    /\ tick = 0
    /\ cursor = 0
    /\ now = 1
    /\ pc = [p \in Requests |-> "idle"]
    /\ cred = [p \in Requests |-> 0]
    /\ tried = [p \in Requests |-> {}]
    /\ attempts = [p \in Requests |-> 0]
    /\ emitted = [p \in Requests |-> FALSE]
    /\ why = [p \in Requests |-> "none"]
    /\ fault = [p \in Requests |-> NoFault]
    /\ seen = [p \in Requests |-> FreshRow(0)]
    /\ lastError = [p \in Requests |-> "none"]
    /\ authError = [p \in Requests |-> "none"]
    /\ recorded = [p \in Requests |-> "pending"]
    /\ outcome = [p \in Requests |-> "none"]
    /\ lock = NoRequest
    /\ orphans = [c \in Creds |-> 0]

-----------------------------------------------------------------------------
(* A request holds a lease from the choice of a credential to its release. *)
Leased(p) ==
    \/ pc[p] \in {"commit", "auth", "rotate", "call", "succeed", "release"}
    \/ pc[p] \in {"read", "write"} /\ why[p] # "decrypt"

(* The part of a request inside the try ... finally that releases it.      *)
InTry(p) ==
    \/ pc[p] \in {"call", "succeed"}
    \/ pc[p] \in {"read", "write"} /\ why[p] = "call"

Usable(p) == Eligible \ tried[p]

(* A wrong variant: the rejection of the pre-flight check is lost.         *)
SurfacedUpstream(p) ==
    IF lastError[p] # "none" THEN lastError[p] ELSE "no_credentials"

(* raise (last_error or auth_error or no_credentials).                     *)
Surfaced(p) ==
    IF lastError[p] # "none" THEN lastError[p]
    ELSE IF authError[p] # "none" THEN authError[p]
    ELSE "no_credentials"

(* The end of a request, whose local variables go with it.  record is what *)
(* its recorder is left with: create_chat_completion records every error,  *)
(* a stream records one of the gateway's own only where it is raised.      *)
Finish(p, result, record) ==
    /\ pc' = [pc EXCEPT ![p] = "done"]
    /\ outcome' = [outcome EXCEPT ![p] = result]
    /\ recorded' = [recorded EXCEPT ![p] = record]
    /\ cred' = [cred EXCEPT ![p] = 0]
    /\ why' = [why EXCEPT ![p] = "none"]
    /\ fault' = [fault EXCEPT ![p] = NoFault]
    /\ seen' = [seen EXCEPT ![p] = FreshRow(0)]
    /\ tried' = [tried EXCEPT ![p] = {}]
    /\ attempts' = [attempts EXCEPT ![p] = 0]
    /\ emitted' = [emitted EXCEPT ![p] = FALSE]
    /\ lastError' = [lastError EXCEPT ![p] = "none"]
    /\ authError' = [authError EXCEPT ![p] = "none"]

(* A wrong variant: nobody records the exhausted pool.                     *)
FinishUnrecorded(p) == Finish(p, Surfaced(p), recorded[p])

(* A request whose pool is exhausted: the error of _acquire leaves the     *)
(* generator of a stream without passing by the recorder.                  *)
FinishExhausted(p) ==
    Finish(p, Surfaced(p), IF p \in Streams THEN recorded[p] ELSE "error")

Orphan(p) == orphans' = [orphans EXCEPT ![cred[p]] = @ + 1]

(* A wrong variant: the lock is never given back.                          *)
KeepLock(p) == UNCHANGED lock

(* The end of async with self._lock.                                       *)
FreeLock(p) == lock' = IF lock = p THEN NoRequest ELSE lock

Goto(p, phase) == pc' = [pc EXCEPT ![p] = phase]

Arrive(p) ==
    /\ pc[p] = "idle"
    /\ Goto(p, "acquire")
    /\ attempts' = [attempts EXCEPT ![p] = 1]
    /\ UNCHANGED <<poolVars, cred, tried, emitted, why, fault, seen, lastError,
                   authError, recorded, outcome, lock, orphans>>

(* The model's row, or the default, names a provider that is not           *)
(* registered: an unknown string, or the mock that is switched off.  Which *)
(* one it names is ModelRouter's; the error of a stream leaves before its  *)
(* recorder hears of it.                                                   *)
RejectUnknown(p) ==
    /\ pc[p] = "idle"
    /\ Finish(p, "invalid_request", IF p \in Streams THEN recorded[p] ELSE "error")
    /\ UNCHANGED <<poolVars, lock, orphans>>

-----------------------------------------------------------------------------
(* scheduler.acquire.                                                      *)

(* The rows are read, one is chosen and leased under the lock.             *)
Acquire(p) ==
    /\ pc[p] = "acquire"
    /\ lock = NoRequest
    /\ Usable(p) # {}
    /\ \E s \in Strategies :
          /\ Lease(Usable(p), s)
          /\ cred' = [cred EXCEPT ![p] = Pick(Usable(p), s)]
          /\ seen' = [seen EXCEPT ![p] = row[Pick(Usable(p), s)]]
    /\ lock' = p
    /\ Goto(p, "commit")
    /\ UNCHANGED <<live, row, now, tried, attempts, emitted, why, fault,
                   lastError, authError, recorded, outcome, orphans>>

AcquireNone(p) ==
    /\ pc[p] = "acquire"
    /\ lock = NoRequest
    /\ Usable(p) = {}
    /\ FinishExhausted(p)
    /\ UNCHANGED <<poolVars, lock, orphans>>

(* The commit ends the locked section; then the secret is decrypted.  A    *)
(* secret that does not decrypt is released before it is marked.           *)
Commit(p) ==
    /\ pc[p] = "commit"
    /\ cred[p] \in live
    /\ Touch(cred[p])
    /\ FreeLock(p)
    /\ IF seen[p].readable
         THEN /\ Goto(p, "auth")
              /\ seen' = [seen EXCEPT ![p] = FreshRow(0)]
              /\ UNCHANGED why
         ELSE /\ Goto(p, "release")
              /\ why' = [why EXCEPT ![p] = "decrypt"]
              /\ UNCHANGED seen
    /\ UNCHANGED <<live, hotVars, now, cred, tried, attempts, emitted, fault,
                   lastError, authError, recorded, outcome, orphans>>

(* The row was deleted since it was read: the UPDATE matches no row and    *)
(* the exception leaves acquire after the lease was counted.               *)
CommitLost(p) ==
    /\ pc[p] = "commit"
    /\ cred[p] \notin live
    /\ FreeLock(p)
    /\ Orphan(p)
    /\ Finish(p, "internal", "error")
    /\ UNCHANGED poolVars

-----------------------------------------------------------------------------
(* _acquire: pre-flight authentication.                                    *)

(* The credential is returned to the loop, which appends it to tried.      *)
Accept(p) ==
    /\ Goto(p, "call")
    /\ tried' = [tried EXCEPT ![p] = @ \union {cred[p]}]
    /\ authError' = [authError EXCEPT ![p] = "none"]

AuthenticateOk(p) ==
    /\ pc[p] = "auth"
    /\ "ok" \in AuthResults
    /\ Accept(p)
    /\ UNCHANGED <<poolVars, cred, attempts, emitted, why, fault, seen,
                   lastError, recorded, outcome, lock, orphans>>

AuthenticateRotated(p) ==
    /\ pc[p] = "auth"
    /\ "rotate" \in AuthResults
    /\ Goto(p, "rotate")
    /\ UNCHANGED <<poolVars, cred, tried, attempts, emitted, why, fault, seen,
                   lastError, authError, recorded, outcome, lock, orphans>>

(* persist_rotation writes the expiry only when the provider returned one. *)
PersistRotation(p) ==
    /\ pc[p] = "rotate"
    /\ Accept(p)
    /\ \E e \in Expiries :
          row' = IF cred[p] \in live /\ e # 0
                      THEN [row EXCEPT ![cred[p]].expires = e] ELSE row
    /\ UNCHANGED <<live, hotVars, now, cred, attempts, emitted, why, fault,
                   seen, lastError, recorded, outcome, lock, orphans>>

AuthenticateRejected(p) ==
    /\ pc[p] = "auth"
    /\ "reject" \in AuthResults
    /\ Goto(p, "read")
    /\ why' = [why EXCEPT ![p] = "auth"]
    /\ fault' = [fault EXCEPT ![p] = AuthFault]
    /\ UNCHANGED <<poolVars, cred, tried, attempts, emitted, seen, lastError,
                   authError, recorded, outcome, lock, orphans>>

-----------------------------------------------------------------------------
(* The upstream call.                                                      *)

(* The first chunk of a stream reaches the client.                         *)
Deliver(p) ==
    /\ pc[p] = "call"
    /\ p \in Streams
    /\ ~emitted[p]
    /\ emitted' = [emitted EXCEPT ![p] = TRUE]
    /\ UNCHANGED <<poolVars, pc, cred, tried, attempts, why, fault, seen,
                   lastError, authError, recorded, outcome, lock, orphans>>

(* A stream that delivered nothing is a failure, not an answer.            *)
Answer(p) ==
    /\ pc[p] = "call"
    /\ p \in Streams => emitted[p]
    /\ Goto(p, "succeed")
    /\ UNCHANGED <<poolVars, cred, tried, attempts, emitted, why, fault, seen,
                   lastError, authError, recorded, outcome, lock, orphans>>

Fail(p) ==
    /\ pc[p] = "call"
    /\ \E f \in Faults : fault' = [fault EXCEPT ![p] = f]
    /\ why' = [why EXCEPT ![p] = "call"]
    /\ Goto(p, "read")
    /\ UNCHANGED <<poolVars, cred, tried, attempts, emitted, seen, lastError,
                   authError, recorded, outcome, lock, orphans>>

ReportSuccess(p) ==
    /\ pc[p] = "succeed"
    /\ MarkSuccess(cred[p])
    /\ recorded' = [recorded EXCEPT ![p] = "success"]
    /\ Goto(p, "release")
    /\ UNCHANGED <<live, hotVars, now, cred, tried, attempts, emitted, why,
                   fault, seen, lastError, authError, outcome, lock, orphans>>

-----------------------------------------------------------------------------
(* scheduler.mark_failure and what its caller does after it.               *)

(* A marked credential is released next, but for one that did not decrypt: *)
(* its lease is gone already and acquire raises no_credentials.            *)
AfterMark(p) ==
    IF why[p] = "decrypt"
      THEN FinishExhausted(p)
      ELSE /\ Goto(p, "release")
           /\ seen' = [seen EXCEPT ![p] = FreshRow(0)]
           /\ lastError' = IF why[p] = "call"
                             THEN [lastError EXCEPT ![p] = fault[p].category]
                             ELSE lastError
           /\ recorded' = IF why[p] = "call"
                            THEN [recorded EXCEPT ![p] = "error"] ELSE recorded
           /\ UNCHANGED <<cred, tried, attempts, emitted, why, fault,
                          authError, outcome>>

(* session.get: a fresh SELECT, except that after a failed decryption the  *)
(* session still holds the row as acquire read it.                         *)
ReadRow(p) ==
    /\ pc[p] = "read"
    /\ why[p] = "decrypt" \/ cred[p] \in live
    /\ Goto(p, "write")
    /\ seen' = [seen EXCEPT ![p] = IF why[p] = "decrypt" THEN @ ELSE row[cred[p]]]
    /\ UNCHANGED <<poolVars, cred, tried, attempts, emitted, why, fault,
                   lastError, authError, recorded, outcome, lock, orphans>>

(* A deleted credential is not marked.                                     *)
ReadNothing(p) ==
    /\ pc[p] = "read"
    /\ why[p] # "decrypt" /\ cred[p] \notin live
    /\ AfterMark(p)
    /\ UNCHANGED <<poolVars, lock, orphans>>

WriteRow(p) ==
    /\ pc[p] = "write"
    /\ cred[p] \in live
    /\ IF why[p] = "decrypt"
         THEN MarkFailure(cred[p], seen[p], "authentication", 0, DecryptCooldown)
         ELSE MarkFailure(cred[p], seen[p], fault[p].category,
                          fault[p].retryAfter, 0)
    /\ AfterMark(p)
    /\ UNCHANGED <<live, hotVars, now, lock, orphans>>

(* The row was deleted since it was read: the exception of the commit      *)
(* takes the place of the error being handled.  Inside the try the lease   *)
(* is still released, in _acquire it is not.                               *)
WriteLost(p) ==
    /\ pc[p] = "write"
    /\ cred[p] \notin live
    /\ IF why[p] = "call"
         THEN /\ Goto(p, "release")
              /\ fault' = [fault EXCEPT ![p] = NoFault]
              /\ seen' = [seen EXCEPT ![p] = FreshRow(0)]
              /\ UNCHANGED <<cred, tried, attempts, emitted, why, lastError,
                             authError, recorded, outcome, orphans>>
         ELSE /\ Finish(p, "internal", "error")
              /\ IF why[p] = "auth" THEN Orphan(p) ELSE UNCHANGED orphans
    /\ UNCHANGED <<poolVars, lock>>

-----------------------------------------------------------------------------
(* scheduler.release and what follows it.                                  *)

(* A wrong variant: a stream fails over after its first chunk.             *)
RetriesAnyway(p) == fault[p].retryable /\ attempts[p] < MaxAttempts

Retries(p) == fault[p].retryable /\ attempts[p] < MaxAttempts /\ ~emitted[p]

(* Back to the top of a loop, for another credential.                      *)
TryAnother(p) ==
    /\ Goto(p, "acquire")
    /\ cred' = [cred EXCEPT ![p] = 0]
    /\ why' = [why EXCEPT ![p] = "none"]
    /\ fault' = [fault EXCEPT ![p] = NoFault]

Release(p) ==
    /\ pc[p] = "release"
    /\ lock = NoRequest
    /\ Unlease(cred[p])
    /\ UNCHANGED <<live, row, lastSelected, tick, cursor, now, lock, orphans>>

ReleaseAndEnd(p) ==
    /\ Release(p)
    /\ \/ why[p] = "none" /\ Finish(p, "success", recorded[p])
       \/ why[p] = "disconnect" /\ Finish(p, "disconnected", recorded[p])
       \/ why[p] = "call" /\ ~Retries(p)
          /\ Finish(p, fault[p].category, "error")

ReleaseAndRetry(p) ==
    /\ Release(p)
    /\ why[p] = "call" /\ Retries(p)
    /\ TryAnother(p)
    /\ attempts' = [attempts EXCEPT ![p] = @ + 1]
    /\ UNCHANGED <<tried, emitted, seen, lastError, authError, recorded, outcome>>

(* The loop of _acquire: a rejected credential is not an attempt.          *)
ReleaseRejected(p) ==
    /\ Release(p)
    /\ why[p] = "auth"
    /\ TryAnother(p)
    /\ tried' = [tried EXCEPT ![p] = @ \union {cred[p]}]
    /\ authError' = [authError EXCEPT ![p] = "authentication"]
    /\ recorded' = [recorded EXCEPT ![p] = "error"]
    /\ UNCHANGED <<attempts, emitted, seen, lastError, outcome>>

ReleaseUnreadable(p) ==
    /\ Release(p)
    /\ why[p] = "decrypt"
    /\ Goto(p, "read")
    /\ UNCHANGED <<cred, tried, attempts, emitted, why, fault, seen, lastError,
                   authError, recorded, outcome>>

-----------------------------------------------------------------------------
(* The client of a stream leaves: the request is cancelled at its await.   *)

(* The finally of the try releases the lease at once when the lock is      *)
(* free; when it is taken the release may still be waited for, or be       *)
(* cancelled too.  Elsewhere nothing releases the lease.                   *)
Disconnect(p) ==
    /\ p \in Streams
    /\ pc[p] \notin {"idle", "done"}
    /\ \/ /\ ~Leased(p)
          /\ Finish(p, "disconnected", recorded[p])
          /\ UNCHANGED <<leases, lock, orphans>>
       \/ /\ InTry(p) /\ lock = NoRequest
          /\ Unlease(cred[p])
          /\ Finish(p, "disconnected", recorded[p])
          /\ UNCHANGED <<lock, orphans>>
       \/ /\ InTry(p) /\ lock # NoRequest
          /\ Goto(p, "release")
          /\ why' = [why EXCEPT ![p] = "disconnect"]
          /\ fault' = [fault EXCEPT ![p] = NoFault]
          /\ seen' = [seen EXCEPT ![p] = FreshRow(0)]
          /\ UNCHANGED <<leases, lock, orphans, cred, tried, attempts, emitted,
                         lastError, authError, recorded, outcome>>
       \/ /\ Leased(p) /\ ~(InTry(p) /\ lock = NoRequest)
          /\ Orphan(p)
          /\ FreeLock(p)
          /\ Finish(p, "disconnected", recorded[p])
          /\ UNCHANGED leases
    /\ UNCHANGED <<live, row, lastSelected, tick, cursor, now>>

-----------------------------------------------------------------------------
RequestStep(p) ==
    \/ Acquire(p) \/ AcquireNone(p) \/ Commit(p) \/ CommitLost(p)
    \/ AuthenticateOk(p) \/ AuthenticateRotated(p) \/ PersistRotation(p)
    \/ AuthenticateRejected(p)
    \/ Deliver(p) \/ Answer(p) \/ Fail(p) \/ ReportSuccess(p)
    \/ ReadRow(p) \/ ReadNothing(p) \/ WriteRow(p) \/ WriteLost(p)
    \/ ReleaseAndEnd(p) \/ ReleaseAndRetry(p)
    \/ ReleaseRejected(p) \/ ReleaseUnreadable(p)

Operator(c) == AdminStep(c) /\ UNCHANGED <<requestVars, lock, orphans>>

Clock == Tick /\ UNCHANGED <<requestVars, lock, orphans>>

Next ==
    \/ \E p \in Requests : Arrive(p) \/ RejectUnknown(p) \/ RequestStep(p) \/ Disconnect(p)
    \/ \E c \in Creds : Operator(c)
    \/ Clock

Spec == Init /\ [][Next]_vars

(* Every await of a request ends: the provider's calls carry timeouts, the *)
(* database answers, and the lock's holder always gives it back.  Nothing  *)
(* makes a request arrive, a client leave, the operator act or time pass.  *)
FairSpec == Spec /\ \A p \in Requests : WF_vars(RequestStep(p))

-----------------------------------------------------------------------------
(* Properties.                                                             *)

Holders(c) == {p \in Requests : Leased(p) /\ cred[p] = c}
Users(c)   == {p \in Requests : cred[p] = c}

(* The lease counter of a credential is the number of requests using it    *)
(* plus the leases whose request was cut off before its release: it never  *)
(* goes below the load the scheduler balances on, and release never pops   *)
(* the key another request still counts on (scheduler.py:185-191).         *)
LeaseLedger ==
    \A c \in Creds : leases[c] = Cardinality(Holders(c)) + orphans[c]

(* What scheduler.py:53 says of _leases: the number of in-flight requests  *)
(* currently using the credential.                                         *)
LeasesExact ==
    \A c \in Creds : leases[c] = Cardinality(Holders(c))

(* A client is only told that no credential is available when its request  *)
(* had tried none, and when none was eligible or the one chosen did not    *)
(* decrypt: after any rejected or failed credential the reason of that one *)
(* is surfaced (completion_service.py:71-74 and 287-302).                  *)
ErrorIsInformative ==
    [][\A p \in Requests :
          outcome'[p] = "no_credentials" /\ outcome[p] = "none" =>
             tried[p] = {} /\ (Eligible = {} \/ why[p] = "decrypt")]_vars

(* The request log is right about answers: it says success exactly for the *)
(* requests that were answered, error for every failed request that is not *)
(* a stream, and is left pending exactly by the streams that end before    *)
(* their first call: refused because the provider is unknown, or with no   *)
(* credential to try (metrics.py:82-99, public.py:143-174).                *)
RecordTellsOutcome ==
    \A p \in Requests : pc[p] = "done" /\ outcome[p] # "disconnected" =>
        /\ recorded[p] = "success" <=> outcome[p] = "success"
        /\ recorded[p] = "pending" <=>
              p \in Streams /\ outcome[p] \in {"invalid_request", "no_credentials"}

(* A credential the scheduler may not choose: disabled, cooling down,      *)
(* expired or invalid.                                                     *)
Resting(c) == c \in live /\ ~IsEligible(row[c])

(* Once no request is using a resting credential, nothing but the operator *)
(* and the clock brings it back: its row and its lease count are left      *)
(* alone.  A request still in flight may touch it, no new one may          *)
(* (scheduler.py:164-180).                                                 *)
RestingIsLeftAlone ==
    [][\A c \in Creds : Resting(c) /\ Users(c) = {} /\ ~AdminStep(c) =>
          row'[c] = row[c] /\ leases'[c] = leases[c]]_vars

(* A reported failure leaves the credential resting, even when it is       *)
(* computed from a row read before another request healed or marked it; an *)
(* internal error, which applies no cooldown, is left out                  *)
(* (scheduler.py:218-270).                                                 *)
FailureRests ==
    [][\A p \in Requests, c \in Creds :
          WriteRow(p) /\ cred[p] = c
          /\ (why[p] = "decrypt" \/ fault[p].category # "internal") =>
             Resting(c)']_vars

(* GET /api/health is "ok" exactly when a request would find a credential: *)
(* the healthy counter of stats, which is written apart from _eligible,    *)
(* counts the same rows (scheduler.py:164-180 and 302-323).                *)
HealthTellsEligible == {c \in live : Bucket(row[c]) = "healthy"} = Eligible

(* The abstract request: at most one credential at a time and never the    *)
(* same twice, at most MaxAttempts calls, no failover after a chunk.       *)
Stage(p) ==
    CASE pc[p] = "idle" -> "new"
      [] pc[p] = "acquire" -> "seeking"
      [] pc[p] = "done" -> "ended"
      [] OTHER -> "using"

Spent(p) == tried[p] \union ({cred[p]} \ {0})

BeforeCall(p) ==
    \/ pc[p] \in {"acquire", "commit", "auth", "rotate"}
    \/ why[p] \in {"auth", "decrypt"}

Calls(p) ==
    IF pc[p] \in {"idle", "done"} THEN 0
    ELSE IF BeforeCall(p) THEN attempts[p] - 1 ELSE attempts[p]

Protocol == INSTANCE RequestProtocol WITH
    stage     <- [p \in Requests |-> Stage(p)],
    using     <- cred,
    spent     <- [p \in Requests |-> Spent(p)],
    calls     <- [p \in Requests |-> Calls(p)],
    streaming <- emitted

(* Every request follows the abstract protocol, in any interleaving.       *)
FollowsProtocol == Protocol!Spec

(* Every request that arrived ends: the failover loop and the loop of      *)
(* _acquire terminate and nobody waits for the lock for ever               *)
(* (completion_service.py:67-108, 171-256, 295-296).                       *)
Termination == \A p \in Requests : pc[p] # "idle" ~> pc[p] = "done"

(* README.md:54: a 429 puts a credential to sleep for its Retry-After.     *)
(* Until then only the operator ends a cooldown.                           *)
RetryAfterIsHonoured ==
    [][\A c \in Creds : row[c].status = "cooldown" /\ row[c].cooldown > now
                        /\ ~AdminStep(c) =>
          row'[c].cooldown >= row[c].cooldown]_vars
=============================================================================

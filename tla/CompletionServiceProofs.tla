------------------------ MODULE CompletionServiceProofs ------------------------
(***************************************************************************)
(* Proofs about CompletionService for every set of requests, credentials   *)
(* and faults, every number of attempts and every strategy.                *)
(*                                                                         *)
(* The type invariant is not inductive alone: a step that stores cred[p]   *)
(* needs to know that p has a credential where it stands.  ControlOK says  *)
(* which credential and which cause go with which phase.  The ledger of    *)
(* the leases is then carried from step to step by comparing, before and   *)
(* after, the set of the requests that hold a credential.                  *)
(***************************************************************************)
EXTENDS CompletionService, CredentialSchedulerProofs

(* Which phases go with a credential and with a cause.                     *)
ControlOK ==
    \A p \in Requests :
        /\ cred[p] = 0 <=> pc[p] \in {"idle", "acquire", "done"}
        /\ pc[p] \in {"read", "write"} => why[p] \in {"auth", "call", "decrypt"}
        /\ why[p] # "none" => pc[p] \in {"read", "write", "release"}

IInv == TypeOK /\ ControlOK

-----------------------------------------------------------------------------
(* The steps of a request keep the types of its locals.                    *)

LEMMA FreshTypes ==
    /\ FreshRow(0) \in Rows
    /\ NoFault \in [category : Categories, retryable : BOOLEAN, retryAfter : Nat]
    /\ AuthFault \in [category : Categories, retryable : BOOLEAN, retryAfter : Nat]
  BY FreshRowType DEF NoFault, AuthFault, Categories

LEMMA FinishType ==
    ASSUME LocalsTypeOK, ControlOK, NEW p \in Requests, NEW result \in Outcomes,
           NEW record \in {"pending", "error", "success"},
           Finish(p, result, record)
    PROVE  LocalsTypeOK' /\ ControlOK'
<1>1. LocalsTypeOK'
  BY FreshTypes DEF LocalsTypeOK, Finish, Phases, Causes, Errors
<1>2. ControlOK'
  BY DEF LocalsTypeOK, ControlOK, Finish
<1> QED
  BY <1>1, <1>2

LEMMA SurfacedType ==
    ASSUME LocalsTypeOK, NEW p \in Requests
    PROVE  Surfaced(p) \in Outcomes
  BY DEF LocalsTypeOK, Surfaced, Errors, Outcomes

LEMMA FinishExhaustedType ==
    ASSUME LocalsTypeOK, ControlOK, NEW p \in Requests, FinishExhausted(p)
    PROVE  LocalsTypeOK' /\ ControlOK'
<1> DEFINE record == IF p \in Streams THEN recorded[p] ELSE "error"
<1>1. record \in {"pending", "error", "success"}
  BY DEF LocalsTypeOK
<1>2. Finish(p, Surfaced(p), record)
  BY DEF FinishExhausted
<1> HIDE DEF record
<1> QED
  BY <1>1, <1>2, SurfacedType, FinishType

(* A request that goes to another phase with the locals it has, but for    *)
(* those the step assigns.                                                 *)
LEMMA AcceptType ==
    ASSUME LocalsTypeOK, ControlOK, NEW p \in Requests,
           pc[p] \in {"auth", "rotate"}, Accept(p),
           UNCHANGED <<cred, attempts, emitted, why, fault, seen, lastError,
                       recorded, outcome>>
    PROVE  LocalsTypeOK' /\ ControlOK'
<1>1. cred[p] \in Creds
  BY DEF LocalsTypeOK, ControlOK
<1> QED
  BY <1>1 DEF LocalsTypeOK, ControlOK, Accept, Goto, Phases, Errors

LEMMA AfterMarkType ==
    ASSUME LocalsTypeOK, ControlOK, NEW p \in Requests,
           pc[p] \in {"read", "write"}, AfterMark(p)
    PROVE  LocalsTypeOK' /\ ControlOK'
<1>1. CASE why[p] = "decrypt"
  BY <1>1, FinishExhaustedType DEF AfterMark
<1>2. CASE why[p] # "decrypt"
  <2>1. /\ pc' = [pc EXCEPT ![p] = "release"]
        /\ seen' = [seen EXCEPT ![p] = FreshRow(0)]
        /\ lastError' = IF why[p] = "call"
                          THEN [lastError EXCEPT ![p] = fault[p].category]
                          ELSE lastError
        /\ recorded' = IF why[p] = "call"
                         THEN [recorded EXCEPT ![p] = "error"] ELSE recorded
        /\ UNCHANGED <<cred, tried, attempts, emitted, why, fault,
                       authError, outcome>>
    BY <1>2 DEF AfterMark, Goto
  <2>2. lastError' \in [Requests -> Errors]
    BY <2>1 DEF LocalsTypeOK, Errors
  <2>3. recorded' \in [Requests -> {"pending", "error", "success"}]
    BY <2>1 DEF LocalsTypeOK
  <2> QED
    BY <2>1, <2>2, <2>3, FreshTypes DEF LocalsTypeOK, ControlOK, Phases
<1> QED
  BY <1>1, <1>2

LEMMA TryAnotherType ==
    ASSUME LocalsTypeOK, ControlOK, NEW p \in Requests, TryAnother(p)
    PROVE  /\ pc' \in [Requests -> Phases]
           /\ cred' \in [Requests -> Creds \union {0}]
           /\ why' \in [Requests -> Causes]
           /\ fault' \in [Requests -> [category : Categories,
                                       retryable : BOOLEAN, retryAfter : Nat]]
           /\ ControlOK'
  BY FreshTypes DEF LocalsTypeOK, ControlOK, TryAnother, Goto, Phases, Causes

-----------------------------------------------------------------------------
(* The invariant holds initially and after every step.                     *)

LEMMA InitIInv == Init => IInv
<1> SUFFICES ASSUME Init PROVE IInv
  OBVIOUS
<1>1. PoolTypeOK
  BY RowsAssumption DEF Init, PoolTypeOK
<1>2. LocalsTypeOK
  BY FreshTypes DEF Init, LocalsTypeOK, Phases, Causes, Errors, Outcomes
<1>3. ControlOK
  BY DEF Init, ControlOK
<1> QED
  BY <1>1, <1>2, <1>3 DEF Init, IInv, TypeOK

LEMMA UsableType ==
    ASSUME PoolTypeOK, NEW p \in Requests
    PROVE  Usable(p) \in SUBSET Creds
  BY DEF Usable, Eligible, PoolTypeOK

LEMMA RequestStepIInv ==
    ASSUME IInv, NEW p \in Requests, RequestStep(p)
    PROVE  IInv'
<1> USE DEF IInv, TypeOK
<1>0. /\ PoolTypeOK /\ LocalsTypeOK /\ ControlOK
      /\ pc[p] \in {"commit", "auth", "rotate", "call", "succeed", "read",
                    "write", "release"} => cred[p] \in Creds
  BY DEF LocalsTypeOK, ControlOK
<1>1. CASE Acquire(p)
  <2>1. PICK s \in Strategies :
           /\ Lease(Usable(p), s)
           /\ cred' = [cred EXCEPT ![p] = Pick(Usable(p), s)]
           /\ seen' = [seen EXCEPT ![p] = row[Pick(Usable(p), s)]]
    BY <1>1 DEF Acquire
  <2>2. Usable(p) \in SUBSET Creds /\ Usable(p) # {}
    BY <1>0, <1>1, UsableType DEF Acquire
  <2>3. /\ Pick(Usable(p), s) \in Creds
        /\ tick' \in Nat /\ cursor' \in Nat
        /\ lastSelected' \in [Creds -> Nat] /\ leases' \in [Creds -> Nat]
    BY <1>0, <2>1, <2>2, LeaseType
  <2>4. Pick(Usable(p), s) # 0
    BY <2>3, CredsAssumption
  <2>5. PoolTypeOK'
    BY <1>0, <1>1, <2>3 DEF Acquire, PoolTypeOK
  <2>6. LocalsTypeOK'
    BY <1>0, <1>1, <2>1, <2>3 DEF Acquire, LocalsTypeOK, PoolTypeOK, Goto, Phases
  <2>7. ControlOK'
    BY <1>0, <1>1, <2>1, <2>3, <2>4 DEF Acquire, LocalsTypeOK, ControlOK, Goto
  <2> QED
    BY <1>1, <2>5, <2>6, <2>7 DEF Acquire
<1>2. CASE AcquireNone(p)
  BY <1>0, <1>2, FinishExhaustedType DEF AcquireNone, poolVars, PoolTypeOK
<1>3. CASE Commit(p)
  <2>1. PoolTypeOK'
    <3>1. cred[p] \in Creds /\ tick \in Nat /\ row \in [Creds -> Rows]
      BY <1>0, <1>3 DEF Commit, PoolTypeOK
    <3>2. row' \in [Creds -> Rows]
      BY <1>3, <3>1 DEF Commit, Touch, Rows
    <3> QED
      BY <1>0, <1>3, <3>2 DEF Commit, PoolTypeOK, hotVars
  <2>2. LocalsTypeOK'
    <3>1. pc' \in [Requests -> Phases]
      <4>1. pc \in [Requests -> Phases]
        BY <1>0 DEF LocalsTypeOK
      <4> QED BY <1>3, <4>1 DEF Commit, Goto, Phases
    <3>2. seen' \in [Requests -> Rows] /\ why' \in [Requests -> Causes]
      <4>1. CASE seen[p].readable
        <5>1. seen' = [seen EXCEPT ![p] = FreshRow(0)] /\ why' = why
          BY <1>3, <4>1 DEF Commit
        <5> QED BY <1>0, <5>1, FreshTypes DEF LocalsTypeOK
      <4>2. CASE ~seen[p].readable
        BY <1>0, <1>3, <4>2 DEF Commit, LocalsTypeOK, Causes
      <4> QED BY <4>1, <4>2
    <3> QED
      BY <1>0, <1>3, <3>1, <3>2 DEF Commit, LocalsTypeOK
  <2>3. ControlOK'
    <3>1. CASE seen[p].readable
      BY <1>0, <1>3, <3>1 DEF Commit, LocalsTypeOK, ControlOK, Goto
    <3>2. CASE ~seen[p].readable
      BY <1>0, <1>3, <3>2 DEF Commit, LocalsTypeOK, ControlOK, Goto
    <3> QED BY <3>1, <3>2
  <2> QED
    BY <1>3, <2>1, <2>2, <2>3 DEF Commit, FreeLock
<1>4. CASE CommitLost(p)
  <2>1. LocalsTypeOK' /\ ControlOK'
    BY <1>0, <1>4, FinishType DEF CommitLost, Outcomes, Errors, Categories
  <2>2. orphans' \in [Creds -> Nat]
    BY <1>0, <1>4 DEF CommitLost, Orphan
  <2> QED
    BY <1>4, <2>1, <2>2 DEF CommitLost, FreeLock, poolVars, PoolTypeOK
<1>5. CASE AuthenticateOk(p)
  BY <1>0, <1>5, AcceptType DEF AuthenticateOk, poolVars, PoolTypeOK
<1>6. CASE AuthenticateRotated(p)
  <2>1. LocalsTypeOK' /\ ControlOK'
    BY <1>0, <1>6 DEF AuthenticateRotated, LocalsTypeOK, ControlOK, Goto, Phases
  <2> QED
    BY <1>6, <2>1 DEF AuthenticateRotated, poolVars, PoolTypeOK
<1>7. CASE PersistRotation(p)
  <2>1. LocalsTypeOK' /\ ControlOK'
    BY <1>0, <1>7, AcceptType DEF PersistRotation
  <2>2. PICK e \in Expiries : row' = IF cred[p] \in live /\ e # 0
                                     THEN [row EXCEPT ![cred[p]].expires = e] ELSE row
    BY <1>7 DEF PersistRotation
  <2>3. row' \in [Creds -> Rows]
    <3>1. row \in [Creds -> Rows] /\ live \subseteq Creds /\ e \in Nat
      BY <1>0, ExpiriesType DEF PoolTypeOK
    <3>2. ASSUME NEW c \in Creds PROVE [row[c] EXCEPT !.expires = e] \in Rows
      BY <3>1 DEF Rows
    <3> QED BY <2>2, <3>1, <3>2
  <2>4. PoolTypeOK'
    BY <1>0, <1>7, <2>3 DEF PersistRotation, hotVars, PoolTypeOK
  <2> QED
    BY <1>7, <2>1, <2>4 DEF PersistRotation
<1>8. CASE AuthenticateRejected(p)
  <2>1. LocalsTypeOK' /\ ControlOK'
    BY <1>0, <1>8, FreshTypes
    DEF AuthenticateRejected, LocalsTypeOK, ControlOK, Goto, Phases, Causes
  <2> QED
    BY <1>8, <2>1 DEF AuthenticateRejected, poolVars, PoolTypeOK
<1>9. CASE Deliver(p)
  <2>1. LocalsTypeOK' /\ ControlOK'
    BY <1>0, <1>9 DEF Deliver, LocalsTypeOK, ControlOK
  <2> QED
    BY <1>9, <2>1 DEF Deliver, poolVars, PoolTypeOK
<1>10. CASE Answer(p)
  <2>1. LocalsTypeOK' /\ ControlOK'
    BY <1>0, <1>10 DEF Answer, LocalsTypeOK, ControlOK, Goto, Phases
  <2> QED
    BY <1>10, <2>1 DEF Answer, poolVars, PoolTypeOK
<1>11. CASE Fail(p)
  <2>1. LocalsTypeOK' /\ ControlOK'
    BY <1>0, <1>11, FaultsAssumption
    DEF Fail, LocalsTypeOK, ControlOK, Goto, Phases, Causes
  <2> QED
    BY <1>11, <2>1 DEF Fail, poolVars, PoolTypeOK
<1>12. CASE ReportSuccess(p)
  <2>1. LocalsTypeOK' /\ ControlOK'
    BY <1>0, <1>12 DEF ReportSuccess, LocalsTypeOK, ControlOK, Goto, Phases
  <2>2. row' \in [Creds -> Rows]
    BY <1>0, <1>12, MarkSuccessType DEF ReportSuccess
  <2> QED
    BY <1>12, <2>1, <2>2 DEF ReportSuccess, hotVars, PoolTypeOK
<1>13. CASE ReadRow(p)
  <2>1. LocalsTypeOK' /\ ControlOK'
    BY <1>0, <1>13 DEF ReadRow, LocalsTypeOK, PoolTypeOK, ControlOK, Goto, Phases
  <2> QED
    BY <1>13, <2>1 DEF ReadRow, poolVars, PoolTypeOK
<1>14. CASE ReadNothing(p)
  BY <1>0, <1>14, AfterMarkType DEF ReadNothing, poolVars, PoolTypeOK
<1>15. CASE WriteRow(p)
  <2>1. LocalsTypeOK' /\ ControlOK'
    BY <1>0, <1>15, AfterMarkType DEF WriteRow
  <2>2. /\ cred[p] \in Creds /\ seen[p] \in Rows
        /\ fault[p].category \in Categories /\ fault[p].retryAfter \in Nat
        /\ DecryptCooldown \in Nat /\ "authentication" \in Categories
    BY <1>0, <1>15, TimesAssumption DEF WriteRow, LocalsTypeOK, Categories
  <2>3. row' \in [Creds -> Rows]
    BY <1>0, <1>15, <2>2, MarkFailureType DEF WriteRow
  <2> QED
    BY <1>15, <2>1, <2>3 DEF WriteRow, hotVars, PoolTypeOK
<1>16. CASE WriteLost(p)
  <2>1. CASE why[p] = "call"
    <3>0. /\ pc' = [pc EXCEPT ![p] = "release"]
          /\ fault' = [fault EXCEPT ![p] = NoFault]
          /\ seen' = [seen EXCEPT ![p] = FreshRow(0)]
          /\ UNCHANGED <<cred, tried, attempts, emitted, why, lastError,
                         authError, recorded, outcome, orphans>>
      BY <1>16, <2>1 DEF WriteLost, Goto
    <3>1. LocalsTypeOK'
      BY <1>0, <3>0, FreshTypes DEF LocalsTypeOK, Phases
    <3>2. ControlOK'
      BY <1>0, <1>16, <3>0 DEF WriteLost, ControlOK, LocalsTypeOK
    <3> QED
      BY <1>0, <1>16, <3>0, <3>1, <3>2 DEF WriteLost, poolVars, PoolTypeOK
  <2>2. CASE why[p] # "call"
    <3>1. LocalsTypeOK' /\ ControlOK'
      BY <1>0, <1>16, <2>2, FinishType DEF WriteLost, Outcomes, Errors, Categories
    <3>2. orphans' \in [Creds -> Nat]
      BY <1>0, <1>16, <2>2 DEF WriteLost, Orphan
    <3> QED
      BY <1>16, <3>1, <3>2 DEF WriteLost, poolVars, PoolTypeOK
  <2> QED
    BY <2>1, <2>2
<1>17. ASSUME Release(p)
       PROVE  /\ PoolTypeOK'
              /\ lock' \in Requests \union {NoRequest}
              /\ orphans' \in [Creds -> Nat]
  <2>1. leases' \in [Creds -> Nat]
    BY <1>0, <1>17, UnleaseType DEF Release
  <2> QED
    BY <1>17, <2>1 DEF Release, PoolTypeOK
<1>18. CASE ReleaseAndEnd(p)
  <2>1. /\ {"success", "disconnected"} \subseteq Outcomes
        /\ fault[p].category \in Outcomes
        /\ recorded[p] \in {"pending", "error", "success"}
    BY <1>0 DEF LocalsTypeOK, Outcomes, Errors
  <2>2. LocalsTypeOK' /\ ControlOK'
    BY <1>0, <1>18, <2>1, FinishType DEF ReleaseAndEnd
  <2> QED
    BY <1>17, <1>18, <2>2 DEF ReleaseAndEnd
<1>19. CASE ReleaseAndRetry(p)
  <2>1. LocalsTypeOK' /\ ControlOK'
    BY <1>0, <1>19, TryAnotherType DEF ReleaseAndRetry, LocalsTypeOK
  <2> QED
    BY <1>17, <1>19, <2>1 DEF ReleaseAndRetry
<1>20. CASE ReleaseRejected(p)
  <2>1. cred[p] \in Creds
    BY <1>0, <1>20 DEF ReleaseRejected, Release
  <2>2. LocalsTypeOK' /\ ControlOK'
    BY <1>0, <1>20, <2>1, TryAnotherType
    DEF ReleaseRejected, LocalsTypeOK, Errors, Categories
  <2> QED
    BY <1>17, <1>20, <2>2 DEF ReleaseRejected
<1>21. CASE ReleaseUnreadable(p)
  <2>1. LocalsTypeOK' /\ ControlOK'
    BY <1>0, <1>21
    DEF ReleaseUnreadable, Release, LocalsTypeOK, ControlOK, Goto, Phases
  <2> QED
    BY <1>17, <1>21, <2>1 DEF ReleaseUnreadable
<1> QED
  BY <1>1, <1>2, <1>3, <1>4, <1>5, <1>6, <1>7, <1>8, <1>9, <1>10, <1>11, <1>12,
     <1>13, <1>14, <1>15, <1>16, <1>18, <1>19, <1>20, <1>21 DEF RequestStep

LEMMA DisconnectIInv ==
    ASSUME IInv, NEW p \in Requests, Disconnect(p)
    PROVE  IInv'
<1> USE DEF IInv, TypeOK
<1>0. PoolTypeOK /\ LocalsTypeOK /\ ControlOK
  OBVIOUS
<1>1. Leased(p) \/ InTry(p) => cred[p] \in Creds
  BY <1>0 DEF LocalsTypeOK, ControlOK, Leased, InTry
<1>2. "disconnected" \in Outcomes
      /\ recorded[p] \in {"pending", "error", "success"}
  BY <1>0 DEF LocalsTypeOK, Outcomes
<1>3. UNCHANGED <<live, row, lastSelected, tick, cursor, now>>
  BY DEF Disconnect
<1>4. CASE Finish(p, "disconnected", recorded[p]) /\ UNCHANGED <<leases, lock, orphans>>
  BY <1>0, <1>2, <1>3, <1>4, FinishType DEF PoolTypeOK
<1>5. CASE /\ InTry(p) /\ Unlease(cred[p])
           /\ Finish(p, "disconnected", recorded[p])
           /\ UNCHANGED <<lock, orphans>>
  <2>1. leases' \in [Creds -> Nat]
    BY <1>0, <1>1, <1>5, UnleaseType
  <2>2. LocalsTypeOK' /\ ControlOK'
    BY <1>0, <1>2, <1>5, FinishType
  <2> QED
    BY <1>3, <1>5, <2>1, <2>2 DEF PoolTypeOK
<1>6. CASE /\ InTry(p)
           /\ Goto(p, "release")
           /\ why' = [why EXCEPT ![p] = "disconnect"]
           /\ fault' = [fault EXCEPT ![p] = NoFault]
           /\ seen' = [seen EXCEPT ![p] = FreshRow(0)]
           /\ UNCHANGED <<leases, lock, orphans, cred, tried, attempts, emitted,
                          lastError, authError, recorded, outcome>>
  <2>1. LocalsTypeOK'
    BY <1>0, <1>6, FreshTypes DEF LocalsTypeOK, Goto, Phases, Causes
  <2>2. ControlOK'
    BY <1>0, <1>6 DEF LocalsTypeOK, ControlOK, Goto, InTry
  <2> QED
    BY <1>3, <1>6, <2>1, <2>2 DEF PoolTypeOK
<1>7. CASE /\ Leased(p) /\ Orphan(p) /\ FreeLock(p)
           /\ Finish(p, "disconnected", recorded[p])
           /\ UNCHANGED leases
  <2>1. orphans' \in [Creds -> Nat]
    BY <1>0, <1>1, <1>7 DEF Orphan
  <2>2. LocalsTypeOK' /\ ControlOK'
    BY <1>0, <1>2, <1>7, FinishType
  <2> QED
    BY <1>3, <1>7, <2>1, <2>2 DEF PoolTypeOK, FreeLock
<1> QED
  BY <1>4, <1>5, <1>6, <1>7 DEF Disconnect

LEMMA NextIInv == IInv /\ [Next]_vars => IInv'
<1> SUFFICES ASSUME IInv, [Next]_vars PROVE IInv'
  OBVIOUS
<1>1. ASSUME NEW p \in Requests, Arrive(p) PROVE IInv'
  <2>1. LocalsTypeOK' /\ ControlOK'
    BY <1>1 DEF IInv, TypeOK, Arrive, LocalsTypeOK, ControlOK, Goto, Phases
  <2> QED
    BY <1>1, <2>1 DEF IInv, TypeOK, Arrive, poolVars, PoolTypeOK
<1>1a. ASSUME NEW p \in Requests, RejectUnknown(p) PROVE IInv'
  <2>1. /\ "invalid_request" \in Outcomes
        /\ (IF p \in Streams THEN recorded[p] ELSE "error")
              \in {"pending", "error", "success"}
    BY DEF IInv, TypeOK, LocalsTypeOK, Outcomes
  <2>2. LocalsTypeOK' /\ ControlOK'
    BY <1>1a, <2>1, FinishType DEF IInv, TypeOK, RejectUnknown
  <2> QED
    BY <1>1a, <2>2 DEF IInv, TypeOK, RejectUnknown, poolVars, PoolTypeOK
<1>2. ASSUME NEW p \in Requests, RequestStep(p) PROVE IInv'
  BY <1>2, RequestStepIInv
<1>3. ASSUME NEW p \in Requests, Disconnect(p) PROVE IInv'
  BY <1>3, DisconnectIInv
<1>4. ASSUME UNCHANGED <<requestVars, lock, orphans>>, PoolTypeOK' PROVE IInv'
  BY <1>4 DEF IInv, TypeOK, requestVars, LocalsTypeOK, ControlOK
<1>5. ASSUME NEW c \in Creds, Operator(c) PROVE IInv'
  <2>1. PoolTypeOK'
    BY <1>5, AdminType DEF Operator, IInv, TypeOK
  <2> QED
    BY <1>4, <1>5, <2>1 DEF Operator
<1>6. CASE Clock
  <2>1. PoolTypeOK'
    BY <1>6 DEF Clock, Tick, hotVars, IInv, TypeOK, PoolTypeOK
  <2> QED
    BY <1>4, <1>6, <2>1 DEF Clock
<1>7. CASE UNCHANGED vars
  <2>1. PoolTypeOK'
    BY <1>7 DEF vars, poolVars, IInv, TypeOK, PoolTypeOK
  <2> QED
    BY <1>4, <1>7, <2>1 DEF vars
<1> QED
  BY <1>1, <1>1a, <1>2, <1>3, <1>5, <1>6, <1>7 DEF Next

LEMMA InvariantHolds == Spec => []IInv
  BY InitIInv, NextIInv, PTL DEF Spec

(* Every state a run reaches is one of the states the code's types allow:  *)
(* no step stores the "no credential" of a local where a credential is     *)
(* needed, and no counter leaves the naturals (completion_service.py,      *)
(* scheduler.py).                                                          *)
THEOREM TypeCorrect == Spec => []TypeOK
<1>1. IInv => TypeOK
  BY DEF IInv
<1> QED
  BY <1>1, InvariantHolds, PTL

(* Wherever the requests leave the cursor, selections that follow each     *)
(* other on an idle pool serve every credential before they serve one      *)
(* twice, for any number of credentials (scheduler.py:152-157).            *)
THEOREM RotationHolds == Spec => []RotationServesAll
<1>1. TypeOK => RotationServesAll
  BY RotationServes DEF TypeOK, PoolTypeOK
<1> QED
  BY <1>1, TypeCorrect, PTL

-----------------------------------------------------------------------------
(* The ledger of the leases.  A step moves one request; it keeps its lease *)
(* (or has none), takes one, gives it back, or leaves it behind.           *)

StandsStill(q) == pc'[q] = pc[q] /\ cred'[q] = cred[q] /\ why'[q] = why[q]

OnlyMoves(p) == \A q \in Requests \ {p} : StandsStill(q)

KeepsLease(p) ==
    /\ Leased(p)' <=> Leased(p)
    /\ Leased(p) => cred'[p] = cred[p]
    /\ UNCHANGED <<leases, orphans>>

TakesLease(p) ==
    /\ ~Leased(p) /\ Leased(p)'
    /\ leases' = [leases EXCEPT ![cred'[p]] = @ + 1]
    /\ UNCHANGED orphans

GivesLease(p) ==
    /\ Leased(p) /\ ~Leased(p)'
    /\ Unlease(cred[p])
    /\ UNCHANGED orphans

LeavesLease(p) ==
    /\ Leased(p) /\ ~Leased(p)'
    /\ UNCHANGED leases
    /\ Orphan(p)

LEMMA HoldersFinite ==
    ASSUME NEW c
    PROVE  /\ IsFiniteSet(Holders(c))
           /\ Cardinality(Holders(c)) \in Nat
  BY RequestsAssumption, FS_Subset, FS_CardinalityType DEF Holders

(* The holders of a credential after the step of p.                        *)
LEMMA HoldersMove ==
    ASSUME NEW p \in Requests, OnlyMoves(p), NEW c
    PROVE  Holders(c)' = IF Leased(p)' /\ cred'[p] = c
                           THEN Holders(c) \union {p} ELSE Holders(c) \ {p}
<1>1. \A q \in Requests \ {p} : Leased(q)' <=> Leased(q)
  BY DEF OnlyMoves, StandsStill, Leased
<1>2. \A q \in Requests \ {p} : cred'[q] = cred[q]
  BY DEF OnlyMoves, StandsStill
<1>3. Holders(c)' = {q \in Requests : Leased(q)' /\ cred'[q] = c}
  BY DEF Holders
<1>4. Holders(c) = {q \in Requests : Leased(q) /\ cred[q] = c}
  BY DEF Holders
<1> HIDE DEF Holders
<1> QED
  BY <1>1, <1>2, <1>3, <1>4, Zenon

LEMMA LedgerMove ==
    ASSUME IInv, LeaseLedger, NEW p \in Requests, OnlyMoves(p),
           \/ KeepsLease(p) \/ TakesLease(p) \/ GivesLease(p) \/ LeavesLease(p)
    PROVE  LeaseLedger'
<1> SUFFICES ASSUME NEW c \in Creds
             PROVE  leases'[c] = Cardinality(Holders(c)') + orphans'[c]
  BY DEF LeaseLedger
<1> DEFINE H == Holders(c)
<1>1. /\ leases[c] = Cardinality(H) + orphans[c]
      /\ leases \in [Creds -> Nat] /\ orphans \in [Creds -> Nat]
      /\ cred \in [Requests -> Creds \union {0}]
  BY DEF LeaseLedger, IInv, TypeOK, PoolTypeOK, LocalsTypeOK
<1>2. IsFiniteSet(H) /\ Cardinality(H) \in Nat
  BY HoldersFinite
<1>3. p \in H <=> Leased(p) /\ cred[p] = c
  BY DEF Holders
<1>4. Holders(c)' = IF Leased(p)' /\ cred'[p] = c THEN H \union {p} ELSE H \ {p}
  BY HoldersMove
<1>5. Cardinality(H \union {p})
         = IF p \in H THEN Cardinality(H) ELSE Cardinality(H) + 1
  BY <1>2, FS_AddElement
<1>6. Cardinality(H \ {p})
         = IF p \in H THEN Cardinality(H) - 1 ELSE Cardinality(H)
  BY <1>2, FS_RemoveElement
<1>7. p \in H => Cardinality(H) # 0
  BY <1>2, FS_EmptySet
<1> HIDE DEF H
<1>8. CASE KeepsLease(p)
  <2>1. Holders(c)' = H
    <3>1. Leased(p)' /\ cred'[p] = c <=> p \in H
      BY <1>3, <1>8 DEF KeepsLease
    <3> QED BY <1>4, <3>1
  <2> QED BY <1>1, <1>8, <2>1 DEF KeepsLease
<1>9. CASE TakesLease(p)
  <2>1. p \notin H
    BY <1>3, <1>9 DEF TakesLease
  <2>2. CASE cred'[p] = c
    <3>1. Cardinality(Holders(c)') = Cardinality(H) + 1
      BY <1>4, <1>5, <1>9, <2>1, <2>2 DEF TakesLease
    <3>2. leases'[c] = leases[c] + 1 /\ orphans'[c] = orphans[c]
      BY <1>1, <1>9, <2>2 DEF TakesLease
    <3> QED BY <1>1, <1>2, <3>1, <3>2
  <2>3. CASE cred'[p] # c
    <3>1. Cardinality(Holders(c)') = Cardinality(H)
      BY <1>4, <1>6, <2>1, <2>3
    <3>2. leases'[c] = leases[c] /\ orphans'[c] = orphans[c]
      BY <1>1, <1>9, <2>3 DEF TakesLease
    <3> QED BY <1>1, <3>1, <3>2
  <2> QED BY <2>2, <2>3
<1>10. CASE GivesLease(p)
  <2>1. Holders(c)' = H \ {p}
    BY <1>4, <1>10 DEF GivesLease
  <2>2. CASE cred[p] = c
    <3>1. p \in H /\ Cardinality(Holders(c)') = Cardinality(H) - 1
      BY <1>3, <1>6, <1>10, <2>1, <2>2 DEF GivesLease
    <3>2. leases'[c] = (IF leases[c] <= 1 THEN 0 ELSE leases[c] - 1)
          /\ orphans'[c] = orphans[c]
      BY <1>1, <1>10, <2>2 DEF GivesLease, Unlease
    <3>3. Cardinality(H) >= 1 /\ orphans[c] \in Nat
      BY <1>1, <1>2, <1>7, <3>1
    <3> QED BY <1>1, <1>2, <3>1, <3>2, <3>3
  <2>3. CASE cred[p] # c
    <3>1. Cardinality(Holders(c)') = Cardinality(H)
      BY <1>3, <1>6, <2>1, <2>3
    <3>2. leases'[c] = leases[c] /\ orphans'[c] = orphans[c]
      BY <1>1, <1>10, <2>3 DEF GivesLease, Unlease
    <3> QED BY <1>1, <3>1, <3>2
  <2> QED BY <2>2, <2>3
<1>11. CASE LeavesLease(p)
  <2>1. Holders(c)' = H \ {p}
    BY <1>4, <1>11 DEF LeavesLease
  <2>2. CASE cred[p] = c
    <3>1. Cardinality(Holders(c)') = Cardinality(H) - 1
      BY <1>3, <1>6, <1>11, <2>1, <2>2 DEF LeavesLease
    <3>2. leases'[c] = leases[c] /\ orphans'[c] = orphans[c] + 1
      BY <1>1, <1>11, <2>2 DEF LeavesLease, Orphan
    <3>3. orphans[c] \in Nat
      BY <1>1
    <3> QED BY <1>1, <1>2, <3>1, <3>2, <3>3
  <2>3. CASE cred[p] # c
    <3>1. Cardinality(Holders(c)') = Cardinality(H)
      BY <1>3, <1>6, <2>1, <2>3
    <3>2. leases'[c] = leases[c] /\ orphans'[c] = orphans[c]
      BY <1>1, <1>11, <2>3 DEF LeavesLease, Orphan
    <3> QED BY <1>1, <3>1, <3>2
  <2> QED BY <2>2, <2>3
<1> QED
  BY <1>8, <1>9, <1>10, <1>11

(* The shapes the steps of a request have.                                 *)
LEMMA FinishMoves ==
    ASSUME LocalsTypeOK, NEW p \in Requests, NEW result, NEW record,
           Finish(p, result, record)
    PROVE  OnlyMoves(p) /\ ~Leased(p)'
  BY DEF LocalsTypeOK, Finish, OnlyMoves, StandsStill, Leased

LEMMA GotoMoves ==
    ASSUME LocalsTypeOK, NEW p \in Requests, NEW phase, Goto(p, phase),
           UNCHANGED <<cred, why>>
    PROVE  OnlyMoves(p) /\ pc'[p] = phase /\ cred'[p] = cred[p] /\ why'[p] = why[p]
  BY DEF LocalsTypeOK, Goto, OnlyMoves, StandsStill

LEMMA TryAnotherMoves ==
    ASSUME LocalsTypeOK, NEW p \in Requests, TryAnother(p)
    PROVE  OnlyMoves(p) /\ ~Leased(p)'
  BY DEF LocalsTypeOK, TryAnother, Goto, OnlyMoves, StandsStill, Leased

LEMMA AfterMarkMoves ==
    ASSUME LocalsTypeOK, NEW p \in Requests, AfterMark(p),
           pc[p] \in {"read", "write"}, UNCHANGED <<leases, orphans>>
    PROVE  OnlyMoves(p) /\ KeepsLease(p)
<1>1. CASE why[p] = "decrypt"
  BY <1>1, FinishMoves DEF AfterMark, FinishExhausted, KeepsLease, Leased
<1>2. CASE why[p] # "decrypt"
  <2>1. Goto(p, "release") /\ UNCHANGED <<cred, why>>
    BY <1>2 DEF AfterMark
  <2> QED
    BY <1>2, <2>1, GotoMoves DEF KeepsLease, Leased
<1> QED
  BY <1>1, <1>2

LEMMA ReleaseGives ==
    ASSUME NEW p \in Requests, Release(p), ~Leased(p)'
    PROVE  GivesLease(p)
  BY DEF Release, GivesLease, Leased

LEMMA RequestStepMoves ==
    ASSUME IInv, NEW p \in Requests, RequestStep(p)
    PROVE  /\ OnlyMoves(p)
           /\ \/ KeepsLease(p) \/ TakesLease(p)
              \/ GivesLease(p) \/ LeavesLease(p)
<1>0. LocalsTypeOK /\ PoolTypeOK
  BY DEF IInv, TypeOK
<1>1. CASE Acquire(p)
  <2>1. PICK s \in Strategies :
           /\ Lease(Usable(p), s)
           /\ cred' = [cred EXCEPT ![p] = Pick(Usable(p), s)]
    BY <1>1 DEF Acquire
  <2>2. OnlyMoves(p) /\ ~Leased(p) /\ Leased(p)'
    BY <1>0, <1>1, <2>1
    DEF Acquire, Goto, LocalsTypeOK, OnlyMoves, StandsStill, Leased
  <2>3. cred'[p] = Pick(Usable(p), s)
    BY <1>0, <2>1 DEF LocalsTypeOK
  <2>4. leases' = [leases EXCEPT ![cred'[p]] = @ + 1]
    BY <2>1, <2>3 DEF Lease
  <2> QED
    BY <1>1, <2>2, <2>4 DEF Acquire, TakesLease
<1>2. CASE AcquireNone(p)
  BY <1>0, <1>2, FinishMoves
  DEF AcquireNone, FinishExhausted, poolVars, KeepsLease, Leased
<1>3. CASE Commit(p)
  <2>1. UNCHANGED <<cred, leases, orphans>> /\ pc[p] = "commit"
    BY <1>3 DEF Commit, hotVars
  <2>2. CASE seen[p].readable
    <3>1. Goto(p, "auth") /\ why' = why
      BY <1>3, <2>2 DEF Commit
    <3> QED BY <1>0, <2>1, <3>1, GotoMoves DEF KeepsLease, Leased
  <2>3. CASE ~seen[p].readable
    <3>1. Goto(p, "release") /\ why' = [why EXCEPT ![p] = "decrypt"]
      BY <1>3, <2>3 DEF Commit
    <3>2. OnlyMoves(p)
      BY <1>0, <2>1, <3>1 DEF Goto, LocalsTypeOK, OnlyMoves, StandsStill
    <3>3. Leased(p) /\ Leased(p)'
      BY <1>0, <2>1, <3>1 DEF Goto, LocalsTypeOK, Leased
    <3> QED BY <2>1, <3>2, <3>3 DEF KeepsLease
  <2> QED BY <2>2, <2>3
<1>4. CASE CommitLost(p)
  BY <1>0, <1>4, FinishMoves DEF CommitLost, poolVars, LeavesLease, Leased
<1>5. CASE AuthenticateOk(p)
  BY <1>0, <1>5, GotoMoves
  DEF AuthenticateOk, Accept, poolVars, KeepsLease, Leased
<1>6. CASE AuthenticateRotated(p)
  BY <1>0, <1>6, GotoMoves DEF AuthenticateRotated, poolVars, KeepsLease, Leased
<1>7. CASE PersistRotation(p)
  BY <1>0, <1>7, GotoMoves DEF PersistRotation, Accept, hotVars, KeepsLease, Leased
<1>8. CASE AuthenticateRejected(p)
  BY <1>0, <1>8 DEF AuthenticateRejected, Goto, LocalsTypeOK, OnlyMoves,
                    StandsStill, poolVars, KeepsLease, Leased
<1>9. CASE Deliver(p)
  BY <1>0, <1>9 DEF Deliver, OnlyMoves, StandsStill, poolVars, KeepsLease, Leased
<1>10. CASE Answer(p)
  BY <1>0, <1>10, GotoMoves DEF Answer, poolVars, KeepsLease, Leased
<1>11. CASE Fail(p)
  BY <1>0, <1>11 DEF Fail, Goto, LocalsTypeOK, OnlyMoves, StandsStill, poolVars,
                     KeepsLease, Leased
<1>12. CASE ReportSuccess(p)
  BY <1>0, <1>12, GotoMoves DEF ReportSuccess, hotVars, KeepsLease, Leased
<1>13. CASE ReadRow(p)
  BY <1>0, <1>13, GotoMoves DEF ReadRow, poolVars, KeepsLease, Leased
<1>14. CASE ReadNothing(p)
  BY <1>0, <1>14, AfterMarkMoves DEF ReadNothing, poolVars
<1>15. CASE WriteRow(p)
  BY <1>0, <1>15, AfterMarkMoves DEF WriteRow, hotVars
<1>16. CASE WriteLost(p)
  <2>1. CASE why[p] = "call"
    BY <1>0, <1>16, <2>1, GotoMoves DEF WriteLost, poolVars, KeepsLease, Leased
  <2>2. CASE why[p] = "auth"
    BY <1>0, <1>16, <2>2, FinishMoves DEF WriteLost, poolVars, LeavesLease, Leased
  <2>3. CASE why[p] = "decrypt"
    BY <1>0, <1>16, <2>3, FinishMoves DEF WriteLost, poolVars, KeepsLease, Leased
  <2>4. why[p] \in {"call", "auth", "decrypt"}
    BY <1>16 DEF WriteLost, IInv, ControlOK
  <2> QED
    BY <2>1, <2>2, <2>3, <2>4
<1>18. CASE ReleaseAndEnd(p)
  <2>1. OnlyMoves(p) /\ ~Leased(p)'
    BY <1>0, <1>18, FinishMoves DEF ReleaseAndEnd
  <2> QED
    BY <1>18, <2>1, ReleaseGives DEF ReleaseAndEnd
<1>19. CASE ReleaseAndRetry(p)
  BY <1>0, <1>19, TryAnotherMoves, ReleaseGives DEF ReleaseAndRetry
<1>20. CASE ReleaseRejected(p)
  BY <1>0, <1>20, TryAnotherMoves, ReleaseGives DEF ReleaseRejected
<1>21. CASE ReleaseUnreadable(p)
  <2>1. OnlyMoves(p) /\ ~Leased(p)'
    BY <1>0, <1>21, GotoMoves DEF ReleaseUnreadable, Leased
  <2> QED
    BY <1>21, <2>1, ReleaseGives DEF ReleaseUnreadable
<1> QED
  BY <1>1, <1>2, <1>3, <1>4, <1>5, <1>6, <1>7, <1>8, <1>9, <1>10, <1>11, <1>12,
     <1>13, <1>14, <1>15, <1>16, <1>18, <1>19, <1>20, <1>21 DEF RequestStep

LEMMA DisconnectMoves ==
    ASSUME IInv, NEW p \in Requests, Disconnect(p)
    PROVE  /\ OnlyMoves(p)
           /\ KeepsLease(p) \/ GivesLease(p) \/ LeavesLease(p)
<1>0. LocalsTypeOK
  BY DEF IInv, TypeOK
<1>1. InTry(p) => Leased(p)
  BY DEF InTry, Leased
<1>2. CASE /\ ~Leased(p)
           /\ Finish(p, "disconnected", recorded[p])
           /\ UNCHANGED <<leases, lock, orphans>>
  BY <1>0, <1>2, FinishMoves DEF KeepsLease
<1>3. CASE /\ InTry(p) /\ Unlease(cred[p])
           /\ Finish(p, "disconnected", recorded[p])
           /\ UNCHANGED <<lock, orphans>>
  BY <1>0, <1>1, <1>3, FinishMoves DEF GivesLease
<1>4. CASE /\ InTry(p) /\ Goto(p, "release")
           /\ why' = [why EXCEPT ![p] = "disconnect"]
           /\ UNCHANGED <<leases, orphans, cred>>
  BY <1>0, <1>1, <1>4
  DEF Goto, LocalsTypeOK, OnlyMoves, StandsStill, KeepsLease, Leased
<1>5. CASE /\ Leased(p) /\ Orphan(p)
           /\ Finish(p, "disconnected", recorded[p])
           /\ UNCHANGED leases
  BY <1>0, <1>5, FinishMoves DEF LeavesLease
<1> QED
  BY <1>2, <1>3, <1>4, <1>5 DEF Disconnect

LEMMA NextLedger == IInv /\ LeaseLedger /\ [Next]_vars => LeaseLedger'
<1> SUFFICES ASSUME IInv, LeaseLedger, [Next]_vars PROVE LeaseLedger'
  OBVIOUS
<1>1. ASSUME NEW p \in Requests, Arrive(p) \/ RejectUnknown(p) \/ RequestStep(p) \/ Disconnect(p)
      PROVE  LeaseLedger'
  <2>1. CASE Arrive(p)
    <3>1. OnlyMoves(p) /\ KeepsLease(p)
      BY <2>1, GotoMoves DEF Arrive, IInv, TypeOK, poolVars, KeepsLease, Leased
    <3> QED BY <3>1, LedgerMove
  <2>1a. CASE RejectUnknown(p)
    <3>1. OnlyMoves(p) /\ KeepsLease(p)
      BY <2>1a, FinishMoves
      DEF RejectUnknown, IInv, TypeOK, poolVars, KeepsLease, Leased
    <3> QED BY <3>1, LedgerMove
  <2>2. CASE RequestStep(p)
    BY <2>2, RequestStepMoves, LedgerMove
  <2>3. CASE Disconnect(p)
    BY <2>3, DisconnectMoves, LedgerMove
  <2> QED
    BY <1>1, <2>1, <2>1a, <2>2, <2>3
<1>2. ASSUME UNCHANGED <<pc, cred, why, leases, orphans>> PROVE LeaseLedger'
  BY <1>2 DEF LeaseLedger, Holders, Leased
<1>3. ASSUME NEW c \in Creds, Operator(c) PROVE LeaseLedger'
  <2>1. UNCHANGED leases
    BY <1>3 DEF Operator, AdminStep, SetEnabled, ReplaceSecret, ClearCooldown,
                DeleteCredential, CreateCredential, hotVars
  <2> QED
    BY <1>2, <1>3, <2>1 DEF Operator, requestVars
<1>4. CASE Clock
  BY <1>2, <1>4 DEF Clock, Tick, hotVars, requestVars
<1>5. CASE UNCHANGED vars
  BY <1>2, <1>5 DEF vars, poolVars, requestVars
<1> QED
  BY <1>1, <1>3, <1>4, <1>5 DEF Next

(* The count the scheduler balances on is, at every moment and for every   *)
(* credential, the number of requests using it plus the leases left behind *)
(* by the ways out of _acquire that no finally covers: release never takes *)
(* away the lease of another request (scheduler.py:91 and 185-191,         *)
(* completion_service.py:174 and 253).                                     *)
THEOREM LedgerHolds == Spec => []LeaseLedger
<1>1. Init => LeaseLedger
  <2> SUFFICES ASSUME Init PROVE LeaseLedger
    OBVIOUS
  <2>1. \A c \in Creds : Holders(c) = {}
    <3>1. \A p \in Requests : pc[p] = "idle"
      BY DEF Init
    <3> QED BY <3>1, Zenon DEF Holders, Leased
  <2>2. \A c \in Creds : leases[c] = 0 /\ orphans[c] = 0
    BY DEF Init
  <2>3. \A c \in Creds : Cardinality(Holders(c)) = 0
    BY <2>1, FS_EmptySet
  <2> QED
    BY <2>2, <2>3 DEF LeaseLedger
<1> QED
  BY <1>1, InvariantHolds, NextLedger, PTL DEF Spec

-----------------------------------------------------------------------------
(* What the scheduler chooses and what it leaves alone.                    *)

(* At every moment GET /api/health says ok exactly when a request would    *)
(* find a credential (scheduler.py:164-180 and 302-323).                   *)
THEOREM HealthHolds == Spec => []HealthTellsEligible
<1>1. TypeOK => HealthTellsEligible
  BY HealthyIsEligible
  DEF TypeOK, PoolTypeOK, HealthTellsEligible, Eligible
<1> QED
  BY <1>1, TypeCorrect, PTL

Untouched(c) == row'[c] = row[c] /\ leases'[c] = leases[c]

LEMMA RequestStepTouches ==
    ASSUME IInv, NEW p \in Requests, RequestStep(p),
           NEW c \in Creds, cred[p] # c, c \notin Eligible
    PROVE  Untouched(c)
<1>0. /\ row \in [Creds -> Rows] /\ leases \in [Creds -> Nat]
      /\ pc[p] \in {"commit", "auth", "rotate", "call", "succeed", "read",
                    "write", "release"} => cred[p] \in Creds
  BY DEF IInv, TypeOK, PoolTypeOK, LocalsTypeOK, ControlOK
<1> USE DEF Untouched
<1>1. CASE UNCHANGED <<row, leases>>
  BY <1>1
<1>2. CASE Acquire(p)
  <2>1. PICK s \in Strategies : Lease(Usable(p), s)
    BY <1>2 DEF Acquire
  <2>2. Usable(p) \in SUBSET Creds /\ Usable(p) # {}
    BY <1>2, UsableType DEF Acquire, IInv, TypeOK
  <2>3. Pick(Usable(p), s) \in Usable(p)
    BY <2>1, <2>2, LeaseType DEF IInv, TypeOK
  <2>4. c # Pick(Usable(p), s)
    BY <2>3 DEF Usable
  <2> QED
    BY <1>0, <1>2, <2>1, <2>4 DEF Acquire, Lease
<1>3. CASE Commit(p)
  BY <1>0, <1>3 DEF Commit, Touch, hotVars
<1>4. CASE PersistRotation(p)
  BY <1>0, <1>4 DEF PersistRotation, hotVars
<1>5. CASE ReportSuccess(p)
  BY <1>0, <1>5 DEF ReportSuccess, MarkSuccess, hotVars
<1>6. CASE WriteRow(p)
  BY <1>0, <1>6 DEF WriteRow, MarkFailure, hotVars
<1>7. CASE Release(p)
  BY <1>0, <1>7 DEF Release, Unlease
<1> QED
  BY <1>1, <1>2, <1>3, <1>4, <1>5, <1>6, <1>7
  DEF RequestStep, AcquireNone, CommitLost, AuthenticateOk, AuthenticateRotated,
      AuthenticateRejected, Deliver, Answer, Fail, ReadRow, ReadNothing,
      WriteLost, ReleaseAndEnd, ReleaseAndRetry, ReleaseRejected,
      ReleaseUnreadable, poolVars

LEMMA AdminTouches ==
    ASSUME IInv, NEW d \in Creds, AdminStep(d), NEW c \in Creds, c # d
    PROVE  Untouched(c)
<1>0. row \in [Creds -> Rows] /\ leases \in [Creds -> Nat]
  BY DEF IInv, TypeOK, PoolTypeOK
<1>1. UNCHANGED leases
  BY DEF AdminStep, SetEnabled, ReplaceSecret, ClearCooldown, DeleteCredential,
         CreateCredential, hotVars
<1>2. row'[c] = row[c]
  BY <1>0 DEF AdminStep, SetEnabled, ReplaceSecret, ClearCooldown,
              DeleteCredential, CreateCredential
<1> QED
  BY <1>1, <1>2 DEF Untouched

(* Once its last user is gone, a disabled, cooling, expired or invalid     *)
(* credential keeps its row and its lease count until the operator or the  *)
(* clock changes that (scheduler.py:164-180).                              *)
THEOREM RestingHolds == Spec => RestingIsLeftAlone
<1>1. ASSUME IInv, [Next]_vars, NEW c \in Creds,
             Resting(c), Users(c) = {}, ~AdminStep(c)
      PROVE  Untouched(c)
  <2>1. c \notin Eligible /\ \A p \in Requests : cred[p] # c
    BY <1>1 DEF Resting, Users, Eligible
  <2>2. CASE UNCHANGED <<row, leases>>
    BY <2>2 DEF Untouched
  <2>3. ASSUME NEW p \in Requests, RequestStep(p) PROVE Untouched(c)
    BY <1>1, <2>1, <2>3, RequestStepTouches
  <2>4. ASSUME NEW p \in Requests, Disconnect(p) PROVE Untouched(c)
    <3>1. row' = row /\ (leases' = leases \/ Unlease(cred[p]))
      BY <2>4 DEF Disconnect
    <3> QED
      BY <1>1, <2>1, <3>1 DEF Untouched, Unlease, IInv, TypeOK, PoolTypeOK
  <2>5. ASSUME NEW d \in Creds, Operator(d) PROVE Untouched(c)
    BY <1>1, <2>5, AdminTouches DEF Operator
  <2> QED
    BY <1>1, <2>2, <2>3, <2>4, <2>5
    DEF Next, Arrive, RejectUnknown, Clock, Tick, vars, poolVars, hotVars
<1>2. IInv /\ [Next]_vars =>
        [\A c \in Creds : Resting(c) /\ Users(c) = {} /\ ~AdminStep(c) =>
            row'[c] = row[c] /\ leases'[c] = leases[c]]_vars
  BY <1>1 DEF Untouched
<1> QED
  BY <1>2, InvariantHolds, PTL DEF Spec, RestingIsLeftAlone

LEMMA CooldownPositive ==
    ASSUME NEW category \in Categories \ {"internal"}, NEW failures \in Nat \ {0},
           NEW retryAfter \in Nat
    PROVE  CooldownFor(category, failures, retryAfter) > 0
<1>1. /\ DefaultCooldown > 0 /\ DefaultCooldown \in Nat
      /\ RateLimitCooldown > 0 /\ RateLimitCooldown \in Nat
      /\ BackoffUnit > 0 /\ BackoffUnit \in Nat /\ 2 * DefaultCooldown > 0
  BY TimesAssumption
<1>2. Backoff(failures) > 0
  <2>1. \A n \in {1, 2, 3, 4, 5} : BackoffFactor[n] \in 1..16
    BY DEF BackoffFactor
  <2>2. (IF failures < 5 THEN failures ELSE 5) \in {1, 2, 3, 4, 5}
    OBVIOUS
  <2>3. \A f \in 1..16 : BackoffUnit * f > 0
    BY <1>1
  <2> QED
    BY <1>1, <2>1, <2>2, <2>3 DEF Backoff
<1> QED
  BY <1>1, <1>2 DEF CooldownFor, Categories

(* Every reported failure but an internal error leaves the credential out  *)
(* of the rotation, whatever row the report was computed from              *)
(* (scheduler.py:218-270).                                                 *)
THEOREM FailureRestsHolds == Spec => FailureRests
<1>1. ASSUME IInv, NEW p \in Requests, NEW c \in Creds, WriteRow(p), cred[p] = c,
             why[p] = "decrypt" \/ fault[p].category # "internal"
      PROVE  Resting(c)'
  <2> DEFINE new == row'[c]
  <2>1. /\ c \in live' /\ now' = now /\ now \in Nat
        /\ row \in [Creds -> Rows] /\ row[c] \in Rows /\ seen[p] \in Rows
        /\ fault[p].category \in Categories /\ fault[p].retryAfter \in Nat
        /\ DecryptCooldown > 0 /\ DecryptCooldown \in Nat
    BY <1>1, TimesAssumption
    DEF WriteRow, hotVars, IInv, TypeOK, PoolTypeOK, LocalsTypeOK
  <2>2. \A category \in Categories, retryAfter \in Nat, length \in Nat :
          length > 0 \/ category # "internal" =>
            FailedRow(row[c], seen[p], category, retryAfter, length).cooldown > now
    <3> SUFFICES ASSUME NEW category \in Categories, NEW retryAfter \in Nat,
                        NEW length \in Nat, length > 0 \/ category # "internal"
                 PROVE  FailedRow(row[c], seen[p], category, retryAfter,
                                  length).cooldown > now
      OBVIOUS
    <3> DEFINE failures == seen[p].failures + 1
               cooldown == IF length # 0 THEN length
                           ELSE CooldownFor(category, failures, retryAfter)
    <3>1. failures \in Nat \ {0}
      BY <2>1 DEF Rows
    <3>2. cooldown \in Nat /\ cooldown > 0
      <4>1. CASE length # 0
        BY <4>1
      <4>2. CASE length = 0
        <5>1. category \in Categories \ {"internal"}
          BY <4>2
        <5>2. CooldownFor(category, failures, retryAfter) \in Nat
              /\ CooldownFor(category, failures, retryAfter) > 0
          BY <3>1, <5>1, CooldownType, CooldownPositive
        <5> QED BY <4>2, <5>2
      <4> QED BY <4>1, <4>2
    <3>3. FailedRow(row[c], seen[p], category, retryAfter, length).cooldown
             = now + cooldown
      BY <2>1, <3>2 DEF FailedRow, Rows
    <3> HIDE DEF cooldown
    <3> QED
      BY <2>1, <3>2, <3>3
  <2>3. row'[c].cooldown > now
    <3>1. CASE why[p] = "decrypt"
      <4>1. "authentication" \in Categories /\ 0 \in Nat
        BY DEF Categories
      <4>2. FailedRow(row[c], seen[p], "authentication", 0,
                      DecryptCooldown).cooldown > now
        BY <2>1, <2>2, <4>1
      <4> QED
        BY <1>1, <2>1, <3>1, <4>2 DEF WriteRow, MarkFailure
    <3>2. CASE why[p] # "decrypt"
      BY <1>1, <2>1, <2>2, <3>2 DEF WriteRow, MarkFailure
    <3> QED BY <3>1, <3>2
  <2>4. row'[c].cooldown # 0
    BY <2>1, <2>3
  <2> QED
    BY <2>1, <2>3, <2>4 DEF Resting, IsEligible
<1>2. IInv /\ [Next]_vars =>
        [\A p \in Requests, c \in Creds :
            WriteRow(p) /\ cred[p] = c
            /\ (why[p] = "decrypt" \/ fault[p].category # "internal") =>
               Resting(c)']_vars
  BY <1>1
<1> QED
  BY <1>2, InvariantHolds, PTL DEF Spec, FailureRests

-----------------------------------------------------------------------------
(***************************************************************************)
(* CompletionService implements RequestProtocol, and what a client and the *)
(* request log are told is right, for every instance.                      *)
(*                                                                         *)
(* The three results rest on one more invariant, StoryOK, which relates    *)
(* where a request stands to what it went through: its attempts, the       *)
(* chunks its client has seen, the credentials it tried, the errors it     *)
(* remembers and the status of its recorder.                               *)
(***************************************************************************)

Active(p) == pc[p] \notin {"idle", "done"}

(* At least one call or rejection of this request has been reported.       *)
HasError(p) == lastError[p] # "none" \/ authError[p] # "none"

AttemptsOK(p) == Active(p) => attempts[p] \in 1..MaxAttempts

(* A chunk is only out during and after the call of this attempt.          *)
EmittedOK(p) ==
    emitted[p] => /\ p \in Streams
                  /\ Active(p)
                  /\ ~BeforeCall(p)

(* The credential of a call is in tried; before a call it is not counted.  *)
TriedOK(p) == Active(p) /\ ~BeforeCall(p) => cred[p] \in tried[p]

ErrorsOK(p) ==
    /\ lastError[p] \in Categories \union {"none"}
    /\ authError[p] \in {"authentication", "none"}
    /\ HasError(p) => recorded[p] # "pending"
    /\ pc[p] = "idle" => recorded[p] = "pending"
    /\ BeforeCall(p) /\ ~HasError(p) => recorded[p] = "pending"
    /\ (pc[p] = "idle" \/ BeforeCall(p)) /\ tried[p] # {} => HasError(p)
    /\ pc[p] = "release" /\ why[p] = "call" /\ fault[p].retryable =>
          lastError[p] # "none"

RecordedOK(p) ==
    /\ pc[p] # "done" =>
          (recorded[p] = "success" <=> pc[p] = "release" /\ why[p] = "none")
    /\ pc[p] = "done" /\ outcome[p] # "disconnected" =>
          /\ recorded[p] = "success" <=> outcome[p] = "success"
          /\ recorded[p] = "pending" <=>
                p \in Streams
                /\ outcome[p] \in {"invalid_request", "no_credentials"}

StoryAt(p) ==
    AttemptsOK(p) /\ EmittedOK(p) /\ TriedOK(p) /\ ErrorsOK(p) /\ RecordedOK(p)

StoryOK == \A p \in Requests : StoryAt(p)

(* No local of q changes.                                                  *)
Idles(q) ==
    /\ pc'[q] = pc[q] /\ cred'[q] = cred[q] /\ why'[q] = why[q]
    /\ tried'[q] = tried[q] /\ attempts'[q] = attempts[q]
    /\ emitted'[q] = emitted[q] /\ fault'[q] = fault[q]
    /\ lastError'[q] = lastError[q] /\ authError'[q] = authError[q]
    /\ recorded'[q] = recorded[q] /\ outcome'[q] = outcome[q]

OthersIdle(p) == \A q \in Requests \ {p} : Idles(q)

LEMMA IdleStory ==
    ASSUME NEW q \in Requests, StoryAt(q), Idles(q)
    PROVE  StoryAt(q)'
  BY DEF Idles, StoryAt, AttemptsOK, EmittedOK, TriedOK, ErrorsOK, RecordedOK,
         HasError, Active, BeforeCall

-----------------------------------------------------------------------------
(* A step of one request leaves the others where they are.                 *)

LEMMA FinishIdle ==
    ASSUME LocalsTypeOK, NEW p \in Requests, NEW result, NEW record,
           Finish(p, result, record)
    PROVE  OthersIdle(p)
  BY DEF LocalsTypeOK, Finish, OthersIdle, Idles

LEMMA AfterMarkIdle ==
    ASSUME LocalsTypeOK, NEW p \in Requests, AfterMark(p)
    PROVE  OthersIdle(p)
<1>1. CASE why[p] = "decrypt"
  BY <1>1, FinishIdle DEF AfterMark, FinishExhausted
<1>2. CASE why[p] # "decrypt"
  BY <1>2 DEF AfterMark, Goto, LocalsTypeOK, OthersIdle, Idles
<1> QED
  BY <1>1, <1>2

LEMMA StepIdle ==
    ASSUME LocalsTypeOK, NEW p \in Requests,
           Arrive(p) \/ RejectUnknown(p) \/ RequestStep(p) \/ Disconnect(p)
    PROVE  OthersIdle(p)
<1>1. CASE Arrive(p)
  BY <1>1 DEF Arrive, Goto, LocalsTypeOK, OthersIdle, Idles
<1>2. CASE Acquire(p)
  BY <1>2 DEF Acquire, Goto, LocalsTypeOK, OthersIdle, Idles
<1>2a. CASE RejectUnknown(p)
  BY <1>2a, FinishIdle DEF RejectUnknown
<1>3. CASE AcquireNone(p)
  BY <1>3, FinishIdle DEF AcquireNone, FinishExhausted
<1>4. CASE Commit(p)
  <2>1. CASE seen[p].readable
    BY <1>4, <2>1 DEF Commit, Goto, LocalsTypeOK, OthersIdle, Idles
  <2>2. CASE ~seen[p].readable
    BY <1>4, <2>2 DEF Commit, Goto, LocalsTypeOK, OthersIdle, Idles
  <2> QED
    BY <2>1, <2>2
<1>5. CASE CommitLost(p)
  BY <1>5, FinishIdle DEF CommitLost
<1>6. CASE AuthenticateOk(p)
  BY <1>6 DEF AuthenticateOk, Accept, Goto, LocalsTypeOK, OthersIdle, Idles
<1>7. CASE AuthenticateRotated(p)
  BY <1>7 DEF AuthenticateRotated, Goto, LocalsTypeOK, OthersIdle, Idles
<1>8. CASE PersistRotation(p)
  BY <1>8 DEF PersistRotation, Accept, Goto, LocalsTypeOK, OthersIdle, Idles
<1>9. CASE AuthenticateRejected(p)
  BY <1>9 DEF AuthenticateRejected, Goto, LocalsTypeOK, OthersIdle, Idles
<1>10. CASE Deliver(p)
  BY <1>10 DEF Deliver, LocalsTypeOK, OthersIdle, Idles
<1>11. CASE Answer(p)
  BY <1>11 DEF Answer, Goto, LocalsTypeOK, OthersIdle, Idles
<1>12. CASE Fail(p)
  BY <1>12 DEF Fail, Goto, LocalsTypeOK, OthersIdle, Idles
<1>13. CASE ReportSuccess(p)
  BY <1>13 DEF ReportSuccess, Goto, LocalsTypeOK, OthersIdle, Idles
<1>14. CASE ReadRow(p)
  BY <1>14 DEF ReadRow, Goto, LocalsTypeOK, OthersIdle, Idles
<1>15. CASE ReadNothing(p) \/ WriteRow(p)
  BY <1>15, AfterMarkIdle DEF ReadNothing, WriteRow
<1>16. CASE WriteLost(p)
  <2>1. CASE why[p] = "call"
    BY <1>16, <2>1 DEF WriteLost, Goto, LocalsTypeOK, OthersIdle, Idles
  <2>2. CASE why[p] # "call"
    BY <1>16, <2>2, FinishIdle DEF WriteLost
  <2> QED
    BY <2>1, <2>2
<1>17. CASE ReleaseAndEnd(p)
  BY <1>17, FinishIdle DEF ReleaseAndEnd
<1>18. CASE ReleaseAndRetry(p)
  BY <1>18 DEF ReleaseAndRetry, TryAnother, Goto, LocalsTypeOK, OthersIdle, Idles
<1>19. CASE ReleaseRejected(p)
  BY <1>19 DEF ReleaseRejected, TryAnother, Goto, LocalsTypeOK, OthersIdle, Idles
<1>20. CASE ReleaseUnreadable(p)
  BY <1>20 DEF ReleaseUnreadable, Goto, LocalsTypeOK, OthersIdle, Idles
<1>21. CASE Disconnect(p)
  <2>1. CASE Finish(p, "disconnected", recorded[p])
    BY <2>1, FinishIdle
  <2>2. CASE ~Finish(p, "disconnected", recorded[p])
    BY <1>21, <2>2 DEF Disconnect, Goto, LocalsTypeOK, OthersIdle, Idles
  <2> QED
    BY <2>1, <2>2
<1> QED
  BY <1>1, <1>2, <1>2a, <1>3, <1>4, <1>5, <1>6, <1>7, <1>8, <1>9, <1>10, <1>11, <1>12,
     <1>13, <1>14, <1>15, <1>16, <1>17, <1>18, <1>19, <1>20, <1>21
  DEF RequestStep

-----------------------------------------------------------------------------
(* The story of the request that moves.                                    *)

LEMMA FinishStory ==
    ASSUME LocalsTypeOK, NEW p \in Requests, NEW result, NEW record,
           Finish(p, result, record),
           result # "disconnected" =>
              /\ record = "success" <=> result = "success"
              /\ record = "pending" <=>
                    p \in Streams /\ result \in {"invalid_request", "no_credentials"}
    PROVE  StoryAt(p)'
<1>1. /\ pc'[p] = "done" /\ outcome'[p] = result /\ recorded'[p] = record
      /\ why'[p] = "none" /\ tried'[p] = {} /\ ~emitted'[p]
      /\ lastError'[p] = "none" /\ authError'[p] = "none"
  BY DEF LocalsTypeOK, Finish
<1> QED
  BY <1>1 DEF StoryAt, AttemptsOK, EmittedOK, TriedOK, ErrorsOK, RecordedOK,
              HasError, Active, BeforeCall

LEMMA ExhaustedStory ==
    ASSUME LocalsTypeOK, NEW p \in Requests, StoryAt(p), FinishExhausted(p),
           pc[p] \in {"acquire", "read", "write"}, BeforeCall(p)
    PROVE  StoryAt(p)'
<1> DEFINE record == IF p \in Streams THEN recorded[p] ELSE "error"
<1>1. Finish(p, Surfaced(p), record)
  BY DEF FinishExhausted
<1>2. Surfaced(p) # "success" /\ recorded[p] # "success"
  BY DEF StoryAt, ErrorsOK, RecordedOK, Surfaced, Categories
<1>3. recorded[p] = "pending"
        <=> Surfaced(p) \in {"invalid_request", "no_credentials"}
  <2>1. CASE HasError(p)
    BY <2>1 DEF StoryAt, ErrorsOK, HasError, Surfaced, Categories
  <2>2. CASE ~HasError(p)
    BY <2>2 DEF StoryAt, ErrorsOK, HasError, Surfaced
  <2> QED BY <2>1, <2>2
<1> QED
  BY <1>1, <1>2, <1>3, FinishStory

LEMMA AfterMarkStory ==
    ASSUME LocalsTypeOK, ControlOK, NEW p \in Requests, StoryAt(p), AfterMark(p),
           pc[p] \in {"read", "write"}
    PROVE  StoryAt(p)'
<1>1. CASE why[p] = "decrypt"
  BY <1>1, ExhaustedStory DEF AfterMark, BeforeCall
<1>2. CASE why[p] = "auth"
  <2>1. /\ pc'[p] = "release"
        /\ why'[p] = why[p] /\ fault'[p] = fault[p] /\ cred'[p] = cred[p]
        /\ tried'[p] = tried[p] /\ attempts'[p] = attempts[p]
        /\ emitted'[p] = emitted[p] /\ lastError'[p] = lastError[p]
        /\ authError'[p] = authError[p] /\ recorded'[p] = recorded[p]
    BY <1>2 DEF AfterMark, Goto, LocalsTypeOK
  <2> QED
    BY <1>2, <2>1 DEF StoryAt, AttemptsOK, EmittedOK, TriedOK, ErrorsOK,
                      RecordedOK, HasError, Active, BeforeCall
<1>3. CASE why[p] = "call"
  <2>1. /\ pc'[p] = "release"
        /\ why'[p] = why[p] /\ fault'[p] = fault[p] /\ cred'[p] = cred[p]
        /\ tried'[p] = tried[p] /\ attempts'[p] = attempts[p]
        /\ emitted'[p] = emitted[p] /\ lastError'[p] = fault[p].category
        /\ authError'[p] = authError[p] /\ recorded'[p] = "error"
    BY <1>3 DEF AfterMark, Goto, LocalsTypeOK
  <2>2. lastError'[p] \in Categories /\ "none" \notin Categories
    BY <2>1 DEF LocalsTypeOK, Categories
  <2> QED
    BY <1>3, <2>1, <2>2 DEF StoryAt, AttemptsOK, EmittedOK, TriedOK, ErrorsOK,
                           RecordedOK, HasError, Active, BeforeCall
<1> QED
  BY <1>1, <1>2, <1>3 DEF ControlOK

LEMMA RequestStepStory ==
    ASSUME IInv, NEW p \in Requests, StoryAt(p),
           Arrive(p) \/ RejectUnknown(p) \/ RequestStep(p)
    PROVE  StoryAt(p)'
<1>0. LocalsTypeOK /\ ControlOK
  BY DEF IInv, TypeOK
<1> USE DEF StoryAt, AttemptsOK, EmittedOK, TriedOK, ErrorsOK, RecordedOK,
            HasError, Active, BeforeCall
<1>1. CASE Arrive(p)
  <2>1. /\ pc[p] = "idle" /\ pc'[p] = "acquire" /\ attempts'[p] = 1
        /\ cred'[p] = cred[p] /\ why'[p] = why[p] /\ tried'[p] = tried[p]
        /\ emitted'[p] = emitted[p] /\ fault'[p] = fault[p]
        /\ lastError'[p] = lastError[p] /\ authError'[p] = authError[p]
        /\ recorded'[p] = recorded[p]
    BY <1>0, <1>1 DEF Arrive, Goto, LocalsTypeOK
  <2>2. 1 \in 1..MaxAttempts
    BY RequestsAssumption
  <2> QED
    BY <1>0, <2>1, <2>2
<1>1a. CASE RejectUnknown(p)
  <2>1. recorded[p] = "pending"
    BY <1>1a DEF RejectUnknown
  <2> QED
    BY <1>0, <1>1a, <2>1, FinishStory DEF RejectUnknown
<1>2. CASE Acquire(p)
  BY <1>0, <1>2 DEF Acquire, Goto, LocalsTypeOK, ControlOK
<1>3. CASE AcquireNone(p)
  BY <1>0, <1>3, ExhaustedStory DEF AcquireNone
<1>4. CASE Commit(p)
  <2>1. CASE seen[p].readable
    BY <1>0, <1>4, <2>1 DEF Commit, Goto, LocalsTypeOK, ControlOK
  <2>2. CASE ~seen[p].readable
    BY <1>0, <1>4, <2>2 DEF Commit, Goto, LocalsTypeOK, ControlOK
  <2> QED
    BY <2>1, <2>2
<1>5. CASE CommitLost(p)
  BY <1>0, <1>5, FinishStory DEF CommitLost
<1>6. CASE AuthenticateOk(p)
  BY <1>0, <1>6 DEF AuthenticateOk, Accept, Goto, LocalsTypeOK, ControlOK
<1>7. CASE AuthenticateRotated(p)
  BY <1>0, <1>7 DEF AuthenticateRotated, Goto, LocalsTypeOK, ControlOK
<1>8. CASE PersistRotation(p)
  BY <1>0, <1>8 DEF PersistRotation, Accept, Goto, LocalsTypeOK, ControlOK
<1>9. CASE AuthenticateRejected(p)
  BY <1>0, <1>9 DEF AuthenticateRejected, Goto, LocalsTypeOK, ControlOK
<1>10. CASE Deliver(p)
  BY <1>0, <1>10 DEF Deliver, LocalsTypeOK, ControlOK
<1>11. CASE Answer(p)
  BY <1>0, <1>11 DEF Answer, Goto, LocalsTypeOK, ControlOK
<1>12. CASE Fail(p)
  BY <1>0, <1>12 DEF Fail, Goto, LocalsTypeOK, ControlOK
<1>13. CASE ReportSuccess(p)
  BY <1>0, <1>13 DEF ReportSuccess, Goto, LocalsTypeOK, ControlOK
<1>14. CASE ReadRow(p)
  BY <1>0, <1>14 DEF ReadRow, Goto, LocalsTypeOK, ControlOK
<1>15. CASE ReadNothing(p) \/ WriteRow(p)
  BY <1>0, <1>15, AfterMarkStory DEF ReadNothing, WriteRow
<1>16. CASE WriteLost(p)
  <2>1. CASE why[p] = "call"
    BY <1>0, <1>16, <2>1 DEF WriteLost, Goto, LocalsTypeOK, ControlOK, NoFault
  <2>2. CASE why[p] # "call"
    BY <1>0, <1>16, <2>2, FinishStory DEF WriteLost
  <2> QED
    BY <2>1, <2>2
<1>17. CASE ReleaseAndEnd(p)
  <2>1. fault[p].category # "success" /\ fault[p].category \in Categories
    BY <1>0 DEF LocalsTypeOK, Categories
  <2> QED
    BY <1>0, <1>17, <2>1, FinishStory DEF ReleaseAndEnd, Release, Categories
<1>18. CASE ReleaseAndRetry(p)
  <2>1. attempts[p] + 1 \in 1..MaxAttempts
    BY <1>0, <1>18, RequestsAssumption
    DEF ReleaseAndRetry, Release, Retries, LocalsTypeOK
  <2> QED
    BY <1>0, <1>18, <2>1
    DEF ReleaseAndRetry, Release, Retries, TryAnother, Goto, LocalsTypeOK
<1>19. CASE ReleaseRejected(p)
  BY <1>0, <1>19 DEF ReleaseRejected, Release, TryAnother, Goto, LocalsTypeOK
<1>20. CASE ReleaseUnreadable(p)
  BY <1>0, <1>20 DEF ReleaseUnreadable, Release, Goto, LocalsTypeOK
<1> QED
  BY <1>1, <1>1a, <1>2, <1>3, <1>4, <1>5, <1>6, <1>7, <1>8, <1>9, <1>10, <1>11, <1>12,
     <1>13, <1>14, <1>15, <1>16, <1>17, <1>18, <1>19, <1>20 DEF RequestStep

LEMMA DisconnectStory ==
    ASSUME IInv, NEW p \in Requests, StoryAt(p), Disconnect(p)
    PROVE  StoryAt(p)'
<1>0. LocalsTypeOK /\ ControlOK
  BY DEF IInv, TypeOK
<1>1. CASE Finish(p, "disconnected", recorded[p])
  BY <1>0, <1>1, FinishStory
<1>2. CASE ~Finish(p, "disconnected", recorded[p])
  <2>1. /\ InTry(p)
        /\ Goto(p, "release")
        /\ why' = [why EXCEPT ![p] = "disconnect"]
        /\ fault' = [fault EXCEPT ![p] = NoFault]
        /\ UNCHANGED <<cred, tried, attempts, emitted, lastError, authError,
                       recorded, outcome>>
    BY <1>2 DEF Disconnect
  <2> QED
    BY <1>0, <2>1
    DEF StoryAt, AttemptsOK, EmittedOK, TriedOK, ErrorsOK, RecordedOK, HasError,
        Active, BeforeCall, InTry, Goto, LocalsTypeOK, ControlOK
<1> QED
  BY <1>1, <1>2

LEMMA NextStory == IInv /\ StoryOK /\ [Next]_vars => StoryOK'
<1> SUFFICES ASSUME IInv, StoryOK, [Next]_vars PROVE StoryOK'
  OBVIOUS
<1>1. ASSUME NEW p \in Requests, Arrive(p) \/ RejectUnknown(p) \/ RequestStep(p) \/ Disconnect(p)
      PROVE  StoryOK'
  <2>1. OthersIdle(p)
    BY <1>1, StepIdle DEF IInv, TypeOK
  <2>2. \A q \in Requests \ {p} : StoryAt(q)'
    BY <2>1, IdleStory DEF OthersIdle, StoryOK
  <2>3. StoryAt(p)'
    BY <1>1, RequestStepStory, DisconnectStory DEF StoryOK
  <2> QED
    BY <2>2, <2>3 DEF StoryOK
<1>2. ASSUME UNCHANGED requestVars PROVE StoryOK'
  <2>1. \A q \in Requests : Idles(q)
    BY <1>2 DEF requestVars, Idles
  <2> QED
    BY <2>1, IdleStory DEF StoryOK
<1> QED
  BY <1>1, <1>2 DEF Next, Operator, Clock, vars

LEMMA StoryHolds == Spec => [](IInv /\ StoryOK)
<1>1. Init => StoryOK
  BY DEF Init, StoryOK, StoryAt, AttemptsOK, EmittedOK, TriedOK, ErrorsOK,
         RecordedOK, HasError, Active
<1> QED
  BY <1>1, InvariantHolds, NextStory, PTL DEF Spec

-----------------------------------------------------------------------------
(* What the request log and the client are told.                           *)

(* The log says success exactly for the requests that were answered, and   *)
(* is silent exactly about the streams that end before their first call,   *)
(* for an unknown provider or for want of a credential to try              *)
(* (metrics.py:82-99, public.py:143-174, completion_service.py:161).       *)
THEOREM RecordHolds == Spec => []RecordTellsOutcome
<1>1. StoryOK => RecordTellsOutcome
  BY DEF StoryOK, StoryAt, RecordedOK, RecordTellsOutcome
<1> QED
  BY <1>1, StoryHolds, PTL

LEMMA SurfacedInformative ==
    ASSUME NEW p \in Requests, StoryAt(p), Surfaced(p) = "no_credentials",
           BeforeCall(p)
    PROVE  tried[p] = {}
<1>1. ~HasError(p)
  BY DEF StoryAt, ErrorsOK, HasError, Surfaced, Categories
<1> QED
  BY <1>1 DEF StoryAt, ErrorsOK

LEMMA OutcomeInformative ==
    ASSUME IInv, NEW p \in Requests, StoryAt(p),
           Arrive(p) \/ RejectUnknown(p) \/ RequestStep(p) \/ Disconnect(p),
           outcome'[p] = "no_credentials", outcome[p] = "none"
    PROVE  tried[p] = {} /\ (Eligible = {} \/ why[p] = "decrypt")
<1>0. LocalsTypeOK /\ ControlOK
  BY DEF IInv, TypeOK
<1>1. ASSUME NEW result, NEW record, Finish(p, result, record)
      PROVE  result = "no_credentials"
  BY <1>0, <1>1 DEF Finish, LocalsTypeOK
<1>2. CASE AcquireNone(p)
  <2>1. tried[p] = {}
    BY <1>1, <1>2, SurfacedInformative DEF AcquireNone, FinishExhausted, BeforeCall
  <2> QED
    BY <1>2, <2>1 DEF AcquireNone, Usable
<1>3. CASE ReadNothing(p) \/ WriteRow(p)
  <2>1. AfterMark(p)
    BY <1>3 DEF ReadNothing, WriteRow
  <2>2. CASE why[p] = "decrypt"
    BY <1>1, <2>1, <2>2, SurfacedInformative DEF AfterMark, FinishExhausted, BeforeCall
  <2>3. CASE why[p] # "decrypt"
    BY <2>1, <2>3 DEF AfterMark
  <2> QED
    BY <2>2, <2>3
<1>4. ~CommitLost(p)
  BY <1>1 DEF CommitLost
<1>5. ~WriteLost(p)
  BY <1>1 DEF WriteLost
<1>6. ~ReleaseAndEnd(p)
  <2>1. fault[p].category # "no_credentials"
    BY <1>0 DEF LocalsTypeOK, Categories
  <2> QED
    BY <1>1, <2>1 DEF ReleaseAndEnd
<1>7. ~Disconnect(p)
  BY <1>1 DEF Disconnect
<1>7a. ~RejectUnknown(p)
  BY <1>1 DEF RejectUnknown
<1>8. outcome' # outcome
  OBVIOUS
<1>9. ~Commit(p)
  BY <1>8 DEF Commit
<1> QED
  BY <1>2, <1>3, <1>4, <1>5, <1>6, <1>7, <1>7a, <1>8, <1>9
  DEF RequestStep, Arrive, Acquire, AuthenticateOk, AuthenticateRotated,
      PersistRotation, AuthenticateRejected, Deliver, Answer, Fail,
      ReportSuccess, ReadRow, ReleaseAndRetry, ReleaseRejected, ReleaseUnreadable

(* A client is told that no credential is available only when its request  *)
(* had tried none, and none was eligible or the one chosen did not decrypt *)
(* (completion_service.py:71-74 and 287-302, scheduler.py:106-118).        *)
THEOREM ErrorHolds == Spec => ErrorIsInformative
<1>1. ASSUME IInv, StoryOK, [Next]_vars, NEW p \in Requests,
             outcome'[p] = "no_credentials", outcome[p] = "none"
      PROVE  tried[p] = {} /\ (Eligible = {} \/ why[p] = "decrypt")
  <2>1. ASSUME NEW q \in Requests, Arrive(q) \/ RejectUnknown(q) \/ RequestStep(q) \/ Disconnect(q)
        PROVE  tried[p] = {} /\ (Eligible = {} \/ why[p] = "decrypt")
    <3>1. q = p
      BY <1>1, <2>1, StepIdle DEF OthersIdle, Idles, IInv, TypeOK
    <3> QED
      BY <1>1, <2>1, <3>1, OutcomeInformative DEF StoryOK
  <2>2. outcome' # outcome
    BY <1>1
  <2> QED
    BY <1>1, <2>1, <2>2 DEF Next, Operator, Clock, vars, requestVars
<1>2. IInv /\ StoryOK /\ [Next]_vars =>
        [\A p \in Requests :
            outcome'[p] = "no_credentials" /\ outcome[p] = "none" =>
               tried[p] = {} /\ (Eligible = {} \/ why[p] = "decrypt")]_vars
  BY <1>1
<1> QED
  BY <1>2, StoryHolds, PTL DEF Spec, ErrorIsInformative

-----------------------------------------------------------------------------
(* The refinement.  Under the mapping of Protocol a step of one request    *)
(* changes what the abstract variables hold for this request alone.        *)

Same(p) ==
    /\ Stage(p)' = Stage(p) /\ cred'[p] = cred[p] /\ Spent(p)' = Spent(p)
    /\ Calls(p)' = Calls(p) /\ emitted'[p] = emitted[p]

Starts(p) ==
    /\ Stage(p) = "new" /\ Stage(p)' = "seeking"
    /\ cred'[p] = cred[p] /\ Spent(p)' = Spent(p)
    /\ Calls(p)' = Calls(p) /\ emitted'[p] = emitted[p]

Takes(p) ==
    /\ Stage(p) = "seeking" /\ Stage(p)' = "using"
    /\ ~emitted[p]
    /\ cred'[p] \in Creds \ Spent(p) /\ Spent(p)' = Spent(p) \union {cred'[p]}
    /\ Calls(p)' = Calls(p) /\ emitted'[p] = emitted[p]

CallsOnce(p) ==
    /\ Stage(p) = "using" /\ Stage(p)' = "using"
    /\ Calls(p) < MaxAttempts /\ Calls(p)' = Calls(p) + 1
    /\ cred'[p] = cred[p] /\ Spent(p)' = Spent(p) /\ emitted'[p] = emitted[p]

StreamsOne(p) ==
    /\ Stage(p) = "using" /\ Stage(p)' = "using"
    /\ p \in Streams /\ Calls(p) > 0 /\ emitted'[p] = TRUE
    /\ cred'[p] = cred[p] /\ Spent(p)' = Spent(p) /\ Calls(p)' = Calls(p)

GivesUp(p) ==
    /\ Stage(p) = "using" /\ Stage(p)' = "seeking"
    /\ ~emitted[p] /\ cred'[p] = 0
    /\ Spent(p)' = Spent(p) /\ Calls(p)' = Calls(p) /\ emitted'[p] = emitted[p]

Ends(p) ==
    /\ Stage(p) # "ended" /\ Stage(p)' = "ended"
    /\ cred'[p] = 0 /\ Spent(p)' = {} /\ Calls(p)' = 0 /\ emitted'[p] = FALSE

LEMMA MappingMoves ==
    ASSUME LocalsTypeOK, LocalsTypeOK', NEW p \in Requests, OthersIdle(p)
    PROVE  /\ [q \in Requests |-> Stage(q)]'
                = [[q \in Requests |-> Stage(q)] EXCEPT ![p] = Stage(p)']
           /\ [q \in Requests |-> Spent(q)]'
                = [[q \in Requests |-> Spent(q)] EXCEPT ![p] = Spent(p)']
           /\ [q \in Requests |-> Calls(q)]'
                = [[q \in Requests |-> Calls(q)] EXCEPT ![p] = Calls(p)']
           /\ cred' = [cred EXCEPT ![p] = cred'[p]]
           /\ emitted' = [emitted EXCEPT ![p] = emitted'[p]]
<1>1. \A q \in Requests \ {p} : Stage(q)' = Stage(q)
  BY DEF OthersIdle, Idles, Stage
<1>2. \A q \in Requests \ {p} : Spent(q)' = Spent(q)
  BY DEF OthersIdle, Idles, Spent
<1>3. \A q \in Requests \ {p} : Calls(q)' = Calls(q)
  BY DEF OthersIdle, Idles, Calls, BeforeCall
<1>4. /\ \A q \in Requests \ {p} : cred'[q] = cred[q] /\ emitted'[q] = emitted[q]
      /\ DOMAIN cred' = Requests /\ DOMAIN emitted' = Requests
      /\ cred = [q \in Requests |-> cred[q]]
      /\ cred' = [q \in Requests |-> cred'[q]]
      /\ emitted = [q \in Requests |-> emitted[q]]
      /\ emitted' = [q \in Requests |-> emitted'[q]]
  BY DEF OthersIdle, Idles, LocalsTypeOK
<1>5. [q \in Requests |-> Stage(q)]' = [q \in Requests |-> Stage(q)']
      /\ [q \in Requests |-> Spent(q)]' = [q \in Requests |-> Spent(q)']
      /\ [q \in Requests |-> Calls(q)]' = [q \in Requests |-> Calls(q)']
  OBVIOUS
<1> QED
  BY <1>1, <1>2, <1>3, <1>4, <1>5

LEMMA AbstractStep ==
    ASSUME LocalsTypeOK, LocalsTypeOK', NEW p \in Requests, OthersIdle(p),
           \/ Same(p) \/ Starts(p) \/ Takes(p) \/ CallsOnce(p)
           \/ StreamsOne(p) \/ GivesUp(p) \/ Ends(p)
    PROVE  [Protocol!Next]_(Protocol!vars)
<1> DEFINE stages == [q \in Requests |-> Stage(q)]
           spents == [q \in Requests |-> Spent(q)]
           callss == [q \in Requests |-> Calls(q)]
<1>1. /\ stages' = [stages EXCEPT ![p] = Stage(p)']
      /\ spents' = [spents EXCEPT ![p] = Spent(p)']
      /\ callss' = [callss EXCEPT ![p] = Calls(p)']
      /\ cred' = [cred EXCEPT ![p] = cred'[p]]
      /\ emitted' = [emitted EXCEPT ![p] = emitted'[p]]
  BY MappingMoves
<1>2. /\ stages[p] = Stage(p) /\ spents[p] = Spent(p) /\ callss[p] = Calls(p)
      /\ stages = [q \in Requests |-> stages[q]]
      /\ spents = [q \in Requests |-> spents[q]]
      /\ callss = [q \in Requests |-> callss[q]]
      /\ cred = [q \in Requests |-> cred[q]]
      /\ emitted = [q \in Requests |-> emitted[q]]
  BY DEF LocalsTypeOK
<1> HIDE DEF stages, spents, callss
<1>3. CASE Same(p)
  <2>1. UNCHANGED <<stages, cred, spents, callss, emitted>>
    <3>1. /\ stages' = [stages EXCEPT ![p] = stages[p]] /\ cred' = [cred EXCEPT ![p] = cred[p]]
          /\ spents' = [spents EXCEPT ![p] = spents[p]]
          /\ callss' = [callss EXCEPT ![p] = callss[p]]
          /\ emitted' = [emitted EXCEPT ![p] = emitted[p]]
      BY <1>1, <1>2, <1>3 DEF Same
    <3> QED BY <1>2, <3>1
  <2> QED
    BY <2>1 DEF stages, spents, callss, Protocol!vars
<1>4. CASE Starts(p)
  <2>1. /\ stages[p] = "new" /\ stages' = [stages EXCEPT ![p] = "seeking"]
        /\ UNCHANGED <<cred, spents, callss, emitted>>
    BY <1>1, <1>2, <1>4 DEF Starts
  <2>2. Protocol!Start(p)
    BY <2>1 DEF stages, spents, callss, Protocol!Start
  <2> QED BY <2>2 DEF Protocol!Next
<1>5. CASE Takes(p)
  <2>1. /\ stages[p] = "seeking" /\ stages' = [stages EXCEPT ![p] = "using"]
        /\ ~emitted[p] /\ cred'[p] \in Creds \ spents[p]
        /\ cred' = [cred EXCEPT ![p] = cred'[p]]
        /\ spents' = [spents EXCEPT ![p] = spents[p] \union {cred'[p]}]
        /\ UNCHANGED <<callss, emitted>>
    BY <1>1, <1>2, <1>5 DEF Takes
  <2>2. \E c \in Creds \ spents[p] :
           /\ cred' = [cred EXCEPT ![p] = c]
           /\ spents' = [spents EXCEPT ![p] = spents[p] \union {c}]
    BY <2>1
  <2>3. Protocol!Take(p)
    BY <2>1, <2>2 DEF stages, spents, callss, Protocol!Take
  <2> QED BY <2>3 DEF Protocol!Next
<1>6. CASE CallsOnce(p)
  <2>1. /\ stages[p] = "using" /\ callss[p] < MaxAttempts
        /\ callss' = [callss EXCEPT ![p] = callss[p] + 1]
        /\ UNCHANGED <<stages, cred, spents, emitted>>
    BY <1>1, <1>2, <1>6 DEF CallsOnce
  <2>2. Protocol!Call(p)
    BY <2>1 DEF stages, spents, callss, Protocol!Call
  <2> QED BY <2>2 DEF Protocol!Next
<1>7. CASE StreamsOne(p)
  <2>1. /\ stages[p] = "using" /\ p \in Streams /\ callss[p] > 0
        /\ emitted' = [emitted EXCEPT ![p] = TRUE]
        /\ UNCHANGED <<stages, cred, spents, callss>>
    <3>1. emitted' = [emitted EXCEPT ![p] = TRUE]
      BY <1>1, <1>7, Zenon DEF StreamsOne
    <3>2. stages[p] = "using" /\ p \in Streams /\ callss[p] > 0
      BY <1>2, <1>7 DEF StreamsOne
    <3>3. UNCHANGED <<stages, cred, spents, callss>>
      <4>1. /\ Stage(p)' = Stage(p) /\ cred'[p] = cred[p]
            /\ Spent(p)' = Spent(p) /\ Calls(p)' = Calls(p)
        BY <1>7, Zenon DEF StreamsOne
      <4> QED
        BY <1>1, <1>2, <4>1
    <3> QED
      BY <3>1, <3>2, <3>3
  <2>2. Protocol!Stream(p)
    BY <2>1 DEF stages, spents, callss, Protocol!Stream
  <2> QED BY <2>2 DEF Protocol!Next
<1>8. CASE GivesUp(p)
  <2>1. /\ stages[p] = "using" /\ ~emitted[p]
        /\ stages' = [stages EXCEPT ![p] = "seeking"]
        /\ cred' = [cred EXCEPT ![p] = 0]
        /\ UNCHANGED <<spents, callss, emitted>>
    BY <1>1, <1>2, <1>8 DEF GivesUp
  <2>2. Protocol!GiveUp(p)
    BY <2>1 DEF stages, spents, callss, Protocol!GiveUp
  <2> QED BY <2>2 DEF Protocol!Next
<1>9. CASE Ends(p)
  <2>1. /\ stages[p] # "ended"
        /\ stages' = [stages EXCEPT ![p] = "ended"]
        /\ cred' = [cred EXCEPT ![p] = 0]
        /\ spents' = [spents EXCEPT ![p] = {}]
        /\ callss' = [callss EXCEPT ![p] = 0]
        /\ emitted' = [emitted EXCEPT ![p] = FALSE]
    BY <1>1, <1>2, <1>9 DEF Ends
  <2>2. Protocol!End(p)
    BY <2>1 DEF stages, spents, callss, Protocol!End
  <2> QED BY <2>2 DEF Protocol!Next
<1> QED
  BY <1>3, <1>4, <1>5, <1>6, <1>7, <1>8, <1>9

(* What the mapping says of a request in each phase.                       *)
LEMMA StageOf ==
    ASSUME LocalsTypeOK, NEW p \in Requests
    PROVE  /\ Stage(p) = "new" <=> pc[p] = "idle"
           /\ Stage(p) = "seeking" <=> pc[p] = "acquire"
           /\ Stage(p) = "ended" <=> pc[p] = "done"
           /\ Stage(p) = "using" <=> pc[p] \notin {"idle", "acquire", "done"}
  BY DEF Stage, LocalsTypeOK

LEMMA FinishEnds ==
    ASSUME LocalsTypeOK, NEW p \in Requests, NEW result, NEW record,
           Finish(p, result, record), pc[p] # "done"
    PROVE  Ends(p)
<1>1. /\ pc'[p] = "done" /\ cred'[p] = 0 /\ tried'[p] = {}
      /\ emitted'[p] = FALSE
  BY DEF Finish, LocalsTypeOK
<1>2. Stage(p)' = "ended" /\ Spent(p)' = {} /\ Calls(p)' = 0
  BY <1>1 DEF Stage, Spent, Calls
<1>3. Stage(p) # "ended"
  BY DEF Stage
<1> QED
  BY <1>1, <1>2, <1>3, Zenon DEF Ends

(* A step that stays with its credential, on the same side of the call.    *)
LEMMA SameSide ==
    ASSUME LocalsTypeOK, NEW p \in Requests,
           pc[p] \notin {"idle", "acquire", "done"},
           pc'[p] \notin {"idle", "acquire", "done"},
           BeforeCall(p)' <=> BeforeCall(p),
           cred'[p] = cred[p], tried'[p] = tried[p],
           attempts'[p] = attempts[p], emitted'[p] = emitted[p]
    PROVE  Same(p)
  BY DEF Same, Stage, Spent, Calls

LEMMA AcceptCalls ==
    ASSUME IInv, NEW p \in Requests, StoryAt(p), Accept(p),
           pc[p] \in {"auth", "rotate"}, UNCHANGED <<cred, attempts, emitted, why>>
    PROVE  CallsOnce(p)
<1>0. LocalsTypeOK /\ ControlOK
  BY DEF IInv, TypeOK
<1>1. /\ pc'[p] = "call" /\ tried'[p] = tried[p] \union {cred[p]}
      /\ why[p] = "none" /\ why'[p] = "none"
      /\ cred[p] # 0 /\ cred'[p] = cred[p]
      /\ attempts'[p] = attempts[p] /\ emitted'[p] = emitted[p]
  BY <1>0 DEF Accept, Goto, LocalsTypeOK, ControlOK
<1>2. attempts[p] \in 1..MaxAttempts /\ MaxAttempts \in Nat
  BY RequestsAssumption DEF StoryAt, AttemptsOK, Active
<1>3. Calls(p) = attempts[p] - 1 /\ Calls(p)' = attempts[p]
  BY <1>1 DEF Calls, BeforeCall
<1>4. Spent(p)' = Spent(p)
  BY <1>1 DEF Spent
<1>5. Stage(p) = "using" /\ Stage(p)' = "using"
  BY <1>1 DEF Stage
<1>6. Calls(p) < MaxAttempts /\ Calls(p)' = Calls(p) + 1
  BY <1>2, <1>3
<1> QED
  BY <1>1, <1>4, <1>5, <1>6, Zenon DEF CallsOnce

LEMMA AfterMarkMaps ==
    ASSUME IInv, NEW p \in Requests, AfterMark(p), pc[p] \in {"read", "write"}
    PROVE  Same(p) \/ Ends(p)
<1>0. LocalsTypeOK
  BY DEF IInv, TypeOK
<1>1. CASE why[p] = "decrypt"
  BY <1>0, <1>1, FinishEnds DEF AfterMark, FinishExhausted
<1>2. CASE why[p] # "decrypt"
  <2>1. /\ pc'[p] = "release" /\ why'[p] = why[p] /\ cred'[p] = cred[p]
        /\ tried'[p] = tried[p] /\ attempts'[p] = attempts[p]
        /\ emitted'[p] = emitted[p]
    BY <1>0, <1>2 DEF AfterMark, Goto, LocalsTypeOK
  <2>2. BeforeCall(p)' <=> BeforeCall(p)
    BY <2>1 DEF BeforeCall
  <2> QED
    BY <1>0, <2>1, <2>2, SameSide
<1> QED
  BY <1>1, <1>2

LEMMA StepMaps ==
    ASSUME IInv, NEW p \in Requests, StoryAt(p),
           Arrive(p) \/ RejectUnknown(p) \/ RequestStep(p) \/ Disconnect(p)
    PROVE  \/ Same(p) \/ Starts(p) \/ Takes(p) \/ CallsOnce(p)
           \/ StreamsOne(p) \/ GivesUp(p) \/ Ends(p)
<1>0. PoolTypeOK /\ LocalsTypeOK /\ ControlOK
  BY DEF IInv, TypeOK
<1>1. CASE Arrive(p)
  <2>1. /\ pc[p] = "idle" /\ pc'[p] = "acquire" /\ attempts'[p] = 1
        /\ cred'[p] = cred[p] /\ tried'[p] = tried[p] /\ emitted'[p] = emitted[p]
    BY <1>0, <1>1 DEF Arrive, Goto, LocalsTypeOK
  <2>2. Calls(p)' = Calls(p)
    BY <2>1 DEF Calls, BeforeCall
  <2> QED
    BY <2>1, <2>2 DEF Starts, Stage, Spent
<1>1a. CASE RejectUnknown(p)
  BY <1>0, <1>1a, FinishEnds DEF RejectUnknown
<1>2. CASE Acquire(p)
  <2>1. PICK s \in Strategies :
           /\ Lease(Usable(p), s)
           /\ cred' = [cred EXCEPT ![p] = Pick(Usable(p), s)]
    BY <1>2 DEF Acquire
  <2>2. Usable(p) \in SUBSET Creds /\ Usable(p) # {}
    BY <1>0, <1>2, UsableType DEF Acquire
  <2>3. Pick(Usable(p), s) \in Usable(p)
    BY <1>0, <2>1, <2>2, LeaseType
  <2>4. /\ pc[p] = "acquire" /\ pc'[p] = "commit"
        /\ cred[p] = 0 /\ cred'[p] \in Creds \ tried[p] /\ cred'[p] # 0
        /\ tried'[p] = tried[p] /\ attempts'[p] = attempts[p]
        /\ emitted'[p] = emitted[p]
    BY <1>0, <1>2, <2>1, <2>2, <2>3, CredsAssumption
    DEF Acquire, Goto, LocalsTypeOK, ControlOK, Usable
  <2>5. ~emitted[p]
    BY <2>4 DEF StoryAt, EmittedOK, BeforeCall
  <2>6. Spent(p) = tried[p] /\ Spent(p)' = tried[p] \union {cred'[p]}
    BY <2>4 DEF Spent
  <2>7. Calls(p)' = Calls(p)
    BY <2>4 DEF Calls, BeforeCall
  <2> QED
    BY <2>4, <2>5, <2>6, <2>7 DEF Takes, Stage
<1>3. CASE AcquireNone(p)
  BY <1>0, <1>3, FinishEnds DEF AcquireNone, FinishExhausted
<1>4. CASE Commit(p)
  <2>1. /\ pc[p] = "commit" /\ cred'[p] = cred[p] /\ tried'[p] = tried[p]
        /\ attempts'[p] = attempts[p] /\ emitted'[p] = emitted[p]
    BY <1>4 DEF Commit
  <2>2. CASE seen[p].readable
    <3>1. pc'[p] = "auth"
      BY <1>0, <1>4, <2>2 DEF Commit, Goto, LocalsTypeOK
    <3> QED
      BY <1>0, <2>1, <3>1, SameSide DEF BeforeCall
  <2>3. CASE ~seen[p].readable
    <3>1. pc'[p] = "release" /\ why'[p] = "decrypt"
      BY <1>0, <1>4, <2>3 DEF Commit, Goto, LocalsTypeOK
    <3> QED
      BY <1>0, <2>1, <3>1, SameSide DEF BeforeCall
  <2> QED
    BY <2>2, <2>3
<1>5. CASE CommitLost(p)
  BY <1>0, <1>5, FinishEnds DEF CommitLost
<1>6. CASE AuthenticateOk(p)
  BY <1>6, AcceptCalls DEF AuthenticateOk
<1>7. CASE AuthenticateRotated(p)
  <2>1. /\ pc[p] = "auth" /\ pc'[p] = "rotate" /\ cred'[p] = cred[p]
        /\ tried'[p] = tried[p] /\ attempts'[p] = attempts[p]
        /\ emitted'[p] = emitted[p]
    BY <1>0, <1>7 DEF AuthenticateRotated, Goto, LocalsTypeOK
  <2> QED
    BY <1>0, <2>1, SameSide DEF BeforeCall
<1>8. CASE PersistRotation(p)
  BY <1>8, AcceptCalls DEF PersistRotation
<1>9. CASE AuthenticateRejected(p)
  <2>1. /\ pc[p] = "auth" /\ pc'[p] = "read" /\ why'[p] = "auth"
        /\ cred'[p] = cred[p] /\ tried'[p] = tried[p]
        /\ attempts'[p] = attempts[p] /\ emitted'[p] = emitted[p]
    BY <1>0, <1>9 DEF AuthenticateRejected, Goto, LocalsTypeOK
  <2> QED
    BY <1>0, <2>1, SameSide DEF BeforeCall
<1>10. CASE Deliver(p)
  <2>1. /\ pc[p] = "call" /\ why[p] = "none" /\ p \in Streams
        /\ emitted'[p] = TRUE
        /\ UNCHANGED <<pc, cred, tried, attempts, why>>
    BY <1>0, <1>10 DEF Deliver, LocalsTypeOK, ControlOK
  <2>2. attempts[p] \in Nat \ {0}
    BY <2>1, RequestsAssumption DEF StoryAt, AttemptsOK, Active
  <2>3. Calls(p) = attempts[p] /\ Calls(p)' = Calls(p) /\ Spent(p)' = Spent(p)
        /\ Stage(p) = "using" /\ Stage(p)' = "using"
    BY <2>1 DEF Calls, BeforeCall, Spent, Stage
  <2>4. Calls(p) > 0
    BY <2>2, <2>3
  <2> QED
    BY <2>1, <2>3, <2>4, Zenon DEF StreamsOne
<1>11. CASE Answer(p)
  <2>1. /\ pc[p] = "call" /\ pc'[p] = "succeed" /\ why[p] = "none"
        /\ why'[p] = "none" /\ cred'[p] = cred[p] /\ tried'[p] = tried[p]
        /\ attempts'[p] = attempts[p] /\ emitted'[p] = emitted[p]
    BY <1>0, <1>11 DEF Answer, Goto, LocalsTypeOK, ControlOK
  <2> QED
    BY <1>0, <2>1, SameSide DEF BeforeCall
<1>12. CASE Fail(p)
  <2>1. /\ pc[p] = "call" /\ pc'[p] = "read" /\ why[p] = "none"
        /\ why'[p] = "call" /\ cred'[p] = cred[p] /\ tried'[p] = tried[p]
        /\ attempts'[p] = attempts[p] /\ emitted'[p] = emitted[p]
    BY <1>0, <1>12 DEF Fail, Goto, LocalsTypeOK, ControlOK
  <2> QED
    BY <1>0, <2>1, SameSide DEF BeforeCall
<1>13. CASE ReportSuccess(p)
  <2>1. /\ pc[p] = "succeed" /\ pc'[p] = "release" /\ why'[p] = why[p]
        /\ cred'[p] = cred[p] /\ tried'[p] = tried[p]
        /\ attempts'[p] = attempts[p] /\ emitted'[p] = emitted[p]
    BY <1>0, <1>13 DEF ReportSuccess, Goto, LocalsTypeOK
  <2> QED
    BY <1>0, <2>1, SameSide DEF BeforeCall
<1>14. CASE ReadRow(p)
  <2>1. /\ pc[p] = "read" /\ pc'[p] = "write" /\ why'[p] = why[p]
        /\ cred'[p] = cred[p] /\ tried'[p] = tried[p]
        /\ attempts'[p] = attempts[p] /\ emitted'[p] = emitted[p]
    BY <1>0, <1>14 DEF ReadRow, Goto, LocalsTypeOK
  <2> QED
    BY <1>0, <2>1, SameSide DEF BeforeCall
<1>15. CASE ReadNothing(p) \/ WriteRow(p)
  BY <1>15, AfterMarkMaps DEF ReadNothing, WriteRow
<1>16. CASE WriteLost(p)
  <2>1. CASE why[p] = "call"
    <3>1. /\ pc[p] = "write" /\ pc'[p] = "release" /\ why'[p] = why[p]
          /\ cred'[p] = cred[p] /\ tried'[p] = tried[p]
          /\ attempts'[p] = attempts[p] /\ emitted'[p] = emitted[p]
      BY <1>0, <1>16, <2>1 DEF WriteLost, Goto, LocalsTypeOK
    <3> QED
      BY <1>0, <3>1, SameSide DEF BeforeCall
  <2>2. CASE why[p] # "call"
    BY <1>0, <1>16, <2>2, FinishEnds DEF WriteLost
  <2> QED
    BY <2>1, <2>2
<1>17. CASE ReleaseAndEnd(p)
  BY <1>0, <1>17, FinishEnds DEF ReleaseAndEnd, Release
<1>18. CASE ReleaseAndRetry(p)
  <2>1. /\ pc[p] = "release" /\ pc'[p] = "acquire" /\ why[p] = "call"
        /\ cred'[p] = 0 /\ tried'[p] = tried[p]
        /\ attempts'[p] = attempts[p] + 1 /\ attempts[p] \in Nat
        /\ emitted'[p] = emitted[p] /\ ~emitted[p]
    BY <1>0, <1>18
    DEF ReleaseAndRetry, Release, Retries, TryAnother, Goto, LocalsTypeOK
  <2>2. cred[p] \in tried[p]
    BY <2>1 DEF StoryAt, TriedOK, Active, BeforeCall
  <2>3. Spent(p)' = Spent(p) /\ Calls(p)' = Calls(p)
    BY <2>1, <2>2 DEF Spent, Calls, BeforeCall
  <2> QED
    BY <2>1, <2>3 DEF GivesUp, Stage
<1>19. CASE ReleaseRejected(p)
  <2>1. /\ pc[p] = "release" /\ pc'[p] = "acquire" /\ why[p] = "auth"
        /\ cred'[p] = 0 /\ cred[p] # 0 /\ tried'[p] = tried[p] \union {cred[p]}
        /\ attempts'[p] = attempts[p] /\ emitted'[p] = emitted[p]
    BY <1>0, <1>19
    DEF ReleaseRejected, Release, TryAnother, Goto, LocalsTypeOK, ControlOK
  <2>2. ~emitted[p]
    BY <2>1 DEF StoryAt, EmittedOK, BeforeCall
  <2>3. Spent(p)' = Spent(p) /\ Calls(p)' = Calls(p)
    BY <2>1 DEF Spent, Calls, BeforeCall
  <2> QED
    BY <2>1, <2>2, <2>3 DEF GivesUp, Stage
<1>20. CASE ReleaseUnreadable(p)
  <2>1. /\ pc[p] = "release" /\ pc'[p] = "read" /\ why'[p] = why[p]
        /\ cred'[p] = cred[p] /\ tried'[p] = tried[p]
        /\ attempts'[p] = attempts[p] /\ emitted'[p] = emitted[p]
    BY <1>0, <1>20 DEF ReleaseUnreadable, Release, Goto, LocalsTypeOK
  <2> QED
    BY <1>0, <2>1, SameSide DEF BeforeCall
<1>21. CASE Disconnect(p)
  <2>1. CASE Finish(p, "disconnected", recorded[p])
    BY <1>0, <1>21, <2>1, FinishEnds DEF Disconnect
  <2>2. CASE ~Finish(p, "disconnected", recorded[p])
    <3>1. /\ InTry(p)
          /\ Goto(p, "release")
          /\ why' = [why EXCEPT ![p] = "disconnect"]
          /\ UNCHANGED <<cred, tried, attempts, emitted>>
      BY <1>21, <2>2 DEF Disconnect
    <3>2. /\ pc'[p] = "release" /\ why'[p] = "disconnect"
          /\ cred'[p] = cred[p] /\ tried'[p] = tried[p]
          /\ attempts'[p] = attempts[p] /\ emitted'[p] = emitted[p]
      BY <1>0, <3>1 DEF Goto, LocalsTypeOK
    <3>3. pc[p] \notin {"idle", "acquire", "done"} /\ ~BeforeCall(p)
      BY <1>0, <3>1 DEF InTry, BeforeCall, ControlOK
    <3> QED
      BY <1>0, <3>2, <3>3, SameSide DEF BeforeCall
  <2> QED
    BY <2>1, <2>2
<1> QED
  BY <1>1, <1>1a, <1>2, <1>3, <1>4, <1>5, <1>6, <1>7, <1>8, <1>9, <1>10, <1>11, <1>12,
     <1>13, <1>14, <1>15, <1>16, <1>17, <1>18, <1>19, <1>20, <1>21
  DEF RequestStep

LEMMA InitMaps == Init => Protocol!Init
<1> SUFFICES ASSUME Init PROVE Protocol!Init
  OBVIOUS
<1>1. \A p \in Requests : pc[p] = "idle" /\ cred[p] = 0 /\ tried[p] = {}
  BY DEF Init
<1>2. \A p \in Requests : Stage(p) = "new" /\ Spent(p) = {} /\ Calls(p) = 0
  BY <1>1 DEF Stage, Spent, Calls
<1> QED
  BY <1>2 DEF Init, Protocol!Init

LEMMA NextMaps == IInv /\ IInv' /\ StoryOK /\ [Next]_vars
                    => [Protocol!Next]_(Protocol!vars)
<1> SUFFICES ASSUME IInv, IInv', StoryOK, [Next]_vars
             PROVE  [Protocol!Next]_(Protocol!vars)
  OBVIOUS
<1>0. LocalsTypeOK /\ LocalsTypeOK'
  BY DEF IInv, TypeOK
<1>1. ASSUME NEW p \in Requests, Arrive(p) \/ RejectUnknown(p) \/ RequestStep(p) \/ Disconnect(p)
      PROVE  [Protocol!Next]_(Protocol!vars)
  BY <1>0, <1>1, StepIdle, StepMaps, AbstractStep DEF StoryOK
<1>2. ASSUME UNCHANGED requestVars
      PROVE  [Protocol!Next]_(Protocol!vars)
  BY <1>2 DEF requestVars, Protocol!vars, Stage, Spent, Calls, BeforeCall
<1> QED
  BY <1>1, <1>2 DEF Next, Operator, Clock, vars

(* Every request follows the abstract protocol, whatever the pool, the     *)
(* operator, the clock and the other requests do: the initial states map   *)
(* to its initial states and every step to one of its steps or a stutter   *)
(* (completion_service.py:57-108, 157-256, 285-350).                       *)
THEOREM ImplementsProtocol == Spec => FollowsProtocol
<1>1. Spec => []IInv
  BY InvariantHolds
<1> QED
  BY <1>1, StoryHolds, InitMaps, NextMaps, PTL
  DEF Spec, FollowsProtocol, Protocol!Spec
=============================================================================

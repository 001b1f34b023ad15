-------------------------- MODULE TokenRotationProofs --------------------------
(***************************************************************************)
(* Proofs about TokenRotation for every set of credentials and requests    *)
(* and any number of grants: no refresh token goes stale in the table.     *)
(*                                                                         *)
(* The argument is about refresh tokens only, and about who holds which:   *)
(* the rows, and the workers, which are the requests and the probe.  Good  *)
(* states it for six functions and sets in place of the variables, and one *)
(* lemma per kind of step shows that the step keeps it; the actions of the *)
(* requests, of the probe and of the operator are then such steps.         *)
(***************************************************************************)
EXTENDS TokenRotation, CredentialSchedulerProofs

Probe == CHOOSE w : w \notin Requests

Workers == Requests \union {Probe}

(* The refresh token R of each row; of each worker, the credential K it    *)
(* works with, the refresh token F it has in hand and the one S it has     *)
(* spent for that; the tokens A still accepted, L lost; the last grant M.  *)
GoodTypes(R, K, F, S, A, L, M) ==
    /\ R \in [Creds -> Nat]
    /\ K \in [Workers -> Creds \union {0}]
    /\ F \in [Workers -> Nat]
    /\ S \in [Workers -> Nat]
    /\ A \subseteq Nat \ {0}
    /\ M \in Nat

(* No token is from the future.                                            *)
Granted(R, F, S, A, M) ==
    /\ \A g \in A : g <= M
    /\ \A c \in Creds : R[c] <= M
    /\ \A w \in Workers : F[w] <= M /\ S[w] <= M

(* A row's token is in no other row and with no worker of another row.     *)
Owned(R, K, F, S) ==
    \A c \in Creds : R[c] # 0 =>
       /\ \A d \in Creds : R[d] = R[c] => d = c
       /\ \A w \in Workers : R[c] \in {F[w], S[w]} => K[w] = c

(* The successor of a spent token is accepted, and nobody else has it yet. *)
Undelivered(R, K, F, S, A) ==
    \A w \in Workers : S[w] # 0 =>
       /\ K[w] # 0
       /\ S[w] \notin A
       /\ F[w] \in A
       /\ \A c \in Creds : R[c] # F[w]
       /\ \A v \in Workers : F[v] = F[w] => v = w

(* RefreshTokenIsKept.                                                     *)
Kept(R, S, A, L) ==
    \A c \in Creds : \/ R[c] \in {0} \union A \union L
                     \/ \E w \in Workers : R[c] = S[w]

Good(R, K, F, S, A, L, M) ==
    /\ GoodTypes(R, K, F, S, A, L, M)
    /\ Granted(R, F, S, A, M)
    /\ Owned(R, K, F, S)
    /\ Undelivered(R, K, F, S, A)
    /\ Kept(R, S, A, L)

-----------------------------------------------------------------------------
(* A worker takes the token of a row in hand.                              *)
LEMMA TakeIsGood ==
    ASSUME NEW R, NEW K, NEW F, NEW S, NEW A, NEW L, NEW M,
           Good(R, K, F, S, A, L, M),
           NEW w \in Workers, S[w] = 0, NEW c \in Creds
    PROVE  Good(R, [K EXCEPT ![w] = c], [F EXCEPT ![w] = R[c]], S, A, L, M)
  <1>. DEFINE K2 == [K EXCEPT ![w] = c]
              F2 == [F EXCEPT ![w] = R[c]]
  <1>1. /\ K2 \in [Workers -> Creds \union {0}] /\ F2 \in [Workers -> Nat]
        /\ \A v \in Workers : /\ K2[v] = IF v = w THEN c ELSE K[v]
                              /\ F2[v] = IF v = w THEN R[c] ELSE F[v]
    BY DEF Good, GoodTypes
  <1>. HIDE DEF K2, F2
  <1>. USE DEF Good, GoodTypes
  <1>2. Granted(R, F2, S, A, M)
    BY <1>1 DEF Granted
  <1>3. Owned(R, K2, F2, S)
    BY <1>1 DEF Owned
  <1>4. Undelivered(R, K2, F2, S, A)
    BY <1>1, CredsAssumption DEF Undelivered
  <1>. QED BY <1>1, <1>2, <1>3, <1>4 DEF K2, F2

(* A worker spends the token in hand for its successor.                    *)
LEMMA SpendIsGood ==
    ASSUME NEW R, NEW K, NEW F, NEW S, NEW A, NEW L, NEW M,
           Good(R, K, F, S, A, L, M),
           NEW w \in Workers, S[w] = 0, K[w] # 0, F[w] \in A
    PROVE  Good(R, K, [F EXCEPT ![w] = M + 1], [S EXCEPT ![w] = F[w]],
                (A \ {F[w]}) \union {M + 1}, L, M + 1)
  <1>. DEFINE F2 == [F EXCEPT ![w] = M + 1]
              S2 == [S EXCEPT ![w] = F[w]]
              A2 == (A \ {F[w]}) \union {M + 1}
  <1>1. /\ F2 \in [Workers -> Nat] /\ S2 \in [Workers -> Nat]
        /\ \A v \in Workers : /\ F2[v] = IF v = w THEN M + 1 ELSE F[v]
                              /\ S2[v] = IF v = w THEN F[w] ELSE S[v]
        /\ M + 1 \in Nat
    BY DEF Good, GoodTypes
  <1>2. A2 \subseteq Nat \ {0} /\ M + 1 \in A2 /\ F[w] \in Nat
    <2>1. A \subseteq Nat \ {0} /\ M \in Nat /\ F[w] \in Nat
      BY DEF Good, GoodTypes
    <2>2. M + 1 \in Nat \ {0}
      BY <2>1
    <2>. QED BY <2>1, <2>2
  <1>3. \A g \in Nat : g \in A2 <=> g = M + 1 \/ (g \in A /\ g # F[w])
    OBVIOUS
  <1>. HIDE DEF F2, S2, A2
  <1>. USE DEF Good, GoodTypes
  <1>4. Granted(R, F2, S2, A2, M + 1)
    BY <1>1, <1>2, <1>3 DEF Granted
  <1>5. Owned(R, K, F2, S2)
    BY <1>1, <1>2, <1>3 DEF Owned, Granted
  <1>6. Undelivered(R, K, F2, S2, A2)
    <2>. SUFFICES ASSUME NEW v \in Workers, S2[v] # 0
                  PROVE  /\ K[v] # 0 /\ S2[v] \notin A2 /\ F2[v] \in A2
                         /\ \A c \in Creds : R[c] # F2[v]
                         /\ \A u \in Workers : F2[u] = F2[v] => u = v
      BY DEF Undelivered
    <2>1. CASE v = w
      BY <1>1, <1>2, <1>3, <2>1 DEF Granted
    <2>2. CASE v # w
      BY <1>1, <1>2, <1>3, <2>2 DEF Granted, Undelivered
    <2>. QED BY <2>1, <2>2
  <1>7. Kept(R, S2, A2, L)
    BY <1>1, <1>2, <1>3 DEF Kept
  <1>. QED BY <1>1, <1>2, <1>4, <1>5, <1>6, <1>7 DEF F2, S2, A2

(* A grant that leaves the refresh tokens as they are.                     *)
LEMMA GrantIsGood ==
    ASSUME NEW R, NEW K, NEW F, NEW S, NEW A, NEW L, NEW M,
           Good(R, K, F, S, A, L, M)
    PROVE  Good(R, K, F, S, A, L, M + 1)
  BY DEF Good, GoodTypes, Granted

(* The successor of the token in hand is lost on the way back.             *)
LEMMA LossIsGood ==
    ASSUME NEW R, NEW K, NEW F, NEW S, NEW A, NEW L, NEW M,
           Good(R, K, F, S, A, L, M),
           NEW w \in Workers, S[w] = 0
    PROVE  Good(R, K, F, S, A \ {F[w]}, L \union {F[w]}, M)
  <1>. USE DEF Good, GoodTypes
  <1>1. Granted(R, F, S, A \ {F[w]}, M)
    BY DEF Granted
  <1>2. Undelivered(R, K, F, S, A \ {F[w]})
    BY DEF Undelivered
  <1>3. Kept(R, S, A \ {F[w]}, L \union {F[w]})
    BY DEF Kept
  <1>. QED BY <1>1, <1>2, <1>3

(* Workers drop what they hold, and what they have not stored is lost.     *)
LEMMA DropIsGood ==
    ASSUME NEW R, NEW K, NEW F, NEW S, NEW A, NEW L, NEW M,
           Good(R, K, F, S, A, L, M),
           NEW W \in SUBSET Workers
    PROVE  Good(R, [w \in Workers |-> IF w \in W THEN 0 ELSE K[w]],
                [w \in Workers |-> IF w \in W THEN 0 ELSE F[w]],
                [w \in Workers |-> IF w \in W THEN 0 ELSE S[w]],
                A, L \union ({S[w] : w \in W} \ {0}), M)
  <1>. DEFINE K2 == [w \in Workers |-> IF w \in W THEN 0 ELSE K[w]]
              F2 == [w \in Workers |-> IF w \in W THEN 0 ELSE F[w]]
              S2 == [w \in Workers |-> IF w \in W THEN 0 ELSE S[w]]
              L2 == L \union ({S[w] : w \in W} \ {0})
  <1>1. /\ K2 \in [Workers -> Creds \union {0}] /\ F2 \in [Workers -> Nat]
        /\ S2 \in [Workers -> Nat]
        /\ \A v \in Workers : /\ K2[v] = IF v \in W THEN 0 ELSE K[v]
                              /\ F2[v] = IF v \in W THEN 0 ELSE F[v]
                              /\ S2[v] = IF v \in W THEN 0 ELSE S[v]
    BY DEF Good, GoodTypes
  <1>2. L \subseteq L2 /\ \A w \in W : S[w] # 0 => S[w] \in L2
    OBVIOUS
  <1>. HIDE DEF K2, F2, S2, L2
  <1>. USE DEF Good, GoodTypes
  <1>3. Granted(R, F2, S2, A, M)
    BY <1>1 DEF Granted
  <1>4. Owned(R, K2, F2, S2)
    BY <1>1 DEF Owned
  <1>5. Undelivered(R, K2, F2, S2, A)
    BY <1>1 DEF Undelivered
  <1>6. Kept(R, S2, A, L2)
    BY <1>1, <1>2 DEF Kept
  <1>. QED BY <1>1, <1>3, <1>4, <1>5, <1>6 DEF K2, F2, S2, L2

(* A worker stores the successor of the token it has spent, if it has, and *)
(* is done.                                                                *)
LEMMA StoreIsGood ==
    ASSUME NEW R, NEW K, NEW F, NEW S, NEW A, NEW L, NEW M,
           Good(R, K, F, S, A, L, M),
           NEW w \in Workers, NEW c \in Creds, K[w] = c
    PROVE  Good([R EXCEPT ![c] = IF S[w] # 0 THEN F[w] ELSE R[c]],
                [K EXCEPT ![w] = 0], [F EXCEPT ![w] = 0], [S EXCEPT ![w] = 0],
                A, L, M)
  <1>. DEFINE R2 == [R EXCEPT ![c] = IF S[w] # 0 THEN F[w] ELSE R[c]]
              K2 == [K EXCEPT ![w] = 0]
              F2 == [F EXCEPT ![w] = 0]
              S2 == [S EXCEPT ![w] = 0]
  <1>1. /\ R2 \in [Creds -> Nat] /\ K2 \in [Workers -> Creds \union {0}]
        /\ F2 \in [Workers -> Nat] /\ S2 \in [Workers -> Nat]
        /\ \A d \in Creds : R2[d] = IF d = c /\ S[w] # 0 THEN F[w] ELSE R[d]
        /\ \A v \in Workers : /\ K2[v] = IF v = w THEN 0 ELSE K[v]
                              /\ F2[v] = IF v = w THEN 0 ELSE F[v]
                              /\ S2[v] = IF v = w THEN 0 ELSE S[v]
    BY DEF Good, GoodTypes
  <1>. HIDE DEF R2, K2, F2, S2
  <1>. USE DEF Good, GoodTypes
  <1>2. Granted(R2, F2, S2, A, M)
    BY <1>1 DEF Granted
  <1>3. Owned(R2, K2, F2, S2)
    <2>1. CASE S[w] = 0
      BY <1>1, <2>1 DEF Owned
    <2>2. CASE S[w] # 0
      <3>1. F[w] \in A /\ (\A d \in Creds : R[d] # F[w])
              /\ \A v \in Workers : (F[v] = F[w] => v = w) /\ S[v] # F[w]
        BY <2>2 DEF Undelivered
      <3>. QED BY <1>1, <2>2, <3>1 DEF Owned
    <2>. QED BY <2>1, <2>2
  <1>4. Undelivered(R2, K2, F2, S2, A)
    BY <1>1 DEF Undelivered
  <1>5. Kept(R2, S2, A, L)
    <2>. SUFFICES ASSUME NEW d \in Creds
                  PROVE  \/ R2[d] \in {0} \union A \union L
                         \/ \E v \in Workers : R2[d] = S2[v]
      BY DEF Kept
    <2>1. CASE d = c /\ S[w] # 0
      BY <1>1, <2>1 DEF Undelivered
    <2>2. CASE ~(d = c /\ S[w] # 0)
      <3>1. R2[d] = R[d]
        BY <1>1, <2>2
      <3>2. R[d] = S[w] => R[d] = 0
        BY <2>2 DEF Owned
      <3>. QED BY <1>1, <3>1, <3>2 DEF Kept
    <2>. QED BY <2>1, <2>2
  <1>. QED BY <1>1, <1>2, <1>3, <1>4, <1>5 DEF R2, K2, F2, S2

(* The operator types a new refresh token.                                 *)
LEMMA TypeIsGood ==
    ASSUME NEW R, NEW K, NEW F, NEW S, NEW A, NEW L, NEW M,
           Good(R, K, F, S, A, L, M), NEW c \in Creds
    PROVE  Good([R EXCEPT ![c] = M + 1], K, F, S, A \union {M + 1}, L, M + 1)
  <1>. DEFINE R2 == [R EXCEPT ![c] = M + 1]
  <1>1. /\ R2 \in [Creds -> Nat] /\ M + 1 \in Nat
        /\ \A d \in Creds : R2[d] = IF d = c THEN M + 1 ELSE R[d]
    BY DEF Good, GoodTypes
  <1>. HIDE DEF R2
  <1>. USE DEF Good, GoodTypes
  <1>2. Granted(R2, F, S, A \union {M + 1}, M + 1)
    BY <1>1 DEF Granted
  <1>3. Owned(R2, K, F, S)
    BY <1>1 DEF Owned, Granted
  <1>4. Undelivered(R2, K, F, S, A \union {M + 1})
    BY <1>1 DEF Undelivered, Granted
  <1>5. Kept(R2, S, A \union {M + 1}, L)
    BY <1>1 DEF Kept
  <1>. QED BY <1>1, <1>2, <1>3, <1>4, <1>5 DEF R2

-----------------------------------------------------------------------------
(* Types.  Where a worker stands tells whether it has a credential and     *)
(* whether it has spent a token.                                           *)
PhasesOK ==
    /\ \A p \in Requests : /\ at[p] # "idle" => cred[p] \in Creds
                           /\ at[p] # "rotate" => hand[p].spent = 0
    /\ probe.at # "idle" => probe.cred \in Creds
    /\ probe.at \notin {"health", "store"} => probe.hand.spent = 0

TypesInv == TypeOK /\ PhasesOK

LEMMA Grants ==
    /\ MaxGrants \in Nat /\ Lifetime \in Nat /\ RefreshWindow \in Nat
    /\ Cardinality(Creds) \in 0 .. MaxGrants
    /\ Failures \subseteq Categories
  BY VaultsAssumption, CredsAssumption, FS_CardinalityType

LEMMA NoHandTyped == NoHand \in Hands /\ NoHand.spent = 0 /\ NoHand.refresh = 0
  BY Grants DEF NoHand, NoToken, Hands, Tokens

LEMMA IdleProbeTyped ==
    /\ IdleProbe \in [at : ProbePhases, cred : Creds \union {0}, seen : Rows,
                       hand : Hands, healthy : BOOLEAN]
    /\ IdleProbe.at = "idle" /\ IdleProbe.cred = 0 /\ IdleProbe.hand = NoHand
  BY NoHandTyped, FreshRowType DEF IdleProbe, ProbePhases

LEMMA HandOfTyped ==
    ASSUME NEW v \in Vaults
    PROVE  /\ HandOf(v) \in Hands
           /\ HandOf(v).spent = 0
           /\ HandOf(v).refresh = v.refresh
  BY Grants DEF HandOf, Hands, Vaults

LEMMA RotatedTyped ==
    ASSUME NEW v \in Vaults, NEW h \in Hands
    PROVE  /\ Rotated(v, h) \in Vaults
           /\ Rotated(v, h).refresh = IF h.spent # 0 THEN h.refresh ELSE v.refresh
  BY DEF Rotated, Vaults, Hands

(* The answer of the authorization server keeps the refresh token or has   *)
(* its successor.                                                          *)
LEMMA AnswersTyped ==
    ASSUME NEW h \in Hands, minted \in Nat, minted < MaxGrants, now \in Nat,
           NEW h2 \in Answers(h)
    PROVE  /\ h2 \in Hands
           /\ \/ h2.spent = h.spent /\ h2.refresh = h.refresh
              \/ h2.spent = h.refresh /\ h2.refresh = minted + 1
  <1>1. PICK jwt \in Readable, kind \in Replies, told \in BOOLEAN :
          h2 = Answer(h, jwt, kind, told)
    BY DEF Answers
  <1>2. jwt \in BOOLEAN
    BY VaultsAssumption
  <1>3. minted + 1 \in 0 .. MaxGrants /\ now + Lifetime \in Nat
    BY Grants
  <1>4. [grant |-> minted + 1, expires |-> now + Lifetime, jwt |-> jwt] \in Tokens
    BY <1>2, <1>3 DEF Tokens
  <1>. QED BY <1>1, <1>3, <1>4 DEF Answer, Hands

LEMMA RenewedTyped ==
    ASSUME TypesInv, NEW h \in Hands, NEW h2, Renewed(h, h2)
    PROVE  /\ h2 \in Hands
           /\ accepted' \subseteq 1 .. MaxGrants
           /\ minted' \in 0 .. MaxGrants
           /\ lost' \subseteq 1 .. MaxGrants
  <1>1. minted \in Nat /\ minted < MaxGrants /\ now \in Nat
    BY Grants DEF Renewed, TypesInv, TypeOK, PoolTypeOK
  <1>2. /\ h2 \in Hands
        /\ h2.refresh \in {h.refresh, minted + 1}
    BY <1>1, AnswersTyped DEF Renewed
  <1>3. h.refresh \in 1 .. MaxGrants /\ minted + 1 \in 1 .. MaxGrants
    BY <1>1, Grants DEF Renewed, CanRefresh, Hands
  <1>4. accepted' \subseteq accepted \union {h2.refresh}
    BY DEF Renewed
  <1>5. h2.refresh \in 1 .. MaxGrants
    BY <1>2, <1>3
  <1>6. accepted \subseteq 1 .. MaxGrants /\ lost \subseteq 1 .. MaxGrants
    BY DEF TypesInv, TypeOK
  <1>7. minted' = minted + 1 /\ lost' = lost
    BY DEF Renewed
  <1>. QED BY <1>2, <1>3, <1>4, <1>5, <1>6, <1>7

LEMMA RefusedTyped ==
    ASSUME TypesInv, NEW h \in Hands, Refused(h)
    PROVE  /\ accepted' \subseteq 1 .. MaxGrants
           /\ minted' \in 0 .. MaxGrants
           /\ lost' \subseteq 1 .. MaxGrants
  BY Grants DEF Refused, CanRefresh, Hands, TypesInv, TypeOK

LEMMA TypesInit == Init => TypesInv
  <1>. SUFFICES ASSUME Init PROVE TypesInv
    OBVIOUS
  <1>1. PoolTypeOK
    BY RowsAssumption DEF Init, PoolTypeOK
  <1>2. vault \in [Creds -> Vaults]
    BY VaultsAssumption DEF Init
  <1>3. accepted \subseteq 1 .. MaxGrants
    BY <1>2, Grants DEF Init, Vaults
  <1>. QED BY <1>1, <1>2, <1>3, Grants, NoHandTyped, IdleProbeTyped
           DEF Init, TypesInv, TypeOK, PhasesOK

-----------------------------------------------------------------------------
(* The steps of a request.                                                 *)
LEMMA RequestTypes ==
    ASSUME TypesInv, NEW p \in Requests,
           \/ \E c \in Creds : Take(p, c)
           \/ Renew(p) \/ Keep(p) \/ Refuse(p) \/ Store(p) \/ Disconnect(p)
    PROVE  TypesInv'
  <1>1. at[p] = "rotate" => cred[p] \in Creds
    BY DEF TypesInv, PhasesOK
  <1>. USE DEF TypesInv, TypeOK, PhasesOK
  <1>2. TypesInv
    OBVIOUS
  <1>3. CASE \E c \in Creds : Take(p, c)
    <2>1. PICK c \in Creds : Take(p, c)
      BY <1>3
    <2>2. HandOf(vault[c]) \in Hands /\ HandOf(vault[c]).spent = 0
      BY HandOfTyped
    <2>. QED BY <2>1, <2>2 DEF Take, table, hotVars, server, PoolTypeOK
  <1>4. CASE Renew(p)
    <2>1. PICK h \in Answers(hand[p]) : Renewed(hand[p], h) /\ hand' = [hand EXCEPT ![p] = h]
      BY <1>4 DEF Renew
    <2>2. /\ h \in Hands
          /\ accepted' \subseteq 1 .. MaxGrants
          /\ minted' \in 0 .. MaxGrants
          /\ lost' \subseteq 1 .. MaxGrants
      BY <1>2, <2>1, RenewedTyped
    <2>. QED BY <1>4, <2>1, <2>2 DEF Renew, table, hotVars, PoolTypeOK
  <1>5. CASE Keep(p)
    BY <1>5, NoHandTyped DEF Keep, Valid, LeaveAcquire, table, hotVars, server, PoolTypeOK
  <1>6. CASE Refuse(p)
    <2>1. /\ accepted' \subseteq 1 .. MaxGrants
          /\ minted' \in 0 .. MaxGrants
          /\ lost' \subseteq 1 .. MaxGrants
      BY <1>2, <1>6, RefusedTyped DEF Refuse
    <2>. QED BY <1>6, <2>1, NoHandTyped DEF Refuse, LeaveAcquire, table, hotVars, PoolTypeOK
  <1>7. CASE Store(p)
    <2>. DEFINE c == cred[p]
                h == hand[p]
                due == IF h.due # 0 THEN h.due ELSE row[c].expires
    <2>1. c \in Creds /\ h \in Hands /\ due \in Nat
      <3>1. c \in Creds /\ h \in Hands /\ row[c] \in Rows
        <4>1. at[p] = "rotate"
          BY <1>7 DEF Store
        <4>2. c \in Creds
          BY <1>1, <4>1
        <4>3. h \in Hands
          OBVIOUS
        <4>4. row[c] \in Rows
          BY <4>2 DEF PoolTypeOK
        <4>. QED BY <4>2, <4>3, <4>4
      <3>. QED BY <3>1 DEF Hands, Rows
    <2>2. Rotated(vault[c], h) \in Vaults
      BY <2>1, RotatedTyped
    <2>3. [row[c] EXCEPT !.expires = due] \in Rows
      BY <2>1 DEF PoolTypeOK, Rows
    <2>4. /\ vault' = [vault EXCEPT ![c] = Rotated(vault[c], h)]
          /\ row' = [row EXCEPT ![c] = [row[c] EXCEPT !.expires = due]]
      BY <1>7, <2>1 DEF Store, PoolTypeOK
    <2>5. PoolTypeOK' /\ vault' \in [Creds -> Vaults]
      <3>1. UNCHANGED <<live, hotVars, now>>
        BY <1>7 DEF Store
      <3>. HIDE DEF c, h, due
      <3>. QED BY <2>1, <2>2, <2>3, <2>4, <3>1 DEF hotVars, PoolTypeOK
    <2>6. overtaken' \subseteq Creds
      BY <1>7, <2>1 DEF Store
    <2>. QED BY <1>7, <2>5, <2>6, NoHandTyped DEF Store, LeaveAcquire, server
  <1>8. CASE Disconnect(p)
    <2>1. lost' \subseteq 1 .. MaxGrants
      <3>1. hand[p].spent \in 0 .. MaxGrants
        BY DEF Hands
      <3>2. \A g \in lost' : g \in lost \/ (g = hand[p].spent /\ g # 0)
        BY <1>8 DEF Disconnect
      <3>3. lost \subseteq 1 .. MaxGrants
        OBVIOUS
      <3>4. hand[p].spent # 0 => hand[p].spent \in 1 .. MaxGrants
        BY <3>1, Grants
      <3>. QED BY <3>2, <3>3, <3>4
    <2>. QED BY <1>8, <2>1, NoHandTyped DEF Disconnect, LeaveAcquire, table, hotVars, PoolTypeOK
  <1>. QED BY <1>3, <1>4, <1>5, <1>6, <1>7, <1>8

(* The steps of the probe.                                                 *)
LEMMA ProbeTypes ==
    ASSUME TypesInv,
           \/ \E c \in Creds : ProbeRead(c)
           \/ ProbeAuthenticate \/ ProbeHealth \/ ProbeStore \/ ProbeReject
    PROVE  TypesInv'
  <1>. DEFINE Probes == [at : ProbePhases, cred : Creds \union {0}, seen : Rows,
                         hand : Hands, healthy : BOOLEAN]
  <1>. USE DEF TypesInv, TypeOK, PhasesOK
  <1>0. TypesInv
    OBVIOUS
  <1>1. CASE \E c \in Creds : ProbeRead(c)
    <2>1. PICK c \in Creds : ProbeRead(c)
      BY <1>1
    <2>2. HandOf(vault[c]) \in Hands /\ HandOf(vault[c]).spent = 0 /\ row[c] \in Rows
      BY HandOfTyped DEF PoolTypeOK
    <2>3. /\ probe' \in Probes
          /\ probe'.at \in {"auth", "reject"} /\ probe'.cred = c
          /\ probe'.hand = HandOf(vault[c])
      BY <2>1, <2>2, IdleProbeTyped DEF ProbeRead, ProbePhases
    <2>. QED BY <2>1, <2>2, <2>3 DEF ProbeRead, table, hotVars, requests, server, PoolTypeOK
  <1>2. CASE ProbeAuthenticate
    <2>1. /\ accepted' \subseteq 1 .. MaxGrants
          /\ minted' \in 0 .. MaxGrants
          /\ lost' \subseteq 1 .. MaxGrants
      BY <1>0, <1>2, RefusedTyped, RenewedTyped DEF ProbeAuthenticate, Valid, server
    <2>2. probe.cred \in Creds /\ probe.hand.spent = 0 /\ probe.hand \in Hands
      BY <1>2 DEF ProbeAuthenticate
    <2>3. /\ probe' \in Probes
          /\ probe'.cred = probe.cred
          /\ \/ probe'.at = "reject" /\ probe'.hand = probe.hand
             \/ probe'.at = "health"
      <3>1. CASE Refused(probe.hand) /\ probe' = [probe EXCEPT !.at = "reject"]
        BY <3>1 DEF ProbePhases
      <3>2. CASE \E h \in Answers(probe.hand) :
                    Renewed(probe.hand, h)
                      /\ probe' = [probe EXCEPT !.at = "health", !.hand = h]
        <4>1. PICK h \in Answers(probe.hand) :
                 Renewed(probe.hand, h) /\ probe' = [probe EXCEPT !.at = "health", !.hand = h]
          BY <3>2
        <4>2. h \in Hands
          BY <1>0, <2>2, <4>1, RenewedTyped
        <4>. QED BY <4>1, <4>2 DEF ProbePhases
      <3>3. CASE probe' = [probe EXCEPT !.at = "health",
                                        !.hand.due = ReadExpiry(probe.hand.secret)]
        <4>1. [probe.hand EXCEPT !.due = ReadExpiry(probe.hand.secret)] \in Hands
          BY <2>2 DEF Hands, Tokens, ReadExpiry
        <4>. QED BY <3>3, <4>1 DEF ProbePhases
      <3>. QED BY <1>2, <3>1, <3>2, <3>3 DEF ProbeAuthenticate
    <2>. QED BY <1>2, <2>1, <2>2, <2>3
             DEF ProbeAuthenticate, table, hotVars, requests, PoolTypeOK
  <1>3. CASE ProbeHealth
    BY <1>3 DEF ProbeHealth, ProbePhases, table, hotVars, requests, server, PoolTypeOK
  <1>4. CASE ProbeStore
    <2>. DEFINE c == probe.cred
    <2>1. c \in Creds /\ probe.hand \in Hands /\ probe.seen \in Rows
      BY <1>4 DEF ProbeStore
    <2>2. row[c] \in Rows /\ Probed(row[c]) \in Rows
      <3>1. row[c] \in Rows
        BY <2>1 DEF PoolTypeOK
      <3>. DEFINE s == probe.seen
                  due == probe.hand.due
                  status == Written(s.status, IF probe.healthy THEN "healthy" ELSE "degraded", row[c].status)
                  cooldown == IF probe.healthy THEN Written(s.cooldown, 0, row[c].cooldown) ELSE row[c].cooldown
                  failures == IF probe.healthy THEN Written(s.failures, 0, row[c].failures) ELSE row[c].failures
                  expires == IF due = 0 THEN row[c].expires
                             ELSE IF NaiveDates THEN due ELSE Written(s.expires, due, row[c].expires)
      <3>2. status \in Statuses /\ cooldown \in Nat /\ failures \in Nat
        BY <2>1, <3>1 DEF Written, Rows, Statuses
      <3>3. expires \in Nat
        BY <2>1, <3>1 DEF Written, Rows, Hands
      <3>4. Probed(row[c]) = [row[c] EXCEPT !.status = status, !.cooldown = cooldown,
                                            !.failures = failures, !.expires = expires]
        BY DEF Probed
      <3>. HIDE DEF status, cooldown, failures, expires
      <3>. QED BY <3>1, <3>2, <3>3, <3>4 DEF Rows
    <2>3. Rotated(vault[c], probe.hand) \in Vaults
      BY <2>1, RotatedTyped
    <2>4. PoolTypeOK' /\ vault' \in [Creds -> Vaults] /\ overtaken' \subseteq Creds
      BY <1>4, <2>1, <2>2, <2>3 DEF ProbeStore, hotVars, PoolTypeOK
    <2>. QED BY <1>4, <2>4, IdleProbeTyped, NoHandTyped DEF ProbeStore, requests, server
  <1>5. CASE ProbeReject
    <2>. DEFINE c == probe.cred
                status == Written(probe.seen.status, "invalid", row[c].status)
    <2>1. c \in Creds /\ row[c] \in Rows /\ status \in Statuses
      BY <1>5 DEF ProbeReject, PoolTypeOK, Written, Rows, Statuses
    <2>2. row' = [row EXCEPT ![c] = [row[c] EXCEPT !.status = status]]
      BY <1>5, <2>1 DEF ProbeReject, PoolTypeOK
    <2>3. [row[c] EXCEPT !.status = status] \in Rows
      <3>. HIDE DEF status
      <3>. QED BY <2>1 DEF Rows
    <2>4. PoolTypeOK'
      <3>. HIDE DEF status, c
      <3>. QED BY <1>5, <2>1, <2>2, <2>3 DEF ProbeReject, hotVars, PoolTypeOK
    <2>. QED BY <1>5, <2>4, IdleProbeTyped, NoHandTyped DEF ProbeReject, requests, server
  <1>. QED BY <1>1, <1>2, <1>3, <1>4, <1>5

(* Reports, the operator, the clock, the death of the process.             *)
LEMMA OtherTypes ==
    ASSUME TypesInv,
           \/ \E c \in Creds : Report(c) \/ TypeSecret(c) \/ TypeRefresh(c)
           \/ Elapse \/ Restart
    PROVE  TypesInv'
  <1>. USE DEF TypesInv, TypeOK, PhasesOK
  <1>0. TypesInv
    OBVIOUS
  <1>1. ASSUME NEW c \in Creds, Report(c) PROVE TypesInv'
    <2>1. row' \in [Creds -> Rows]
      <3>1. row[c] \in Rows
        BY DEF PoolTypeOK
      <3>. QED BY <1>1, <3>1, Grants, MarkFailureType, MarkSuccessType DEF Report
    <2>. QED BY <1>1, <2>1 DEF Report, hotVars, requests, server, PoolTypeOK
  <1>2. ASSUME NEW c \in Creds, NEW v \in Vaults, EditSecrets(c, v)
        PROVE  /\ vault' \in [Creds -> Vaults]
               /\ accepted' \subseteq 1 .. MaxGrants
               /\ minted' \in 0 .. MaxGrants
               /\ UNCHANGED <<requests, probe, lost>>
    <2>1. v.refresh \in 0 .. MaxGrants /\ minted + 1 \in 0 .. MaxGrants
      BY <1>2, Grants DEF EditSecrets, Vaults
    <2>2. v.refresh > minted => v.refresh \in 1 .. MaxGrants
      BY <2>1, Grants
    <2>. QED BY <1>2, <2>1, <2>2 DEF EditSecrets
  <1>3. ASSUME NEW c \in Creds, TypeSecret(c) PROVE TypesInv'
    <2>. PICK jwt \in Readable, refresh \in {vault[c].refresh, minted + 1} :
           LET t == [grant |-> minted + 1, expires |-> now + Lifetime, jwt |-> jwt]
           IN /\ ReplaceSecret(c, ReadExpiry(t))
              /\ EditSecrets(c, [vault[c] EXCEPT !.secret = t, !.refresh = refresh])
      BY <1>3 DEF TypeSecret
    <2>. DEFINE t == [grant |-> minted + 1, expires |-> now + Lifetime, jwt |-> jwt]
                v == [vault[c] EXCEPT !.secret = t, !.refresh = refresh]
    <2>1. ReplaceSecret(c, ReadExpiry(t)) /\ EditSecrets(c, v)
      OBVIOUS
    <2>2. minted < MaxGrants /\ minted + 1 \in 0 .. MaxGrants
      BY <2>1, Grants DEF EditSecrets
    <2>3. t \in Tokens
      BY <2>2, Grants, VaultsAssumption DEF Tokens, PoolTypeOK
    <2>4. ReadExpiry(t) \in Nat
      BY <2>3 DEF ReadExpiry, Tokens
    <2>5. v \in Vaults
      <3>1. vault[c] \in Vaults /\ refresh \in 0 .. MaxGrants
        BY <2>2 DEF Vaults
      <3>. HIDE DEF t
      <3>. QED BY <2>3, <3>1 DEF Vaults
    <2>6. [row[c] EXCEPT !.status = "unknown", !.failures = 0, !.cooldown = 0,
                         !.expires = ReadExpiry(t), !.readable = TRUE] \in Rows
      <3>1. row[c] \in Rows
        BY DEF PoolTypeOK
      <3>. HIDE DEF t
      <3>. QED BY <2>4, <3>1 DEF Rows, Statuses
    <2>. HIDE DEF t, v
    <2>7. PoolTypeOK'
      BY <2>1, <2>6 DEF ReplaceSecret, hotVars, PoolTypeOK
    <2>8. overtaken' \subseteq Creds
      BY <1>3 DEF TypeSecret
    <2>. QED BY <1>2, <2>1, <2>5, <2>7, <2>8 DEF requests
  <1>4. ASSUME NEW c \in Creds, TypeRefresh(c) PROVE TypesInv'
    <2>. DEFINE v == [vault[c] EXCEPT !.refresh = minted + 1]
    <2>1. EditSecrets(c, v) /\ UNCHANGED <<live, row, hotVars, now, overtaken>>
      BY <1>4 DEF TypeRefresh
    <2>2. v \in Vaults
      BY <2>1, Grants DEF EditSecrets, Vaults
    <2>. HIDE DEF v
    <2>. QED BY <1>2, <2>1, <2>2 DEF requests, hotVars, PoolTypeOK
  <1>5. CASE Elapse
    BY <1>5 DEF Elapse, Tick, hotVars, requests, server, PoolTypeOK
  <1>6. CASE Restart
    <2>1. lost' \subseteq 1 .. MaxGrants
      <3>1. \A p \in Requests : hand[p].spent \in 0 .. MaxGrants
        BY DEF Hands
      <3>2. probe.hand.spent \in 0 .. MaxGrants
        BY DEF Hands
      <3>3. \A g \in {hand[p].spent : p \in Requests} \union {probe.hand.spent} :
              g # 0 => g \in 1 .. MaxGrants
        BY <3>1, <3>2, Grants
      <3>. QED BY <1>6, <3>3 DEF Restart
    <2>. QED BY <1>6, <2>1, NoHandTyped, IdleProbeTyped
             DEF Restart, table, hotVars, PoolTypeOK
  <1>. QED BY <1>1, <1>3, <1>4, <1>5, <1>6

LEMMA TypesStep == TypesInv /\ [Next]_vars => TypesInv'
  <1>. SUFFICES ASSUME TypesInv, [Next]_vars PROVE TypesInv'
    OBVIOUS
  <1>1. CASE UNCHANGED vars
    BY <1>1 DEF vars, table, hotVars, requests, server, TypesInv, TypeOK, PhasesOK, PoolTypeOK
  <1>2. CASE Next
    BY <1>2, RequestTypes, ProbeTypes, OtherTypes DEF Next
  <1>. QED BY <1>1, <1>2

(* Every variable keeps its type, and no worker keeps a secret longer than *)
(* it needs it.                                                            *)
THEOREM TokensTyped == Spec => []TypeOK
  <1>1. TypesInv => TypeOK
    BY DEF TypesInv
  <1>. QED BY TypesInit, TypesStep, <1>1, PTL DEF Spec

-----------------------------------------------------------------------------
(* The variables as Good sees them.                                        *)
RowTokens == [c \in Creds |-> vault[c].refresh]
HeldFor == [w \in Workers |-> IF w \in Requests THEN cred[w] ELSE probe.cred]
InHand  == [w \in Workers |->
              IF w \in Requests THEN hand[w].refresh ELSE probe.hand.refresh]
Spent   == [w \in Workers |->
              IF w \in Requests THEN hand[w].spent ELSE probe.hand.spent]

TokensInv == Good(RowTokens, HeldFor, InHand, Spent, accepted, lost, minted)

LEMMA ProbeIsNoRequest == Probe \notin Requests /\ Probe \in Workers
  BY NoSetContainsEverything DEF Probe, Workers

LEMMA ViewTypes ==
    ASSUME TypesInv
    PROVE  /\ RowTokens \in [Creds -> Nat]
           /\ HeldFor \in [Workers -> Creds \union {0}]
           /\ InHand \in [Workers -> Nat]
           /\ Spent \in [Workers -> Nat]
           /\ accepted \subseteq Nat \ {0}
           /\ minted \in Nat
  <1>1. \A v \in Vaults : v.refresh \in Nat
    BY Grants DEF Vaults
  <1>2. \A h \in Hands : h.refresh \in Nat /\ h.spent \in Nat
    BY Grants DEF Hands
  <1>3. probe.cred \in Creds \union {0} /\ probe.hand \in Hands
    BY DEF TypesInv, TypeOK
  <1>4. minted \in Nat /\ accepted \subseteq Nat \ {0}
    BY Grants DEF TypesInv, TypeOK
  <1>5. /\ vault \in [Creds -> Vaults]
        /\ cred \in [Requests -> Creds \union {0}]
        /\ hand \in [Requests -> Hands]
    BY DEF TypesInv, TypeOK
  <1>6. RowTokens \in [Creds -> Nat]
    BY <1>1, <1>5 DEF RowTokens
  <1>7. HeldFor \in [Workers -> Creds \union {0}]
    BY <1>3, <1>5 DEF HeldFor
  <1>8. InHand \in [Workers -> Nat] /\ Spent \in [Workers -> Nat]
    BY <1>2, <1>3, <1>5 DEF InHand, Spent
  <1>. QED BY <1>4, <1>6, <1>7, <1>8

(* A request, or the probe, changes what it holds.                         *)
LEMMA RequestHolds ==
    ASSUME TypesInv, NEW p \in Requests,
           cred' = [cred EXCEPT ![p] = cred'[p]],
           hand' = [hand EXCEPT ![p] = hand'[p]],
           UNCHANGED probe
    PROVE  /\ HeldFor' = [HeldFor EXCEPT ![p] = cred'[p]]
           /\ InHand' = [InHand EXCEPT ![p] = hand'[p].refresh]
           /\ Spent' = [Spent EXCEPT ![p] = hand'[p].spent]
  <1>1. p \in Workers /\ Requests \subseteq Workers
    BY DEF Workers
  <1>2. \A q \in Requests : q # p => cred'[q] = cred[q] /\ hand'[q] = hand[q]
    BY DEF TypesInv, TypeOK
  <1>3. HeldFor' = [HeldFor EXCEPT ![p] = cred'[p]]
    BY <1>1, <1>2 DEF HeldFor
  <1>4. InHand' = [InHand EXCEPT ![p] = hand'[p].refresh]
    BY <1>1, <1>2 DEF InHand
  <1>5. Spent' = [Spent EXCEPT ![p] = hand'[p].spent]
    BY <1>1, <1>2 DEF Spent
  <1>. QED BY <1>3, <1>4, <1>5

LEMMA LeaveHolds ==
    ASSUME TypesInv, NEW p \in Requests, LeaveAcquire(p), UNCHANGED probe
    PROVE  /\ HeldFor' = [HeldFor EXCEPT ![p] = 0]
           /\ InHand' = [InHand EXCEPT ![p] = 0]
           /\ Spent' = [Spent EXCEPT ![p] = 0]
  <1>1. cred'[p] = 0 /\ hand'[p] = NoHand
    BY DEF LeaveAcquire, TypesInv, TypeOK
  <1>2. /\ cred' = [cred EXCEPT ![p] = cred'[p]]
        /\ hand' = [hand EXCEPT ![p] = hand'[p]]
    BY <1>1 DEF LeaveAcquire
  <1>. QED BY <1>1, <1>2, RequestHolds, NoHandTyped

LEMMA ProbeHolds ==
    ASSUME UNCHANGED <<cred, hand>>
    PROVE  /\ HeldFor' = [HeldFor EXCEPT ![Probe] = probe'.cred]
           /\ InHand' = [InHand EXCEPT ![Probe] = probe'.hand.refresh]
           /\ Spent' = [Spent EXCEPT ![Probe] = probe'.hand.spent]
  BY ProbeIsNoRequest DEF Workers, HeldFor, InHand, Spent

(* The authorization server's part of a refresh.                           *)
LEMMA RenewalIsGood ==
    ASSUME TypesInv, TokensInv, NEW w \in Workers, NEW h \in Hands, NEW h2,
           Renewed(h, h2), InHand[w] = h.refresh,
           Spent[w] = 0, h.spent = 0, HeldFor[w] # 0
    PROVE  Good(RowTokens, HeldFor, [InHand EXCEPT ![w] = h2.refresh],
                [Spent EXCEPT ![w] = h2.spent], accepted', lost', minted')
  <1>1. /\ h.refresh # 0 /\ h.refresh \in accepted
        /\ minted' = minted + 1 /\ lost' = lost
        /\ accepted' = IF h2.spent # 0
                         THEN (accepted \ {h2.spent}) \union {h2.refresh} ELSE accepted
    BY DEF Renewed, CanRefresh
  <1>2. minted \in Nat /\ minted < MaxGrants /\ now \in Nat
    BY Grants DEF Renewed, TypesInv, TypeOK, PoolTypeOK
  <1>3. \/ h2.spent = h.spent /\ h2.refresh = h.refresh
        \/ h2.spent = h.refresh /\ h2.refresh = minted + 1
    BY <1>2, AnswersTyped DEF Renewed
  <1>4. CASE h2.spent = h.refresh /\ h2.refresh = minted + 1
    <2>1. Good(RowTokens, HeldFor, [InHand EXCEPT ![w] = minted + 1],
               [Spent EXCEPT ![w] = InHand[w]],
               (accepted \ {InHand[w]}) \union {minted + 1}, lost, minted + 1)
      BY <1>1, SpendIsGood DEF TokensInv
    <2>. QED BY <1>1, <1>4, <2>1
  <1>5. CASE h2.spent = h.spent /\ h2.refresh = h.refresh
    <2>1. /\ [InHand EXCEPT ![w] = h2.refresh] = InHand
          /\ [Spent EXCEPT ![w] = h2.spent] = Spent
      BY <1>5, ViewTypes
    <2>2. Good(RowTokens, HeldFor, InHand, Spent, accepted, lost, minted + 1)
      BY GrantIsGood DEF TokensInv
    <2>. QED BY <1>1, <1>5, <2>1, <2>2
  <1>. QED BY <1>3, <1>4, <1>5

LEMMA RefusalIsGood ==
    ASSUME TokensInv, NEW w \in Workers, NEW h, Refused(h),
           InHand[w] = h.refresh, Spent[w] = 0
    PROVE  Good(RowTokens, HeldFor, InHand, Spent, accepted', lost', minted')
  <1>1. CASE UNCHANGED <<accepted, minted, lost>>
    BY <1>1 DEF TokensInv
  <1>2. CASE /\ accepted' = accepted \ {h.refresh}
             /\ lost' = lost \union {h.refresh}
             /\ UNCHANGED minted
    <2>1. Good(RowTokens, HeldFor, InHand, Spent,
               accepted \ {InHand[w]}, lost \union {InHand[w]}, minted)
      BY LossIsGood DEF TokensInv
    <2>. QED BY <1>2, <2>1
  <1>. QED BY <1>1, <1>2 DEF Refused

(* One worker drops what it holds.                                         *)
LEMMA DropOneIsGood ==
    ASSUME NEW R, NEW K, NEW F, NEW S, NEW A, NEW L, NEW M,
           Good(R, K, F, S, A, L, M), NEW w \in Workers
    PROVE  Good(R, [K EXCEPT ![w] = 0], [F EXCEPT ![w] = 0], [S EXCEPT ![w] = 0],
                A, L \union ({S[w]} \ {0}), M)
  <1>1. \A W \in SUBSET Workers :
          Good(R, [v \in Workers |-> IF v \in W THEN 0 ELSE K[v]],
               [v \in Workers |-> IF v \in W THEN 0 ELSE F[v]],
               [v \in Workers |-> IF v \in W THEN 0 ELSE S[v]],
               A, L \union ({S[v] : v \in W} \ {0}), M)
    BY DropIsGood
  <1>2. Good(R, [v \in Workers |-> IF v \in {w} THEN 0 ELSE K[v]],
             [v \in Workers |-> IF v \in {w} THEN 0 ELSE F[v]],
             [v \in Workers |-> IF v \in {w} THEN 0 ELSE S[v]],
             A, L \union ({S[v] : v \in {w}} \ {0}), M)
    BY <1>1
  <1>3. /\ [v \in Workers |-> IF v \in {w} THEN 0 ELSE K[v]] = [K EXCEPT ![w] = 0]
        /\ [v \in Workers |-> IF v \in {w} THEN 0 ELSE F[v]] = [F EXCEPT ![w] = 0]
        /\ [v \in Workers |-> IF v \in {w} THEN 0 ELSE S[v]] = [S EXCEPT ![w] = 0]
    BY DEF Good, GoodTypes
  <1>4. {S[v] : v \in {w}} = {S[w]}
    OBVIOUS
  <1>. QED BY <1>2, <1>3, <1>4

-----------------------------------------------------------------------------
(* Every action keeps TokensInv.                                           *)
LEMMA RequestTokens ==
    ASSUME TypesInv, TokensInv, NEW p \in Requests,
           \/ \E c \in Creds : Take(p, c)
           \/ Renew(p) \/ Keep(p) \/ Refuse(p) \/ Store(p) \/ Disconnect(p)
    PROVE  TokensInv'
  <1>1. /\ p \in Workers /\ HeldFor[p] = cred[p] /\ hand[p] \in Hands
        /\ InHand[p] = hand[p].refresh /\ Spent[p] = hand[p].spent
    BY DEF Workers, HeldFor, InHand, Spent, TypesInv, TypeOK
  <1>2. /\ at[p] # "idle" => cred[p] \in Creds /\ cred[p] # 0
        /\ at[p] # "rotate" => hand[p].spent = 0
    BY CredsAssumption DEF TypesInv, PhasesOK
  <1>3. UNCHANGED vault => RowTokens' = RowTokens
    BY DEF RowTokens
  <1>4. [Spent EXCEPT ![p] = Spent[p]] = Spent /\ [HeldFor EXCEPT ![p] = HeldFor[p]] = HeldFor
    BY ViewTypes
  <1>5. CASE \E c \in Creds : Take(p, c)
    <2>1. PICK c \in Creds : Take(p, c)
      BY <1>5
    <2>2. HandOf(vault[c]).refresh = RowTokens[c] /\ HandOf(vault[c]).spent = 0
      BY HandOfTyped DEF RowTokens, TypesInv, TypeOK
    <2>3. Spent[p] = 0
      BY <1>1, <1>2, <2>1 DEF Take
    <2>4. Good(RowTokens, [HeldFor EXCEPT ![p] = c], [InHand EXCEPT ![p] = RowTokens[c]],
               Spent, accepted, lost, minted)
      BY <1>1, <2>3, TakeIsGood DEF TokensInv
    <2>5. /\ HeldFor' = [HeldFor EXCEPT ![p] = c]
          /\ InHand' = [InHand EXCEPT ![p] = RowTokens[c]]
          /\ Spent' = [Spent EXCEPT ![p] = 0]
      <3>1. UNCHANGED probe /\ cred'[p] = c /\ hand'[p] = HandOf(vault[c])
        BY <2>1 DEF Take, TypesInv, TypeOK
      <3>2. /\ cred' = [cred EXCEPT ![p] = cred'[p]]
            /\ hand' = [hand EXCEPT ![p] = hand'[p]]
        BY <2>1, <3>1 DEF Take
      <3>. QED BY <2>2, <3>1, <3>2, RequestHolds
    <2>. QED BY <1>3, <1>4, <2>1, <2>3, <2>4, <2>5 DEF Take, table, server, TokensInv
  <1>6. CASE Renew(p)
    <2>1. PICK h \in Answers(hand[p]) : Renewed(hand[p], h) /\ hand' = [hand EXCEPT ![p] = h]
      BY <1>6 DEF Renew
    <2>2. at[p] = "auth" /\ UNCHANGED <<vault, cred, probe>>
      BY <1>6 DEF Renew, table
    <2>3. Good(RowTokens, HeldFor, [InHand EXCEPT ![p] = h.refresh],
               [Spent EXCEPT ![p] = h.spent], accepted', lost', minted')
      BY <1>1, <1>2, <2>1, <2>2, RenewalIsGood
    <2>4. /\ hand'[p] = h /\ hand' = [hand EXCEPT ![p] = hand'[p]]
          /\ cred'[p] = cred[p] /\ cred' = [cred EXCEPT ![p] = cred'[p]]
      BY <2>1, <2>2 DEF TypesInv, TypeOK
    <2>5. /\ HeldFor' = [HeldFor EXCEPT ![p] = cred[p]]
          /\ InHand' = [InHand EXCEPT ![p] = h.refresh]
          /\ Spent' = [Spent EXCEPT ![p] = h.spent]
      BY <2>2, <2>4, RequestHolds
    <2>. QED BY <1>1, <1>3, <1>4, <2>2, <2>3, <2>5 DEF TokensInv
  <1>7. ASSUME LeaveAcquire(p), UNCHANGED <<vault, probe>>,
               Good(RowTokens, HeldFor, InHand, Spent, accepted', lost, minted'),
               lost' = lost \union ({hand[p].spent} \ {0})
        PROVE  TokensInv'
    <2>1. /\ HeldFor' = [HeldFor EXCEPT ![p] = 0]
          /\ InHand' = [InHand EXCEPT ![p] = 0]
          /\ Spent' = [Spent EXCEPT ![p] = 0]
      BY <1>7, LeaveHolds
    <2>2. Good(RowTokens, [HeldFor EXCEPT ![p] = 0], [InHand EXCEPT ![p] = 0],
               [Spent EXCEPT ![p] = 0], accepted', lost \union ({Spent[p]} \ {0}), minted')
      BY <1>1, <1>7, DropOneIsGood
    <2>. QED BY <1>1, <1>3, <1>7, <2>1, <2>2 DEF TokensInv
  <1>8. CASE Keep(p)
    <2>1. hand[p].spent = 0 /\ LeaveAcquire(p)
          /\ UNCHANGED <<vault, probe, accepted, minted, lost>>
      BY <1>2, <1>8 DEF Keep, Valid, table, server
    <2>. QED BY <1>7, <2>1 DEF TokensInv
  <1>9. CASE Refuse(p)
    <2>1. hand[p].spent = 0 /\ LeaveAcquire(p) /\ UNCHANGED <<vault, probe>>
          /\ Refused(hand[p])
      BY <1>2, <1>9 DEF Refuse, table
    <2>2. Good(RowTokens, HeldFor, InHand, Spent, accepted', lost', minted')
      BY <1>1, <2>1, RefusalIsGood
    <2>3. /\ HeldFor' = [HeldFor EXCEPT ![p] = 0]
          /\ InHand' = [InHand EXCEPT ![p] = 0]
          /\ Spent' = [Spent EXCEPT ![p] = 0]
      BY <2>1, LeaveHolds
    <2>4. Good(RowTokens, [HeldFor EXCEPT ![p] = 0], [InHand EXCEPT ![p] = 0],
               [Spent EXCEPT ![p] = 0], accepted', lost' \union ({Spent[p]} \ {0}), minted')
      BY <1>1, <2>2, DropOneIsGood
    <2>5. lost' \union ({Spent[p]} \ {0}) = lost'
      BY <1>1, <2>1
    <2>. QED BY <1>3, <2>1, <2>3, <2>4, <2>5 DEF TokensInv
  <1>10. CASE Store(p)
    <2>. DEFINE c == cred[p]
    <2>1. /\ c \in Creds /\ LeaveAcquire(p)
          /\ vault' = [vault EXCEPT ![c] = Rotated(vault[c], hand[p])]
          /\ UNCHANGED <<probe, accepted, minted, lost>>
      BY <1>2, <1>10 DEF Store, server
    <2>2. /\ HeldFor' = [HeldFor EXCEPT ![p] = 0]
          /\ InHand' = [InHand EXCEPT ![p] = 0]
          /\ Spent' = [Spent EXCEPT ![p] = 0]
      BY <2>1, LeaveHolds
    <2>3. vault \in [Creds -> Vaults] /\ vault[c] \in Vaults
      BY <2>1 DEF TypesInv, TypeOK
    <2>4. Rotated(vault[c], hand[p]).refresh
            = IF Spent[p] # 0 THEN InHand[p] ELSE RowTokens[c]
      BY <1>1, <2>1, <2>3, RotatedTyped DEF RowTokens
    <2>5. RowTokens' = [RowTokens EXCEPT ![c] =
                          IF Spent[p] # 0 THEN InHand[p] ELSE RowTokens[c]]
      BY <2>1, <2>3, <2>4 DEF RowTokens
    <2>6. Good([RowTokens EXCEPT ![c] = IF Spent[p] # 0 THEN InHand[p] ELSE RowTokens[c]],
               [HeldFor EXCEPT ![p] = 0], [InHand EXCEPT ![p] = 0],
               [Spent EXCEPT ![p] = 0], accepted, lost, minted)
      BY <1>1, <2>1, StoreIsGood DEF TokensInv
    <2>. QED BY <2>1, <2>2, <2>5, <2>6 DEF TokensInv
  <1>11. CASE Disconnect(p)
    BY <1>7, <1>11 DEF Disconnect, table, TokensInv
  <1>. QED BY <1>5, <1>6, <1>8, <1>9, <1>10, <1>11

LEMMA ProbeTokens ==
    ASSUME TypesInv, TokensInv,
           \/ \E c \in Creds : ProbeRead(c)
           \/ ProbeAuthenticate \/ ProbeHealth \/ ProbeStore \/ ProbeReject
    PROVE  TokensInv'
  <1>1. /\ Probe \in Workers /\ HeldFor[Probe] = probe.cred /\ probe.hand \in Hands
        /\ InHand[Probe] = probe.hand.refresh /\ Spent[Probe] = probe.hand.spent
    BY ProbeIsNoRequest DEF Workers, HeldFor, InHand, Spent, TypesInv, TypeOK
  <1>2. /\ probe.at # "idle" => probe.cred \in Creds /\ probe.cred # 0
        /\ probe.at \notin {"health", "store"} => probe.hand.spent = 0
    BY CredsAssumption DEF TypesInv, PhasesOK
  <1>3. UNCHANGED vault => RowTokens' = RowTokens
    BY DEF RowTokens
  <1>4. /\ [Spent EXCEPT ![Probe] = Spent[Probe]] = Spent
        /\ [HeldFor EXCEPT ![Probe] = HeldFor[Probe]] = HeldFor
        /\ [InHand EXCEPT ![Probe] = InHand[Probe]] = InHand
    BY ViewTypes
  <1>5. CASE \E c \in Creds : ProbeRead(c)
    <2>1. PICK c \in Creds : ProbeRead(c)
      BY <1>5
    <2>2. HandOf(vault[c]).refresh = RowTokens[c] /\ HandOf(vault[c]).spent = 0
      BY HandOfTyped DEF RowTokens, TypesInv, TypeOK
    <2>3. /\ Spent[Probe] = 0
          /\ probe'.cred = c /\ probe'.hand = HandOf(vault[c])
          /\ UNCHANGED <<cred, hand, vault, accepted, minted, lost>>
      BY <1>1, <1>2, <2>1 DEF ProbeRead, IdleProbe, requests, table, server
    <2>4. Good(RowTokens, [HeldFor EXCEPT ![Probe] = c],
               [InHand EXCEPT ![Probe] = RowTokens[c]], Spent, accepted, lost, minted)
      BY <1>1, <2>3, TakeIsGood DEF TokensInv
    <2>5. /\ HeldFor' = [HeldFor EXCEPT ![Probe] = c]
          /\ InHand' = [InHand EXCEPT ![Probe] = RowTokens[c]]
          /\ Spent' = [Spent EXCEPT ![Probe] = 0]
      BY <2>2, <2>3, ProbeHolds
    <2>. QED BY <1>3, <1>4, <2>3, <2>4, <2>5 DEF TokensInv
  <1>6. CASE ProbeAuthenticate
    <2>1. /\ probe.at = "auth" /\ Spent[Probe] = 0
          /\ UNCHANGED <<cred, hand, vault>>
      BY <1>1, <1>2, <1>6 DEF ProbeAuthenticate, requests, table
    <2>2. CASE Refused(probe.hand) /\ probe' = [probe EXCEPT !.at = "reject"]
      <3>1. Good(RowTokens, HeldFor, InHand, Spent, accepted', lost', minted')
        BY <1>1, <2>1, <2>2, RefusalIsGood
      <3>2. probe'.cred = probe.cred /\ probe'.hand = probe.hand
        BY <2>2 DEF TypesInv, TypeOK
      <3>3. HeldFor' = HeldFor /\ InHand' = InHand /\ Spent' = Spent
        BY <1>1, <1>4, <2>1, <3>2, ProbeHolds
      <3>. QED BY <1>3, <2>1, <3>1, <3>3 DEF TokensInv
    <2>3. CASE \E h \in Answers(probe.hand) :
                  Renewed(probe.hand, h)
                    /\ probe' = [probe EXCEPT !.at = "health", !.hand = h]
      <3>1. PICK h \in Answers(probe.hand) :
               Renewed(probe.hand, h)
                 /\ probe' = [probe EXCEPT !.at = "health", !.hand = h]
        BY <2>3
      <3>2. Good(RowTokens, HeldFor, [InHand EXCEPT ![Probe] = h.refresh],
                 [Spent EXCEPT ![Probe] = h.spent], accepted', lost', minted')
        BY <1>1, <1>2, <2>1, <3>1, RenewalIsGood
      <3>3. probe'.cred = probe.cred /\ probe'.hand = h
        BY <3>1 DEF TypesInv, TypeOK
      <3>4. /\ HeldFor' = HeldFor
            /\ InHand' = [InHand EXCEPT ![Probe] = h.refresh]
            /\ Spent' = [Spent EXCEPT ![Probe] = h.spent]
        BY <1>1, <1>4, <2>1, <3>3, ProbeHolds
      <3>. QED BY <1>3, <2>1, <3>2, <3>4 DEF TokensInv
    <2>4. CASE Valid(probe.hand) /\ probe' = [probe EXCEPT !.at = "health",
                                       !.hand.due = ReadExpiry(probe.hand.secret)]
      <3>1. /\ probe'.cred = probe.cred
            /\ probe'.hand.refresh = probe.hand.refresh
            /\ probe'.hand.spent = probe.hand.spent
        BY <1>1, <2>4 DEF TypesInv, TypeOK, Hands
      <3>2. HeldFor' = HeldFor /\ InHand' = InHand /\ Spent' = Spent
        BY <1>1, <1>4, <2>1, <3>1, ProbeHolds
      <3>. QED BY <1>3, <2>1, <2>4, <3>2 DEF Valid, server, TokensInv
    <2>. QED BY <1>6, <2>2, <2>3, <2>4 DEF ProbeAuthenticate
  <1>7. CASE ProbeHealth
    <2>1. /\ probe'.cred = probe.cred /\ probe'.hand = probe.hand
          /\ UNCHANGED <<cred, hand, vault, accepted, minted, lost>>
      BY <1>7 DEF ProbeHealth, requests, table, server, TypesInv, TypeOK
    <2>2. HeldFor' = HeldFor /\ InHand' = InHand /\ Spent' = Spent
      BY <1>1, <1>4, <2>1, ProbeHolds
    <2>. QED BY <1>3, <2>1, <2>2 DEF TokensInv
  <1>8. UNCHANGED <<cred, hand>> /\ probe' = IdleProbe
           => /\ HeldFor' = [HeldFor EXCEPT ![Probe] = 0]
              /\ InHand' = [InHand EXCEPT ![Probe] = 0]
              /\ Spent' = [Spent EXCEPT ![Probe] = 0]
    BY ProbeHolds, IdleProbeTyped, NoHandTyped
  <1>9. CASE ProbeStore
    <2>. DEFINE c == probe.cred
    <2>1. /\ c \in Creds /\ probe' = IdleProbe
          /\ vault' = [vault EXCEPT ![c] = Rotated(vault[c], probe.hand)]
          /\ UNCHANGED <<cred, hand, accepted, minted, lost>>
      BY <1>2, <1>9 DEF ProbeStore, requests, server
    <2>2. vault \in [Creds -> Vaults] /\ vault[c] \in Vaults
      BY <2>1 DEF TypesInv, TypeOK
    <2>3. Rotated(vault[c], probe.hand).refresh
            = IF Spent[Probe] # 0 THEN InHand[Probe] ELSE RowTokens[c]
      BY <1>1, <2>1, <2>2, RotatedTyped DEF RowTokens
    <2>4. RowTokens' = [RowTokens EXCEPT ![c] =
                          IF Spent[Probe] # 0 THEN InHand[Probe] ELSE RowTokens[c]]
      BY <2>1, <2>2, <2>3 DEF RowTokens
    <2>5. Good([RowTokens EXCEPT ![c] =
                  IF Spent[Probe] # 0 THEN InHand[Probe] ELSE RowTokens[c]],
               [HeldFor EXCEPT ![Probe] = 0], [InHand EXCEPT ![Probe] = 0],
               [Spent EXCEPT ![Probe] = 0], accepted, lost, minted)
      BY <1>1, <2>1, StoreIsGood DEF TokensInv
    <2>. QED BY <1>8, <2>1, <2>4, <2>5 DEF TokensInv
  <1>10. CASE ProbeReject
    <2>1. /\ Spent[Probe] = 0 /\ probe' = IdleProbe
          /\ UNCHANGED <<cred, hand, vault, accepted, minted, lost>>
      BY <1>1, <1>2, <1>10 DEF ProbeReject, requests, server
    <2>2. Good(RowTokens, [HeldFor EXCEPT ![Probe] = 0], [InHand EXCEPT ![Probe] = 0],
               [Spent EXCEPT ![Probe] = 0], accepted,
               lost \union ({Spent[Probe]} \ {0}), minted)
      BY <1>1, DropOneIsGood DEF TokensInv
    <2>3. lost \union ({Spent[Probe]} \ {0}) = lost
      BY <2>1
    <2>. QED BY <1>3, <1>8, <2>1, <2>2, <2>3 DEF TokensInv
  <1>. QED BY <1>5, <1>6, <1>7, <1>9, <1>10

LEMMA OperatorTokens ==
    ASSUME TypesInv, TokensInv, NEW c \in Creds,
           TypeSecret(c) \/ TypeRefresh(c)
    PROVE  TokensInv'
  <1>1. PICK v : /\ EditSecrets(c, v)
                 /\ v.refresh \in {vault[c].refresh, minted + 1}
    <2>1. vault[c] \in Vaults
      BY DEF TypesInv, TypeOK
    <2>2. CASE TypeSecret(c)
      <3>1. PICK jwt \in Readable, refresh \in {vault[c].refresh, minted + 1} :
              EditSecrets(c, [vault[c] EXCEPT
                                !.secret = [grant |-> minted + 1,
                                            expires |-> now + Lifetime, jwt |-> jwt],
                                !.refresh = refresh])
        BY <2>2 DEF TypeSecret
      <3>. DEFINE v == [vault[c] EXCEPT
                          !.secret = [grant |-> minted + 1,
                                      expires |-> now + Lifetime, jwt |-> jwt],
                          !.refresh = refresh]
      <3>2. v.refresh = refresh
        BY <2>1 DEF Vaults
      <3>. HIDE DEF v
      <3>3. EditSecrets(c, v)
        BY <3>1 DEF v
      <3>. QED BY <3>2, <3>3
    <2>3. CASE TypeRefresh(c)
      <3>. DEFINE v == [vault[c] EXCEPT !.refresh = minted + 1]
      <3>1. EditSecrets(c, v)
        BY <2>3 DEF TypeRefresh
      <3>2. v.refresh = minted + 1
        BY <2>1 DEF Vaults
      <3>. HIDE DEF v
      <3>. QED BY <3>1, <3>2
    <2>. QED BY <2>2, <2>3
  <1>2. /\ minted' = minted + 1
        /\ vault' = [vault EXCEPT ![c] = v]
        /\ accepted' = IF v.refresh > minted THEN accepted \union {v.refresh} ELSE accepted
        /\ UNCHANGED <<at, cred, hand, probe, lost>>
    BY <1>1 DEF EditSecrets, requests
  <1>3. HeldFor' = HeldFor /\ InHand' = InHand /\ Spent' = Spent
    BY <1>2 DEF HeldFor, InHand, Spent
  <1>4. /\ RowTokens' = [RowTokens EXCEPT ![c] = v.refresh]
        /\ RowTokens[c] = vault[c].refresh
    BY <1>2 DEF RowTokens, TypesInv, TypeOK
  <1>5. RowTokens[c] <= minted /\ RowTokens[c] \in Nat /\ minted \in Nat
    BY ViewTypes DEF TokensInv, Good, Granted
  <1>6. CASE v.refresh = minted + 1
    <2>1. Good([RowTokens EXCEPT ![c] = minted + 1], HeldFor, InHand, Spent,
               accepted \union {minted + 1}, lost, minted + 1)
      BY TypeIsGood DEF TokensInv
    <2>2. accepted' = accepted \union {minted + 1}
      BY <1>2, <1>5, <1>6
    <2>. QED BY <1>2, <1>3, <1>4, <1>6, <2>1, <2>2 DEF TokensInv
  <1>7. CASE v.refresh = vault[c].refresh
    <2>1. Good(RowTokens, HeldFor, InHand, Spent, accepted, lost, minted + 1)
      BY GrantIsGood DEF TokensInv
    <2>2. accepted' = accepted
      BY <1>2, <1>4, <1>5, <1>7
    <2>3. RowTokens' = RowTokens
      BY <1>4, <1>7, ViewTypes
    <2>. QED BY <1>2, <1>3, <2>1, <2>2, <2>3 DEF TokensInv
  <1>. QED BY <1>1, <1>6, <1>7

LEMMA RestartTokens ==
    ASSUME TypesInv, TokensInv, Restart
    PROVE  TokensInv'
  <1>1. Good(RowTokens, [w \in Workers |-> IF w \in Workers THEN 0 ELSE HeldFor[w]],
             [w \in Workers |-> IF w \in Workers THEN 0 ELSE InHand[w]],
             [w \in Workers |-> IF w \in Workers THEN 0 ELSE Spent[w]],
             accepted, lost \union ({Spent[w] : w \in Workers} \ {0}), minted)
    <2>1. Workers \in SUBSET Workers
      OBVIOUS
    <2>. QED BY <2>1, DropIsGood DEF TokensInv
  <1>2. /\ HeldFor' = [w \in Workers |-> IF w \in Workers THEN 0 ELSE HeldFor[w]]
        /\ InHand' = [w \in Workers |-> IF w \in Workers THEN 0 ELSE InHand[w]]
        /\ Spent' = [w \in Workers |-> IF w \in Workers THEN 0 ELSE Spent[w]]
    BY NoHandTyped, IdleProbeTyped DEF Restart, HeldFor, InHand, Spent
  <1>3. {Spent[w] : w \in Workers}
          = {hand[p].spent : p \in Requests} \union {probe.hand.spent}
    BY ProbeIsNoRequest DEF Spent, Workers
  <1>4. /\ RowTokens' = RowTokens /\ accepted' = accepted /\ minted' = minted
        /\ lost' = lost \union (({hand[p].spent : p \in Requests} \union {probe.hand.spent}) \ {0})
    BY DEF Restart, RowTokens, table
  <1>. QED BY <1>1, <1>2, <1>3, <1>4 DEF TokensInv

LEMMA TokensInit == Init => TokensInv
  <1>. SUFFICES ASSUME Init PROVE TokensInv
    OBVIOUS
  <1>1. TypesInv
    BY TypesInit
  <1>2. \A w \in Workers : InHand[w] = 0 /\ Spent[w] = 0
    BY NoHandTyped, IdleProbeTyped DEF Init, InHand, Spent
  <1>3. \A c \in Creds : /\ RowTokens[c] = vault[c].refresh
                          /\ vault[c].refresh <= minted
                          /\ \A d \in Creds \ {c} :
                                vault[c].refresh # 0 => vault[d].refresh # vault[c].refresh
    BY DEF Init, RowTokens
  <1>4. accepted = {vault[c].refresh : c \in Creds} \ {0}
    BY DEF Init
  <1>5. Granted(RowTokens, InHand, Spent, accepted, minted)
    BY <1>1, <1>2, <1>3, <1>4, ViewTypes DEF Granted
  <1>6. Owned(RowTokens, HeldFor, InHand, Spent)
    BY <1>2, <1>3 DEF Owned
  <1>7. Undelivered(RowTokens, HeldFor, InHand, Spent, accepted)
    BY <1>2 DEF Undelivered
  <1>8. Kept(RowTokens, Spent, accepted, lost)
    BY <1>3, <1>4 DEF Kept
  <1>. QED BY <1>1, <1>5, <1>6, <1>7, <1>8, ViewTypes DEF TokensInv, Good, GoodTypes

LEMMA TokensStep == TypesInv /\ TokensInv /\ [Next]_vars => TokensInv'
  <1>. SUFFICES ASSUME TypesInv, TokensInv, [Next]_vars PROVE TokensInv'
    OBVIOUS
  <1>1. UNCHANGED <<vault, requests, probe, server>> => TokensInv'
    BY DEF requests, server, RowTokens, HeldFor, InHand, Spent, TokensInv
  <1>2. ASSUME NEW c \in Creds, Report(c) PROVE TokensInv'
    BY <1>1, <1>2 DEF Report
  <1>3. CASE Elapse
    BY <1>1, <1>3 DEF Elapse
  <1>4. CASE UNCHANGED vars
    BY <1>1, <1>4 DEF vars, table
  <1>. QED BY <1>2, <1>3, <1>4, RequestTokens, ProbeTokens, OperatorTokens,
              RestartTokens DEF Next

(* The refresh token of a row is accepted, or its successor is on its way  *)
(* to the row, or was lost: for any number of credentials, requests and    *)
(* grants, whoever writes the row and whenever the process dies.           *)
THEOREM RefreshKept == Spec => []RefreshTokenIsKept
  <1>1. TypesInv /\ TokensInv => RefreshTokenIsKept
    <2>. SUFFICES ASSUME TypesInv, TokensInv, NEW c \in Creds
                  PROVE  \/ vault[c].refresh \in {0} \union accepted \union lost
                         \/ vault[c].refresh = probe.hand.spent
                         \/ \E p \in Requests : vault[c].refresh = hand[p].spent
      BY DEF RefreshTokenIsKept
    <2>1. \A w \in Workers : \/ w \in Requests /\ Spent[w] = hand[w].spent
                             \/ Spent[w] = probe.hand.spent
      BY DEF Spent
    <2>2. RowTokens[c] = vault[c].refresh
      BY DEF RowTokens
    <2>. QED BY <2>1, <2>2 DEF TokensInv, Good, Kept
  <1>. QED BY TypesInit, TypesStep, TokensInit, TokensStep, <1>1, PTL DEF Spec

(* No credential is created or deleted here.                               *)
AllLive == live = Creds

LEMMA LiveStep == AllLive /\ [Next]_vars => AllLive'
  BY DEF AllLive, Next, vars, table, Take, Renew, Keep, Refuse, Store, Disconnect, Report,
     ProbeRead, ProbeAuthenticate, ProbeHealth, ProbeStore, ProbeReject, TypeSecret,
     TypeRefresh, ReplaceSecret, Elapse, Tick, Restart

(* The probe mends what it has seen and nothing else: a cooldown that began*)
(* while it was out survives its success, and a row nobody else has written*)
(* can be chosen again after a success that came with an expiry.           *)
THEOREM ProbeMendsHolds == Spec => ProbeMendsWhatItSaw
  <1>. DEFINE Mends(c) ==
                ProbeStore /\ probe.cred = c =>
                   /\ probe.seen.cooldown = 0 => row'[c].cooldown = row[c].cooldown
                   /\ /\ probe.healthy /\ row[c] = probe.seen
                      /\ row[c].enabled /\ probe.hand.due > now
                      => c \in Eligible'
  <1>1. TypesInv /\ AllLive /\ [Next]_vars => [\A c \in Creds : Mends(c)]_vars
    <2>. SUFFICES ASSUME TypesInv, AllLive, NEW c \in Creds, ProbeStore, probe.cred = c
                  PROVE  Mends(c)
      OBVIOUS
    <2>1. /\ row' = [row EXCEPT ![c] = Probed(row[c])]
          /\ live' = Creds /\ now' = now
      BY DEF AllLive, ProbeStore, hotVars
    <2>2. row \in [Creds -> Rows] /\ row[c] \in Rows
      BY DEF TypesInv, TypeOK, PoolTypeOK
    <2>3. row'[c] = Probed(row[c])
      BY <2>1, <2>2
    <2>4. probe.seen.cooldown = 0 => row'[c].cooldown = row[c].cooldown
      BY <2>2, <2>3 DEF Probed, Written, Rows
    <2>5. ASSUME probe.healthy, row[c] = probe.seen, row[c].enabled, probe.hand.due > now
          PROVE  c \in Eligible'
      <3>1. probe.hand.due \in Nat /\ now \in Nat
        BY DEF TypesInv, TypeOK, PoolTypeOK, Hands
      <3>2. /\ row'[c].enabled /\ row'[c].status = "healthy"
            /\ row'[c].cooldown = 0 /\ row'[c].expires = probe.hand.due
        BY <2>2, <2>3, <2>5, <3>1 DEF Probed, Written, Rows
      <3>. QED BY <2>1, <2>5, <3>1, <3>2 DEF Eligible, IsEligible
    <2>. QED BY <2>4, <2>5
  <1>2. Init => AllLive
    BY DEF AllLive, Init
  <1>. QED BY TypesInit, TypesStep, LiveStep, <1>1, <1>2, PTL DEF Spec, ProbeMendsWhatItSaw

-----------------------------------------------------------------------------
(***************************************************************************)
(* Proof that expires_at promises no more than the stored secret holds,    *)
(* for every set of credentials and requests and any number of grants.     *)
(*                                                                         *)
(* A row is written from a reading that may be old by then.  The argument  *)
(* follows what each holder of a credential has read: as long as no edit   *)
(* has overtaken the row, secrets are only replaced by longer-lived ones,  *)
(* so a reading is never past the secret that is stored now, and neither   *)
(* is an expiry that was told for it.                                      *)
(***************************************************************************)

(* The expiry e of a row fits its secret t.                                *)
Covers(t, e) == e <= t.expires /\ (t.jwt => e # 0)

(* A credential as it was read.                                            *)
AsRead(h) == h.secret = h.read /\ h.due = 0

(* What a credential in hand tells, when t is the secret of its row.       *)
Truthful(h, t) ==
    /\ h.read.expires <= t.expires
    /\ h.read.expires <= h.secret.expires
    /\ h.due <= h.secret.expires
    /\ h.secret # h.read => /\ h.read.jwt
                            /\ h.secret.jwt => h.due # 0

Promise(c) ==
    c \notin overtaken =>
       /\ Covers(vault[c].secret, row[c].expires)
       /\ \A p \in Requests : cred[p] = c => Truthful(hand[p], vault[c].secret)
       /\ probe.cred = c => Truthful(probe.hand, vault[c].secret)

Unspent ==
    /\ now # 0
    /\ \A p \in Requests : at[p] = "auth" => AsRead(hand[p])
    /\ probe.at = "auth" => AsRead(probe.hand)

ExpiryInv == Unspent /\ \A c \in Creds : Promise(c)

-----------------------------------------------------------------------------
(* Credentials in hand.                                                    *)
LEMMA TokenTypes ==
    /\ \A t \in Tokens : t.expires \in Nat /\ t.jwt \in BOOLEAN
    /\ \A v \in Vaults : v.secret \in Tokens
    /\ \A h \in Hands : h.secret \in Tokens /\ h.read \in Tokens /\ h.due \in Nat
  BY DEF Tokens, Vaults, Hands

LEMMA HandOfIsTruthful ==
    ASSUME NEW v \in Vaults
    PROVE  AsRead(HandOf(v)) /\ Truthful(HandOf(v), v.secret)
  BY TokenTypes DEF HandOf, AsRead, Truthful

LEMMA AnswerIsTruthful ==
    ASSUME NEW h \in Hands, NEW t \in Tokens, AsRead(h), Truthful(h, t),
           CanRefresh(h), now \in Nat, now # 0, NEW h2 \in Answers(h)
    PROVE  Truthful(h2, t)
  <1>1. PICK jwt \in Readable, kind \in Replies, told \in BOOLEAN :
          h2 = Answer(h, jwt, kind, told)
    BY DEF Answers
  <1>2. /\ h2.secret.expires = now + Lifetime /\ h2.secret.jwt = jwt
        /\ h2.read = h.read
        /\ h2.due = IF jwt \/ told THEN now + Lifetime ELSE 0
    BY <1>1 DEF Answer, Hands
  <1>3. now + Lifetime \in Nat /\ now + Lifetime # 0
        /\ now + RefreshWindow <= now + Lifetime
    BY Grants, LifetimeAssumption
  <1>4. h.read = h.secret /\ h.read.jwt /\ h.read.expires <= now + RefreshWindow
    BY DEF AsRead, CanRefresh
  <1>5. h2.read.expires <= h2.secret.expires
    BY <1>2, <1>3, <1>4, TokenTypes, Grants
  <1>. QED BY <1>2, <1>3, <1>4, <1>5 DEF Truthful

(* A holder writes its row: what the others have read is still covered.    *)
LEMMA WriteIsTruthful ==
    ASSUME NEW v \in Vaults, NEW h \in Hands, NEW e \in Nat, NEW e2,
           Covers(v.secret, e), Truthful(h, v.secret),
           h.secret = h.read \/ v.secret = h.read,
           e2 \in {e} \union ({h.due} \ {0})
    PROVE  /\ Covers(Rotated(v, h).secret, e2)
           /\ v.secret.expires <= Rotated(v, h).secret.expires
  <1>1. Rotated(v, h).secret = IF h.secret # h.read THEN h.secret ELSE v.secret
    BY DEF Rotated
  <1>2. /\ v.secret.expires \in Nat /\ h.secret.expires \in Nat
        /\ h.read.expires \in Nat /\ h.due \in Nat
    BY TokenTypes
  <1>3. CASE h.secret # h.read
    <2>1. v.secret = h.read /\ h.read.jwt /\ (h.secret.jwt => h.due # 0)
          /\ v.secret.expires <= h.secret.expires /\ h.due <= h.secret.expires
      BY <1>3 DEF Truthful
    <2>2. e2 <= h.secret.expires
      BY <1>2, <2>1 DEF Covers
    <2>3. h.secret.jwt => e2 # 0
      BY <2>1 DEF Covers
    <2>4. Rotated(v, h).secret = h.secret
      BY <1>1, <1>3
    <2>. QED BY <2>1, <2>2, <2>3, <2>4 DEF Covers
  <1>4. CASE h.secret = h.read
    <2>1. h.due <= v.secret.expires
      BY <1>2, <1>4 DEF Truthful
    <2>2. Covers(v.secret, e2)
      BY <2>1 DEF Covers
    <2>3. Rotated(v, h).secret = v.secret
      BY <1>1, <1>4
    <2>. QED BY <1>2, <2>2, <2>3
  <1>. QED BY <1>3, <1>4

LEMMA StaysTruthful ==
    ASSUME NEW h \in Hands, NEW t \in Tokens, NEW u \in Tokens,
           Truthful(h, t), t.expires <= u.expires
    PROVE  Truthful(h, u)
  BY TokenTypes DEF Truthful

-----------------------------------------------------------------------------
(* A step that leaves the row of c: its holders drop it, keep it as it is, *)
(* or have something truthful in hand.                                     *)
LEMMA PromiseStays ==
    ASSUME NEW c \in Creds, Promise(c),
           c \in overtaken => c \in overtaken',
           vault'[c].secret = vault[c].secret, row'[c].expires = row[c].expires,
           c \notin overtaken =>
             /\ \A p \in Requests : cred'[p] = c =>
                  \/ cred[p] = c /\ hand'[p] = hand[p]
                  \/ Truthful(hand'[p], vault[c].secret)
             /\ probe'.cred = c =>
                  \/ probe.cred = c /\ probe'.hand = probe.hand
                  \/ Truthful(probe'.hand, vault[c].secret)
    PROVE  Promise(c)'
  BY DEF Promise

(* A step in which the holder of h writes the row of c and lets go of it.  *)
LEMMA PromiseIsWritten ==
    ASSUME TypesInv, NEW c \in Creds, Promise(c), NEW h \in Hands,
           c \notin overtaken => Truthful(h, vault[c].secret),
           vault'[c] = Rotated(vault[c], h),
           row'[c].expires \in {row[c].expires} \union ({h.due} \ {0}),
           overtaken' = overtaken \union {d \in {c} : Overtakes(d, h)},
           \A p \in Requests : cred'[p] = c => cred[p] = c /\ hand'[p] = hand[p],
           probe'.cred = c => probe.cred = c /\ probe'.hand = probe.hand
    PROVE  Promise(c)'
  <1>. SUFFICES ASSUME c \notin overtaken' PROVE Promise(c)'
    BY DEF Promise
  <1>1. c \notin overtaken /\ ~Overtakes(c, h)
    OBVIOUS
  <1>2. vault[c] \in Vaults /\ row[c].expires \in Nat
        /\ probe.hand \in Hands /\ \A p \in Requests : hand[p] \in Hands
    BY DEF TypesInv, TypeOK, PoolTypeOK, Rows
  <1>3. /\ Covers(vault[c].secret, row[c].expires) /\ Truthful(h, vault[c].secret)
        /\ h.secret = h.read \/ vault[c].secret = h.read
    BY <1>1 DEF Promise, Overtakes
  <1>4. /\ Covers(vault'[c].secret, row'[c].expires)
        /\ vault[c].secret.expires <= vault'[c].secret.expires
    BY <1>2, <1>3, WriteIsTruthful
  <1>5. vault[c].secret \in Tokens /\ vault'[c].secret \in Tokens
    BY <1>2, RotatedTyped, TokenTypes
  <1>6. ASSUME NEW p \in Requests, cred'[p] = c
        PROVE  Truthful(hand'[p], vault'[c].secret)
    BY <1>1, <1>2, <1>4, <1>5, <1>6, StaysTruthful DEF Promise
  <1>7. ASSUME probe'.cred = c PROVE Truthful(probe'.hand, vault'[c].secret)
    BY <1>1, <1>2, <1>4, <1>5, <1>7, StaysTruthful DEF Promise
  <1>. QED BY <1>4, <1>6, <1>7 DEF Promise

-----------------------------------------------------------------------------
(* The steps of a request.                                                 *)
LEMMA RequestPromise ==
    ASSUME TypesInv, ExpiryInv, NEW p \in Requests,
           \/ \E c \in Creds : Take(p, c)
           \/ Renew(p) \/ Keep(p) \/ Refuse(p) \/ Store(p) \/ Disconnect(p)
    PROVE  ExpiryInv'
  <1>1. /\ at \in [Requests -> {"idle", "auth", "rotate"}]
        /\ cred \in [Requests -> Creds \union {0}] /\ hand \in [Requests -> Hands]
        /\ vault \in [Creds -> Vaults] /\ row \in [Creds -> Rows] /\ now \in Nat
        /\ at[p] # "idle" => cred[p] \in Creds
    BY DEF TypesInv, TypeOK, PoolTypeOK, PhasesOK
  <1>2. now # 0 /\ (at[p] = "auth" => AsRead(hand[p])) /\ \A c \in Creds : Promise(c)
    BY DEF ExpiryInv, Unspent
  <1>3. CASE \E c \in Creds : Take(p, c)
    <2>1. PICK c \in Creds : Take(p, c)
      BY <1>3
    <2>2. AsRead(HandOf(vault[c])) /\ Truthful(HandOf(vault[c]), vault[c].secret)
      BY <1>1, HandOfIsTruthful
    <2>3. UNCHANGED <<row, vault, now, probe, overtaken>>
      BY <2>1 DEF Take, table
    <2>4. \A q \in Requests : /\ at'[q] = IF q = p THEN "auth" ELSE at[q]
                              /\ cred'[q] = IF q = p THEN c ELSE cred[q]
                              /\ hand'[q] = IF q = p THEN HandOf(vault[c]) ELSE hand[q]
      BY <1>1, <2>1 DEF Take
    <2>5. Unspent'
      BY <2>2, <2>3, <2>4 DEF ExpiryInv, Unspent, AsRead
    <2>6. ASSUME NEW d \in Creds PROVE Promise(d)'
      BY <1>2, <2>2, <2>3, <2>4, <2>6, PromiseStays
    <2>. QED BY <2>5, <2>6 DEF ExpiryInv
  <1>4. CASE Renew(p)
    <2>1. PICK h \in Answers(hand[p]) : Renewed(hand[p], h) /\ hand' = [hand EXCEPT ![p] = h]
      BY <1>4 DEF Renew
    <2>2. /\ at[p] = "auth" /\ at' = [at EXCEPT ![p] = "rotate"]
          /\ UNCHANGED <<row, vault, now, cred, probe, overtaken>>
      BY <1>4 DEF Renew, table
    <2>3. \A q \in Requests : /\ at'[q] = IF q = p THEN "rotate" ELSE at[q]
                              /\ hand'[q] = IF q = p THEN h ELSE hand[q]
      BY <1>1, <2>1, <2>2
    <2>4. Unspent'
      BY <2>2, <2>3 DEF ExpiryInv, Unspent, AsRead
    <2>5. ASSUME NEW d \in Creds PROVE Promise(d)'
      <3>1. ASSUME d \notin overtaken, cred[p] = d
            PROVE  Truthful(h, vault[d].secret)
        <4>1. Truthful(hand[p], vault[d].secret) /\ AsRead(hand[p])
          BY <1>2, <2>2, <3>1 DEF Promise
        <4>2. vault[d].secret \in Tokens /\ hand[p] \in Hands /\ CanRefresh(hand[p])
          BY <1>1, <2>1, TokenTypes DEF Renewed
        <4>. QED BY <1>1, <1>2, <2>1, <4>1, <4>2, AnswerIsTruthful
      <3>. QED BY <1>2, <2>2, <2>3, <3>1, PromiseStays
    <2>. QED BY <2>4, <2>5 DEF ExpiryInv
  <1>5. ASSUME LeaveAcquire(p), UNCHANGED <<row, vault, now, probe, overtaken>>
        PROVE  ExpiryInv'
    <2>1. \A q \in Requests : /\ at'[q] = IF q = p THEN "idle" ELSE at[q]
                              /\ cred'[q] = IF q = p THEN 0 ELSE cred[q]
                              /\ q # p => hand'[q] = hand[q]
      BY <1>1, <1>5 DEF LeaveAcquire
    <2>2. Unspent'
      BY <1>5, <2>1 DEF ExpiryInv, Unspent, AsRead
    <2>3. ASSUME NEW d \in Creds PROVE Promise(d)'
      BY <1>2, <1>5, <2>1, CredsAssumption, PromiseStays
    <2>. QED BY <2>2, <2>3 DEF ExpiryInv
  <1>6. CASE Keep(p) \/ Refuse(p) \/ Disconnect(p)
    BY <1>5, <1>6 DEF Keep, Refuse, Disconnect, table
  <1>7. CASE Store(p)
    <2>1. PICK c \in Creds, h \in Hands : c = cred[p] /\ h = hand[p]
      BY <1>1, <1>7 DEF Store
    <2>2. /\ LeaveAcquire(p)
          /\ vault' = [vault EXCEPT ![c] = Rotated(vault[c], h)]
          /\ row' = [row EXCEPT ![c].expires = IF h.due # 0 THEN h.due ELSE @]
          /\ overtaken' = overtaken \union {d \in {c} : Overtakes(d, h)}
          /\ UNCHANGED <<now, probe>>
      BY <1>7, <2>1 DEF Store
    <2>3. \A q \in Requests : /\ at'[q] = IF q = p THEN "idle" ELSE at[q]
                              /\ cred'[q] = IF q = p THEN 0 ELSE cred[q]
                              /\ q # p => hand'[q] = hand[q]
      BY <1>1, <2>2 DEF LeaveAcquire
    <2>4. /\ vault'[c] = Rotated(vault[c], h)
          /\ row'[c].expires \in {row[c].expires} \union ({h.due} \ {0})
          /\ \A d \in Creds : d # c => vault'[d] = vault[d] /\ row'[d] = row[d]
      BY <1>1, <2>2 DEF Rows
    <2>5. Unspent'
      BY <2>2, <2>3 DEF ExpiryInv, Unspent, AsRead
    <2>6. Promise(c)'
      <3>1. c \notin overtaken => Truthful(h, vault[c].secret)
        BY <1>2, <2>1 DEF Promise
      <3>2. \A q \in Requests : cred'[q] = c => cred[q] = c /\ hand'[q] = hand[q]
        BY <2>3, CredsAssumption
      <3>3. probe' = probe
        BY <2>2
      <3>. QED BY <1>2, <2>2, <2>4, <3>1, <3>2, <3>3, PromiseIsWritten
    <2>7. ASSUME NEW d \in Creds, d # c PROVE Promise(d)'
      BY <1>2, <2>2, <2>3, <2>4, <2>7, CredsAssumption, PromiseStays
    <2>. QED BY <2>5, <2>6, <2>7 DEF ExpiryInv
  <1>. QED BY <1>3, <1>4, <1>6, <1>7

(* The steps of the probe.                                                 *)
LEMMA ProbePromise ==
    ASSUME TypesInv, ExpiryInv,
           \/ \E c \in Creds : ProbeRead(c)
           \/ ProbeAuthenticate \/ ProbeHealth \/ ProbeStore \/ ProbeReject
    PROVE  ExpiryInv'
  <1>1. /\ vault \in [Creds -> Vaults] /\ row \in [Creds -> Rows] /\ now \in Nat
        /\ probe \in [at : ProbePhases, cred : Creds \union {0}, seen : Rows,
                      hand : Hands, healthy : BOOLEAN]
        /\ probe.at # "idle" => probe.cred \in Creds
    BY DEF TypesInv, TypeOK, PoolTypeOK, PhasesOK
  <1>2. now # 0 /\ (probe.at = "auth" => AsRead(probe.hand)) /\ \A c \in Creds : Promise(c)
    BY DEF ExpiryInv, Unspent
  <1>3. UNCHANGED <<at, hand, now>> /\ (probe'.at = "auth" => AsRead(probe'.hand))
           => Unspent'
    BY DEF ExpiryInv, Unspent, AsRead
  <1>4. CASE \E c \in Creds : ProbeRead(c)
    <2>1. PICK c \in Creds : ProbeRead(c)
      BY <1>4
    <2>2. AsRead(HandOf(vault[c])) /\ Truthful(HandOf(vault[c]), vault[c].secret)
      BY <1>1, HandOfIsTruthful
    <2>3. /\ probe'.cred = c /\ probe'.hand = HandOf(vault[c])
          /\ UNCHANGED <<row, vault, now, at, cred, hand, overtaken>>
      BY <2>1 DEF ProbeRead, IdleProbe, table, requests
    <2>4. Unspent'
      BY <1>3, <2>2, <2>3
    <2>5. ASSUME NEW d \in Creds PROVE Promise(d)'
      BY <1>2, <2>2, <2>3, <2>5, PromiseStays
    <2>. QED BY <2>4, <2>5 DEF ExpiryInv
  <1>5. CASE ProbeAuthenticate
    <2>1. /\ probe.at = "auth"
          /\ UNCHANGED <<row, vault, now, at, cred, hand, overtaken>>
      BY <1>5 DEF ProbeAuthenticate, table, requests
    <2>2. ASSUME probe'.cred = probe.cred, probe'.at # "auth",
                 \A t \in Tokens : Truthful(probe.hand, t) => Truthful(probe'.hand, t)
          PROVE  ExpiryInv'
      <3>1. ASSUME NEW d \in Creds PROVE Promise(d)'
        <4>1. vault[d].secret \in Tokens
          BY <1>1, TokenTypes
        <4>. QED BY <1>2, <2>1, <2>2, <3>1, <4>1, PromiseStays DEF Promise
      <3>. QED BY <1>3, <2>1, <2>2, <3>1 DEF ExpiryInv
    <2>3. CASE Refused(probe.hand) /\ probe' = [probe EXCEPT !.at = "reject"]
      <3>1. probe'.cred = probe.cred /\ probe'.at = "reject" /\ probe'.hand = probe.hand
        BY <1>1, <2>3
      <3>. QED BY <2>2, <3>1
    <2>4. CASE \E h \in Answers(probe.hand) :
                  Renewed(probe.hand, h)
                    /\ probe' = [probe EXCEPT !.at = "health", !.hand = h]
      <3>1. PICK h \in Answers(probe.hand) :
               Renewed(probe.hand, h)
                 /\ probe' = [probe EXCEPT !.at = "health", !.hand = h]
        BY <2>4
      <3>2. probe'.cred = probe.cred /\ probe'.at = "health" /\ probe'.hand = h
        BY <1>1, <3>1
      <3>3. probe.hand \in Hands /\ AsRead(probe.hand) /\ CanRefresh(probe.hand)
        BY <1>1, <1>2, <2>1, <3>1 DEF Renewed
      <3>4. \A t \in Tokens : Truthful(probe.hand, t) => Truthful(h, t)
        BY <1>1, <1>2, <3>3, AnswerIsTruthful
      <3>. QED BY <2>2, <3>2, <3>4
    <2>5. CASE Valid(probe.hand) /\ probe' = [probe EXCEPT !.at = "health",
                                       !.hand.due = ReadExpiry(probe.hand.secret)]
      <3>1. /\ probe'.cred = probe.cred /\ probe'.at = "health"
            /\ probe'.hand.secret = probe.hand.secret
            /\ probe'.hand.read = probe.hand.read
            /\ probe'.hand.due = ReadExpiry(probe.hand.secret)
        BY <1>1, <2>5 DEF Hands
      <3>2. probe.hand.secret = probe.hand.read /\ probe.hand.secret \in Tokens
        BY <1>1, <1>2, <2>1, TokenTypes DEF AsRead
      <3>3. ReadExpiry(probe.hand.secret) <= probe.hand.secret.expires
        BY <3>2, TokenTypes DEF ReadExpiry
      <3>4. \A t \in Tokens : Truthful(probe.hand, t) => Truthful(probe'.hand, t)
        BY <3>1, <3>2, <3>3 DEF Truthful
      <3>. QED BY <2>2, <3>1, <3>4
    <2>. QED BY <1>5, <2>3, <2>4, <2>5 DEF ProbeAuthenticate
  <1>6. CASE ProbeHealth
    <2>1. /\ probe'.cred = probe.cred /\ probe'.hand = probe.hand /\ probe'.at = "store"
          /\ UNCHANGED <<row, vault, now, at, cred, hand, overtaken>>
      BY <1>1, <1>6 DEF ProbeHealth, requests, table
    <2>2. ASSUME NEW d \in Creds PROVE Promise(d)'
      BY <1>2, <2>1, PromiseStays
    <2>. QED BY <1>3, <2>1, <2>2 DEF ExpiryInv
  <1>7. CASE ProbeStore
    <2>1. PICK c \in Creds, h \in Hands : c = probe.cred /\ h = probe.hand
      BY <1>1, <1>7 DEF ProbeStore
    <2>2. /\ vault' = [vault EXCEPT ![c] = Rotated(vault[c], h)]
          /\ row' = [row EXCEPT ![c] = Probed(row[c])]
          /\ overtaken' = overtaken \union {d \in {c} : Overtakes(d, h)}
          /\ probe' = IdleProbe
          /\ UNCHANGED <<now, at, cred, hand>>
      BY <1>7, <2>1 DEF ProbeStore, requests
    <2>3. Probed(row[c]).expires \in {row[c].expires} \union ({h.due} \ {0})
      BY <1>1, <2>1 DEF Probed, Written, Rows
    <2>4. /\ vault'[c] = Rotated(vault[c], h)
          /\ row'[c].expires \in {row[c].expires} \union ({h.due} \ {0})
          /\ \A d \in Creds : d # c => vault'[d] = vault[d] /\ row'[d] = row[d]
      BY <1>1, <2>2, <2>3
    <2>5. probe'.at = "idle" /\ \A d \in Creds : probe'.cred # d
      BY <2>2, IdleProbeTyped, CredsAssumption
    <2>6. Promise(c)'
      <3>1. c \notin overtaken => Truthful(h, vault[c].secret)
        BY <1>2, <2>1 DEF Promise
      <3>. QED BY <1>2, <2>2, <2>4, <2>5, <3>1, PromiseIsWritten
    <2>7. ASSUME NEW d \in Creds, d # c PROVE Promise(d)'
      BY <1>2, <2>2, <2>4, <2>5, <2>7, PromiseStays
    <2>. QED BY <1>3, <2>2, <2>5, <2>6, <2>7 DEF ExpiryInv
  <1>8. CASE ProbeReject
    <2>1. PICK c \in Creds : c = probe.cred
      BY <1>1, <1>8 DEF ProbeReject
    <2>2. /\ row' = [row EXCEPT ![c].status =
                                  Written(probe.seen.status, "invalid", row[c].status)]
          /\ probe' = IdleProbe
          /\ UNCHANGED <<vault, now, at, cred, hand, overtaken>>
      BY <1>8, <2>1 DEF ProbeReject, requests
    <2>3. \A d \in Creds : row'[d].expires = row[d].expires
      BY <1>1, <2>2 DEF Rows
    <2>4. probe'.at = "idle" /\ \A d \in Creds : probe'.cred # d
      BY <2>2, IdleProbeTyped, CredsAssumption
    <2>5. ASSUME NEW d \in Creds PROVE Promise(d)'
      BY <1>2, <2>2, <2>3, <2>4, PromiseStays
    <2>. QED BY <1>3, <2>2, <2>4, <2>5 DEF ExpiryInv
  <1>. QED BY <1>4, <1>5, <1>6, <1>7, <1>8

(* A report, and the operator's edits.                                     *)
LEMMA OperatorPromise ==
    ASSUME TypesInv, ExpiryInv, NEW c \in Creds,
           Report(c) \/ TypeSecret(c) \/ TypeRefresh(c)
    PROVE  ExpiryInv'
  <1>1. /\ vault \in [Creds -> Vaults] /\ row \in [Creds -> Rows] /\ now \in Nat
    BY DEF TypesInv, TypeOK, PoolTypeOK
  <1>2. now # 0 /\ \A d \in Creds : Promise(d)
    BY DEF ExpiryInv, Unspent
  <1>3. UNCHANGED <<now, at, hand, probe>> => Unspent'
    BY DEF ExpiryInv, Unspent, AsRead
  <1>4. CASE Report(c)
    <2>1. UNCHANGED <<vault, now, at, cred, hand, probe, overtaken>>
      BY <1>4 DEF Report, requests
    <2>2. \A d \in Creds : row'[d].expires = row[d].expires
      <3>1. \A r \in Rows : \A category \in Failures :
               FailedRow(r, r, category, 0, 0).expires = r.expires
        BY DEF FailedRow, Rows
      <3>2. CASE MarkSuccess(c)
        BY <1>1, <3>2 DEF MarkSuccess, Rows
      <3>3. CASE \E category \in Failures : MarkFailure(c, row[c], category, 0, 0)
        <4>1. PICK category \in Failures :
                 row' = [row EXCEPT ![c] = FailedRow(row[c], row[c], category, 0, 0)]
          BY <3>3 DEF MarkFailure
        <4>2. FailedRow(row[c], row[c], category, 0, 0).expires = row[c].expires
          BY <1>1, <3>1
        <4>. QED BY <1>1, <4>1, <4>2
      <3>. QED BY <1>4, <3>2, <3>3 DEF Report
    <2>3. ASSUME NEW d \in Creds PROVE Promise(d)'
      BY <1>2, <2>1, <2>2, PromiseStays
    <2>. QED BY <1>3, <2>1, <2>3 DEF ExpiryInv
  <1>5. CASE TypeRefresh(c)
    <2>1. /\ UNCHANGED <<row, now, at, cred, hand, probe, overtaken>>
          /\ vault' = [vault EXCEPT ![c] = [vault[c] EXCEPT !.refresh = minted + 1]]
      BY <1>5 DEF TypeRefresh, EditSecrets, requests
    <2>2. \A d \in Creds : vault'[d].secret = vault[d].secret
      BY <1>1, <2>1 DEF Vaults
    <2>3. ASSUME NEW d \in Creds PROVE Promise(d)'
      BY <1>2, <2>1, <2>2, PromiseStays
    <2>. QED BY <1>3, <2>1, <2>3 DEF ExpiryInv
  <1>6. CASE TypeSecret(c)
    <2>1. PICK jwt \in Readable, refresh \in {vault[c].refresh, minted + 1} :
            LET t == [grant |-> minted + 1, expires |-> now + Lifetime, jwt |-> jwt]
            IN /\ ReplaceSecret(c, ReadExpiry(t))
               /\ EditSecrets(c, [vault[c] EXCEPT !.secret = t, !.refresh = refresh])
      BY <1>6 DEF TypeSecret
    <2>. DEFINE t == [grant |-> minted + 1, expires |-> now + Lifetime, jwt |-> jwt]
    <2>2. /\ UNCHANGED <<now, at, cred, hand, probe>>
          /\ vault' = [vault EXCEPT ![c] = [vault[c] EXCEPT !.secret = t, !.refresh = refresh]]
          /\ row' = [row EXCEPT ![c] = [row[c] EXCEPT !.status = "unknown", !.failures = 0,
                                       !.cooldown = 0, !.expires = ReadExpiry(t),
                                       !.readable = TRUE]]
          /\ overtaken' = IF HeldByOthers(c) THEN overtaken \union {c} ELSE overtaken \ {c}
      BY <1>6, <2>1 DEF TypeSecret, ReplaceSecret, EditSecrets, requests
    <2>3. Covers(t, ReadExpiry(t))
      BY <1>1, <1>2, Grants DEF Covers, ReadExpiry
    <2>. HIDE DEF t
    <2>4. /\ vault'[c].secret = t /\ row'[c].expires = ReadExpiry(t)
          /\ \A d \in Creds : d # c => vault'[d] = vault[d] /\ row'[d] = row[d]
      BY <1>1, <2>2 DEF Vaults, Rows
    <2>5. Promise(c)'
      <3>. SUFFICES ASSUME c \notin overtaken' PROVE Promise(c)'
        BY DEF Promise
      <3>1. probe.cred # c /\ \A p \in Requests : cred[p] # c
        BY <2>2 DEF HeldByOthers
      <3>. QED BY <2>2, <2>3, <2>4, <3>1 DEF Promise
    <2>6. ASSUME NEW d \in Creds, d # c PROVE Promise(d)'
      BY <1>2, <2>2, <2>4, <2>6, PromiseStays
    <2>. QED BY <1>3, <2>2, <2>5, <2>6 DEF ExpiryInv
  <1>. QED BY <1>4, <1>5, <1>6

LEMMA ExpiryInit == Init => ExpiryInv
  <1>. SUFFICES ASSUME Init PROVE ExpiryInv
    OBVIOUS
  <1>1. now = 1 /\ at = [p \in Requests |-> "idle"] /\ cred = [p \in Requests |-> 0]
        /\ probe = IdleProbe
    BY DEF Init
  <1>2. Unspent
    BY <1>1, IdleProbeTyped DEF Unspent
  <1>3. ASSUME NEW c \in Creds PROVE Promise(c)
    <2>1. vault[c] \in InitialVaults /\ row[c].expires = ReadExpiry(vault[c].secret)
      BY DEF Init
    <2>2. vault[c].secret \in Tokens
      BY <2>1, TokenTypes, VaultsAssumption
    <2>3. Covers(vault[c].secret, row[c].expires)
      BY <2>1, <2>2, TokenTypes, LifetimeAssumption DEF Covers, ReadExpiry
    <2>4. probe.cred # c /\ \A p \in Requests : cred[p] # c
      BY <1>1, IdleProbeTyped, CredsAssumption
    <2>. QED BY <2>3, <2>4 DEF Promise
  <1>. QED BY <1>2, <1>3 DEF ExpiryInv

LEMMA ExpiryStep == TypesInv /\ ExpiryInv /\ [Next]_vars => ExpiryInv'
  <1>. SUFFICES ASSUME TypesInv, ExpiryInv, [Next]_vars PROVE ExpiryInv'
    OBVIOUS
  <1>1. \A c \in Creds : Promise(c)
    BY DEF ExpiryInv
  <1>2. CASE Elapse
    <2>1. /\ now' # 0
          /\ UNCHANGED <<row, vault, at, cred, hand, probe, overtaken>>
      BY <1>2 DEF Elapse, Tick, requests, TypesInv, TypeOK, PoolTypeOK
    <2>2. Unspent'
      BY <2>1 DEF ExpiryInv, Unspent, AsRead
    <2>. QED BY <1>1, <2>1, <2>2, PromiseStays DEF ExpiryInv
  <1>3. CASE Restart
    <2>1. /\ UNCHANGED <<row, vault, now, overtaken>> /\ probe' = IdleProbe
          /\ \A p \in Requests : at'[p] = "idle" /\ cred'[p] = 0
      BY <1>3 DEF Restart, table
    <2>2. Unspent'
      BY <2>1, IdleProbeTyped DEF ExpiryInv, Unspent
    <2>. QED BY <1>1, <2>1, <2>2, IdleProbeTyped, CredsAssumption, PromiseStays
             DEF ExpiryInv
  <1>4. CASE UNCHANGED vars
    BY <1>4 DEF vars, table, requests, ExpiryInv, Unspent, AsRead, Promise
  <1>. QED BY <1>2, <1>3, <1>4, RequestPromise, ProbePromise, OperatorPromise DEF Next

(* expires_at is not past the expiry of the stored secret, and NULL only   *)
(* for a secret that names none, until an edit overtakes a request or the  *)
(* probe: for any number of credentials, requests and grants.              *)
THEOREM ExpiryHolds == Spec => []ExpiryIsNotPromised
  <1>1. TypesInv /\ ExpiryInv => ExpiryIsNotPromised
    BY DEF ExpiryInv, Promise, Covers, ExpiryIsNotPromised
  <1>. QED BY TypesInit, TypesStep, ExpiryInit, ExpiryStep, <1>1, PTL DEF Spec
=============================================================================

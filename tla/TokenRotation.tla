----------------------------- MODULE TokenRotation -----------------------------
(***************************************************************************)
(* The secrets of the credentials and their renewal: what authenticate     *)
(* (providers/qwen/client.py) decides for the credential a request holds,  *)
(* persist_rotation, the operator who types new secrets, and the probe of  *)
(* the dashboard (test_credential), which holds a row across two calls to  *)
(* the provider before it writes it.                                       *)
(*                                                                         *)
(* The rows are those of CredentialScheduler, whose hot state stays idle   *)
(* here.  Of a request only the part that handles secrets is modelled, from*)
(* acquire to the end of _acquire: what it reports to the scheduler, in    *)
(* CompletionService a step of its own, is here a step that any credential *)
(* may see at any time.                                                    *)
(*                                                                         *)
(* A secret is one grant of the authorization server, which is outside the *)
(* repository: it takes a refresh token while it is in accepted, and       *)
(* answers with a new access token and, most often, with a new refresh     *)
(* token in whose favour the old one is dropped.  Grants are numbered in   *)
(* the order they are made; a refresh token is known by its grant.         *)
(***************************************************************************)
EXTENDS CredentialScheduler

CONSTANTS
    Requests,       \* requests that may be in _acquire at the same time
    Failures,       \* error categories of the failures reported in a run
    InitialVaults,  \* secrets the rows may hold when the process starts
    Replies,        \* whether a refresh "rotates" or "keeps" the refresh token
    Readable,       \* whether new access tokens are JWTs with an expiry
    Lifetime,       \* time a new access token lives
    RefreshWindow,  \* _REFRESH_WINDOW_SECONDS
    NaiveDates,     \* the driver returns dates without a zone (SQLite)
    MaxGrants,      \* bound on the number of grants
    MaxFailures     \* bound on consecutive_failures

VARIABLES
    vault,          \* id -> the secrets the table holds
    at,             \* await of a request: "idle", "auth" or "rotate"
    cred,           \* the credential it works with, 0 for none
    hand,           \* its ProviderCredential, NoHand for none
    probe,          \* the probe: its await, its row and what it is to write
    accepted,       \* refresh tokens the authorization server still takes
    minted,         \* number of grants so far
    lost,           \* history: refresh tokens spent for an answer never stored
    overtaken       \* history: rows written, or about to be, from a reading
                    \* that an edit has overtaken

table    == <<live, row, vault>>
requests == <<at, cred, hand>>
server   == <<accepted, minted, lost>>
vars     == <<table, hotVars, now, requests, probe, server, overtaken>>

Tokens == [grant : 0 .. MaxGrants, expires : Nat, jwt : BOOLEAN]

(* What a row holds: the secret and the grant of its refresh token, 0 for  *)
(* none.                                                                   *)
Vaults == [secret : Tokens, refresh : 0 .. MaxGrants]

ASSUME VaultsAssumption ==
    /\ InitialVaults \subseteq Vaults
    /\ Replies \subseteq {"rotates", "keeps"}
    /\ Readable \subseteq BOOLEAN
    /\ {Lifetime, RefreshWindow, MaxGrants} \subseteq Nat
    /\ Cardinality(Creds) <= MaxGrants
    /\ NaiveDates \in BOOLEAN
    /\ Failures \subseteq Categories

(* A new access token is not due for renewal at once, and time begins at 1.*)
ASSUME LifetimeAssumption ==
    /\ RefreshWindow <= Lifetime
    /\ \A v \in InitialVaults : v.secret.jwt => v.secret.expires # 0

(* A credential in hand: the vault as read and, after authenticate, the    *)
(* secret it found there (read), the refresh token it spent (spent, 0 when *)
(* it was not replaced) and the expiry it reports (due, 0 for None).       *)
Hands == [secret : Tokens, refresh : 0 .. MaxGrants,
          read : Tokens, spent : 0 .. MaxGrants, due : Nat]

NoToken == [grant |-> 0, expires |-> 0, jwt |-> FALSE]
NoHand  == [secret |-> NoToken, refresh |-> 0,
            read |-> NoToken, spent |-> 0, due |-> 0]

HandOf(v) == [secret |-> v.secret, refresh |-> v.refresh,
              read |-> v.secret, spent |-> 0, due |-> 0]

(* The probe stands at one of these awaits.                                *)
ProbePhases == {"idle", "auth", "health", "store", "reject"}
IdleProbe == [at |-> "idle", cred |-> 0, seen |-> FreshRow(0),
              hand |-> NoHand, healthy |-> FALSE]

(* Nobody keeps a secret longer than needed: a request has a credential in *)
(* hand exactly while it is in _acquire, the probe while it is out.        *)
TypeOK ==
    /\ PoolTypeOK
    /\ vault \in [Creds -> Vaults]
    /\ at \in [Requests -> {"idle", "auth", "rotate"}]
    /\ cred \in [Requests -> Creds \union {0}]
    /\ hand \in [Requests -> Hands]
    /\ probe \in [at : ProbePhases, cred : Creds \union {0}, seen : Rows,
                  hand : Hands, healthy : BOOLEAN]
    /\ accepted \subseteq 1 .. MaxGrants
    /\ minted \in 0 .. MaxGrants
    /\ lost \subseteq 1 .. MaxGrants
    /\ overtaken \subseteq Creds
    /\ \A p \in Requests : at[p] = "idle" => hand[p] = NoHand /\ cred[p] = 0
    /\ probe.at = "idle" => probe = IdleProbe

(* The expiry that inspect_token reads from a secret.                      *)
ReadExpiry(t) == IF t.jwt THEN t.expires ELSE 0

(* When the process starts no two rows hold the same refresh token: each   *)
(* was granted for the credential it was typed for.                        *)
Init ==
    /\ live = Creds
    /\ row \in [Creds -> InitialRows]
    /\ leases = [c \in Creds |-> 0]
    /\ lastSelected = [c \in Creds |-> 0]
    /\ tick = 0 /\ cursor = 0
    /\ now = 1
    /\ vault \in [Creds -> InitialVaults]
    /\ \A c \in Creds : /\ row[c].expires = ReadExpiry(vault[c].secret)
                        /\ vault[c].refresh <= Cardinality(Creds)
                        /\ \A d \in Creds \ {c} :
                              vault[c].refresh # 0 => vault[d].refresh # vault[c].refresh
    /\ at = [p \in Requests |-> "idle"]
    /\ cred = [p \in Requests |-> 0]
    /\ hand = [p \in Requests |-> NoHand]
    /\ probe = IdleProbe
    /\ accepted = {vault[c].refresh : c \in Creds} \ {0}
    /\ minted = Cardinality(Creds)
    /\ lost = {}
    /\ overtaken = {}

-----------------------------------------------------------------------------
(* authenticate.                                                           *)

Expired(t)     == t.jwt /\ t.expires <= now
CanRefresh(h)  == h.refresh # 0 /\ h.secret.jwt /\ h.secret.expires <= now + RefreshWindow

(* The credential after a refresh: expires_in tells the expiry of a token  *)
(* that is not a JWT, unless it is absent.                                 *)
Answer(h, jwt, kind, told) ==
    [h EXCEPT !.secret  = [grant |-> minted + 1, expires |-> now + Lifetime,
                           jwt |-> jwt],
              !.refresh = IF kind = "rotates" THEN minted + 1 ELSE @,
              !.spent   = IF kind = "rotates" THEN h.refresh ELSE @,
              !.due     = IF jwt \/ told THEN now + Lifetime ELSE 0]

(* What the authorization server may answer to a refresh.                  *)
Answers(h) ==
    {Answer(h, jwt, kind, told) :
        jwt \in Readable, kind \in Replies, told \in BOOLEAN}

(* The refresh grant succeeds: h2 is the credential with its answer.       *)
Renewed(h, h2) ==
    /\ CanRefresh(h)
    /\ h.refresh \in accepted
    /\ minted < MaxGrants
    /\ h2 \in Answers(h)
    /\ minted' = minted + 1
    /\ accepted' = IF h2.spent # 0
                     THEN (accepted \ {h2.spent}) \union {h2.refresh} ELSE accepted
    /\ UNCHANGED lost

(* authenticate answers ok without a refresh, and reports the expiry.      *)
Valid(h) == ~CanRefresh(h) /\ ~Expired(h.secret) /\ UNCHANGED server

(* authenticate answers that the credential is not ok: the refresh was     *)
(* refused or did not get through, or its answer was lost on the way back, *)
(* or an expired secret cannot be refreshed.                               *)
Refused(h) ==
    \/ /\ CanRefresh(h) \/ Expired(h.secret)
       /\ UNCHANGED <<accepted, minted, lost>>
    \/ /\ CanRefresh(h)
       /\ h.refresh \in accepted
       /\ "rotates" \in Replies
       /\ accepted' = accepted \ {h.refresh}
       /\ lost' = lost \union {h.refresh}
       /\ UNCHANGED minted

(* Wrong variants: one of the two new tokens is not stored.                *)
ForgetsRefresh(v, h) ==
    [v EXCEPT !.secret = IF h.secret # h.read THEN h.secret ELSE @]
ForgetsSecret(v, h) ==
    [v EXCEPT !.refresh = IF h.spent # 0 THEN h.refresh ELSE @]

(* The columns of a vault that a credential in hand has news of.           *)
Rotated(v, h) ==
    [secret  |-> IF h.secret # h.read THEN h.secret ELSE v.secret,
     refresh |-> IF h.spent # 0 THEN h.refresh ELSE v.refresh]

(* A rotation of a secret that has been replaced since it was read.        *)
Overtakes(c, h) == h.secret # h.read /\ vault[c].secret # h.read

-----------------------------------------------------------------------------
(* Requests, from acquire to the end of _acquire.                          *)

(* acquire: the credential is built from the row as it was chosen.         *)
Take(p, c) ==
    /\ at[p] = "idle"
    /\ c \in Eligible
    /\ row[c].readable
    /\ at' = [at EXCEPT ![p] = "auth"]
    /\ cred' = [cred EXCEPT ![p] = c]
    /\ hand' = [hand EXCEPT ![p] = HandOf(vault[c])]
    /\ UNCHANGED <<table, hotVars, now, probe, server, overtaken>>

(* A wrong variant: the credential is kept for the next request.           *)
LeaveHand(p) ==
    /\ at' = [at EXCEPT ![p] = "idle"]
    /\ cred' = [cred EXCEPT ![p] = 0]
    /\ UNCHANGED hand

(* The end of _acquire, with a credential for the call or without.         *)
LeaveAcquire(p) ==
    /\ at' = [at EXCEPT ![p] = "idle"]
    /\ cred' = [cred EXCEPT ![p] = 0]
    /\ hand' = [hand EXCEPT ![p] = NoHand]

Renew(p) ==
    /\ at[p] = "auth"
    /\ \E h \in Answers(hand[p]) :
          Renewed(hand[p], h) /\ hand' = [hand EXCEPT ![p] = h]
    /\ at' = [at EXCEPT ![p] = "rotate"]
    /\ UNCHANGED <<table, hotVars, now, cred, probe, overtaken>>

Keep(p) ==
    /\ at[p] = "auth"
    /\ Valid(hand[p])
    /\ LeaveAcquire(p)
    /\ UNCHANGED <<table, hotVars, now, probe, overtaken>>

Refuse(p) ==
    /\ at[p] = "auth"
    /\ Refused(hand[p])
    /\ LeaveAcquire(p)
    /\ UNCHANGED <<table, hotVars, now, probe, overtaken>>

(* persist_rotation is one UPDATE of the columns that are given.           *)
Store(p) ==
    LET c == cred[p]  h == hand[p] IN
    /\ at[p] = "rotate"
    /\ vault' = [vault EXCEPT ![c] = Rotated(vault[c], h)]
    /\ row' = [row EXCEPT ![c].expires = IF h.due # 0 THEN h.due ELSE @]
    /\ overtaken' = overtaken \union {d \in {c} : Overtakes(d, h)}
    /\ LeaveAcquire(p)
    /\ UNCHANGED <<live, hotVars, now, probe, server>>

(* The client of a stream leaves, and the answer of a refresh with it.     *)
Disconnect(p) ==
    /\ at[p] # "idle"
    /\ lost' = lost \union ({hand[p].spent} \ {0})
    /\ LeaveAcquire(p)
    /\ UNCHANGED <<table, hotVars, now, probe, accepted, minted, overtaken>>

(* A request reports the success or the failure of its credential.         *)
Report(c) ==
    /\ \/ MarkSuccess(c)
       \/ \E category \in Failures :
             /\ row[c].failures < MaxFailures
             /\ MarkFailure(c, row[c], category, 0, 0)
    /\ UNCHANGED <<live, vault, hotVars, now, requests, probe, server, overtaken>>

-----------------------------------------------------------------------------
(* test_credential: the row is read once and written, in one UPDATE, after *)
(* the calls to the provider.                                              *)

(* A secret that does not decrypt goes straight to the write.              *)
ProbeRead(c) ==
    /\ probe.at = "idle"
    /\ probe' = [IdleProbe EXCEPT !.at = IF row[c].readable THEN "auth" ELSE "reject",
                                  !.cred = c, !.seen = row[c],
                                  !.hand = HandOf(vault[c])]
    /\ UNCHANGED <<table, hotVars, now, requests, server, overtaken>>

ProbeAuthenticate ==
    /\ probe.at = "auth"
    /\ \/ Refused(probe.hand) /\ probe' = [probe EXCEPT !.at = "reject"]
       \/ \E h \in Answers(probe.hand) :
             /\ Renewed(probe.hand, h)
             /\ probe' = [probe EXCEPT !.at = "health", !.hand = h]
       \/ /\ Valid(probe.hand)
          /\ probe' = [probe EXCEPT !.at = "health",
                                    !.hand.due = ReadExpiry(probe.hand.secret)]
    /\ UNCHANGED <<table, hotVars, now, requests, overtaken>>

(* health_check, and list_models behind it.                                *)
ProbeHealth ==
    /\ probe.at = "health"
    /\ \E healthy \in BOOLEAN :
          probe' = [probe EXCEPT !.at = "store", !.healthy = healthy]
    /\ UNCHANGED <<table, hotVars, now, requests, server, overtaken>>

(* A wrong variant: the UPDATE writes every column the probe has set.      *)
WriteAlways(old, new, column) == new

(* An attribute is part of the UPDATE when its value is not the one read.  *)
Written(old, new, column) == IF new # old THEN new ELSE column

(* The row r after the probe.  A date set from the provider's answer is    *)
(* never equal to one that was read without a zone.                        *)
Probed(r) ==
    LET s == probe.seen  due == probe.hand.due IN
    [r EXCEPT
       !.status   = Written(s.status, IF probe.healthy THEN "healthy" ELSE "degraded", @),
       !.cooldown = IF probe.healthy THEN Written(s.cooldown, 0, @) ELSE @,
       !.failures = IF probe.healthy THEN Written(s.failures, 0, @) ELSE @,
       !.expires  = IF due = 0 THEN @
                    ELSE IF NaiveDates THEN due ELSE Written(s.expires, due, @)]

ProbeStore ==
    LET c == probe.cred IN
    /\ probe.at = "store"
    /\ row' = [row EXCEPT ![c] = Probed(row[c])]
    /\ vault' = [vault EXCEPT ![c] = Rotated(vault[c], probe.hand)]
    /\ overtaken' = overtaken \union {d \in {c} : Overtakes(d, probe.hand)}
    /\ probe' = IdleProbe
    /\ UNCHANGED <<live, hotVars, now, requests, server>>

ProbeReject ==
    LET c == probe.cred IN
    /\ probe.at = "reject"
    /\ row' = [row EXCEPT
                 ![c].status = Written(probe.seen.status, "invalid", row[c].status)]
    /\ probe' = IdleProbe
    /\ UNCHANGED <<live, vault, hotVars, now, requests, server, overtaken>>

-----------------------------------------------------------------------------
(* The operator's edits of secrets.                                        *)

HeldByOthers(c) == probe.cred = c \/ \E p \in Requests : cred[p] = c

EditSecrets(c, v) ==
    /\ minted < MaxGrants
    /\ minted' = minted + 1
    /\ vault' = [vault EXCEPT ![c] = v]
    /\ accepted' = IF v.refresh > minted THEN accepted \union {v.refresh} ELSE accepted
    /\ UNCHANGED <<requests, probe, lost>>

(* A new secret, alone or with its refresh token.  Whoever has read the    *)
(* row goes on with the old ones.                                          *)
TypeSecret(c) ==
    /\ "secret" \in Edits
    /\ \E jwt \in Readable, refresh \in {vault[c].refresh, minted + 1} :
          LET t == [grant |-> minted + 1, expires |-> now + Lifetime, jwt |-> jwt]
          IN /\ ReplaceSecret(c, ReadExpiry(t))
             /\ EditSecrets(c, [vault[c] EXCEPT !.secret = t, !.refresh = refresh])
    /\ overtaken' = IF HeldByOthers(c) THEN overtaken \union {c} ELSE overtaken \ {c}

TypeRefresh(c) ==
    /\ "refresh" \in Edits
    /\ EditSecrets(c, [vault[c] EXCEPT !.refresh = minted + 1])
    /\ UNCHANGED <<live, row, hotVars, now, overtaken>>

Elapse == Tick /\ UNCHANGED <<vault, requests, probe, server, overtaken>>

(* The process dies and is started again: whoever had a credential in hand *)
(* is gone, and every answer of a refresh that was not stored with it.     *)
Restart ==
    /\ probe # IdleProbe \/ \E p \in Requests : at[p] # "idle"
    /\ at' = [p \in Requests |-> "idle"]
    /\ cred' = [p \in Requests |-> 0]
    /\ hand' = [p \in Requests |-> NoHand]
    /\ probe' = IdleProbe
    /\ lost' = lost \union (({hand[p].spent : p \in Requests} \union {probe.hand.spent}) \ {0})
    /\ UNCHANGED <<table, hotVars, now, accepted, minted, overtaken>>

-----------------------------------------------------------------------------
Next ==
    \/ \E p \in Requests :
          \/ \E c \in Creds : Take(p, c)
          \/ Renew(p) \/ Keep(p) \/ Refuse(p) \/ Store(p) \/ Disconnect(p)
    \/ \E c \in Creds : Report(c) \/ ProbeRead(c)
    \/ ProbeAuthenticate \/ ProbeHealth \/ ProbeStore \/ ProbeReject
    \/ \E c \in Creds : TypeSecret(c) \/ TypeRefresh(c)
    \/ Elapse \/ Restart

Spec == Init /\ [][Next]_vars

-----------------------------------------------------------------------------
(* Properties.                                                             *)

(* A refresh token is spent for its successor, so the one in the table     *)
(* must not go stale: it is still accepted, or its successor is on its way *)
(* to the row, or was lost with a response, with a client that left or     *)
(* with the process - whichever of requests, probe and operator write the  *)
(* row, in any order                                                       *)
(* (client.py:123-161, completion_service.py:326-344, credential_service.py*)
(* 188-223).                                                               *)
RefreshTokenIsKept ==
    \A c \in Creds :
       \/ vault[c].refresh \in {0} \union accepted \union lost
       \/ vault[c].refresh = probe.hand.spent
       \/ \E p \in Requests : vault[c].refresh = hand[p].spent

(* A row never promises more than its secret holds: expires_at is not past *)
(* the expiry of the stored secret, and NULL only for a secret that names  *)
(* none - also when a probe writes the expiry of a secret which a request  *)
(* has replaced meanwhile.  Only an edit that overtakes a request or the   *)
(* probe breaks the tie (scheduler.py:282-297, credential_service.py:193). *)
ExpiryIsNotPromised ==
    \A c \in Creds \ overtaken :
       /\ row[c].expires <= vault[c].secret.expires
       /\ vault[c].secret.jwt => row[c].expires # 0

(* A probe mends what it has seen and nothing else.  A cooldown that began *)
(* while it was out, on a row without one, outlives its success; and a row *)
(* that nobody else has written can be chosen again after it, which is the *)
(* only way back that leads without the operator for an expired credential *)
(* with a refresh token (credential_service.py:176-223, scheduler.py:175). *)
ProbeMendsWhatItSaw ==
    [][\A c \in Creds :
          ProbeStore /\ probe.cred = c =>
             /\ probe.seen.cooldown = 0 => row'[c].cooldown = row[c].cooldown
             /\ /\ probe.healthy /\ row[c] = probe.seen
                /\ row[c].enabled /\ probe.hand.due > now
                => c \in Eligible']_vars
=============================================================================

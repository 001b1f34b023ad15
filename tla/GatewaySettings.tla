---------------------------- MODULE GatewaySettings ----------------------------
(***************************************************************************)
(* The settings an operator may change while the process runs: the values  *)
(* the process works with, and the overrides in gateway_settings that it   *)
(* takes over when it starts (services/settings_service.py).               *)
(*                                                                         *)
(* update_settings holds one database session.  For each key it awaits the *)
(* row, changes the row and the process, and goes on; it commits once, at  *)
(* the end.  Between two awaits other updates run.  session.get flushes    *)
(* what is pending, so that from its second key on an update holds the     *)
(* writer's lock of SQLite until it commits.                               *)
(***************************************************************************)
EXTENDS Integers, Sequences

CONSTANTS
    Admins,     \* operators' requests that may be handled at the same time
    Settings,   \* the keys of MUTABLE_KEYS in play
    Flags,      \* those of kind bool
    Options,    \* key -> the values SettingsUpdate lets it take
    Environment,\* key -> its value without an override
    Patches,    \* the updates operators send: sequences of [key, value],
                \* each key at most once, in the order of SettingsUpdate
    Unset       \* a key without a row in gateway_settings

(* What gateway_settings may hold for a key, and one field of an update.   *)
TextsOf(key) == IF key \in Flags THEN {"true", "false"} ELSE Options[key]

Texts == UNION {TextsOf(key) : key \in Settings}

SettingEntries == UNION {[key : {k}, value : Options[k]] : k \in Settings}

ASSUME SettingsAssumption ==
    /\ Flags \subseteq Settings
    /\ \A key \in Flags : Options[key] = BOOLEAN
    /\ \A key \in Settings : /\ Environment[key] \in Options[key]
                             /\ Unset \notin TextsOf(key)
    /\ Patches \subseteq Seq(SettingEntries)

VARIABLES
    process,    \* key -> the value the process works with
    stored,     \* key -> the text in gateway_settings, or Unset
    patch,      \* the update an operator's request is in
    contested   \* history: keys two open updates have both set, or a failed
                \* one has, since the last undisturbed update of the key

settings == <<process, stored, patch, contested>>

Drafts == {draft \in UNION {[S -> Texts] : S \in SUBSET Settings} :
              \A key \in DOMAIN draft : draft[key] \in TextsOf(key)}

Updates == [open : BOOLEAN, todo : Seq(SettingEntries), set : SUBSET Settings,
            dirty : Drafts, inserts : SUBSET Settings,
            alone : SUBSET Settings, flushed : BOOLEAN]

(* An update: keys still to do; keys set in the process; of those, the     *)
(* texts to be written, the ones to be inserted, and the ones no other     *)
(* open update has set since; whether it has flushed.                      *)
Closed == [open |-> FALSE, todo |-> <<>>, set |-> {}, dirty |-> <<>>,
           inserts |-> {}, alone |-> {}, flushed |-> FALSE]

(* str(value), in lower case for a bool; a string or the digits of an int  *)
(* stand for themselves.                                                   *)
Text(key, value) ==
    IF key \in Flags THEN (IF value THEN "true" ELSE "false") ELSE value

(* A wrong variant: bool("false") is true.                                 *)
ParseTruthy(key, text) ==
    IF key \in Flags THEN text # "" ELSE text

(* _parse.                                                                 *)
Parse(key, text) ==
    IF key \in Flags THEN text \in {"1", "true", "yes", "on"} ELSE text

Override(key) ==
    IF stored[key] = Unset THEN Environment[key] ELSE Parse(key, stored[key])

SettingsInit ==
    /\ stored = [key \in Settings |-> Unset]
    /\ process = [key \in Settings |-> Environment[key]]
    /\ patch = [a \in Admins |-> Closed]
    /\ contested = {}

(* No other update holds the writer's lock.                                *)
LockFree(a) == \A b \in Admins \ {a} : ~ patch[b].flushed

(* A flush succeeds: nothing is pending, or the lock is free and no row to *)
(* insert has appeared.                                                    *)
CanFlush(a) ==
    \/ DOMAIN patch[a].dirty = {}
    \/ LockFree(a) /\ \A key \in patch[a].inserts : stored[key] = Unset

BeginPatch(a, todo) ==
    /\ patch' = [patch EXCEPT ![a] = [Closed EXCEPT !.open = TRUE, !.todo = todo]]
    /\ UNCHANGED <<process, stored, contested>>

(* One turn of the loop.  The ORM writes a row only if its text changed.   *)
SetKey(a) ==
    LET p == patch[a]
        key == Head(p.todo).key
        value == Head(p.todo).value
        text == Text(key, value)
        seen == stored[key]
        changed == IF seen = text THEN {} ELSE {key}
        others == {b \in Admins \ {a} : key \in patch[b].set}
    IN /\ p.open /\ p.todo # <<>>
       /\ CanFlush(a)
       /\ process' = [process EXCEPT ![key] = value]
       /\ patch' = [b \in Admins |->
            IF b \in others
              THEN [patch[b] EXCEPT !.alone = @ \ {key}]
            ELSE IF b # a THEN patch[b]
            ELSE [open |-> TRUE,
                  todo |-> Tail(p.todo),
                  set |-> p.set \union {key},
                  dirty |-> [k \in (DOMAIN p.dirty \ {key}) \union changed |->
                               IF k = key THEN text ELSE p.dirty[k]],
                  inserts |-> p.inserts \union IF seen = Unset THEN {key} ELSE {},
                  alone |-> p.alone \union IF others = {} THEN {key} ELSE {},
                  flushed |-> DOMAIN p.dirty # {}]]
       /\ contested' = IF others = {} THEN contested ELSE contested \union {key}
       /\ UNCHANGED stored

CommitPatch(a) ==
    LET p == patch[a] IN
    /\ p.open /\ p.todo = <<>>
    /\ CanFlush(a)
    /\ stored' = [key \in Settings |->
                    IF key \in DOMAIN p.dirty THEN p.dirty[key] ELSE stored[key]]
    /\ patch' = [patch EXCEPT ![a] = Closed]
    /\ contested' = contested \ p.alone
    /\ UNCHANGED process

(* A flush or the commit fails (a row inserted by another update, the      *)
(* lock's timeout, the database): the session rolls back, the process      *)
(* keeps what it was given.                                                *)
FailPatch(a) ==
    /\ patch[a].open
    /\ patch' = [patch EXCEPT ![a] = Closed]
    /\ contested' = contested \union patch[a].set
    /\ UNCHANGED <<process, stored>>

(* The process ends, whatever it is doing, and starts: apply_overrides.    *)
RestartSettings ==
    /\ process' = [key \in Settings |-> Override(key)]
    /\ patch' = [a \in Admins |-> Closed]
    /\ contested' = {}
    /\ UNCHANGED stored

-----------------------------------------------------------------------------
SettingsTypeOK ==
    /\ DOMAIN process = Settings /\ DOMAIN stored = Settings
    /\ \A key \in Settings : /\ process[key] \in Options[key]
                             /\ stored[key] \in TextsOf(key) \union {Unset}
    /\ patch \in [Admins -> Updates]
    /\ contested \subseteq Settings

(* "Values stored in gateway_settings override [the environment] at        *)
(* runtime" (settings_service.py:3-5), as far as it holds: the process     *)
(* works with the stored override of each key, or with the environment's   *)
(* value, unless an update of the key is open or the last updates of the   *)
(* key overlapped or failed.                                               *)
SettingsAgree ==
    \A key \in Settings \ contested :
        (\A a \in Admins : key \notin patch[a].set) => process[key] = Override(key)
=============================================================================

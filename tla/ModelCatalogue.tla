----------------------------- MODULE ModelCatalogue -----------------------------
(***************************************************************************)
(* The table of models under the operators' edits, discovery and restarts  *)
(* (services/model_service.py, the models and settings calls of            *)
(* api/admin.py, the start in main.py), over GatewaySettings and read by   *)
(* ModelRouter.                                                            *)
(*                                                                         *)
(* upsert_model selects the row, changes it and commits: two awaits with   *)
(* other requests in between.  An edit is one upsert; discovery and the    *)
(* seeding of an empty table are a series of them, each with a commit of   *)
(* its own.  The columns no route depends on (names for display, context   *)
(* window, abilities, discovered_at) are left out.  delete_model is one    *)
(* step: what happens between its read and its commit changes nothing it   *)
(* does.                                                                   *)
(***************************************************************************)
EXTENDS GatewaySettings, ModelRouter

CONSTANTS
    Boot,           \* the start of the process, an actor beside the operators
    Edits,          \* the models operators send
    Discoverable,   \* what a provider's list_models may answer: sequences of
                    \* models with the aliases upstream gives them
    SeedOrder,      \* provider -> Shipped[provider] as a sequence
    MaxRow,         \* bound on the primary keys
    MaxCalls        \* bound on the operators' calls

VARIABLES
    rows,           \* primary key -> row, for the rows there are
    job,            \* per actor: the upserts still to do, and the row the
                    \* first of them has selected
    calls           \* number of calls so far

catalogueVars == <<settings, rows, job, calls>>

Actors == Admins \union {Boot}

ASSUME CatalogueAssumption ==
    /\ Boot \notin Admins
    /\ Edits \subseteq Rows
    /\ {"default_model", "default_provider"} \subseteq Settings \ Flags
    /\ Options["default_model"] \subseteq Typed
    /\ Options["default_provider"] = Providers
    /\ Discoverable \subseteq Seq([model : Names, aliases : SUBSET Names])
    /\ \A p \in Providers : SeedOrder[p] \in Seq(Names)
    /\ MaxRow \in Nat /\ MaxCalls \in Nat

NotRead == [pk |-> 0 - 1]
Absent  == [pk |-> 0]
Readings == {NotRead, Absent} \union [pk : Nat \ {0}, row : Rows]
Idle    == [todo |-> <<>>, read |-> NotRead]

(* The lifespan has finished: requests are served.                         *)
Up == job[Boot].todo = <<>>

Free(a) == Up /\ ~patch[a].open /\ job[a].todo = <<>>

Called == calls < MaxCalls /\ calls' = calls + 1

(* The aliases of a row as they are saved: stripped, the empty ones left   *)
(* out.                                                                    *)
Trimmed(aliases) == {Strip[alias] : alias \in aliases} \ {NoName}

(* What discovery saves for the models a provider names, and seeding for   *)
(* those that are shipped, of which the environment alone has aliases.     *)
Infos(provider, models) ==
    [i \in DOMAIN models |->
        [provider |-> provider, model |-> models[i].model,
         aliases |-> Trimmed(models[i].aliases \union EnvNames(models[i].model)),
         enabled |-> TRUE]]

Seeds(provider) ==
    LET models == SeedOrder[provider]
    IN Infos(provider, [i \in DOMAIN models |-> [model |-> models[i], aliases |-> {}]])

Starting(seeds) ==
    [a \in Actors |-> IF a = Boot THEN [Idle EXCEPT !.todo = seeds] ELSE Idle]

CatalogueInit ==
    /\ SettingsInit
    /\ rows = <<>>
    /\ job = Starting(Seeds(process["default_provider"]))
    /\ calls = 0

-----------------------------------------------------------------------------
(* upsert_model.                                                           *)
Found(info) ==
    LET same == {pk \in DOMAIN rows : /\ rows[pk].provider = info.provider
                                      /\ rows[pk].model = info.model}
        one == CHOOSE pk \in same : TRUE
    IN IF same = {} THEN Absent ELSE [pk |-> one, row |-> rows[one]]

SelectRow(a) ==
    /\ job[a].todo # <<>>
    /\ job[a].read = NotRead
    /\ job' = [job EXCEPT ![a].read = Found(Head(job[a].todo))]
    /\ UNCHANGED <<settings, rows, calls>>

(* A wrong variant: every column is written.                               *)
WrittenWhole(row, read, info) == info

(* The ORM writes the columns in which the new values differ from the row  *)
(* as it was read.                                                         *)
Merged(row, read, info) ==
    [row EXCEPT !.aliases = IF info.aliases = read.aliases THEN @ ELSE info.aliases,
                !.enabled = IF info.enabled = read.enabled THEN @ ELSE info.enabled]

(* A commit: no settings update holds the writer's lock.                   *)
Saving(a) ==
    /\ job[a].todo # <<>>
    /\ \A b \in Admins : ~patch[b].flushed
    /\ job' = [job EXCEPT ![a] = [todo |-> Tail(@.todo), read |-> NotRead]]
    /\ UNCHANGED <<settings, calls>>

(* The key after the last.                                                 *)
IsNextKey(pk) ==
    /\ \A other \in DOMAIN rows : other < pk
    /\ pk = 1 \/ pk - 1 \in DOMAIN rows

(* The row is inserted, unless another upsert has inserted it since.       *)
InsertRow(a) ==
    LET info == Head(job[a].todo) IN
    /\ Saving(a)
    /\ job[a].read = Absent
    /\ Found(info) = Absent
    /\ \E pk \in 1 .. MaxRow :
         /\ IsNextKey(pk)
         /\ rows' = [k \in DOMAIN rows \union {pk} |->
                       IF k = pk THEN info ELSE rows[k]]

(* The row is updated, unless it has been deleted since.                   *)
UpdateRow(a) ==
    LET read == job[a].read IN
    /\ Saving(a)
    /\ read.pk \in DOMAIN rows
    /\ rows' = [rows EXCEPT ![read.pk] = Merged(@, read.row, Head(job[a].todo))]

(* The commit or a select fails; what a discovery has saved stays.  At the *)
(* start it ends the process, which is ProcessRestarts.                    *)
JobFails(a) ==
    /\ a \in Admins
    /\ job[a].todo # <<>>
    /\ job' = [job EXCEPT ![a] = Idle]
    /\ UNCHANGED <<settings, rows, calls>>

-----------------------------------------------------------------------------
(* The operators' calls.                                                   *)
UpsertModel(a, info) ==
    /\ Free(a) /\ Called
    /\ job' = [job EXCEPT ![a].todo = <<[info EXCEPT !.aliases = Trimmed(@)]>>]
    /\ UNCHANGED <<settings, rows>>

(* discover_models, from the answer of list_models on.  The provider was   *)
(* read before that call: any that may have been the default.              *)
DiscoverModels(a, provider, models) ==
    /\ Free(a) /\ Called
    /\ job' = [job EXCEPT ![a].todo = Infos(provider, models)]
    /\ UNCHANGED <<settings, rows>>

DeleteModel(pk) ==
    /\ Up /\ Called
    /\ \A b \in Admins : ~patch[b].flushed
    /\ pk \in DOMAIN rows
    /\ rows' = [other \in DOMAIN rows \ {pk} |-> rows[other]]
    /\ UNCHANGED <<settings, job>>

UpdateSettings(a) ==
    /\ \/ \E todo \in Patches : Free(a) /\ Called /\ BeginPatch(a, todo)
       \/ (SetKey(a) \/ CommitPatch(a) \/ FailPatch(a)) /\ UNCHANGED calls
    /\ UNCHANGED <<rows, job>>

(* The process ends at any point and starts: ensure_seed_models seeds an   *)
(* empty table.                                                            *)
ProcessRestarts ==
    /\ RestartSettings
    /\ job' = Starting(IF DOMAIN rows # {} THEN <<>>
                       ELSE Seeds(process'["default_provider"]))
    /\ UNCHANGED <<rows, calls>>

CatalogueNext ==
    \/ \E a \in Actors : SelectRow(a) \/ InsertRow(a) \/ UpdateRow(a) \/ JobFails(a)
    \/ \E a \in Admins :
         \/ UpdateSettings(a)
         \/ \E info \in Edits : UpsertModel(a, info)
         \/ \E provider \in Providers, models \in Discoverable :
                DiscoverModels(a, provider, models)
    \/ \E pk \in DOMAIN rows : DeleteModel(pk)
    \/ ProcessRestarts

CatalogueSpec == CatalogueInit /\ [][CatalogueNext]_catalogueVars

-----------------------------------------------------------------------------
(* Every value has its type.                                               *)
CatalogueTypeOK ==
    /\ DOMAIN rows \subseteq 1 .. MaxRow
    /\ \A pk \in DOMAIN rows : rows[pk] \in Rows
    /\ job \in [Actors -> [todo : Seq(Rows), read : Readings]]
    /\ SettingsTypeOK

(* The name reaches a model by name, and not the default because it is     *)
(* unknown.                                                                *)
Served(name) ==
    Resolve(rows, name, process["default_model"], process["default_provider"]).by # "default"

(* A client may ask for any id of /v1/models, and for any alias of a       *)
(* listed model: it is served by name, through the edits, the discoveries  *)
(* and the restarts (router.py:45-82 against public.py:40-91).  Excepted   *)
(* are the names that are not looked up as they are written: with a # or   *)
(* with space around it a model is listed, but never found; and the        *)
(* fallback list over a table whose every row is disabled.                 *)
ListedIsServed ==
    LET provider == process["default_provider"]
    IN Enabled(rows) # {} \/ DOMAIN rows = {} =>
         /\ \A card \in Listing(rows, provider) : Plain(card.id) => Served(card.id)
         /\ \A card \in Cards(rows, provider) :
              \A alias \in card.aliases : Plain(alias) => Served(alias)

(* An upsert takes back no edit it has not seen: a column that changes was *)
(* different, when the upsert read it, from the value it asks for.  What   *)
(* an operator turns off after discovery has read the row stays off        *)
(* (model_service.py:52-76, db.py:137-153).                                *)
UnseenEditsSurvive ==
    [][\A pk \in DOMAIN rows \intersect DOMAIN rows' :
         \A column \in {"aliases", "enabled"} :
            rows'[pk][column] # rows[pk][column] =>
              \E a \in Actors :
                 /\ job[a].read.pk = pk
                 /\ job[a].read.row[column] # rows'[pk][column]]_catalogueVars
=============================================================================

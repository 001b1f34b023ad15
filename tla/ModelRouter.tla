------------------------------ MODULE ModelRouter ------------------------------
(***************************************************************************)
(* Which upstream model answers a name (gateway/router.py), and which      *)
(* names GET /v1/models offers (api/public.py).  Both are functions of the *)
(* rows of provider_models and of the settings; ModelCatalogue gives them  *)
(* the rows and the settings of the moment.                                *)
(*                                                                         *)
(* A name is compared in lower case: Fold is str.lower, Strip is str.strip.*)
(* What follows the first # of a requested name, the scenario of the mock  *)
(* provider, is split off before the look-up and put back afterwards: Base *)
(* and Suffix.  No such letters are looked at, only what they lead to.     *)
(***************************************************************************)
EXTENDS Integers

CONSTANTS
    Names,      \* model names and aliases, as clients and operators type them
    Providers,  \* the providers there are
    Labels,     \* what operators type as the provider of a row
    Fold,       \* str.lower
    Strip,      \* str.strip
    Base,       \* the name up to its first #
    Suffix,     \* the rest of it, from that # on
    EnvAlias,   \* alias_map: aliases in lower case -> their target
    Shipped,    \* provider -> FALLBACK_MODELS or MOCK_MODELS
    NoName      \* the empty model of a request that names none

(* What a client may send as the model, and what is left of it.            *)
Typed == Names \union {NoName}

ASSUME NamesAssumption ==
    /\ NoName \notin Names
    /\ Providers \subseteq Labels
    /\ {Fold, Strip, Base} \subseteq [Typed -> Typed]
    /\ Typed \subseteq DOMAIN Suffix
    /\ \A name \in Typed : Fold[Fold[name]] = Fold[name]
    /\ \A name \in Names : Fold[name] \in Names
    /\ DOMAIN EnvAlias \subseteq {Fold[name] : name \in Names}
    /\ \A alias \in DOMAIN EnvAlias : EnvAlias[alias] \in Names
    /\ Shipped \in [Providers -> SUBSET Names]

(* A row of provider_models; its primary key is its place in the table.    *)
(* Its aliases have been stripped, and split at commas, when it was saved. *)
Rows == [provider : Labels, model : Names,
         aliases : SUBSET Names, enabled : BOOLEAN]

First(pks) == CHOOSE pk \in pks : \A other \in pks : pk <= other

Enabled(rows) == {pk \in DOMAIN rows : rows[pk].enabled}

(* A wrong variant: the row's model is not put in lower case.              *)
ExactAsTyped(rows, key) == {pk \in Enabled(rows) : rows[pk].model = key}

Exact(rows, key) == {pk \in Enabled(rows) : Fold[rows[pk].model] = key}

Aliased(rows, key) ==
    {pk \in Enabled(rows) : \E alias \in rows[pk].aliases : Fold[alias] = key}

(* Where a request goes: the upstream model is model with suffix after it. *)
Route(by, model, suffix, provider) ==
    [by |-> by, model |-> model, suffix |-> suffix, provider |-> provider]

(* resolve: the name a request carries, under the settings default_model   *)
(* and default_provider.                                                   *)
Resolve(rows, requested, model, provider) ==
    LET name   == Strip[IF requested = NoName THEN model ELSE requested]
        base   == Base[name]
        suffix == Suffix[name]
        key    == Fold[base]
        To(by, pks) == Route(by, rows[First(pks)].model, suffix, rows[First(pks)].provider)
    IN CASE Exact(rows, key) # {} -> To("exact", Exact(rows, key))
         [] Exact(rows, key) = {} /\ Aliased(rows, key) # {} ->
              To("db_alias", Aliased(rows, key))
         [] OTHER ->
              IF key \in DOMAIN EnvAlias
                THEN Route("env_alias", EnvAlias[key], suffix, provider)
              ELSE IF provider = "mock" \/ (DOMAIN rows = {} /\ base # NoName)
                THEN Route("passthrough", base, suffix, provider)
              ELSE Route("default", model, suffix, provider)

(* A name that is looked up as it is written, but for its case.            *)
Plain(name) == Strip[name] = name /\ Base[name] = name

-----------------------------------------------------------------------------
(* The aliases the environment gives a model.                              *)
EnvNames(model) == {alias \in DOMAIN EnvAlias : EnvAlias[alias] = model}

(* catalogue, and what list_models shows when it is empty.                 *)
Catalogue(rows, provider) ==
    IF Enabled(rows) # {}
      THEN {[id |-> rows[pk].model, aliases |-> rows[pk].aliases] :
                pk \in Enabled(rows)}
      ELSE {[id |-> model, aliases |-> {}] : model \in Shipped[provider]}

Cards(rows, provider) ==
    {[id |-> entry.id, aliases |-> entry.aliases \union EnvNames(entry.id)] :
        entry \in Catalogue(rows, provider)}

(* list_models: a card per model, and one per alias no card has as its id. *)
Listing(rows, provider) ==
    LET cards == Cards(rows, provider)
        known == {card.id : card \in cards}
    IN cards \union {[id |-> alias, aliases |-> {EnvAlias[alias]}] :
                        alias \in DOMAIN EnvAlias \ known}
=============================================================================

------------------------------- MODULE MCControl -------------------------------
(***************************************************************************)
(* A small instance of ModelCatalogue.                                     *)
(***************************************************************************)
EXTENDS ModelCatalogue, TLC

AllNames == {"Max", "max", "plus", "plus#1", " fast", "mock", "fast"}
Lower    == [n \in AllNames \union {NoName} |-> IF n = "Max" THEN "max" ELSE n]
Stripped == [n \in AllNames \union {NoName} |-> IF n = " fast" THEN "fast" ELSE n]
BeforeTag == [n \in AllNames \union {NoName} |-> IF n = "plus#1" THEN "plus" ELSE n]
Tag      == [n \in AllNames \union {NoName} |-> IF n = "plus#1" THEN "#1" ELSE ""]

(* MODEL_ALIASES: "fast" and the name of a model no table may hold.        *)
Aliases  == [fast |-> "plus"]

Ships    == [qwen |-> {"max", "plus"}, mock |-> {"mock"}]
ShipOrder == [qwen |-> <<"max", "plus">>, mock |-> <<"mock">>]

Offered  == [default_model |-> AllNames, default_provider |-> {"qwen", "mock"},
             expose_reasoning |-> BOOLEAN]

Default  == [default_model |-> "max", default_provider |-> "qwen",
             expose_reasoning |-> FALSE]

PatchSet == {<<[key |-> "expose_reasoning", value |-> FALSE]>>,
             <<[key |-> "default_model", value |-> "mock"],
               [key |-> "default_provider", value |-> "mock"]>>,
             <<[key |-> "default_model", value |-> "max"]>>}

Off      == [provider |-> "qwen", model |-> "max", aliases |-> {}, enabled |-> FALSE]
Renamed  == [provider |-> "other", model |-> "Max", aliases |-> {" fast", "plus#1"},
             enabled |-> TRUE]
Tagged   == [provider |-> "qwen", model |-> "plus#1", aliases |-> {}, enabled |-> TRUE]
EditSet  == {Off, Renamed, Tagged}

Named(model, aliases) == [model |-> model, aliases |-> aliases]
Answers  == {<<Named("max", {"fast"}), Named("plus", {})>>, <<Named("mock", {})>>}

Symmetric == Permutations(Admins)
=============================================================================

---------------------------- MODULE RequestProtocol ----------------------------
(***************************************************************************)
(* What CompletionService promises about one chat completion, whatever the *)
(* state of the pool, the scheduling strategy and the other requests do:   *)
(*                                                                         *)
(*   - a request works with one credential at a time, and never comes back *)
(*     to one it had before;                                               *)
(*   - it calls the provider at most MaxAttempts times;                    *)
(*   - once the client has seen a chunk of an answer there is no failover: *)
(*     the request ends with the credential it is using;                   *)
(*   - an answer is given by the credential in use; after its end a        *)
(*     request does nothing more.                                          *)
(***************************************************************************)
EXTENDS Naturals

CONSTANTS Requests, Streams, Creds, MaxAttempts

VARIABLES
    stage,      \* "new", "seeking" a credential, "using" one, or "ended"
    using,      \* the credential in use, 0 for none
    spent,      \* credentials the request has had, until it ends
    calls,      \* number of its calls to the provider, until it ends
    streaming   \* its client has seen a chunk, until it ends

vars == <<stage, using, spent, calls, streaming>>

Init ==
    /\ stage = [p \in Requests |-> "new"]
    /\ using = [p \in Requests |-> 0]
    /\ spent = [p \in Requests |-> {}]
    /\ calls = [p \in Requests |-> 0]
    /\ streaming = [p \in Requests |-> FALSE]

Start(p) ==
    /\ stage[p] = "new"
    /\ stage' = [stage EXCEPT ![p] = "seeking"]
    /\ UNCHANGED <<using, spent, calls, streaming>>

Take(p) ==
    /\ stage[p] = "seeking"
    /\ ~streaming[p]
    /\ \E c \in Creds \ spent[p] :
          /\ using' = [using EXCEPT ![p] = c]
          /\ spent' = [spent EXCEPT ![p] = @ \union {c}]
    /\ stage' = [stage EXCEPT ![p] = "using"]
    /\ UNCHANGED <<calls, streaming>>

Call(p) ==
    /\ stage[p] = "using"
    /\ calls[p] < MaxAttempts
    /\ calls' = [calls EXCEPT ![p] = @ + 1]
    /\ UNCHANGED <<stage, using, spent, streaming>>

Stream(p) ==
    /\ stage[p] = "using"
    /\ p \in Streams
    /\ calls[p] > 0
    /\ streaming' = [streaming EXCEPT ![p] = TRUE]
    /\ UNCHANGED <<stage, using, spent, calls>>

GiveUp(p) ==
    /\ stage[p] = "using"
    /\ ~streaming[p]
    /\ stage' = [stage EXCEPT ![p] = "seeking"]
    /\ using' = [using EXCEPT ![p] = 0]
    /\ UNCHANGED <<spent, calls, streaming>>

(* A request may also be refused before it seeks a credential.             *)
End(p) ==
    /\ stage[p] # "ended"
    /\ stage' = [stage EXCEPT ![p] = "ended"]
    /\ using' = [using EXCEPT ![p] = 0]
    /\ spent' = [spent EXCEPT ![p] = {}]
    /\ calls' = [calls EXCEPT ![p] = 0]
    /\ streaming' = [streaming EXCEPT ![p] = FALSE]

Next == \E p \in Requests :
    Start(p) \/ Take(p) \/ Call(p) \/ Stream(p) \/ GiveUp(p) \/ End(p)

Spec == Init /\ [][Next]_vars
=============================================================================

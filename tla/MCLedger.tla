------------------------------- MODULE MCLedger -------------------------------
(***************************************************************************)
(* A small instance of RequestLedger: two limited clients, with room for   *)
(* the deque of one.                                                       *)
(***************************************************************************)
EXTENDS RequestLedger, TLC

CONSTANTS a, b

OneEach == a :> 1 @@ b :> 1
=============================================================================

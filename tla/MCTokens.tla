------------------------------- MODULE MCTokens -------------------------------
(***************************************************************************)
(* A small instance of TokenRotation.                                      *)
(***************************************************************************)
EXTENDS TokenRotation, TLC

(* A row about to expire, one written with another key, one without a      *)
(* known expiry.                                                           *)
Expiring   == FreshRow(2)
Unreadable == [Expiring EXCEPT !.readable = FALSE]
Undated    == FreshRow(0)
OldRows    == {Expiring, Unreadable, Undated}

Jwt    == [grant |-> 1, expires |-> 2, jwt |-> TRUE]
Opaque == [grant |-> 1, expires |-> 2, jwt |-> FALSE]

(* With a refresh token, without one, and a token that tells no expiry.    *)
OldVaults == {[secret |-> Jwt, refresh |-> 1],
              [secret |-> Jwt, refresh |-> 0],
              [secret |-> Opaque, refresh |-> 1]}

Symmetric == Permutations(Requests)
=============================================================================

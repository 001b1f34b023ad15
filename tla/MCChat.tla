-------------------------------- MODULE MCChat --------------------------------
(* Small turns for ChatStream.                                             *)
EXTENDS ChatStream

Call(id, index, name, args) ==
    [id |-> id, index |-> index, name |-> name, arguments |-> args]

(* Two calls with the same id, and one with the index and the name of      *)
(* another, as a native call and a block of the text may have.             *)
SomeCalls == {Call(1, 0, "f", <<1>>), Call(1, 1, "f", <<2>>),
              Call(2, 0, "f", <<3>>), Call(3, 2, "g", <<4>>)}
=============================================================================

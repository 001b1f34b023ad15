------------------------------ MODULE MCExchange ------------------------------
(***************************************************************************)
(* A small instance of QwenExchange: every status the code tells apart,    *)
(* headers that are absent, below a second, above and without end.         *)
(***************************************************************************)
EXTENDS QwenExchange

AllHeaders == {NoHeader, Seconds(0), Seconds(7), Endless}
AllLosses  == HttpxErrors \union OSErrors
===============================================================================

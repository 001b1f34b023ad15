----------------------------- MODULE SchedulerScan -----------------------------
(***************************************************************************)
(* _choose as the code runs it, a scan of the candidates sorted by id that *)
(* returns early on an idle one and remembers the least loaded, beside     *)
(* RoundRobinPick and RoundRobinCursor, which say in one formula what the  *)
(* scan returns and how it moves the cursor.                               *)
(***************************************************************************)
EXTENDS CredentialScheduler

(* ordered[i]: the i-th candidate, from 0, by id.                          *)
Ordered(S) ==
    [i \in 0 .. Cardinality(S) - 1 |-> CHOOSE c \in S : Rank(c, S) = i]

(* A wrong variant: the cursor stays on the credential just served.        *)
ScanInPlace(S, from, load) ==
    LET ordered == Ordered(S)
        at == from % Cardinality(S)
    IN <<ordered[at], at>>

(* One pass of the loop: whether it has returned, the best so far (0 for   *)
(* None) and the cursor it leaves; an idle candidate leaves it at next.    *)
Look(pass, candidate, load, next) ==
    IF pass.found THEN pass
    ELSE IF load[candidate] = 0
      THEN [found |-> TRUE, best |-> candidate, cursor |-> next]
    ELSE IF pass.best = 0 \/ load[candidate] < load[pass.best]
      THEN [pass EXCEPT !.best = candidate]
    ELSE pass

(* The loop over the candidates S from a cursor, under a load: the         *)
(* credential it returns and the cursor it leaves.                         *)
Scan(S, from, load) ==
    LET ordered == Ordered(S)
        count == Cardinality(S)
        after[n \in 0 .. count] ==
            IF n = 0
              THEN [found |-> FALSE, best |-> 0, cursor |-> (from + 1) % count]
              ELSE Look(after[n - 1], ordered[(from + (n - 1)) % count], load,
                        (from + n) % count)
    IN <<after[count].best, after[count].cursor>>

-----------------------------------------------------------------------------
(* The selection under a load and from a cursor of one's choice.           *)
At(load, from) == INSTANCE CredentialScheduler WITH leases <- load, cursor <- from

(* The formula and the loop agree on every set of candidates, whatever     *)
(* their loads and wherever the cursor stands (scheduler.py:147-162).      *)
(* Neither depends on the state: it is enough to compare them before the   *)
(* first selection.                                                        *)
ScanAgrees ==
    tick = 0 => \A S \in (SUBSET Creds) \ {{}}, load \in [Creds -> 0 .. 2],
                  from \in 0 .. Cardinality(Creds) :
         Scan(S, from, load) =
           <<At(load, from)!RoundRobinPick(S), At(load, from)!RoundRobinCursor(S)>>

(* Round robin: wherever the cursor stands, selections that follow each    *)
(* other on an idle pool serve every credential before they serve one      *)
(* twice (scheduler.py:152-157).                                           *)
RotationServesAll ==
    LET turn[i \in 1..Cardinality(Creds)] ==
            Scan(Creds, IF i = 1 THEN cursor ELSE turn[i - 1][2],
                 [c \in Creds |-> 0])
    IN {turn[i][1] : i \in DOMAIN turn} = Creds
=============================================================================

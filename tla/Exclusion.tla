------------------------------ MODULE Exclusion ------------------------------
(***************************************************************************)
(* What the lock coordinator promises: at every moment each lock name has  *)
(* at most one holder, a holder keeps its name until it gives it up or its *)
(* process dies, and nobody is ever given a name that is held.             *)
(***************************************************************************)
CONSTANTS Worker, Name, None

VARIABLE holder   \* holder[n] is the worker inside the section named n

ExclusionTypeOK == holder \in [Name -> Worker \cup {None}]

ExclusionInit == holder = [n \in Name |-> None]

Take(w, n) ==
    /\ holder[n] = None
    /\ holder' = [holder EXCEPT ![n] = w]

\* The names in S are given up together: one by an ordinary exit, any number
\* of them when the process of their holders dies.
Give(S) ==
    /\ \A n \in S : holder[n] # None
    /\ holder' = [n \in Name |-> IF n \in S THEN None ELSE holder[n]]

ExclusionNext ==
    \/ \E w \in Worker, n \in Name : Take(w, n)
    \/ \E S \in SUBSET Name : Give(S)

ExclusionSpec == ExclusionInit /\ [][ExclusionNext]_holder
=============================================================================

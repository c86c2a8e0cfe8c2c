-------------------------------- MODULE Sums --------------------------------
(***************************************************************************)
(* Sums over the indices of a list, as the getters and the books keep them: *)
(* a loop over the list that adds one term per element.                     *)
(***************************************************************************)
EXTENDS Integers

\* w[1] + ... + w[n].
SumUpTo(w, n) ==
    LET upTo[i \in 0 .. n] == IF i = 0 THEN 0 ELSE upTo[i - 1] + w[i]
    IN  upTo[n]
=============================================================================

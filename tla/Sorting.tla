-------------------------------- MODULE Sorting --------------------------------
(***************************************************************************)
(* What the library's sorts do, as far as the code relies on it: a finite  *)
(* set of positions, listed by a key that each of them has.                *)
(***************************************************************************)
EXTENDS Integers, FiniteSets

\* p comes first: by its key, or, where the keys are equal, as the earlier one.
Precedes(key, p, q) == key[p] < key[q] \/ (key[p] = key[q] /\ p < q)

\* The place of p among S.
Place(S, key, p) == Cardinality({q \in S : q = p \/ Precedes(key, q, p)})

\* Array.prototype.sort is stable; sort.Float64s sorts what has no other
\* identity than its key.
StableSort(S, key) ==
  [r \in 1 .. Cardinality(S) |-> CHOOSE p \in S : Place(S, key, p) = r]

\* The positions in their own order.
Ascending(S) == StableSort(S, [p \in S |-> p])
=============================================================================

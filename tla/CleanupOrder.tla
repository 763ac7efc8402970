----------------------------- MODULE CleanupOrder -----------------------------
(***************************************************************************)
(* How the two CleanupRuns sort the scenarios before they remove their     *)
(* buckets: by fork depth, the deepest first.  A sort is an operator from  *)
(* the list of depths to the list of positions in removal order.           *)
(***************************************************************************)
EXTENDS Sorting, Sequences

Positions(depths) == [k \in 1 .. Len(depths) |-> k]

\* Mutant of SwapIfDeeper: the comparison is the other way round.
SwapIfShallower(depths, order, i, j) ==
  IF depths[order[j]] < depths[order[i]]
  THEN [order EXCEPT ![i] = order[j], ![j] = order[i]]
  ELSE order

\* if scenarios[j].ForkDepth > scenarios[i].ForkDepth { swap them }
SwapIfDeeper(depths, order, i, j) ==
  IF depths[order[j]] > depths[order[i]]
  THEN [order EXCEPT ![i] = order[j], ![j] = order[i]]
  ELSE order

\* The exchange sort of gobench/provision.go: for every i, for every j above i.
\* It is not stable: the normal bucket and the root change places.
ExchangeOrder(depths) ==
  LET n == Len(depths)
      i(step) == ((step - 1) \div n) + 1
      j(step) == ((step - 1) % n) + 1
      order[step \in 0 .. n * n] ==
        IF step = 0 THEN Positions(depths)
        ELSE IF j(step) > i(step)
             THEN SwapIfDeeper(depths, order[step - 1], i(step), j(step))
             ELSE order[step - 1]
  IN  order[n * n]

\* [...scenarios].sort((l, r) => r.forkDepth - l.forkDepth) of src/provision.ts;
\* JavaScript's sort is stable.
StableOrder(depths) ==
  StableSort(DOMAIN depths, [k \in DOMAIN depths |-> -depths[k]])

\* What removing forks before what they were forked from needs of an order:
\* every position once, and no depth after a smaller one.
IsRemovalOrder(depths, order) ==
  /\ DOMAIN order = DOMAIN depths
  /\ \A p \in DOMAIN depths : \E k \in DOMAIN order : order[k] = p
  /\ \A k, m \in DOMAIN order : k < m => depths[order[k]] >= depths[order[m]]
=============================================================================

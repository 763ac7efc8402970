-------------------------------- MODULE Report --------------------------------
(***************************************************************************)
(* The tables of RenderSummary (gobench/report.go) and renderSummary       *)
(* (src/report.ts): which result stands in which section and row, and      *)
(* which one its ratio is taken against.                                   *)
(*                                                                         *)
(* A result is [operation, scenario, p50]; rows hold positions in the list *)
(* of results.  A report is a sequence of sections, one per operation that *)
(* has results, [operation, rows, normal]; normal is 0 without a baseline. *)
(***************************************************************************)
EXTENDS Sorting, OperationTypes, Sequences

\* How the scenarios' names compare, where their depths do not decide.
Rank(scenario) == IF scenario = "normal" THEN 1 ELSE IF scenario = "snapshot-root" THEN 2 ELSE 0

\* grouped[operation]: the positions of its results.
Group(results, operation) == {k \in DOMAIN results : results[k].operation = operation}

\* The key of both sorts: fork depth, then the name.
RowKey(results, depth) ==
  [k \in DOMAIN results |-> 3 * depth[results[k].scenario] + Rank(results[k].scenario)]

\* The first row of the scenario "normal".
Normal(results, rows) ==
  LET found == {i \in DOMAIN rows : results[rows[i]].scenario = "normal"}
  IN  IF found = {} THEN 0 ELSE rows[Ascending(found)[1]]

Section(results, operation, rows) ==
  [operation |-> operation, rows |-> rows, normal |-> Normal(results, rows)]

\* sort.Slice is not stable: any order of the group that the comparison allows.
GoRows(results, depth, operation) ==
  LET group == Group(results, operation)
      key == RowKey(results, depth)
  IN  {rows \in [1 .. Cardinality(group) -> group] :
         /\ \A k \in group : \E i \in DOMAIN rows : rows[i] = k
         /\ \A i, j \in DOMAIN rows : i < j => key[rows[i]] <= key[rows[j]]}

\* Mutant of TsRows: the section is printed in the order of the results.
TsRowsUnsorted(results, depth, operation) ==
  StableSort(Group(results, operation), [k \in DOMAIN results |-> -k])

\* [...results].sort(...), which is stable.
TsRows(results, depth, operation) ==
  StableSort(Group(results, operation), RowKey(results, depth))

\* Go's sections come in the order of OperationNames.
GoOrder(results) ==
  LET named == Ascending({i \in DOMAIN OperationNames :
                            Group(results, OperationNames[i]) # {}})
  IN  [i \in DOMAIN named |-> OperationNames[named[i]]]

\* TypeScript's in the order in which the operations first occur.
TsOrder(results) ==
  LET first == Ascending({k \in DOMAIN results : \A m \in 1 .. k - 1 :
                            results[m].operation # results[k].operation})
  IN  [i \in DOMAIN first |-> results[first[i]].operation]

\* Every report that Go can print of the results.
GoReports(results, depth) ==
  LET order == GoOrder(results)
      Rows(i) == GoRows(results, depth, order[i])
  IN  {[i \in DOMAIN order |-> Section(results, order[i], rows[i])] :
         rows \in {r \in [DOMAIN order -> UNION {Rows(i) : i \in DOMAIN order}] :
                     \A i \in DOMAIN order : r[i] \in Rows(i)}}

TsReport(results, depth) ==
  LET order == TsOrder(results)
  IN  [i \in DOMAIN order |->
         Section(results, order[i], TsRows(results, depth, order[i]))]

\* Whether a row of the section has a ratio: Go asks for a positive baseline.
GoHasRatio(results, section, k) == section.normal # 0 /\ results[section.normal].p50 > 0

\* TypeScript divides and prints no ratio that is zero, infinite or not a number.
TsHasRatio(results, section, k) ==
  section.normal # 0 /\ results[section.normal].p50 > 0 /\ results[k].p50 > 0
=============================================================================

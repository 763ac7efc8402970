--------------------------------- MODULE Stats ---------------------------------
(***************************************************************************)
(* summarize and Percentile of gobench/benchmark.go and gobench/util.go,   *)
(* summarize and percentile of src/benchmark.ts and src/util.ts.           *)
(*                                                                         *)
(* Durations are whole numbers here; only their order, their sum and their *)
(* positions matter.  A ratio is given in hundredths: 50, 95 or 99.  The   *)
(* products n * 0.5, n * 0.95 and n * 0.99 are those of the code, too: the *)
(* three doubles differ from the decimal by less than 2^-54 of it, so a    *)
(* product that should be whole is rounded to that whole number, and one   *)
(* that should not is a hundredth away from the next whole number.         *)
(***************************************************************************)
EXTENDS Sorting, Sequences

CONSTANT
  Guard           \* Go adds 1 - 1/Guard to round up: 0.999999999 is 10^9

\* With less than a hundred, Go's sum would fall short of the next integer.
ASSUME GuardAssumption == Guard \in Nat /\ Guard >= 100

\* Both tools keep the index within the sample.
Clamp(n, index) ==
  IF index >= n THEN n - 1 ELSE IF index < 0 THEN 0 ELSE index

\* Mutant of GoIndex: rounded down, as int(...) does without the summand.
GoIndexFloor(n, ratio) == Clamp(n, (n * ratio) \div 100 - 1)

\* int(float64(len(sortedValues)) * ratio + 0.999999999) - 1
GoIndex(n, ratio) ==
  Clamp(n, (n * ratio * Guard + 100 * Guard - 100) \div (100 * Guard) - 1)

\* Math.ceil(sorted.length * ratio) - 1
TsIndex(n, ratio) == Clamp(n, -((-(n * ratio)) \div 100) - 1)

Index(tool, n, ratio) == IF tool = "go" THEN GoIndex(n, ratio) ELSE TsIndex(n, ratio)

\* An empty sample has the percentile 0.
Percentile(tool, sorted, ratio) ==
  IF sorted = <<>> THEN 0 ELSE sorted[Index(tool, Len(sorted), ratio) + 1]

SortedCopy(durations) ==
  LET order == StableSort(DOMAIN durations, durations)
  IN  [k \in DOMAIN order |-> durations[order[k]]]

\* for _, value := range sorted { sum += value }
Total(values) ==
  LET sum[k \in 0 .. Len(values)] == IF k = 0 THEN 0 ELSE sum[k - 1] + values[k]
  IN  sum[Len(values)]

\* The mean is sum over count, and the throughput count over the wall time.
summarize(tool, durations) ==
  LET sorted == SortedCopy(durations)
      count == Len(sorted)
  IN  [count |-> count, sum |-> Total(sorted),
       min |-> IF count = 0 THEN 0 ELSE sorted[1],
       max |-> IF count = 0 THEN 0 ELSE sorted[count],
       p50 |-> Percentile(tool, sorted, 50),
       p95 |-> Percentile(tool, sorted, 95),
       p99 |-> Percentile(tool, sorted, 99)]
-----------------------------------------------------------------------------
(***************************************************************************)
(* Reference definitions                                                   *)
(***************************************************************************)

\* How many of n numbered samples reach the ratio: the least rank that does.
IsNearestRank(rank, n, ratio) ==
  /\ rank \in 1 .. n
  /\ rank * 100 >= n * ratio
  /\ \A r \in 1 .. n : r * 100 >= n * ratio => r >= rank

\* v is a sample such that at least `ratio` percent of the samples are no more
\* than v, and less than that are less than v.
IsPercentile(v, durations, ratio) ==
  LET n == Len(durations)
      Below == {k \in 1 .. n : durations[k] < v}
      Equal == {k \in 1 .. n : durations[k] = v}
  IN  /\ Equal # {}
      /\ (Cardinality(Below) + Cardinality(Equal)) * 100 >= n * ratio
      /\ Cardinality(Below) * 100 < n * ratio
=============================================================================

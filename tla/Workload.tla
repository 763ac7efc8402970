------------------------------- MODULE Workload -------------------------------
(***************************************************************************)
(* RunBenchmarks of gobench/benchmark.go and src/benchmark.ts: which        *)
(* objects the warm-up and the measured requests of an operation touch.    *)
(*                                                                         *)
(* The suite provisions fresh buckets for every operation; in them, for    *)
(* every scenario, it runs the warm-up items through runWorkers and then   *)
(* the measured ones.  A call of runWorkers is what ParallelFor says of    *)
(* it: its items in any order, each at most once.                          *)
(***************************************************************************)
EXTENDS Integers, Sequences, FiniteSets

CONSTANTS
  Scenarios,      \* the scenarios' names, in the order of the manifest
  GoOptions,      \* <<--iterations, --warmup>> looked at, for the Go tool
  TsOptions,      \* and for the TypeScript tool, which accepts none below zero
  FixtureCount,   \* every --...-count option
  MaxRuns         \* bound: how many isolated runs a suite has

ASSUME OptionsAssumption ==
  /\ GoOptions \subseteq Int \X Int
  /\ TsOptions \subseteq Nat \X Nat
  /\ FixtureCount \in Int
  /\ Scenarios \in Seq(STRING) /\ Len(Scenarios) > 0

Reads == {"head-shared", "get-shared", "get-local", "list-prefix"}
Mutable == {"put-new", "put-overwrite-seeded", "remove-seeded"}
Operations == Reads \union Mutable

VARIABLES
  tool,           \* "go" or "ts"
  iterations,     \* options.Iterations
  warmup,         \* options.Warmup
  runs,           \* how many runs have been provisioned
  operation,      \* the run's operation
  scenario,       \* the position of the scenario being benchmarked
  contents,       \* contents[s]: the objects of s's bucket, as <<key, body>>
  phase,          \* where RunBenchmarks is
  todo,           \* the indexes of items still to be performed in this phase
  sample,         \* the indexes that have a duration in the measured phase
  errored         \* TRUE once an item of this call of runWorkers has failed

options == <<tool, iterations, warmup>>
vars == <<options, runs, operation, scenario, contents, phase, todo, sample, errored>>

Least(m, n) == IF m < n THEN m ELSE n
Greatest(m, n) == IF m > n THEN m ELSE n

\* How many keys ProvisionRun seeds for reading, and for overwriting or deleting.
ReadFixtures == Greatest(iterations, FixtureCount)

\* Mutant of MutableFixtures: the warm-up is not allowed for.
MutableFixturesMeasured == Greatest(iterations, FixtureCount)

MutableFixtures == Greatest(iterations + warmup, FixtureCount)

\* A key: what it is for, the scenario in its name or "shared", and its number.
SharedFixtures ==
  ({"read"} \X {"shared"} \X (0 .. ReadFixtures - 1))
    \union ({"overwrite", "delete"} \X {"shared"} \X (0 .. MutableFixtures - 1))
    \union ({"list"} \X {"shared"} \X (0 .. FixtureCount - 1))

LocalFixtures(s) == {"local"} \X {s} \X (0 .. ReadFixtures - 1)

\* What Provision leaves in the bucket of scenario s.
Provisioned(s) == (SharedFixtures \union LocalFixtures(s)) \X {"seed"}

\* Mutant of ItemCount: no items are added for the warm-up.
ItemCountMeasured(op) == iterations

\* The number of requests that the options ask for, with those of the warm-up
\* for the mutable operations.
ItemCount(op) == IF op \in Mutable THEN iterations + warmup ELSE iterations

\* How many fixtures the items are sliced from, if they are: Go's slice panics
\* with a bound below zero or beyond that; JavaScript's ends where they end.
Fixtures(op) ==
  IF op \in {"head-shared", "get-shared", "get-local"} THEN ReadFixtures ELSE MutableFixtures

Sliced(op) == op \notin {"list-prefix", "put-new"}

\* len(items)
Length(op) ==
  LET count == Greatest(ItemCount(op), 0)
  IN  IF Sliced(op) THEN Least(count, Fixtures(op)) ELSE count

\* items[i].Key; a list request names the prefix and no key.
KeyOf(op, s, i) ==
  CASE op \in {"head-shared", "get-shared"} -> <<"read", "shared", i>>
    [] op = "get-local" -> <<"local", s, i>>
    [] op = "list-prefix" -> <<"list", "shared", 0>>
    [] op = "put-new" -> <<"new", s, i>>
    [] op = "put-overwrite-seeded" -> <<"overwrite", "shared", i>>
    [] op = "remove-seeded" -> <<"delete", "shared", i>>

All(op) == 0 .. Length(op) - 1

\* splitWarmupAndBenchmarkItems: where the warm-up ends and the measured items do.
SplitAt(op) == Least(warmup, Length(op))
SplitEnd(op) == Least(Length(op), SplitAt(op) + iterations)

WarmupSlice(op) == 0 .. SplitAt(op) - 1
MeasuredSlice(op) == SplitAt(op) .. SplitEnd(op) - 1

\* Go's RunBenchmarks panics at a slice of the fixtures or of the items.
Panics(op) ==
  /\ tool = "go"
  /\ \/ Sliced(op) /\ ItemCount(op) \notin 0 .. Fixtures(op)
     \/ op \in Mutable /\ (SplitAt(op) < 0 \/ SplitEnd(op) < SplitAt(op))

\* selectItems takes all the items when the slice is empty, and so does Go when
\* there is no slice; `slice ?? items` does only when there is none.
Select(op, slice) ==
  IF op \notin Mutable \/ (tool = "go" /\ slice = {}) THEN All(op) ELSE slice

\* warmup() performs at most `warmup` of the items it is given.
WarmupItems(op) == {i \in Select(op, WarmupSlice(op)) : i < warmup}

MeasuredItems(op) == Select(op, MeasuredSlice(op))
-----------------------------------------------------------------------------
Init ==
  /\ tool \in {"go", "ts"}
  /\ \E o \in IF tool = "go" THEN GoOptions ELSE TsOptions : iterations = o[1] /\ warmup = o[2]
  /\ runs = 0
  /\ operation = "put-new"
  /\ scenario = 1
  /\ contents = [k \in 1 .. Len(Scenarios) |-> {}]
  /\ phase = "provision"
  /\ todo = {} /\ sample = {}
  /\ errored = FALSE

\* Mutant of ProvisionFor: the operations of a suite share their buckets.
ProvisionOnce ==
  /\ phase = "provision" /\ runs < MaxRuns
  /\ runs' = runs + 1
  /\ operation' \in Operations
  /\ scenario' = 1
  /\ contents' = IF runs > 0 THEN contents
                 ELSE [k \in 1 .. Len(Scenarios) |-> Provisioned(Scenarios[k])]
  /\ phase' = "select"
  /\ UNCHANGED <<options, todo, sample, errored>>

\* The next operation of the suite gets buckets of its own.
ProvisionFor ==
  /\ phase = "provision" /\ runs < MaxRuns
  /\ runs' = runs + 1
  /\ operation' \in Operations
  /\ scenario' = 1
  /\ contents' = [k \in 1 .. Len(Scenarios) |-> Provisioned(Scenarios[k])]
  /\ phase' = "select"
  /\ UNCHANGED <<options, todo, sample, errored>>

\* The switch over the operation: the scenario's items, in their two slices, and
\* the warm-up begins.  A panic ends the process, with no cleanup.
SelectItems ==
  /\ phase = "select"
  /\ \/ Panics(operation) /\ phase' = "panicked" /\ UNCHANGED todo
     \/ ~Panics(operation) /\ phase' = "warmup" /\ todo' = WarmupItems(operation)
  /\ UNCHANGED <<options, runs, operation, scenario, contents, sample, errored>>

Name == Scenarios[scenario]

Stored(key) == \E o \in contents[scenario] : o[1] = key

\* What a request does to the bucket.
Effect(key) ==
  LET others == {o \in contents[scenario] : o[1] # key}
  IN  CASE operation \in Reads -> contents[scenario]
        [] operation = "remove-seeded" -> others
        [] OTHER -> others \union {<<key, "bench">>}

\* One item of the current call of runWorkers is performed; a read of what is
\* not there is an error, a list or a delete of it is not.
Perform(i) ==
  LET key == KeyOf(operation, Name, i)
  IN  /\ phase \in {"warmup", "measure"}
      /\ i \in todo
      /\ operation \in {"head-shared", "get-shared", "get-local"} => Stored(key)
      /\ todo' = todo \ {i}
      /\ contents' = [contents EXCEPT ![scenario] = Effect(key)]
      /\ sample' = IF phase = "measure" THEN sample \union {i} ELSE sample
      /\ UNCHANGED <<options, runs, operation, scenario, phase, errored>>

\* Its request fails; the other workers may go on.
PerformFails(i) ==
  /\ phase \in {"warmup", "measure"}
  /\ i \in todo
  /\ todo' = todo \ {i}
  /\ errored' = TRUE
  /\ UNCHANGED <<options, runs, operation, scenario, contents, phase, sample>>

\* runWorkers returns an error, in either phase: so does RunBenchmarks.
ReturnError ==
  /\ phase \in {"warmup", "measure"} /\ errored
  /\ phase' = "failed"
  /\ UNCHANGED <<options, runs, operation, scenario, contents, todo, sample, errored>>

BeginMeasuring ==
  /\ phase = "warmup" /\ todo = {} /\ ~errored
  /\ phase' = "measure"
  /\ todo' = MeasuredItems(operation)
  /\ sample' = {}
  /\ UNCHANGED <<options, runs, operation, scenario, contents, errored>>

\* summarize, append the result; then the next scenario, or the run is over.
RecordResult ==
  /\ phase = "measure" /\ todo = {} /\ ~errored
  /\ \/ /\ scenario < Len(Scenarios)
        /\ scenario' = scenario + 1
        /\ phase' = "select"
     \/ /\ scenario = Len(Scenarios)
        /\ phase' = "provision"
        /\ UNCHANGED scenario
  /\ UNCHANGED <<options, runs, operation, contents, todo, sample, errored>>

\* The suite has come to its end or to an error.
Terminated ==
  /\ phase \in {"failed", "panicked"} \/ (phase = "provision" /\ runs = MaxRuns)
  /\ UNCHANGED vars

Next ==
  \/ ProvisionFor \/ SelectItems \/ BeginMeasuring \/ RecordResult \/ ReturnError
  \/ \E i \in todo : Perform(i) \/ PerformFails(i)
  \/ Terminated

Spec == Init /\ [][Next]_vars
-----------------------------------------------------------------------------
(***************************************************************************)
(* Properties                                                              *)
(***************************************************************************)

\* The object a measured request needs, as provisioning left it: a put-new
\* needs that there is none.
Clean(key) ==
  CASE operation = "put-new" -> ~Stored(key)
    [] operation = "list-prefix" -> TRUE
    [] OTHER -> <<key, "seed">> \in contents[scenario]

\* Every measured request meets its object as provisioning left it: neither the
\* warm-up, nor another scenario or operation, nor an earlier request of the
\* same call has put, overwritten or removed it ("Mutable ops are benchmarked
\* only after provisioning a fresh run", README.md).
MeasuredOnCleanFixture ==
  [][phase = "measure" /\ sample' # sample =>
       \A i \in sample' \ sample : Clean(KeyOf(operation, Name, i))]_vars

\* A result is about as many requests as --iterations says, in TypeScript too,
\* whose slices would quietly be shorter.
SampleHasIterations ==
  phase = "measure" /\ todo = {} /\ ~errored => Cardinality(sample) = Greatest(iterations, 0)

\* No option but a negative one brings the Go tool down between making its
\* buckets and removing them: however few fixtures are asked for, there are
\* enough for both slices (provision.go 33-39, benchmark.go 19-24, 123-166).
PanicsOnlyOnNegative == phase = "panicked" => iterations < 0 \/ warmup < 0
=============================================================================

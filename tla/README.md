# A TLA+ model of tigris-storage-bench

The repository holds two tools with one purpose, one in Go (`cmd/`, `gobench/`)
and one in TypeScript (`src/`). Each provisions buckets in the Tigris object
store (a plain one, a snapshot-enabled root and a chain of forks), times seven
kinds of object request on each of them, writes reports and deletes the buckets.

This directory models the parts of both tools that keep state and the pure parts
whose edges matter, checks them with TLC on small instances, and proves with
TLAPS, for every value of the constants, every safety property of every passing
run: of the worker pools, of provisioning and cleanup, of the runner, of the two
commands and of the pure parts (sorts, statistics, names, options, reports),
and the contracts that the pools and provisioning have with their callers.

Paths below are those of the repository: `gobench/provision.go`,
`src/provision.ts` and so on.

## Inventory

| Part | State it keeps | Operations | What makes it correct |
|---|---|---|---|
| Go worker pool, `runWorkers` in `gobench/benchmark.go` 25-68 | claim counter under `nextMu`, `durations`, `firstErr` under `errMu`, a WaitGroup | spawn, claim, execute, report, return | every item is performed at most once; nothing is in flight at the return; a result without an error is a full sample; the first error is the one returned |
| TypeScript worker pool, `runWorkers` in `src/benchmark.ts` 17-47 | `cursor`, `durationsMs`, the promises | start, resume, reject, settle | every item at most once; a resolved call is complete; what a rejected call leaves behind comes to an end |
| Runner, `RunBenchmarks` | the items of the current scenario | warm up, measure, record | a measured request meets its object as provisioning left it; samples have the size asked for |
| Statistics, `summarize`, `Percentile` | none | sort, count, pick | the percentile is the sample at the nearest rank, at every sample size, in both tools |
| Provisioning, `ProvisionRun` | `scenarios`, `parentScenario`, the manifest | create, seed, snapshot, fork, seed locally, write | the chain is not flattened, forks inherit, the manifest names every bucket, errors do not leak buckets |
| Cleanup, `CleanupRun` | the sorted scenarios | sort, remove | every bucket is asked for, forks before what they were forked from |
| Suite and commands, `main.go`, `src/cli.ts` | the operation at hand, `operationRuns`, files | provision, run, write, clean up, cleanup command | one run at a time, nothing left after success, what is kept can be found |
| Client wrappers, `gobench/tigris.go`, `src/tigris.ts` | none | one per call; a fork is two requests | errors are not lost |
| Configuration, `gobench/config.go`, `src/config.ts` | none | read `.env`, parse the flags | accepted operations exist and are at least one, the concurrency is positive; both tools understand a documented command line alike |
| Bucket names, `MakeBucketName`, `makeBucketName` | none | sanitize, join, cut | every name is one a bucket may have; names differ within a run and between suites |
| Reports, `RenderSummary`, `renderSummary` | none | group, sort, compare | every result in one row, ratios against the right baseline |
| Types | none | | the operations and their order |

**How they interact.** A command runs the suite's loop. For every operation the
suite calls `ProvisionRun`, then `RunBenchmarks`, which calls `runWorkers` twice
per scenario (warm-up and measurement), writes two files and calls `CleanupRun`.
`ProvisionRun` calls `CleanupRun` on its own errors. All but the worker pool is
one sequence of calls; within the pool, goroutines (or async workers) share the
claim counter and send their requests concurrently. Runs share no memory: they
talk through the service (the buckets) and through files (`manifest.json` names
the buckets, `suite.json` names the manifests), which a cleanup command, a later
process, reads.

**What is hard here.** Interleavings of the workers around the counter, the
first error and the WaitGroup; async workers that outlive a rejected call;
failures at any call of provisioning, with the call's effect done or not; the
order of snapshots, seeding and removals; errors of cleanup itself; a process
killed between making buckets and naming them; repeated cleanups, and
cleanups that ask another service; zero or negative iterations; numerals that the
two tools read differently; a name cut at 63
bytes; a percentile index rounded up by hand; a list of operations that names one
twice. `PROJECT.json` lists them line by line under `hazards`.

## Modules

| Module | Models | Kind |
|---|---|---|
| `ParallelFor` | what a parallel loop promises its caller: items start at most once, a verdict that is true, and, if it joins, nothing running afterwards | abstract specification |
| `GoWorkers` | `runWorkers` of Go; `Contract` refines `ParallelFor` with the join | detailed |
| `GoWorkersProof` | theorems about `GoWorkers` | proofs |
| `TsWorkers` | `runWorkers` of TypeScript; `Contract` refines `ParallelFor` without the join on errors | detailed |
| `TsWorkersProof` | theorems about `TsWorkers` | proofs |
| `ObjectStore` | the service as the wrappers rely on it | external |
| `Provision` | `ProvisionRun` and `CleanupRun` of Go, on `ObjectStore` | detailed |
| `TsProvision` | the same of TypeScript: the steps of `Provision` under the error handling of one `try` and a tolerant cleanup | composition |
| `ProvisionProof` | theorems about `Provision`, the last that it implements `IsolatedRun` | proofs |
| `IsolatedRun` | what provisioning and cleanup promise the command: a run as its buckets, and what each of its ends leaves | abstract specification |
| `FixturesProof` | what the buckets of a run hold and how they hang together; `TsProvision` | proofs |
| `Sorting` | the library's stable sort, as positions | external |
| `CleanupOrder` | the exchange sort of Go and the stable sort of TypeScript | pure functions |
| `Workload` | `RunBenchmarks` of both tools: items, slices, warm-up, effects on the bucket | detailed |
| `WorkloadProof` | theorems about `Workload` | proofs |
| `Suite` | both commands of both tools, a kill at any point, repeated cleanups | detailed |
| `SuiteProof` | theorems about `Suite` | proofs |
| `Stats` | `summarize` and the percentile of both tools, with reference definitions | pure functions |
| `OperationTypes` | the operations in their order | pure functions |
| `Names` | bucket names | pure functions |
| `Options` | command line, environment and `.env` | pure functions |
| `Report` | the tables of a summary | pure functions |
| `PureParts` | the five pure parts over any inputs, a state per input, and their properties | composition |
| `ListsProof` | the sorts, the statistics and the reports, for every list | proofs |
| `FunctionsProof` | names and options, and the theorems about `PureParts` | proofs |
| `MCFunctions` | sets of inputs for `PureParts` | instance |
| other `MC...` | constants for TLC | instances |

An action stands for the code between two points where another actor can act or
a call can fail. `PROJECT.json` maps every definition to its lines. Definitions
named "Mutant of ..." are plausible mistakes in one definition; each property is
shown to notice one of them.

### Worker pools

A goroutine's `pc` is where it is in the loop body: `claim`, `locked` (inside
`nextMu`), `claimed`, `execute`, `report`, `set` and `kept` (inside `errMu`),
`done`. `durations` is the set of
indexes whose slot has been written: the times themselves say nothing. An item
fails or not as the environment likes. Both mutexes are taken and given back in
steps of their own: `LockErr` takes `errMu` and looks at `firstErr`, `SetErr` (at
`set`) writes it, `UnlockErr` (at `kept`) ends the goroutine, so that a check
outside the lock would let a later error replace the first.
In TypeScript a worker runs unbroken from one `await` to the next, so `Resume`
records, claims and sends in one step. After `Promise.all` has rejected
(`SettleError`) the other workers still take steps.

### Provisioning and cleanup

Buckets are numbered in the order a run makes them: 0 plain, 1 root, d + 1 the
fork of depth d. An object is a pair of its key and the bucket whose seeding
made its body, so an inherited object can be told from a bucket's own. A call
in `Unreliable` may fail before or, with `LostReplies`, after it has taken
effect (`CallFails`). `CreateFork` and `ForkFallback` are the two requests of
`CreateForkBucket`. The two tools differ in three constants: whether a failed
first create is cleaned up after, whether cleanup stops at the first error, and
the sort. `PinsParents` makes the service refuse to remove a bucket with live
forks, the stricter of the two behaviours it might have.

`IsolatedRun` is the same run as its caller sees it: buckets appear one by one;
a run is ready only when all of them exist and a manifest names them; a run that
fails takes down what it has made, but for one bucket at most; a removal that
meets no refusal leaves nothing of a ready run. `Contract` in `Provision` maps
the program points of a run to seven phases (`Phase`), and the recorded state
to `named` and `refused`. `Suite` takes provisioning for what `IsolatedRun` says.

### Workload

`contents` is the bucket of every scenario, `todo` the items of the current call
of `runWorkers`, performed in any order: it stands for the contract that
`GoWorkers` and `TsWorkers` are shown to keep. `Select` holds one difference of
the tools: Go takes an empty slice for a missing one. `Panics` is the other: Go
accepts counts below zero, and its slice expressions then panic, where
JavaScript's slices just end; `SelectItems` goes to `panicked` exactly there.

### Suite

A run is its buckets (`live`) and its files; `ProvisionRun`, `RunBenchmarks` and
`CleanupRun` are what the other modules say of them. A failed `ProvisionRun`
asks for what it has recorded (`pc = "undo"`), by the same `RemoveOne` as every
other cleanup: the first two buckets, made or not, and the forks whose creation
it has seen succeed. A fork that was made and not recorded is nobody's from then
on; it is the one bucket `TsFailureIsTidy` allows besides the refused ones.
`ProvisionFailsAtOnce` is an error nothing is removed after: of making the run's
directory and, in Go, of the first create. `stuck` collects the buckets that
exist and whose removal was refused. A removal, like a create, may have taken
effect though its reply is an error (`Refused`). The order of the removals is
each tool's own sort of the recorded depths, from `CleanupOrder`. A file is
absent, partial or complete, since a write can fail or be cut short, and one that
reports an error may have left all of the file (`Spoiled`). What may go wrong is a constant (`Faults`), so that a run
can look at one kind alone. After the process has ended, in whatever way, cleanup
commands follow. `override` says that the suite was given `--endpoint`, `here`
that the command asks the service that has the buckets: Go's takes the endpoint
from the environment only, TypeScript's also from an option the user may repeat.

### The pure parts

- `Sorting`: `sort.Float64s` and `Array.prototype.sort`, as the positions of
  the list in their new order. The other parts sort by it.
- `CleanupOrder`: the two removal orders, as permutations of positions: the
  exchange sort of Go step by step, the stable sort of TypeScript.
- `Stats`: durations are whole numbers, ratios hundredths. Go rounds up by adding
  0.999999999, here 1 - 1/`Guard`, before it truncates; TypeScript calls
  `Math.ceil`. The products of the code are doubles; the module's header says why
  whole products stay whole. The reference definitions (`IsNearestRank`,
  `IsPercentile`) do not mention the index.
- `Names`: a string is its characters, as the conversion is what matters: lower
  case, runs of other characters to one dash, none at the ends, the cut at 63,
  and what becomes of a dash the cut leaves (Go drops it, TypeScript writes an
  `a`). Letters are those of ASCII.
- `Options`: for each tool a function along the tokens of the command line
  (`GoParse`, `TsParse`), as their parsers differ: in Go a flag takes whatever
  comes next, in TypeScript only what does not begin with two dashes. `Give` is
  the effect of a value. `--iterations` and `--concurrency` stand for the ten
  counts. Go stops at the first value that is no number (`GoToken`), or at a word
  that ends the flags, `-` and `--` among them. `GoNumber` is `strconv.ParseInt`
  in base 0, as the `flag` package calls it: a base from the prefix, underscores,
  nothing after the digits, at most `MaxInt`. `TsNumber` is `Number.parseInt` in
  base 10: blanks, a sign, and the decimal digits in front, exact up to `MaxSafe`.
  So `--iterations 010` is 8 in Go and 10 in TypeScript, `0x10` is 16 and 0,
  `1_000` is 1000 and 1, and `08` and `2x` are errors in Go only. Of `.env` the
  line of one name counts, the first in Go and the last in TypeScript.
  `IsDocumented` is what the help text allows; for `<n>` that is a plain decimal
  without a needless zero in front (`IsCount`), on which the two readings are
  proved to agree. Nothing in the repository says what the others should mean.
- `Report`: a group is a set of positions in the list of results, its rows their
  order. Go's sort is not stable, so it has a set of reports; TypeScript has one.
  `normal` is the baseline.

## Runs

| Run | Question | Bounds, and why they are enough |
|---|---|---|
| `go_workers` | the pool in every interleaving | 3 goroutines, 4 items: a goroutine takes a second item while others fail, all can fail before the list is done, and the counter runs past the end |
| `ts_workers` | the pool with rejections and orphans | 3 workers, 5 items: two orphans take several items each |
| `functions` | the five pure parts, a state per input (25,510 states) | all lists of at most 5 depths from 0 to 3; samples with ties up to 5 and of every size up to 110, past a full hundred; prefixes of every length up to 68 with odd ends, past the cut; command lines of up to 3 documented options or 2 of any kind, with 20 numerals of one tool or of both, three environments and up to two lines of `.env`; aggregates of up to 3 operations with repetitions |
| `go_provision` | one run, every call failing or losing its reply | 3 forks: a first, a middle and a last one; a key set of two keys and an empty one |
| `ts_provision` | the same with TypeScript's error handling | as above |
| `workload` | what measured requests meet, and what makes Go panic | two operations in a row, two scenarios, counts from below zero (Go) up to two, fewer fixtures asked for than needed |
| `suite` | buckets and files, however a suite ends, and that it ends (404,040 states) | 2 operations of 3 buckets, so that a fork is refused with others before and after it; 2 cleanup commands, so that one repeats the other; all faults, both tools, with and without `--keep-buckets` and `--endpoint` |
| `fork_fallback` | violation of `NothingLeftAfterFailure` | only the preferred fork request fails |
| `zero_iterations` | violation of `MeasuredOnCleanFixture` | `--iterations 0`, warm-up 2 |
| `failed_write` | violation of `FailureIsTidy` | Go, one operation of two buckets |
| `suite_output` | violation of `DocumentedOutput` | TypeScript, one operation of two buckets |
| `fresh_names` | violation of `NamesAreFresh` | as `functions` |

The named bounds are `MaxCommands` in `Suite` and `MaxRuns` in `Workload`; the
inputs of `functions` are the sets named in `MCFunctions`. `Guard` is 10^4 there
and 10^9 in the code: TLC's integers do not hold the products of the latter, and
`ListsProof` shows that any value from 100 on gives the same index. `MaxInt` and
`MaxSafe` are 999 and 99 there, 2^63 - 1 and 2^53 - 1 in the code: numerals on
both sides of either are among the inputs, and the theorem is for any two values.
Everything
else is finite by itself. No run switches the deadlock check off: the modules
that come to an end have a `Terminated` step that stutters there, `TsProvision`
shares it, and a state of `functions` stays as it is.

The five violations are disagreements between the code and its own
documents, quoted under `findings`: a fork made by the fallback request is
forgotten and never deleted; `--iterations 0` makes the Go tool measure what its
warm-up consumed; Go does not delete an operation's buckets when a report cannot
be written; a TypeScript suite has no `manifest.json` where the README sends
users of `--keep-buckets`; and with a long `--prefix` the cut at 63 bytes takes
the random end of a bucket's name, so that the buckets of two suites are not
"fresh". `WholePrefixLength` is the longest sanitized prefix that leaves every
name whole, 19 characters; from 27 on the root of `put-overwrite-seeded` has no
random character left.

### Fairness

- `GoWorkers`: weak fairness of every goroutine and of the caller. The Go
  scheduler runs every runnable goroutine, and `sync.Mutex` hands the lock on.
  That a request is answered is assumed: the code sets no deadline, so without
  it `Returns` fails.
- `TsWorkers`: weak fairness of every worker's continuation and of settling: the
  event loop runs what is ready, and `cli.ts` only sets `process.exitCode`, so
  the process lives until its pending requests are answered.
- `Provision`: weak fairness of its one sequence of calls.
- `Suite`: weak fairness of what the commands do by themselves (`Work`): each is
  one sequence of calls and every call returns. Being killed and being given a
  command are not fair.
- `Workload`: none; only safety is stated.

## Proofs

Assumptions on constants are named and weak, and TLC evaluates each of them in a
run:

| Assumption | Says |
|---|---|
| `SizeAssumption` | any number of items, any positive concurrency |
| `RunAssumption` | any depth, any keys, any set of failing calls |
| `OrderAssumption` | of the removal order only that it is a permutation by descending depth; `SortsAreOrders` proves that of both sorts, for every list |
| `TypeScriptAssumption` | which of the constants of `Provision` are TypeScript's |
| `OptionsAssumption` | any counts, below zero for Go only; at least one scenario |
| `SuiteAssumption` | any number of operations and of commands, a run of its first two buckets and any number of forks; any faults |
| `RangesAssumption` | any largest int and any largest exact double |
| `GuardAssumption` | the guard of the percentile's ceiling is at least a hundred |
| `NumbersAssumption` | depths and durations are finite lists of natural numbers, any of them |
| `NamesAssumption` | any prefix; operations and suffixes are written as a name may be and are no longer than the longest of the code, suffixes differ, and a random part is eight letters or digits |
| `LinesAssumption` | any tokens, any `.env`; each of the flags begins with two dashes |
| `AggregatesAssumption` | any results of scenarios that have a depth, whose operations were measured on the normal bucket too, with latencies all zero or all positive |

**`GoWorkersProof`.** The properties are not inductive. `Inv` adds the
bookkeeping: only the holder of `nextMu` has read `next` (`LockInv`), and only the
holder of `errMu` has found `firstErr` nil, which it still is when it is set
(`ErrLockInv`, what `FirstErrorKept` rests on); a claimed
index is below `next` (`ClaimInv`); every index below `next` is recorded or held
by a goroutine (`Accounted`); `wg` is the number of live goroutines
(`GroupInv`, with the cardinality lemmas of the library). From `Accounted` and an
empty `Active` set follows that a return without an error is a full sample.
`ContractHolds` maps every step to a step or a stutter of `ParallelFor`.

That the call ends is proved up to fairness. `StepsLeft`, the number of unclaimed
items times one more than there can be steps ahead (`Round`), plus the steps that
are (`Ahead`), is a natural number that every step makes smaller (`Advances`):
a claim may give its goroutine more steps, but fewer than it counts for.
`NeverStuck` says what everybody who could go on waits for, and that until the
return it has come for somebody; it needs `LockInv` and `ErrLockInv` (a mutex is
held only by a goroutine that is about to unlock it) and `GroupInv` (the group is not empty while
a goroutine is left). With `Returns`, which needs weak fairness of the goroutines
on top of these two, TLC checks the last inference.

**`TsWorkersProof`.** The same bookkeeping without a lock, as a worker's step from
one `await` to the next is one action: before `Start` nothing is claimed
(`StartInv`); afterwards a worker that is waiting holds an index below `cursor`
(`ClaimInv`) that no other worker holds and nobody has recorded (`UniqueInv`),
and every index below `cursor` is recorded or held (`Accounted`), a rejected
worker holding its item for good. A worker that is done holds an index past the
end, so that `cursor` has passed every item: items are left out only if no worker
is done but by a rejection (`OrphansFinishTheItems`). `ReasonInv` and `ResultInv`
tie the promise to the workers: it is rejected with the item of a rejected
worker, and resolved only when all are done. `Advances` and `NeverStuck` are
proved as for Go, with the same measure; the steps counted include those of the
workers a rejection leaves behind.

**`ProvisionProof`.** `IInv` ties the service to what the run believes: the
scenarios are buckets 0, 1, 2, ... (`ScenInv`); the loop variables point at the
end of that list (`LoopInv`); the live buckets are the recorded ones and at most
the next one (`LiveInv`); a fork hangs from the bucket before it (`ParentInv`);
what was asked for and still lives was refused (`AskedInv`). `OneLeakAtMost`
follows because after a complete cleanup only the next, unrecorded bucket can be
left; `ForksBeforeParents` because the chain's shape turns descending depth into
children first. As the tools differ in constants only, the safety theorems hold
of both tools' constants, on the order of Go's calls; TypeScript's `TsProvision`
composes the same actions.

Its second half is the refinement, under the mapping of `Provision!Contract`. `IInv`
is not enough: `ErrInv` adds that no call has failed before cleanup begins, that
the chain is complete once the fork loop is over, and that a run removed without
an error has no bucket it has not recorded. One lemma per group of actions
(creating, forking, the calls without an effect on the bucket count, writing the
manifest, deciding, removing, returning) shows that the group's steps are a step
or a stutter of `IsolatedRun`.

**`FixturesProof`.** What a run hands to the benchmark. On top of `IInv`, `FixInv`
says that the links the manifest will state are the service's (`LinkInv`,
`EnabledInv`) and the chain has its full length once the fork loop is left
(`LengthInv`); that no bucket ever holds more than its fixtures (`OnlyFixtures`)
and every snapshot exactly the shared ones (`SnapshotsShared`); and how far
seeding has come, for each of its three loops (`SeedInv`, `ForkInv`, `LocalInv`).
`SnapshotsShared` is the heart of it: a fork inherits through any number of
levels because each level's snapshot is taken when its bucket holds the shared
fixtures, all of them, and before any bucket gets fixtures of its own. A lost
reply is covered, as its effect is one `FixInv` allows and the run then ends.
The last two theorems are about TypeScript: each step of `TsProvision` is a
step of `Provision` (`TypeScriptIsProvision`), so that every safety theorem about
`Provision` holds of it; and as its cleanup never stops, it has asked for every
recorded bucket when it is through (`EveryRemovalAsked`).

**`WorkloadProof`.** `WInv`: a call of `runWorkers` is given what the options ask
for (`SampleInv`); the items it has still to perform find their objects as
provisioned, and during the warm-up so do those to be measured (`CleanInv`);
the buckets of later scenarios have not been touched (`FreshInv`). The slices of
warm-up and measurement being disjoint is arithmetic on the counts. In Go it
fails for a warm-up with `--iterations 0`, which the run `zero_iterations` shows:
the first two theorems therefore have the hypothesis `WarmupNeedsIterations` on
the initial state, which excludes those pairs of counts and no others; all the
counts of the run `workload` satisfy it. `PanicsOnlyOnNegativeHolds` needs no hypothesis.

**`SuiteProof`.** `SInv` says where the loop over the operations is (`PlaceInv`);
that the files of the runs behind it are complete and those of the runs it has
yet to provision absent (`FilesInv`); that a bucket of the run being removed is on the
list of its cleanup or was refused in TypeScript (`TidyInv`), but for one
unrecorded fork while a failed `ProvisionRun` is undone (`UndoInv`); and that the queue
of a Go cleanup command has the run of every bucket that is left (`QueueInv`),
which needs `SuiteFileIsComplete`: the command takes its runs from `suite.json`.
`OneRunAtATime` and `TsFailureIsTidy` become inductive with these (`LiveInv`).
That the list of a removal has every bucket of its run, once, is `RemovalFacts`,
from `SortsAreOrders` of `ListsProof`. The two ways a suite goes on to the next operation, with the buckets kept and
with the buckets removed, share one lemma (`AdvanceFacts`), and so do the four
errors after provisioning (`RunFailsFacts`).

A suite or command ends, whatever fails: `StepsLeft`, the operations left times
more than an operation takes (`Round`), plus what is left of the one at hand or of
the cleanup command (`Stage`: buckets to make, files to write, buckets to remove,
runs in the queue), is a natural number that every step makes smaller but the
start of another command (`Advances`). Only two steps wait for something that
could fail to be there, the next file of the suite, which exists because they are
written in order (`OrderInv`, inductive on top of `SInv`), and the run a command
goes on from (`NeverStuck`).

**`ListsProof`.** What the sorts, sums and percentiles compute for every list.
The library's induction theorems take an operator as a parameter, which the
provers cannot instantiate. The module does without: `Induction` derives
induction on a segment of the numbers, with the set of good numbers in place of
a predicate, from the library's theorem that strict inclusion among the subsets
of a finite set is well-founded;
`Recursion` shows that a function obeying a recursive definition along a segment
exists, by the union of its beginnings, so that the CHOOSE behind a recursive
function is such a function. On these rest:

- the stable sort: the place of an element is one more than the number of those
  that go before it, and cardinalities make places a permutation in order;
- the exchange sort: its two loops, with what is sorted after each step
  (`SortedUpTo`), and every step a permutation of the one before
  (`SortsAreOrders` joins both);
- the percentile: a product of size and ratio is `100 * q + r` with `r` in 1 to
  100; the summand `1 - 1/Guard` carries over exactly then (`GoCeiling`), as
  `Math.ceil` does (`TsCeiling`); `q + 1` is within the sample, so that neither
  clamp is ever needed, and is the nearest rank (`IndexIsNearestRank`), which in
  a sorted sample is the percentile by its definition (`NearestRankIsPercentile`);
- the sum, between size times minimum and size times maximum (`TotalIsBounded`);
- the reports: groups partition the results, and rows sort a group.

**`FunctionsProof`.** `PureParts` does not change its input, so `Init` is its own
inductive invariant (`InputsStay`), and each property is a fact about every input.
For names: sanitizing leaves no two dashes in a row along the scan (`Part`) and
none at the ends; an isolated prefix fits its budget (`IsolatedPrefixFits`); the
cut of each tool keeps a name a name; and names whose whole text fits differ when
a suffix or the random part does (`JoinedNamesDiffer`). For options: every
accepted line has passed the checks at the end of the parser (`AcceptedOptions`);
on a plain decimal, of any length, base 0 and base 10 give the same number, in
the range of both (`CountsAgree`), and it is one Go does not stop at;
along a documented line both parsers stand at the beginning of the same option
with the same values (`BetweenOptions`, by induction on the options), so that
they end alike (`DocumentedLineParsed`, `ToolsAgree`).

| Theorem | Says |
|---|---|
| `TypeOKHolds`, `ClaimedOnceHolds`, `NothingInFlightHolds` of `GoWorkersProof` | types, no item twice, nothing in flight at the return |
| `FullSampleHolds`, `ErrorIsGenuineHolds`, `SkippedOnlyWhenAllFailedHolds`, `FirstErrorKeptHolds` | the pool's results and errors are true |
| `ContractHolds` of `GoWorkersProof` | the pool implements `ParallelFor` |
| `TypeOKHolds`, `ResolvedMeansDoneHolds`, `OrphansFinishTheItemsHolds` of `TsWorkersProof` | types; a resolved call is complete; orphans leave items out only if all were rejected |
| `ContractHolds` of `TsWorkersProof` | the async pool implements `ParallelFor` without the join |
| `Advances`, `NeverStuckHolds` of `GoWorkersProof` and of `TsWorkersProof` | a call has a number of steps left that each step makes smaller, and somebody may go on until it has ended |
| `TypeOKHolds` of `ProvisionProof`, `ManifestIsCompleteHolds` | provisioning's types; the manifest names what lives |
| `OneLeakAtMostHolds`, `SurvivorsExplainedHolds`, `ForksBeforeParentsHolds` | what cleanup leaves and its order |
| `ContractHolds` of `ProvisionProof` | provisioning and cleanup implement `IsolatedRun` |
| `InheritedFixturesHolds`, `LocalFixturesHolds`, `ChainNotFlattenedHolds` | what the buckets of a run that is handed on hold, and how they are linked |
| `TypeScriptIsProvision`, `EveryRemovalAskedHolds` | TypeScript's run is a run of `Provision`; its cleanup asks for every bucket |
| `SampleHasIterationsHolds`, `MeasuredOnCleanFixtureHolds` | samples have the size asked for, of objects as provisioned, for all counts but a Go warm-up without iterations |
| `PanicsOnlyOnNegativeHolds` | Go's slices panic on negative counts only |
| `OneRunAtATimeHolds`, `SuiteFileIsCompleteHolds`, `UnnamedBucketsOfOneRunHolds` | what buckets and files there are while a suite runs and however it ends |
| `CommandRemovesRunsHolds` | what a cleanup command leaves of the runs it is through with, and of the suite when Go's succeeds |
| `TsFailureIsTidyHolds` | a failing TypeScript suite leaves refused buckets and one unrecorded fork at most |
| `Advances`, `NeverStuckHolds` of `SuiteProof` | a suite or command has a number of steps left that each step makes smaller, and what a step waits for is there |
| `IndexIsNearestRank` | both tools' percentile index is the nearest rank, for every sample size, every whole ratio and every `Guard` from 100 on |
| `SortsAreOrders`, `SortsSound` | both removal orders are permutations by descending depth, TypeScript's a stable one, for every list of depths |
| `PercentilesTrue` | both tools report the same percentiles, the true ones, of every sample |
| `NamesSound` | every name is one a bucket may have, whatever the prefix; names that fit differ |
| `OptionsSound` | whatever the tokens, accepted operations are known and the concurrency is positive; documented lines of any length, counts in plain decimals, mean the same to both tools |
| `ReportSound` | every result in one row, rows by depth, ratios against the operation's own baseline |

**Only model-checked.** The liveness properties `Returns`, `SettlesAndQuietens` and
`Ends`, since fairness and ENABLED are out of TLAPS's reach. What they rest on is
proved for every value of the constants (`Advances`, `NeverStuckHolds`): that a
step that can be taken brings the end nearer, and that there is one. What is left
to TLC is that fairness takes it. Every other property of a passing run is a
theorem.

## Not modelled

- Times: the latencies themselves, the mean and the throughput, which are one
  division each, and floating point beyond the argument in `Stats`.
- Run ids, which name directories only, and `CreatePayload`, whose bytes nobody
  reads. A negative `--object-size-bytes` panics there; it is one of the kills of
  `Suite`.
- Of the configuration: strings without an effect of their own, credentials,
  `--location`, the forms `-x` and `--x=y`, the arguments of the cleanup commands.
- Report layout and headings, the progress output.
- The SDKs and `NewClients`: a call is one request with one reply; retries inside
  an SDK show as a lost reply. Response parsing is left out of the wrappers.
- The requests of orphaned TypeScript workers (`TsWorkers`) are not in `Suite`:
  they are requests for objects, which neither make nor remove a bucket, and a
  removal that they get in the way of is a refused one. What such a request does
  to a bucket that is being removed is not known from the code.
- Some hazards have no property, and `PROJECT.json` says so with each: what the
  code does there is what it is meant to do for all that any document says (a
  cleanup that stops at the first error, a partial suite without `suite.json`),
  or the model assumes it away (a request that is never answered).

## Plan

Done, in this order: worker pools and their contract, provisioning and cleanup,
workload, suite; the proofs of the Go pool and of provisioning; the abstract run
and its refinement with its proof; faults, endpoint and termination of the suite;
statistics, names, options and reports; the proofs of the TypeScript pool, of the
fixtures and of TypeScript's cleanup, of the runner and of the commands; the
proofs of the pure parts; that the pools, suites and commands cannot run for ever.

Next:

1. The interface between `Suite` and `IsolatedRun`, in both directions: until the
   process is killed, the suite's steps, seen from one run, are steps of
   `IsolatedRun`, which needs a history of each run (whether a removal of it was
   refused); and each step of `IsolatedRun` is one the suite reckons with.
2. The contract that `Workload` takes from `ParallelFor`, stated the same way.

-------------------------------- MODULE Suite --------------------------------
(***************************************************************************)
(* The commands of both tools: runBenchmark and runCleanup of              *)
(* cmd/tigris-storage-bench-go/main.go, runBenchmarkCommand and            *)
(* runCleanupCommand of src/cli.ts.                                        *)
(*                                                                         *)
(* A suite performs one isolated run per operation: provision it, run its  *)
(* benchmark, write its results and its summary, remove its buckets.  Last *)
(* come the files about the suite as a whole.  The process may be killed   *)
(* at any point; a cleanup command may be given once it is gone, and again.*)
(*                                                                         *)
(* ProvisionRun, RunBenchmarks and CleanupRun are the modules Provision    *)
(* and Workload; here they are what those promise their caller, for the    *)
(* first and the last what IsolatedRun says.                               *)
(***************************************************************************)
EXTENDS CleanupOrder

CONSTANTS
  Tools,        \* the tools looked at, of "go" and "ts"
  Runs,         \* how many operations the suite has
  Buckets,      \* how many buckets a run has, its first two and its forks
  MaxCommands,  \* bound: how many cleanup commands are given
  Faults        \* what may go wrong, of FaultKinds

\* The configuration or the suite's directory; a call of ProvisionRun; a request
\* of RunBenchmarks; a file that is written; a removal; a file that a command
\* reads; and the process itself.
FaultKinds == {"setup", "provision", "bench", "write", "remove", "read", "kill"}

ASSUME SuiteAssumption ==
  /\ Tools \subseteq {"go", "ts"} /\ Faults \subseteq FaultKinds
  /\ Runs \in Nat \ {0} /\ Buckets \in Nat \ {0, 1} /\ MaxCommands \in Nat

VARIABLES
  tool,           \* the tool being run
  keep,           \* --keep-buckets
  override,       \* TRUE when --endpoint names another service than the environment
  pc,             \* where its process is
  status,         \* how the suite has come out: "running", "ok", "failed", "killed"
  op,             \* the run the loop over the operations is at
  operationRuns,  \* how many runs have been recorded for suite.json
  live,           \* the buckets that exist, as <<run, number>>
  stuck,          \* those of them that a removal was refused for
  files,          \* what is on disk of each file of the artifacts
  todo,           \* the buckets CleanupRun has yet to ask for, in order
  queue,          \* the runs a cleanup command has yet to remove
  here,           \* TRUE when the command asks the service that has the buckets
  command,        \* how the last cleanup command has come out
  commands        \* how many have been given

options == <<tool, keep, override>>
suite == <<status, op, operationRuns>>
service == <<live, stuck>>
commanding == <<queue, here, command, commands>>
cleanup == <<todo, commanding>>
vars == <<options, pc, suite, service, files, cleanup>>

\* Directory 0 is the suite's, directory r that of run r.
SuiteDir == 0
File == (SuiteDir .. Runs) \X {"manifest", "results", "summary", "suite"}

BucketsOf(r) == {r} \X (1 .. Buckets)

\* The fork depths of n buckets, as they are recorded.
DepthsOf(n) == [b \in 1 .. n |-> IF b <= 2 THEN 0 ELSE b - 2]

\* CleanupRun's list of a run that has recorded n buckets, by the tool's sort.
RemovalList(r, n) ==
  LET order == IF tool = "go" THEN ExchangeOrder(DepthsOf(n)) ELSE StableOrder(DepthsOf(n))
  IN  [k \in 1 .. n |-> <<r, order[k]>>]

Init ==
  /\ tool \in Tools
  /\ keep \in BOOLEAN /\ override \in BOOLEAN
  /\ pc = "setup" /\ status = "running"
  /\ op = 1 /\ operationRuns = 0
  /\ live = {} /\ stuck = {}
  /\ files = [f \in File |-> "absent"]
  /\ todo = <<>> /\ queue = <<>> /\ here = TRUE
  /\ command = "none" /\ commands = 0

End(outcome) == pc' = "ended" /\ status' = outcome

\* A write that returns an error may leave part of the file, or all of it.
Spoiled(file) ==
  \/ UNCHANGED files
  \/ \E state \in {"partial", "complete"} : files' = [files EXCEPT ![file] = state]
-----------------------------------------------------------------------------
(***************************************************************************)
(* The benchmark command                                                   *)
(***************************************************************************)

\* The configuration, the clients and the suite's directory.
Setup ==
  /\ pc = "setup"
  /\ \/ pc' = "provision" /\ UNCHANGED status
     \/ "setup" \in Faults /\ End("failed")
  /\ UNCHANGED <<options, op, operationRuns, service, files, cleanup>>

\* The buckets of the run at hand that exist.
Made == live \intersect BucketsOf(op)

\* The next bucket of the run, if any is left to make.
NextBucket == {<<op, b>> : b \in {c \in 1 .. Buckets : Made = {op} \X (1 .. c - 1)}}

\* ProvisionRun makes one more bucket, or writes manifest.json and returns.
Provision ==
  /\ pc = "provision"
  /\ \/ \E bucket \in NextBucket :
          /\ live' = live \union {bucket}
          /\ UNCHANGED <<pc, files>>
     \/ /\ NextBucket = {}
        /\ files' = [files EXCEPT ![<<op, "manifest">>] = "complete"]
        /\ pc' = "bench"
        /\ UNCHANGED live
  /\ UNCHANGED <<options, suite, stuck, cleanup>>

\* Mutant of UndoProvision: the loop goes on with the next operation.
UndoProvisionOnward ==
  /\ op' = op + 1
  /\ pc' = IF op < Runs THEN "provision" ELSE "suiteFile"
  /\ UNCHANGED <<status, todo>>

\* ProvisionRun removes what it has recorded, --keep-buckets or not: the first two
\* buckets, made or not, and the forks whose creation it has seen succeed.
UndoProvision ==
  /\ pc' = "undo"
  /\ \E n \in 2 .. Buckets :
       /\ Made \union {<<op, 1>>, <<op, 2>>} = {op} \X (1 .. n)
       /\ todo' = RemovalList(op, n)
  /\ UNCHANGED <<op, status>>

\* One of its calls returns an error, and may have made its bucket all the same:
\* nobody asks for a fork's removal then.  A manifest that cannot be written may
\* be there.
ProvisionFails ==
  /\ pc = "provision" /\ "provision" \in Faults
  /\ tool = "ts" \/ Made # {}
  /\ \E stray \in SUBSET NextBucket : live' = live \union stray
  /\ UndoProvision
  /\ IF NextBucket = {} THEN Spoiled(<<op, "manifest">>) ELSE UNCHANGED files
  /\ UNCHANGED <<options, operationRuns, stuck, commanding>>

\* The run's directory cannot be made, or Go's first bucket: nothing is removed.
ProvisionFailsAtOnce ==
  /\ pc = "provision" /\ "provision" \in Faults
  /\ Made = {}
  /\ \/ UNCHANGED live
     \/ tool = "go" /\ live' = live \union NextBucket
  /\ End("failed")
  /\ UNCHANGED <<options, op, operationRuns, stuck, files, cleanup>>

\* Mutant of RunFails: Go's early returns after a failed write, in TypeScript.
RunFailsUntidied(writing) ==
  IF keep \/ writing
  THEN End("failed") /\ UNCHANGED todo
  ELSE pc' = "tidyFailed" /\ todo' = RemovalList(op, Buckets) /\ UNCHANGED status

\* An error after ProvisionRun: the buckets are removed unless they are to be
\* kept, and unless it comes from a write in Go.
RunFails(writing) ==
  IF keep \/ (writing /\ tool = "go")
  THEN End("failed") /\ UNCHANGED todo
  ELSE pc' = "tidyFailed" /\ todo' = RemovalList(op, Buckets) /\ UNCHANGED status

\* RunBenchmarks.
Bench ==
  /\ pc = "bench"
  /\ \/ pc' = "results" /\ UNCHANGED <<status, todo>>
     \/ "bench" \in Faults /\ RunFails(FALSE)
  /\ UNCHANGED <<options, op, operationRuns, service, files, commanding>>

\* results.json of the run, then its summary.md.
WriteResults ==
  /\ pc = "results"
  /\ \/ /\ files' = [files EXCEPT ![<<op, "results">>] = "complete"]
        /\ pc' = "summary"
        /\ UNCHANGED <<status, todo>>
     \/ "write" \in Faults /\ Spoiled(<<op, "results">>) /\ RunFails(TRUE)
  /\ UNCHANGED <<options, op, operationRuns, service, commanding>>

\* Mutant of NextOperation: the loop ends one operation early.
NextOperationEarly == pc' = IF op + 1 < Runs THEN "provision" ELSE "suiteFile"

NextOperation == pc' = IF op < Runs THEN "provision" ELSE "suiteFile"

\* Mutant of WriteSummary: the buckets are kept whatever --keep-buckets says.
WriteSummaryKeeping ==
  /\ pc = "summary"
  /\ files' = [files EXCEPT ![<<op, "summary">>] = "complete"]
  /\ operationRuns' = op
  /\ op' = op + 1 /\ NextOperation
  /\ UNCHANGED <<options, status, service, cleanup>>

\* With its summary written, the run is recorded and its buckets are removed.
WriteSummary ==
  /\ pc = "summary"
  /\ \/ /\ files' = [files EXCEPT ![<<op, "summary">>] = "complete"]
        /\ operationRuns' = op
        /\ \/ keep /\ op' = op + 1 /\ NextOperation /\ UNCHANGED todo
           \/ ~keep /\ pc' = "tidy" /\ todo' = RemovalList(op, Buckets) /\ UNCHANGED op
        /\ UNCHANGED status
     \/ /\ "write" \in Faults
        /\ Spoiled(<<op, "summary">>) /\ RunFails(TRUE)
        /\ UNCHANGED <<op, operationRuns>>
  /\ UNCHANGED <<options, service, commanding>>

\* suite.json, results.json and summary.md of the suite.
SuiteFiles == <<"suite", "results", "summary">>

WriteSuiteFile ==
  /\ pc = "suiteFile"
  /\ \E n \in 1 .. 3 :
       LET file == <<SuiteDir, SuiteFiles[n]>>
       IN  /\ \A m \in 1 .. 3 : m < n <=> files[<<SuiteDir, SuiteFiles[m]>>] = "complete"
           /\ \/ /\ files' = [files EXCEPT ![file] = "complete"]
                 /\ IF n = 3 THEN End("ok") ELSE UNCHANGED <<pc, status>>
              \/ "write" \in Faults /\ Spoiled(file) /\ End("failed")
  /\ UNCHANGED <<options, op, operationRuns, service, cleanup>>

\* The file being written, if any.
OpenFiles ==
  CASE pc = "provision" /\ NextBucket = {} -> {<<op, "manifest">>}
    [] pc \in {"results", "summary"} -> {<<op, pc>>}
    [] pc = "suiteFile" -> {<<SuiteDir, name>> : name \in {"suite", "results", "summary"}}
    [] OTHER -> {}

\* The process is killed, or Go's panics in RunBenchmarks; no signal is handled
\* and no panic recovered from, nothing is cleaned up.
Killed ==
  /\ status = "running" /\ "kill" \in Faults
  /\ End("killed")
  /\ \/ UNCHANGED files
     \/ \E file \in OpenFiles :
          files[file] = "absent" /\ files' = [files EXCEPT ![file] = "partial"]
  /\ UNCHANGED <<options, op, operationRuns, service, cleanup>>
-----------------------------------------------------------------------------
(***************************************************************************)
(* CleanupRun, in the loop, after an error and in the cleanup command      *)
(***************************************************************************)

Removing == pc \in {"undo", "tidy", "tidyFailed", "removing"}

\* CleanupRun has returned an error, which only Go's does: the loop and the
\* command return it too; after an error of ProvisionRun or RunBenchmarks it is
\* dropped for that one.
CleanupFails ==
  \/ pc \in {"undo", "tidy", "tidyFailed"} /\ End("failed") /\ UNCHANGED command
  \/ pc = "removing" /\ pc' = "ended" /\ command' = "failed" /\ UNCHANGED status

\* A bucket is no more, and so is no longer one that was refused.
Goes(bucket) ==
  /\ bucket \in live /\ here
  /\ live' = live \ {bucket} /\ stuck' = stuck \ {bucket}

\* A removal has returned an error, though the bucket may have gone.
Refused(bucket) ==
  /\ \/ stuck' = stuck \union ({bucket} \intersect live) /\ UNCHANGED live
     \/ "remove" \in Faults /\ Goes(bucket)
  /\ \/ tool = "ts" /\ todo' = Tail(todo) /\ UNCHANGED <<pc, status, command>>
     \/ tool = "go" /\ todo' = <<>> /\ CleanupFails

\* One RemoveBucket: the bucket goes, or the call is refused, as it is when the
\* service that is asked has no such bucket, no longer or not at all.
RemoveOne ==
  /\ Removing /\ todo # <<>>
  /\ LET bucket == Head(todo)
     IN  \/ /\ Goes(bucket)
            /\ todo' = Tail(todo)
            /\ UNCHANGED <<pc, status, command>>
         \/ /\ bucket \notin live \/ ~here \/ "remove" \in Faults
            /\ Refused(bucket)
  /\ UNCHANGED <<options, op, operationRuns, files, queue, here, commands>>

\* Mutant of CleanupReturns: the loop comes back to the operation it was at.
CleanupReturnsToSame ==
  /\ Removing /\ todo = <<>>
  /\ \/ pc = "tidy" /\ pc' = "provision" /\ UNCHANGED <<op, status, queue>>
     \/ pc \in {"undo", "tidyFailed"} /\ End("failed") /\ UNCHANGED <<op, queue>>
     \/ /\ pc = "removing"
        /\ pc' = "command" /\ queue' = Tail(queue)
        /\ UNCHANGED <<status, op>>
  /\ UNCHANGED <<options, operationRuns, service, files, todo, here, command, commands>>

\* CleanupRun returns: to the next operation, to the error, or to the command.
CleanupReturns ==
  /\ Removing /\ todo = <<>>
  /\ \/ pc = "tidy" /\ op' = op + 1 /\ NextOperation /\ UNCHANGED <<status, queue>>
     \/ pc \in {"undo", "tidyFailed"} /\ End("failed") /\ UNCHANGED <<op, queue>>
     \/ /\ pc = "removing"
        /\ pc' = "command" /\ queue' = Tail(queue)
        /\ UNCHANGED <<status, op>>
  /\ UNCHANGED <<options, operationRuns, service, files, todo, here, command, commands>>
-----------------------------------------------------------------------------
(***************************************************************************)
(* The cleanup command                                                     *)
(***************************************************************************)

\* Go reads suite.json and takes the runs it records, and the endpoint of the
\* environment; TypeScript takes the one manifest it is given the path of, and
\* --endpoint if the user gives it again.
StartCommand ==
  /\ pc = "ended" /\ commands < MaxCommands
  /\ commands' = commands + 1
  /\ \/ /\ tool = "go" /\ files[<<SuiteDir, "suite">>] = "complete"
        /\ queue' = [r \in 1 .. operationRuns |-> r]
        /\ here' = ~override
        /\ pc' = "command" /\ command' = "running"
     \/ /\ tool = "ts"
        /\ \E r \in 1 .. Runs : queue' = <<r>>
        /\ here' \in {TRUE, ~override}
        /\ pc' = "command" /\ command' = "running"
     \/ /\ "read" \in Faults \/ (tool = "go" /\ files[<<SuiteDir, "suite">>] # "complete")
        /\ command' = "failed"
        /\ UNCHANGED <<pc, queue, here>>
  /\ UNCHANGED <<options, suite, service, files, todo>>

\* Mutant of ReadManifest: a manifest that cannot be read is skipped.
ReadManifestLeniently ==
  /\ pc = "command" /\ queue # <<>>
  /\ \/ /\ files[<<Head(queue), "manifest">>] = "complete"
        /\ todo' = RemovalList(Head(queue), Buckets) /\ pc' = "removing"
        /\ UNCHANGED <<command, queue>>
     \/ /\ queue' = Tail(queue)
        /\ UNCHANGED <<todo, pc, command>>
  /\ UNCHANGED <<options, suite, service, files, here, commands>>

\* The manifest of the next run, without which the command gives up.
ReadManifest ==
  /\ pc = "command" /\ queue # <<>>
  /\ \/ /\ files[<<Head(queue), "manifest">>] = "complete"
        /\ todo' = RemovalList(Head(queue), Buckets) /\ pc' = "removing"
        /\ UNCHANGED command
     \/ /\ "read" \in Faults \/ files[<<Head(queue), "manifest">>] # "complete"
        /\ pc' = "ended" /\ command' = "failed"
        /\ UNCHANGED todo
  /\ UNCHANGED <<options, suite, service, files, queue, here, commands>>

CommandDone ==
  /\ pc = "command" /\ queue = <<>>
  /\ pc' = "ended" /\ command' = "ok"
  /\ UNCHANGED <<options, suite, service, files, todo, queue, here, commands>>

\* The cleanup command is killed.
CommandKilled ==
  /\ pc \in {"command", "removing"} /\ "kill" \in Faults
  /\ pc' = "ended" /\ command' = "failed" /\ todo' = <<>>
  /\ UNCHANGED <<options, suite, service, files, queue, here, commands>>

Terminated == pc = "ended" /\ commands = MaxCommands /\ UNCHANGED vars

\* What the two commands do by themselves.
Work ==
  \/ Setup \/ Provision \/ ProvisionFails \/ ProvisionFailsAtOnce
  \/ Bench \/ WriteResults \/ WriteSummary \/ WriteSuiteFile
  \/ RemoveOne \/ CleanupReturns
  \/ ReadManifest \/ CommandDone

Next == Work \/ Killed \/ StartCommand \/ CommandKilled \/ Terminated

Spec == Init /\ [][Next]_vars

\* A command is one sequence of calls, and each of them returns in the end.
FairSpec == Spec /\ WF_vars(Work)
-----------------------------------------------------------------------------
(***************************************************************************)
(* Properties                                                              *)
(***************************************************************************)

\* Without --keep-buckets an operation is measured with no buckets of an
\* earlier one about, and a suite that ends well leaves none: they have gone, or,
\* in TypeScript, their removal was refused and the refusal only warned about
\* (main.go 88-92, cli.ts 56-57).
OneRunAtATime ==
  status \in {"running", "ok"} /\ ~keep =>
    \A bucket \in live : bucket[1] = op \/ (tool = "ts" /\ bucket \in stuck)

\* suite.json points at complete files only, and at every run of the suite: all
\* that was kept can be found from it, however the process ends after it (108).
SuiteFileIsComplete ==
  files[<<SuiteDir, "suite">>] = "complete" =>
    /\ operationRuns = Runs
    /\ \A r \in 1 .. Runs, name \in {"manifest", "results", "summary"} :
         files[<<r, name>>] = "complete"

\* However the suite ends, the buckets that no complete manifest names are those
\* of one run at most, the one it was provisioning when it ended.
UnnamedBucketsOfOneRun ==
  \A bucket \in live :
    files[<<bucket[1], "manifest">>] # "complete" =>
      bucket[1] = op /\ files[<<op, "results">>] = "absent"

\* A cleanup command removes what it is given: when it is through with a run
\* nothing of it is left, but for refused removals in TypeScript, and in Go it
\* succeeds only when no bucket of the suite is left (main.go 159-174), so never
\* against a service that does not have them, as when --endpoint is dropped.
CommandRemovesRuns ==
  /\ pc = "removing" /\ todo = <<>> =>
       live \intersect BucketsOf(Head(queue)) \subseteq IF tool = "ts" THEN stuck ELSE {}
  /\ tool = "go" /\ command = "ok" => live = {}

\* "deletes the buckets unless you opt out" (README.md): a suite that ends with
\* an error leaves no bucket but those whose removal was refused.
FailureIsTidy == status = "failed" /\ ~keep => live \subseteq stuck

\* At most one bucket, a fork of the run at hand that no manifest names.
OneLostFork(buckets) ==
  \A b, c \in buckets :
    b = c /\ b[1] = op /\ b[2] > 2 /\ files[<<op, "manifest">>] = "absent"

\* In TypeScript that is nearly so: the catch of cli.ts 62-66 covers the writes
\* too, and what is left without a refusal is one fork at most, which the last
\* provisionRun made and had not recorded when it failed (provision.ts 91-98).
TsFailureIsTidy ==
  tool = "ts" /\ status = "failed" /\ ~keep => OneLostFork(live \ stuck)

\* A suite comes to an end, and so does every cleanup command: there is no loop
\* over operations, buckets or manifests that does not advance.
Ends == <>(pc = "ended") /\ (pc = "command" ~> pc = "ended")

\* "Each run creates" manifest.json, results.json and summary.md in
\* artifacts/<run-id> (README.md), where the suite's own files are.
DocumentedOutput ==
  status = "ok" =>
    \A name \in {"manifest", "results", "summary"} : files[<<SuiteDir, name>>] = "complete"
=============================================================================

------------------------------ MODULE GoWorkers ------------------------------
(***************************************************************************)
(* runWorkers of gobench/benchmark.go: the goroutine pool that drives every *)
(* warm-up and every measured operation of the Go tool.                    *)
(*                                                                         *)
(* The caller spawns the goroutines one by one and waits on a WaitGroup; a *)
(* goroutine claims the next index under nextMu, executes the item, and    *)
(* either records a duration and loops, or reports its error under errMu   *)
(* and ends.  An error does not stop the other goroutines.                 *)
(***************************************************************************)
EXTENDS Integers, FiniteSets

CONSTANTS
  N,              \* len(items)
  Concurrency     \* the concurrency argument

ASSUME SizeAssumption == N \in Nat /\ Concurrency \in Nat \ {0}

VARIABLES
  next,           \* next: the shared claim counter
  nextMu,         \* the goroutine that holds nextMu, NoWorker when it is free
  errMu,          \* the goroutine that holds errMu, NoWorker when it is free
  pc,             \* pc[w]: where goroutine w is
  index,          \* index[w]: the index goroutine w has claimed
  durations,      \* the indexes whose slot of durations has been written
  firstErr,       \* the item whose error firstErr holds, NoItem for nil
  spawned,        \* workerIndex: how many goroutines the loop has spawned
  wg,             \* the WaitGroup's counter
  result          \* what the call has returned, "running" before it has

vars ==
  <<next, nextMu, errMu, pc, index, durations, firstErr, spawned, wg, result>>

Items == 0 .. N - 1
NoItem == -1
NoWorker == 0

\* min(concurrency, max(1, len(items))) goroutines, even for no items.
WorkerCount ==
  LET wanted == IF N = 0 THEN 1 ELSE N
  IN  IF Concurrency < wanted THEN Concurrency ELSE wanted

Workers == 1 .. WorkerCount

Init ==
  /\ next = 0
  /\ nextMu = NoWorker
  /\ errMu = NoWorker
  /\ pc = [w \in Workers |-> "unspawned"]
  /\ index = [w \in Workers |-> NoItem]
  /\ durations = {}
  /\ firstErr = NoItem
  /\ spawned = 0
  /\ wg = 0
  /\ result = "running"

\* Mutant of Spawn: wg.Add(1) is left to the goroutine, and forgotten there.
SpawnWithoutAdd(w) ==
  /\ w = spawned + 1
  /\ spawned' = w
  /\ pc' = [pc EXCEPT ![w] = "claim"]
  /\ UNCHANGED <<next, nextMu, errMu, index, durations, firstErr, wg, result>>

\* The caller: wg.Add(1), then go func().
Spawn(w) ==
  /\ w = spawned + 1
  /\ spawned' = w
  /\ wg' = wg + 1
  /\ pc' = [pc EXCEPT ![w] = "claim"]
  /\ UNCHANGED <<next, nextMu, errMu, index, durations, firstErr, result>>

\* Mutant of LockNext: the counter is read without the lock.
ReadNextUnlocked(w) ==
  /\ pc[w] = "claim"
  /\ nextMu' = w
  /\ index' = [index EXCEPT ![w] = next]
  /\ pc' = [pc EXCEPT ![w] = "locked"]
  /\ UNCHANGED <<next, errMu, durations, firstErr, spawned, wg, result>>

\* nextMu.Lock(), then index := next.
LockNext(w) ==
  /\ pc[w] = "claim"
  /\ nextMu = NoWorker
  /\ nextMu' = w
  /\ index' = [index EXCEPT ![w] = next]
  /\ pc' = [pc EXCEPT ![w] = "locked"]
  /\ UNCHANGED <<next, errMu, durations, firstErr, spawned, wg, result>>

\* next++, then nextMu.Unlock().
UnlockNext(w) ==
  /\ pc[w] = "locked"
  /\ next' = next + 1
  /\ nextMu' = NoWorker
  /\ pc' = [pc EXCEPT ![w] = "claimed"]
  /\ UNCHANGED <<errMu, index, durations, firstErr, spawned, wg, result>>

\* index < len(items): on to execute(items[index]).
BeginItem(w) ==
  /\ pc[w] = "claimed"
  /\ index[w] < N
  /\ pc' = [pc EXCEPT ![w] = "execute"]
  /\ UNCHANGED <<next, nextMu, errMu, index, durations, firstErr, spawned, wg, result>>

\* Mutant of Drain: the goroutine returns without wg.Done().
DrainWithoutDone(w) ==
  /\ pc[w] = "claimed"
  /\ index[w] >= N
  /\ pc' = [pc EXCEPT ![w] = "done"]
  /\ UNCHANGED <<next, nextMu, errMu, index, durations, firstErr, spawned, wg, result>>

\* index >= len(items): return, through the deferred wg.Done().
Drain(w) ==
  /\ pc[w] = "claimed"
  /\ index[w] >= N
  /\ pc' = [pc EXCEPT ![w] = "done"]
  /\ wg' = wg - 1
  /\ UNCHANGED <<next, nextMu, errMu, index, durations, firstErr, spawned, result>>

\* Mutant of ExecuteOk: the goroutine takes one item instead of looping.
ExecuteOkOnce(w) ==
  /\ pc[w] = "execute"
  /\ durations' = durations \union {index[w]}
  /\ index' = [index EXCEPT ![w] = NoItem]
  /\ pc' = [pc EXCEPT ![w] = "done"]
  /\ wg' = wg - 1
  /\ UNCHANGED <<next, nextMu, errMu, firstErr, spawned, result>>

\* execute returned nil: durations[index] is written and the loop goes on.
ExecuteOk(w) ==
  /\ pc[w] = "execute"
  /\ durations' = durations \union {index[w]}
  /\ index' = [index EXCEPT ![w] = NoItem]
  /\ pc' = [pc EXCEPT ![w] = "claim"]
  /\ UNCHANGED <<next, nextMu, errMu, firstErr, spawned, wg, result>>

\* Mutant of ExecuteFails: the error is dropped and the loop goes on.
ExecuteFailsSilently(w) ==
  /\ pc[w] = "execute"
  /\ index' = [index EXCEPT ![w] = NoItem]
  /\ pc' = [pc EXCEPT ![w] = "claim"]
  /\ UNCHANGED <<next, nextMu, errMu, durations, firstErr, spawned, wg, result>>

\* execute returned an error.
ExecuteFails(w) ==
  /\ pc[w] = "execute"
  /\ pc' = [pc EXCEPT ![w] = "report"]
  /\ UNCHANGED <<next, nextMu, errMu, index, durations, firstErr, spawned, wg, result>>

\* Mutant of LockErr: firstErr is looked at before errMu is taken.
LockErrAfterCheck(w) ==
  /\ pc[w] = "report"
  /\ errMu' = w
  /\ pc' = [pc EXCEPT ![w] = IF firstErr = NoItem THEN "set" ELSE "kept"]
  /\ UNCHANGED <<next, nextMu, index, durations, firstErr, spawned, wg, result>>

\* errMu.Lock(), then firstErr is looked at: it is nil, or another error's.
LockErr(w) ==
  /\ pc[w] = "report"
  /\ errMu = NoWorker
  /\ errMu' = w
  /\ pc' = [pc EXCEPT ![w] = IF firstErr = NoItem THEN "set" ELSE "kept"]
  /\ UNCHANGED <<next, nextMu, index, durations, firstErr, spawned, wg, result>>

\* firstErr = err.
SetErr(w) ==
  /\ pc[w] = "set"
  /\ firstErr' = index[w]
  /\ pc' = [pc EXCEPT ![w] = "kept"]
  /\ UNCHANGED <<next, nextMu, errMu, index, durations, spawned, wg, result>>

\* Mutant of UnlockErr: wg.Done() is called, but the loop goes on.
UnlockErrAndLoop(w) ==
  /\ pc[w] = "kept"
  /\ errMu' = NoWorker
  /\ index' = [index EXCEPT ![w] = NoItem]
  /\ pc' = [pc EXCEPT ![w] = "claim"]
  /\ wg' = wg - 1
  /\ UNCHANGED <<next, nextMu, durations, firstErr, spawned, result>>

\* errMu.Unlock(), and the return through the deferred wg.Done().
UnlockErr(w) ==
  /\ pc[w] = "kept"
  /\ errMu' = NoWorker
  /\ pc' = [pc EXCEPT ![w] = "done"]
  /\ wg' = wg - 1
  /\ UNCHANGED <<next, nextMu, index, durations, firstErr, spawned, result>>

\* Mutant of Return: the call comes back as soon as an error is known.
ReturnAtFirstError ==
  /\ result = "running"
  /\ spawned = WorkerCount
  /\ wg = 0 \/ firstErr # NoItem
  /\ result' = IF firstErr = NoItem THEN "ok" ELSE "error"
  /\ UNCHANGED <<next, nextMu, errMu, pc, index, durations, firstErr, spawned, wg>>

\* Mutant of Return: the error is not looked at.
ReturnIgnoringError ==
  /\ result = "running"
  /\ spawned = WorkerCount
  /\ wg = 0
  /\ result' = "ok"
  /\ UNCHANGED <<next, nextMu, errMu, pc, index, durations, firstErr, spawned, wg>>

\* wg.Wait() comes back, and firstErr decides what is returned.
Return ==
  /\ result = "running"
  /\ spawned = WorkerCount
  /\ wg = 0
  /\ result' = IF firstErr = NoItem THEN "ok" ELSE "error"
  /\ UNCHANGED <<next, nextMu, errMu, pc, index, durations, firstErr, spawned, wg>>

Worker(w) ==
  \/ LockNext(w) \/ UnlockNext(w)
  \/ BeginItem(w) \/ Drain(w)
  \/ ExecuteOk(w) \/ ExecuteFails(w)
  \/ LockErr(w) \/ SetErr(w) \/ UnlockErr(w)

\* The call is over.
Terminated == result # "running" /\ UNCHANGED vars

Next ==
  \/ \E w \in Workers : Spawn(w) \/ Worker(w)
  \/ Return
  \/ Terminated

Spec == Init /\ [][Next]_vars

\* Every goroutine that can run is scheduled, and every request it sends is
\* answered in the end: the code passes context.Background() and sets no
\* deadline, so this is the SDK's promise and not runWorkers'.
FairSpec ==
  /\ Spec
  /\ \A w \in Workers : WF_vars(Spawn(w)) /\ WF_vars(Worker(w))
  /\ WF_vars(Return)
-----------------------------------------------------------------------------
(***************************************************************************)
(* Properties                                                              *)
(***************************************************************************)

\* The goroutine's pc while a claim on index[w] stands: it has been taken from
\* the counter and has no duration yet.
Holding == {"claimed", "execute", "report", "set", "kept", "done"}

Failed(w) ==
  /\ pc[w] \in {"report", "set", "kept", "done"}
  /\ index[w] \in Items

TypeOK ==
  /\ next \in Nat
  /\ nextMu \in Workers \union {NoWorker}
  /\ errMu \in Workers \union {NoWorker}
  /\ pc \in [Workers -> {"unspawned", "claim", "locked"} \union Holding]
  /\ index \in [Workers -> Nat \union {NoItem}]
  /\ durations \in SUBSET Items
  /\ firstErr \in Items \union {NoItem}
  /\ spawned \in 0 .. WorkerCount
  /\ wg \in 0 .. WorkerCount
  /\ result \in {"running", "ok", "error"}

\* No item is handed to two goroutines, at once or one after the other: an
\* overwrite or a delete is sent once (nextMu around the counter, 40-43).
ClaimedOnce ==
  \A w \in Workers : pc[w] \in Holding =>
    /\ index[w] \notin durations
    /\ \A v \in Workers \ {w} : pc[v] \in Holding => index[v] # index[w]

\* runWorkers comes back, with an error too, only when no goroutine is left:
\* the buckets may be deleted behind it (wg.Add before go, wg.Wait, 36-62).
NothingInFlight == result # "running" => \A w \in Workers : pc[w] = "done"

\* A result without an error is a full sample: no slot of durations keeps the
\* zero it was made with and counts as a 0 ms latency (26, 58, 64-67).
FullSample == result = "ok" => durations = Items

\* The call fails exactly when an item failed, with the error of an item that
\* failed and not of one that was measured (50-56, 64).
ErrorIsGenuine ==
  result # "running" =>
    /\ result = "error" <=> \E w \in Workers : Failed(w)
    /\ result = "error" => \E w \in Workers : Failed(w) /\ firstErr = index[w]

\* An error ends one goroutine only: an item is left untouched at the return
\* only when every goroutine has failed on one of its own (50-56).
SkippedOnlyWhenAllFailed ==
  result # "running" =>
    \A i \in Items : i >= next => \A w \in Workers : Failed(w)

\* The first error recorded is the one returned; a later failure of another
\* goroutine, which may wait for errMu meanwhile, does not replace it (51-55).
FirstErrorKept == [][firstErr # NoItem => firstErr' = firstErr]_firstErr

\* With every request answered, the call returns, whatever fails.
Returns == <>(result # "running")

\* The call seen from outside: what has become of item i.
statusOf(i) ==
  IF i \in durations THEN "done"
  ELSE IF \E w \in Workers : index[w] = i /\ pc[w] = "execute" THEN "running"
  ELSE IF \E w \in Workers : index[w] = i /\ Failed(w) THEN "failed"
  ELSE "todo"

PF == INSTANCE ParallelFor WITH
        Items <- Items,
        JoinsOnError <- TRUE,
        status <- [i \in Items |-> statusOf(i)],
        verdict <- result

\* The pool implements the contract of a parallel loop that joins on errors.
Contract == PF!Spec
=============================================================================

------------------------------ MODULE TsWorkers ------------------------------
(***************************************************************************)
(* runWorkers of src/benchmark.ts: the pool of async workers of the         *)
(* TypeScript tool.                                                        *)
(*                                                                         *)
(* JavaScript runs a worker from one await to the next without a break, so *)
(* a worker whose request is answered records the duration, claims the     *)
(* next index and sends the next request in one step.  The caller waits    *)
(* with Promise.all, which settles with the first rejection: the other     *)
(* workers are not told, and go on with the items that are left.           *)
(***************************************************************************)
EXTENDS Integers

CONSTANTS
  N,              \* items.length
  Concurrency     \* the concurrency argument

ASSUME SizeAssumption == N \in Nat /\ Concurrency \in Nat \ {0}

VARIABLES
  cursor,         \* cursor: the shared claim counter
  pc,             \* pc[w]: where worker w is
  index,          \* index[w]: the index worker w has claimed last
  durations,      \* the indexes whose slot of durationsMs has been written
  reason,         \* the item whose rejection Promise.all saw first, or NoItem
  result          \* how the call has settled, "running" before it has

vars == <<cursor, pc, index, durations, reason, result>>

Items == 0 .. N - 1
NoItem == -1

\* Math.min(concurrency, items.length || 1)
WorkerCount ==
  LET wanted == IF N = 0 THEN 1 ELSE N
  IN  IF Concurrency < wanted THEN Concurrency ELSE wanted

Workers == 1 .. WorkerCount

Init ==
  /\ cursor = 0
  /\ pc = [w \in Workers |-> "unspawned"]
  /\ index = [w \in Workers |-> NoItem]
  /\ durations = {}
  /\ reason = NoItem
  /\ result = "running"

\* Array.from calls worker() WorkerCount times; each runs up to its first await.
Start ==
  /\ \A w \in Workers : pc[w] = "unspawned"
  /\ cursor' = WorkerCount
  /\ index' = [w \in Workers |-> w - 1]
  /\ pc' = [w \in Workers |-> IF w - 1 < N THEN "await" ELSE "done"]
  /\ UNCHANGED <<durations, reason, result>>

\* Mutant of Resume: the cursor is read before the await and written after it.
ResumeStaleCursor(w) ==
  /\ pc[w] = "await"
  /\ durations' = durations \union {index[w]}
  /\ index' = [index EXCEPT ![w] = @ + WorkerCount - 1]
  /\ cursor' = index'[w] + 1
  /\ pc' = [pc EXCEPT ![w] = IF index'[w] < N THEN "await" ELSE "done"]
  /\ UNCHANGED <<reason, result>>

\* Mutant of Resume: the end of the items is found one index too late.
ResumePastEnd(w) ==
  /\ pc[w] = "await"
  /\ durations' = durations \union {index[w]}
  /\ index' = [index EXCEPT ![w] = cursor]
  /\ cursor' = cursor + 1
  /\ pc' = [pc EXCEPT ![w] = IF cursor <= N THEN "await" ELSE "done"]
  /\ UNCHANGED <<reason, result>>

\* Mutant of Resume: the worker ends after its item.
ResumeOnce(w) ==
  /\ pc[w] = "await"
  /\ durations' = durations \union {index[w]}
  /\ pc' = [pc EXCEPT ![w] = "done"]
  /\ UNCHANGED <<cursor, index, reason, result>>

\* fn(item) is fulfilled: the duration is recorded and the next index claimed;
\* past the end the worker returns, otherwise it awaits its next item.
Resume(w) ==
  /\ pc[w] = "await"
  /\ durations' = durations \union {index[w]}
  /\ index' = [index EXCEPT ![w] = cursor]
  /\ cursor' = cursor + 1
  /\ pc' = [pc EXCEPT ![w] = IF cursor < N THEN "await" ELSE "done"]
  /\ UNCHANGED <<reason, result>>

\* Mutant of Reject: the rejected promise is not among those awaited.
RejectUnseen(w) ==
  /\ pc[w] = "await"
  /\ pc' = [pc EXCEPT ![w] = "rejected"]
  /\ UNCHANGED <<cursor, index, durations, reason, result>>

\* Mutant of Reject: the rejection is caught inside the worker, which ends.
RejectCaught(w) ==
  /\ pc[w] = "await"
  /\ pc' = [pc EXCEPT ![w] = "done"]
  /\ UNCHANGED <<cursor, index, durations, reason, result>>

\* fn(item) is rejected: so is the worker's promise, and Promise.all keeps the
\* first rejection it sees.
Reject(w) ==
  /\ pc[w] = "await"
  /\ pc' = [pc EXCEPT ![w] = "rejected"]
  /\ reason' = IF reason = NoItem THEN index[w] ELSE reason
  /\ UNCHANGED <<cursor, index, durations, result>>

\* Every worker's promise is fulfilled: the call resolves.
SettleOk ==
  /\ result = "running"
  /\ \A w \in Workers : pc[w] = "done"
  /\ result' = "ok"
  /\ UNCHANGED <<cursor, pc, index, durations, reason>>

\* Some worker's promise is rejected: the call rejects, the others run on.
SettleError ==
  /\ result = "running"
  /\ reason # NoItem
  /\ result' = "error"
  /\ UNCHANGED <<cursor, pc, index, durations, reason>>

Worker(w) == Resume(w) \/ Reject(w)

\* No worker is waiting for an answer any more.
Quiet == \A w \in Workers : pc[w] \in {"done", "rejected"}

\* The call has settled and its last worker has ended.
Terminated == result # "running" /\ Quiet /\ UNCHANGED vars

Next ==
  \/ Start
  \/ \E w \in Workers : Worker(w)
  \/ SettleOk
  \/ SettleError
  \/ Terminated

Spec == Init /\ [][Next]_vars

\* The event loop runs every continuation, and every request is answered: the
\* process stays alive for its pending requests after main() has rejected,
\* since cli.ts only sets process.exitCode.
FairSpec ==
  /\ Spec
  /\ WF_vars(Start)
  /\ \A w \in Workers : WF_vars(Worker(w))
  /\ WF_vars(SettleOk \/ SettleError)
-----------------------------------------------------------------------------
(***************************************************************************)
(* Properties                                                              *)
(***************************************************************************)

Failed(w) == pc[w] = "rejected"

TypeOK ==
  /\ cursor \in Nat
  /\ pc \in [Workers -> {"unspawned", "await", "done", "rejected"}]
  /\ index \in [Workers -> Nat \union {NoItem}]
  /\ durations \in SUBSET Items
  /\ reason \in Items \union {NoItem}
  /\ result \in {"running", "ok", "error"}

\* A resolved call has a full sample and nothing in flight; only a rejected one
\* leaves workers behind it (37, 41).
ResolvedMeansDone == result = "ok" => durations = Items /\ Quiet

\* The orphans of a rejected call perform everything that is left: an item is
\* never sent only when every worker has been rejected itself (26-39).
OrphansFinishTheItems ==
  Quiet => \A i \in Items : i >= cursor => \A w \in Workers : Failed(w)

\* The call settles, and after that the orphans come to an end as well.
SettlesAndQuietens == <>(result # "running") /\ <>[]Quiet

\* The call seen from outside: what has become of item i.
statusOf(i) ==
  IF i \in durations THEN "done"
  ELSE IF \E w \in Workers : index[w] = i /\ pc[w] = "await" THEN "running"
  ELSE IF \E w \in Workers : index[w] = i /\ Failed(w) THEN "failed"
  ELSE "todo"

PF == INSTANCE ParallelFor WITH
        Items <- Items,
        JoinsOnError <- FALSE,
        status <- [i \in Items |-> statusOf(i)],
        verdict <- result

\* The pool implements the contract of a parallel loop that does not join: it
\* promises nothing about the other items once one of them has failed.
Contract == PF!Spec
=============================================================================

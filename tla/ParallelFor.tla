----------------------------- MODULE ParallelFor -----------------------------
(***************************************************************************)
(* What a caller of runWorkers may rely on: every item is started at most  *)
(* once, ends done or failed, and the call returns "ok" only when all the  *)
(* items are done and "error" only when one of them failed.                *)
(*                                                                         *)
(* JoinsOnError says what an error means for the other items.  With TRUE   *)
(* the call comes back when nothing is running any more and nothing starts *)
(* afterwards (the Go pool, which waits for its goroutines).  With FALSE   *)
(* the call comes back at the first failure and the items still running,   *)
(* and those not yet started, go on behind the caller's back (the          *)
(* TypeScript pool, which waits with Promise.all).                         *)
(***************************************************************************)
CONSTANTS
  Items,          \* the items of one runWorkers call
  JoinsOnError    \* TRUE when an error is returned only once all is quiet

VARIABLES
  status,         \* status[i]: how far item i is
  verdict         \* what the call has returned, "running" before it has

vars == <<status, verdict>>

Init ==
  /\ status = [i \in Items |-> "todo"]
  /\ verdict = "running"

\* An item may start after the call has returned only where errors do not join.
Start(i) ==
  /\ status[i] = "todo"
  /\ verdict = "running" \/ (verdict = "error" /\ ~JoinsOnError)
  /\ status' = [status EXCEPT ![i] = "running"]
  /\ UNCHANGED verdict

\* An item may end after the call has returned only where errors do not join.
End(i) ==
  /\ status[i] = "running"
  /\ verdict = "running" \/ (verdict = "error" /\ ~JoinsOnError)
  /\ \E r \in {"done", "failed"} : status' = [status EXCEPT ![i] = r]
  /\ UNCHANGED verdict

ReturnOk ==
  /\ verdict = "running"
  /\ \A i \in Items : status[i] = "done"
  /\ verdict' = "ok"
  /\ UNCHANGED status

ReturnError ==
  /\ verdict = "running"
  /\ \E i \in Items : status[i] = "failed"
  /\ JoinsOnError => \A i \in Items : status[i] # "running"
  /\ verdict' = "error"
  /\ UNCHANGED status

\* One worker that ends its item takes the next one in the same step where its
\* code runs from one await to the next without giving up the thread.
EndAndStart(i, j) ==
  /\ i # j /\ status[i] = "running" /\ status[j] = "todo"
  /\ verdict = "running" \/ (verdict = "error" /\ ~JoinsOnError)
  /\ status' = [status EXCEPT ![i] = "done", ![j] = "running"]
  /\ UNCHANGED verdict

\* Several workers start at once where spawning them is one synchronous run.
StartMany ==
  /\ verdict = "running"
  /\ \A i \in Items : status[i] = "todo"
  /\ \E S \in SUBSET Items :
       status' = [i \in Items |-> IF i \in S THEN "running" ELSE "todo"]
  /\ UNCHANGED verdict

Next ==
  \/ \E i \in Items : Start(i) \/ End(i)
  \/ \E i, j \in Items : EndAndStart(i, j)
  \/ StartMany
  \/ ReturnOk
  \/ ReturnError

Spec == Init /\ [][Next]_vars
=============================================================================

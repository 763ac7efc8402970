----------------------------- MODULE IsolatedRun -----------------------------
(***************************************************************************)
(* What ProvisionRun and CleanupRun promise the command that calls them,   *)
(* as a bucket count and nothing else: buckets appear one by one; a run is *)
(* ready when all of them exist and a manifest names them; a run that      *)
(* fails takes down what it has made, but for one bucket at most; a run    *)
(* whose removal meets no refusal leaves nothing.                          *)
(***************************************************************************)
EXTENDS Integers

CONSTANT
  LastBucket      \* the buckets of a run are 0 .. LastBucket

VARIABLES
  phase,          \* how far the run has come
  live,           \* the buckets that exist
  named,          \* TRUE when a manifest with all of them is on disk
  refused         \* TRUE when the removal of a bucket has returned an error

vars == <<phase, live, named, refused>>

Bucket == 0 .. LastBucket

Init ==
  /\ phase = "provisioning"
  /\ live = {} /\ ~named /\ ~refused

\* The bucket after those there are is made.
Makes == \E b \in Bucket : live = 0 .. b - 1 /\ live' = 0 .. b

Make ==
  /\ phase = "provisioning"
  /\ Makes
  /\ UNCHANGED <<phase, named, refused>>

Finish ==
  /\ phase = "provisioning" /\ live = Bucket
  /\ phase' = "ready" /\ named' = TRUE
  /\ UNCHANGED <<live, refused>>

\* The call that fails may have made its bucket, or written the manifest.  Only
\* a run that has nothing else to undo fails at once.
Fail ==
  /\ phase = "provisioning"
  /\ \/ phase' = "undoing"
     \/ phase' = "failed" /\ live = {}
  /\ \/ (UNCHANGED live \/ Makes) /\ UNCHANGED named
     \/ live = Bucket /\ named' = TRUE /\ UNCHANGED live
  /\ UNCHANGED refused

Decide ==
  /\ phase = "ready"
  /\ phase' \in {"kept", "removing"}
  /\ UNCHANGED <<live, named, refused>>

Remove ==
  /\ phase \in {"undoing", "removing"}
  /\ \E b \in live : live' = live \ {b}
  /\ UNCHANGED <<phase, named, refused>>

Outcome == IF phase = "undoing" THEN "failed" ELSE "removed"

\* A removal returns an error, with the bucket gone or not; it may be the last.
Refuse ==
  /\ phase \in {"undoing", "removing"}
  /\ refused' = TRUE
  /\ UNCHANGED live \/ \E b \in live : live' = live \ {b}
  /\ phase' \in {phase, Outcome}
  /\ UNCHANGED named

\* Without a refusal all the buckets of a ready run are gone, and all but one of
\* a run that failed.
Removed ==
  /\ phase \in {"undoing", "removing"}
  /\ \/ refused
     \/ live = {}
     \/ phase = "undoing" /\ \E b \in Bucket : live = {b}
  /\ phase' = Outcome
  /\ UNCHANGED <<live, named, refused>>

Next == Make \/ Finish \/ Fail \/ Decide \/ Remove \/ Refuse \/ Removed

Spec == Init /\ [][Next]_vars
=============================================================================

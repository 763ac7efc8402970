----------------------------- MODULE TsProvision -----------------------------
(***************************************************************************)
(* provisionRun and cleanupRun of src/provision.ts.  The calls and their   *)
(* order are those of Provision; the code differs in where errors go: one  *)
(* try block holds every call, the first create included, one catch block  *)
(* cleans up after all of them, and cleanup passes over its own errors.    *)
(***************************************************************************)
EXTENDS Provision, CleanupOrder

ASSUME TypeScriptAssumption ==
  /\ TidyFirstCreate
  /\ ~StopAtRemoveError
  /\ \A n \in 2 .. MaxForkDepth + 2 :
       SortedPositions[n] = StableOrder(DepthsOf(n))

\* The body of the try block up to the fork loop.
TsCreateAndSeed == CreateNormal \/ CreateRoot \/ SeedPut \/ NextShared

\* for (let depth = 1; ...): createForkBucketOrThrow is its two requests.
TsForkLoop == TakeSnapshot \/ CreateFork \/ ForkFallback

\* The local fixtures and the manifest, whose error is caught like any other.
TsFinish == NextLocal \/ WriteManifest

\* Mutant of TsCleanupRun: the loop has no try block of its own.
TsCleanupUncaught ==
  \/ RemoveNext
  \/ /\ pc = "cleanup" /\ refused # {}
     /\ pc' = "aborted"
     /\ UNCHANGED <<store, run, seeding, manifest, cleaning, err>>
  \/ CleanupDone

\* cleanupRun: the error of a removal is a warning, and the loop goes on.
TsCleanupRun == RemoveNext \/ CleanupDone

TsNext ==
  \/ TsCreateAndSeed \/ TsForkLoop \/ TsFinish
  \/ KeepBuckets \/ StartCleanup
  \/ TsCleanupRun
  \/ Terminated

TsSpec == Init /\ [][TsNext]_vars /\ WF_vars(Step)
=============================================================================

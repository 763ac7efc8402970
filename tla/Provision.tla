------------------------------ MODULE Provision ------------------------------
(***************************************************************************)
(* ProvisionRun and CleanupRun of gobench/provision.go against the service:*)
(* one run creates a plain bucket and a snapshot-enabled root, seeds both, *)
(* builds a chain of forks by snapshotting the last bucket and forking it, *)
(* seeds every bucket with fixtures of its own and writes manifest.json.   *)
(* Any error after the first call removes what has been recorded so far.   *)
(* Making the run's directory, before all that, is left to Suite.          *)
(*                                                                         *)
(* The buckets of a run are numbered in the order they are made: 0 is the  *)
(* plain one, 1 the root, and d + 1 the fork of depth d.                   *)
(*                                                                         *)
(* src/provision.ts runs the same steps and differs in the three constants *)
(* TidyFirstCreate, StopAtRemoveError and RemovalOrder; TsProvision sets   *)
(* them.                                                                   *)
(***************************************************************************)
EXTENDS ObjectStore, FiniteSets

CONSTANTS
  MaxForkDepth,       \* options.MaxForkDepth
  SeedSets,           \* the shared, overwrite, delete and list keys, in order
  LocalKeys,          \* the local read keys, before the scenario's name is put in
  Unreliable,         \* the calls that may fail for reasons of their own
  LostReplies,        \* TRUE when such a call may have taken effect all the same
  TidyFirstCreate,    \* TRUE when a failed first create is cleaned up after
  StopAtRemoveError,  \* TRUE when cleanup gives up at the first error
  RemovalOrder(_)     \* the positions of a list of depths, as cleanup sorts it

Calls == {"createBucket", "createSnapshot", "createForkSnapshotEnabled",
          "createFork", "put", "writeManifest", "removeBucket"}

\* The depths of the scenarios of a run that has recorded n of them.
DepthsOf(n) == [i \in 1 .. n |-> IF i <= 2 THEN 0 ELSE i - 2]

\* CleanupRun's sort of each list of scenarios that a run can have recorded.
SortedPositions == [n \in 2 .. MaxForkDepth + 2 |-> RemovalOrder(DepthsOf(n))]

ASSUME RunAssumption ==
  /\ MaxForkDepth \in Nat
  /\ DOMAIN SeedSets = 1 .. 4
  /\ Unreliable \subseteq Calls
  /\ LostReplies \in BOOLEAN /\ PinsParents \in BOOLEAN
  /\ TidyFirstCreate \in BOOLEAN /\ StopAtRemoveError \in BOOLEAN

\* What cleanup needs of its sort, on the lists it can meet: a permutation, and
\* deeper scenarios first.
ASSUME OrderAssumption ==
  \A n \in 2 .. MaxForkDepth + 2 :
    /\ SortedPositions[n] \in [1 .. n -> 1 .. n]
    /\ \A p \in 1 .. n : \E i \in 1 .. n : SortedPositions[n][i] = p
    /\ \A i, j \in 1 .. n : i < j =>
         /\ SortedPositions[n][i] # SortedPositions[n][j]
         /\ DepthsOf(n)[SortedPositions[n][i]] >= DepthsOf(n)[SortedPositions[n][j]]

VARIABLES
  pc,               \* where the run is
  scenarios,        \* scenarios: the buckets recorded, in order
  depth,            \* depth: the fork being made
  parentScenario,   \* parentScenario.Bucket: the bucket the next fork comes from
  snapshotVersion,  \* snapshotVersion: what CreateSnapshot returned last
  keySet,           \* keySet: the index in SeedSets being seeded
  target,           \* the bucket seedKeys is writing to
  pending,          \* the keys it has not written yet
  manifest,         \* the scenarios in manifest.json, <<>> before it is written
  asked,            \* how many removals cleanup has asked for
  refused,          \* the buckets whose removal returned an error
  err               \* what ProvisionRun returns for an error, "nil" for none

run == <<scenarios, depth, parentScenario, snapshotVersion>>
seeding == <<keySet, target, pending>>
cleaning == <<asked, refused>>
vars == <<store, pc, run, seeding, manifest, cleaning, err>>

NoVersion == 0
Normal == 0
Root == 1
Bucket == Normal .. MaxForkDepth + 1

\* A key names the scenario it is local to; a shared key names none.
SharedKeys(i) == {<<NoBucket, k>> : k \in SeedSets[i]}
AllShared == UNION {SharedKeys(i) : i \in 1 .. 4}

\* scenarioLocalKey over the local read keys.
LocalKeysOf(b) == {<<b, k>> : k \in LocalKeys}

Scenario(b, enabled, source, version) ==
  [bucket |-> b, forkDepth |-> IF b = Normal THEN 0 ELSE b - 1,
   snapshotEnabled |-> enabled, parentBucket |-> source,
   parentSnapshotVersion |-> version]

Init ==
  /\ StoreInit(Bucket)
  /\ pc = "createNormal"
  /\ scenarios = <<Scenario(Normal, FALSE, NoBucket, NoVersion),
                   Scenario(Root, TRUE, NoBucket, NoVersion)>>
  /\ depth = 0
  /\ parentScenario = Root
  /\ snapshotVersion = NoVersion
  /\ keySet = 1 /\ target = Normal /\ pending = {}
  /\ manifest = <<>>
  /\ asked = 0 /\ refused = {}
  /\ err = "nil"

\* A call returns an error: the service does not accept it, or the call fails
\* on the way there, or on the way back after it has taken effect.
CallFails(call, accepted, effect) ==
  \/ ~accepted /\ UNCHANGED store
  \/ call \in Unreliable /\ UNCHANGED store
  \/ call \in Unreliable /\ LostReplies /\ accepted /\ effect

\* Mutant of GiveUp: the error is returned without CleanupRun.
GiveUpUntidied == pc' = "aborted" /\ err' = "error"

\* _ = CleanupRun(ctx, clients, cleanupManifest()), then return the error.
GiveUp == pc' = "cleanup" /\ err' = "error"
-----------------------------------------------------------------------------
(***************************************************************************)
(* The two first buckets and their shared fixtures                         *)
(***************************************************************************)

\* Nothing is cleaned up after a failed first create unless TidyFirstCreate.
CreateNormal ==
  /\ pc = "createNormal"
  /\ \/ /\ CanCreateBucket(Normal) /\ DoCreateBucket(Normal, FALSE)
        /\ pc' = "createRoot"
        /\ UNCHANGED err
     \/ /\ CallFails("createBucket", CanCreateBucket(Normal), DoCreateBucket(Normal, FALSE))
        /\ pc' = IF TidyFirstCreate THEN "cleanup" ELSE "aborted"
        /\ err' = "error"
  /\ UNCHANGED <<run, seeding, manifest, cleaning>>

\* Mutant of CreateRoot: the root gets its local fixtures before it is forked.
CreateRootWithLocals ==
  /\ pc = "createRoot"
  /\ CanCreateBucket(Root) /\ DoCreateBucket(Root, TRUE)
  /\ pc' = "seed"
  /\ pending' = SharedKeys(1) \union LocalKeysOf(Root)
  /\ UNCHANGED <<run, keySet, target, manifest, cleaning, err>>

CreateRoot ==
  /\ pc = "createRoot"
  /\ \/ /\ CanCreateBucket(Root) /\ DoCreateBucket(Root, TRUE)
        /\ pc' = "seed"
        /\ pending' = SharedKeys(1)
        /\ UNCHANGED err
     \/ /\ CallFails("createBucket", CanCreateBucket(Root), DoCreateBucket(Root, TRUE))
        /\ GiveUp
        /\ UNCHANGED pending
  /\ UNCHANGED <<run, keySet, target, manifest, cleaning>>

\* seedKeys: one PutObject; the body is made from the bucket's name and the
\* key.  The order of the keys within a set makes no difference and is free.
SeedPut ==
  /\ pc \in {"seed", "local"}
  /\ \E key \in pending :
       \/ /\ CanPut(target) /\ DoPut(target, key, target)
          /\ pending' = pending \ {key}
          /\ UNCHANGED <<pc, err>>
       \/ /\ CallFails("put", CanPut(target), DoPut(target, key, target))
          /\ GiveUp
          /\ UNCHANGED pending
  /\ UNCHANGED <<run, keySet, target, manifest, cleaning>>

\* Mutant of ForkLoop: one fork too many.
ForkLoopPastEnd(d) ==
  /\ depth' = d
  /\ \/ d <= MaxForkDepth + 1 /\ pc' = "snapshot" /\ UNCHANGED <<target, pending>>
     \/ /\ d > MaxForkDepth + 1
        /\ pc' = "local"
        /\ target' = scenarios[1].bucket
        /\ pending' = LocalKeysOf(scenarios[1].bucket)

\* The test of the fork loop; after it, the local fixtures of the first bucket.
ForkLoop(d) ==
  /\ depth' = d
  /\ \/ d <= MaxForkDepth /\ pc' = "snapshot" /\ UNCHANGED <<target, pending>>
     \/ /\ d > MaxForkDepth
        /\ pc' = "local"
        /\ target' = scenarios[1].bucket
        /\ pending' = LocalKeysOf(scenarios[1].bucket)

\* Mutant of NextShared: the fork loop starts before the last key set.
NextSharedForksEarly ==
  /\ pc = "seed" /\ pending = {}
  /\ \/ /\ target = Normal
        /\ target' = Root /\ pending' = SharedKeys(keySet)
        /\ UNCHANGED <<pc, keySet, depth>>
     \/ /\ target = Root /\ keySet < 3
        /\ keySet' = keySet + 1
        /\ target' = Normal /\ pending' = SharedKeys(keySet + 1)
        /\ UNCHANGED <<pc, depth>>
     \/ /\ target = Root /\ keySet = 3
        /\ ForkLoop(1)
        /\ UNCHANGED keySet
  /\ UNCHANGED <<store, scenarios, parentScenario, snapshotVersion, manifest,
                 cleaning, err>>

\* Each key set goes to the normal bucket, then to the root.
NextShared ==
  /\ pc = "seed" /\ pending = {}
  /\ \/ /\ target = Normal
        /\ target' = Root /\ pending' = SharedKeys(keySet)
        /\ UNCHANGED <<pc, keySet, depth>>
     \/ /\ target = Root /\ keySet < 4
        /\ keySet' = keySet + 1
        /\ target' = Normal /\ pending' = SharedKeys(keySet + 1)
        /\ UNCHANGED <<pc, depth>>
     \/ /\ target = Root /\ keySet = 4
        /\ ForkLoop(1)
        /\ UNCHANGED keySet
  /\ UNCHANGED <<store, scenarios, parentScenario, snapshotVersion, manifest,
                 cleaning, err>>
-----------------------------------------------------------------------------
(***************************************************************************)
(* The chain of forks                                                      *)
(***************************************************************************)

\* CreateSnapshot: a reply without a version is an error too.
TakeSnapshot ==
  /\ pc = "snapshot"
  /\ \/ /\ CanSnapshot(parentScenario) /\ DoSnapshot(parentScenario)
        /\ snapshotVersion' = Len(snaps) + 1
        /\ pc' = "fork"
        /\ UNCHANGED err
     \/ /\ CallFails("createSnapshot", CanSnapshot(parentScenario), DoSnapshot(parentScenario))
        /\ GiveUp
        /\ UNCHANGED snapshotVersion
  /\ UNCHANGED <<scenarios, depth, parentScenario, seeding, manifest, cleaning>>

Child == depth + 1

\* Mutant of RecordChild: parentScenario stays the root, a flattened chain.
RecordChildOfRoot(snapshotEnabled) ==
  /\ scenarios' = Append(scenarios, Scenario(Child, snapshotEnabled, parentScenario,
                                             snapshotVersion))
  /\ ForkLoop(depth + 1)
  /\ UNCHANGED parentScenario

\* scenarios = append(scenarios, child), parentScenario = child, and the loop.
RecordChild(snapshotEnabled) ==
  /\ scenarios' = Append(scenarios, Scenario(Child, snapshotEnabled, parentScenario,
                                             snapshotVersion))
  /\ parentScenario' = Child
  /\ ForkLoop(depth + 1)

\* CreateForkBucket's preferred request; whatever its error, the fallback is next.
CreateFork ==
  /\ pc = "fork"
  /\ \/ /\ CanFork(Child, parentScenario, snapshotVersion)
        /\ DoFork(Child, parentScenario, snapshotVersion, TRUE)
        /\ RecordChild(TRUE)
     \/ /\ CallFails("createForkSnapshotEnabled",
                     CanFork(Child, parentScenario, snapshotVersion),
                     DoFork(Child, parentScenario, snapshotVersion, TRUE))
        /\ pc' = "fallback"
        /\ UNCHANGED <<scenarios, parentScenario, depth, target, pending>>
  /\ UNCHANGED <<snapshotVersion, keySet, manifest, cleaning, err>>

\* CreateForkBucket's second request, without snapshots.  A fork made this way
\* will do at the last depth only; before it, the run gives up and the new
\* bucket has not been recorded.
ForkFallback ==
  /\ pc = "fallback"
  /\ \/ /\ CanFork(Child, parentScenario, snapshotVersion)
        /\ DoFork(Child, parentScenario, snapshotVersion, FALSE)
        /\ \/ /\ depth = MaxForkDepth
              /\ RecordChild(FALSE)
              /\ UNCHANGED err
           \/ /\ depth < MaxForkDepth
              /\ GiveUp
              /\ UNCHANGED <<scenarios, parentScenario, depth, target, pending>>
     \/ /\ CallFails("createFork", CanFork(Child, parentScenario, snapshotVersion),
                     DoFork(Child, parentScenario, snapshotVersion, FALSE))
        /\ GiveUp
        /\ UNCHANGED <<scenarios, parentScenario, depth, target, pending>>
  /\ UNCHANGED <<snapshotVersion, keySet, manifest, cleaning>>
-----------------------------------------------------------------------------
(***************************************************************************)
(* The local fixtures and the manifest                                     *)
(***************************************************************************)

\* One scenario after the other, each with keys that carry its own name.
NextLocal ==
  /\ pc = "local" /\ pending = {}
  /\ \/ /\ target < Len(scenarios) - 1
        /\ target' = target + 1 /\ pending' = LocalKeysOf(target + 1)
        /\ UNCHANGED pc
     \/ /\ target = Len(scenarios) - 1
        /\ pc' = "manifest"
        /\ UNCHANGED <<target, pending>>
  /\ UNCHANGED <<store, run, keySet, manifest, cleaning, err>>

\* Mutant of WriteManifest: the manifest is made before the forks are.
WriteManifestOfRoots ==
  /\ pc = "manifest"
  /\ manifest' = SubSeq(scenarios, 1, 2) /\ pc' = "provisioned"
  /\ UNCHANGED <<store, run, seeding, cleaning, err>>

\* WriteJSON(manifest.json); after an error there may be a file all the same.
WriteManifest ==
  /\ pc = "manifest"
  /\ \/ manifest' = scenarios /\ pc' = "provisioned" /\ UNCHANGED err
     \/ /\ "writeManifest" \in Unreliable
        /\ \/ UNCHANGED manifest
           \/ LostReplies /\ manifest' = scenarios
        /\ GiveUp
  /\ UNCHANGED <<store, run, seeding, cleaning>>
-----------------------------------------------------------------------------
(***************************************************************************)
(* After the benchmark                                                     *)
(***************************************************************************)

\* The caller has --keep-buckets, or removes the run whatever the outcome.
KeepBuckets ==
  /\ pc = "provisioned"
  /\ pc' = "kept"
  /\ UNCHANGED <<store, run, seeding, manifest, cleaning, err>>

StartCleanup ==
  /\ pc = "provisioned"
  /\ pc' = "cleanup"
  /\ UNCHANGED <<store, run, seeding, manifest, cleaning, err>>

\* Mutant of BucketToRemove: the scenarios are not sorted.
BucketInCreationOrder(i) == scenarios[i].bucket

\* The bucket that CleanupRun's sorted list has at position i.
BucketToRemove(i) == scenarios[SortedPositions[Len(scenarios)][i]].bucket

\* Mutant of RemoveNext: a removal is repeated until it succeeds.
RemoveNextUntilDone ==
  /\ pc = "cleanup" /\ asked < Len(scenarios)
  /\ asked' = asked + 1
  /\ LET b == BucketToRemove(asked + 1)
     IN  CanRemove(b) /\ DoRemove(b)
  /\ UNCHANGED <<run, seeding, manifest, refused, pc, err>>

\* One RemoveBucket of CleanupRun's loop.
RemoveNext ==
  /\ pc = "cleanup" /\ asked < Len(scenarios)
  /\ asked' = asked + 1
  /\ LET b == BucketToRemove(asked + 1)
     IN  \/ CanRemove(b) /\ DoRemove(b) /\ UNCHANGED <<refused, pc>>
         \/ /\ CallFails("removeBucket", CanRemove(b), DoRemove(b))
            /\ refused' = refused \union {b}
            /\ pc' = IF StopAtRemoveError THEN "aborted" ELSE "cleanup"
  /\ UNCHANGED <<run, seeding, manifest, err>>

\* Mutant of CleanupDone: the loop ends one bucket early.
CleanupDoneEarly ==
  /\ pc = "cleanup" /\ asked >= Len(scenarios) - 1
  /\ pc' = "cleaned"
  /\ UNCHANGED <<store, run, seeding, manifest, cleaning, err>>

CleanupDone ==
  /\ pc = "cleanup" /\ asked = Len(scenarios)
  /\ pc' = "cleaned"
  /\ UNCHANGED <<store, run, seeding, manifest, cleaning, err>>

Ended == pc \in {"kept", "cleaned", "aborted"}

Terminated == Ended /\ UNCHANGED vars

Step ==
  \/ CreateNormal \/ CreateRoot
  \/ SeedPut \/ NextShared \/ NextLocal
  \/ TakeSnapshot \/ CreateFork \/ ForkFallback
  \/ WriteManifest
  \/ KeepBuckets \/ StartCleanup \/ RemoveNext \/ CleanupDone

Next == Step \/ Terminated

Spec == Init /\ [][Next]_vars

\* The code is one sequence of calls, and each call returns in the end.
FairSpec == Spec /\ WF_vars(Step)
-----------------------------------------------------------------------------
(***************************************************************************)
(* Properties                                                              *)
(***************************************************************************)

Recorded == {scenarios[i].bucket : i \in 1 .. Len(scenarios)}

Key == ({NoBucket} \X UNION {SeedSets[i] : i \in 1 .. 4}) \union (Bucket \X LocalKeys)

ScenarioSet ==
  [bucket : Bucket, forkDepth : 0 .. MaxForkDepth, snapshotEnabled : BOOLEAN,
   parentBucket : Bucket \union {NoBucket}, parentSnapshotVersion : Nat]

StoreTypeOK ==
  /\ live \in SUBSET Bucket
  /\ snapEnabled \in SUBSET live
  /\ parent \in [Bucket -> Bucket \union {NoBucket}]
  /\ objs \in [Bucket -> SUBSET (Key \X Bucket)]
  /\ snaps \in Seq([bucket : Bucket, objs : SUBSET (Key \X Bucket)])

RunTypeOK ==
  /\ pc \in {"createNormal", "createRoot", "seed", "snapshot", "fork", "fallback",
             "local", "manifest", "provisioned", "cleanup", "kept", "cleaned", "aborted"}
  /\ scenarios \in Seq(ScenarioSet)
  /\ depth \in 0 .. MaxForkDepth + 1
  /\ parentScenario \in Bucket
  /\ snapshotVersion \in Nat
  /\ keySet \in 1 .. 4
  /\ target \in Bucket
  /\ pending \in SUBSET Key
  /\ manifest \in Seq(ScenarioSet)
  /\ asked \in 0 .. Len(scenarios)
  /\ refused \in SUBSET Bucket
  /\ err \in {"nil", "error"}

\* The type of every variable, of the service and of the run.
TypeOK == StoreTypeOK /\ RunTypeOK

\* The buckets a benchmark is about to measure, or measures later on.
Usable == pc \in {"provisioned", "kept"}

\* Every bucket can serve the shared fixtures: the normal one and the root from
\* their own seeding, every fork by inheritance from the root, however deep,
\* because the root was seeded before the first snapshot (88-101).
InheritedFixtures ==
  Usable => \A i \in 1 .. Len(scenarios) : \A key \in AllShared :
    <<key, IF i = 1 THEN Normal ELSE Root>> \in objs[scenarios[i].bucket]

\* The local fixtures of a bucket are its own writes, and it holds those of no
\* other: no fork was made after local seeding had begun (99-143).
LocalFixtures ==
  Usable => \A i \in 1 .. Len(scenarios) :
    LET b == scenarios[i].bucket
    IN  {o \in objs[b] : o[1] \notin AllShared} = LocalKeysOf(b) \X {b}

\* The chain is as deep as asked for and not flattened: the fork of depth d was
\* made from the fork of depth d - 1, at the snapshot the manifest says, and
\* only the last one may be without snapshots (99-132).
ChainNotFlattened ==
  Usable =>
    /\ Len(scenarios) = MaxForkDepth + 2
    /\ \A i \in 3 .. Len(scenarios) :
         /\ scenarios[i].forkDepth = i - 2
         /\ scenarios[i].parentBucket = scenarios[i - 1].bucket
         /\ parent[scenarios[i].bucket] = scenarios[i].parentBucket
         /\ scenarios[i].parentSnapshotVersion \in 1 .. Len(snaps)
         /\ snaps[scenarios[i].parentSnapshotVersion].bucket = scenarios[i].parentBucket
         /\ scenarios[i].snapshotEnabled <=> scenarios[i].bucket \in snapEnabled
         /\ i < Len(scenarios) => scenarios[i].snapshotEnabled

\* A run that is handed on has a manifest that names every bucket it has made:
\* cleanup needs nothing else to remove them later (145-157).
ManifestIsComplete ==
  Usable =>
    /\ manifest = scenarios
    /\ live = {manifest[i].bucket : i \in 1 .. Len(manifest)}

\* Whatever fails and whenever, with replies lost too, no more than one bucket
\* outlives a run that has been cleaned up without an error of the cleanup: the
\* one being created when the run gave up (80-83, 119-128).
OneLeakAtMost ==
  pc \in {"cleaned", "aborted"} /\ refused = {} => Cardinality(live) <= 1

\* Cleanup does not go wrong by itself: when it asks for a bucket, the recorded
\* forks of that bucket have all been asked for before it (161-168).
ForksBeforeParents ==
  pc = "cleanup" /\ asked < Len(scenarios) =>
    \A c \in live \intersect Recorded :
      parent[c] = BucketToRemove(asked + 1) =>
        \E i \in 1 .. asked : BucketToRemove(i) = c

\* A bucket that outlives a complete cleanup is one the run had not recorded, or
\* one whose removal returned an error (169-173).
SurvivorsExplained ==
  pc = "cleaned" => live \intersect Recorded \subseteq refused

\* A run that is not kept ends with every recorded bucket asked for, whatever
\* failed (TypeScript only: src/provision.ts 122-132, 138-145).
EveryRemovalAsked == Ended /\ pc # "kept" => asked = Len(scenarios)

\* The run comes to an end: kept, cleaned, or given up.
Ends == <>Ended

\* The run as its caller sees it.
Phase ==
  CASE pc = "provisioned" -> "ready"
    [] pc = "kept" -> "kept"
    [] pc = "cleanup" -> IF err = "nil" THEN "removing" ELSE "undoing"
    [] pc \in {"cleaned", "aborted"} -> IF err = "nil" THEN "removed" ELSE "failed"
    [] OTHER -> "provisioning"

Run == INSTANCE IsolatedRun WITH
         LastBucket <- MaxForkDepth + 1,
         phase <- Phase,
         named <- manifest # <<>>,
         refused <- refused # {}

\* Every run keeps what IsolatedRun promises the suite, whatever calls fail: its
\* buckets appear one by one, it is handed on only when complete and named, and
\* its end, good or bad, leaves what that module allows and no more.
Contract == Run!Spec

\* "deletes the buckets unless you opt out" (README.md): no bucket is left by a
\* run that failed and was cleaned up without an error.
NothingLeftAfterFailure == err # "nil" /\ Ended /\ refused = {} => live = {}
=============================================================================

---------------------------- MODULE ProvisionProof ----------------------------
(***************************************************************************)
(* Proofs about Provision, for every depth of the chain, every set of keys *)
(* and whichever calls fail: they cover both tools, which differ in the    *)
(* constants only.                                                         *)
(*                                                                         *)
(* The inductive invariant IInv relates the service to what the run has    *)
(* recorded: the scenarios are the buckets 0, 1, 2, ... in order (ScenInv),*)
(* the loop variables point at the end of that list (LoopInv), the live    *)
(* buckets are the recorded ones and at most the next one (LiveInv), every *)
(* fork hangs from the bucket before it (ParentInv), and a bucket that has *)
(* been asked for and is still there was refused (AskedInv).               *)
(*                                                                         *)
(* To IInv the step simulation of IsolatedRun adds ErrInv, what the error  *)
(* says of the phase: no call has failed before cleanup begins, the chain  *)
(* is complete once the fork loop is over, and a run that is removed       *)
(* without an error has no bucket it has not recorded.                     *)
(***************************************************************************)
EXTENDS Provision, FiniteSetTheorems, SequenceTheorems, TLAPS

\* The buckets of the recorded scenarios, by number.
RecordedRange == 0 .. Len(scenarios) - 1

ScenInv ==
  /\ Len(scenarios) \in 2 .. MaxForkDepth + 2
  /\ \A i \in 1 .. Len(scenarios) : scenarios[i].bucket = i - 1

LoopInv ==
  /\ pc \in {"createNormal", "createRoot", "seed"} =>
       /\ Len(scenarios) = 2 /\ parentScenario = Root
       /\ target \in {Normal, Root}
  /\ pc \in {"snapshot", "fork", "fallback"} =>
       /\ depth \in 1 .. MaxForkDepth
       /\ Len(scenarios) = depth + 1
       /\ parentScenario = depth

LiveInv ==
  /\ live \subseteq 0 .. Len(scenarios)
  /\ pc = "createNormal" => live = {}
  /\ pc = "createRoot" => live = {Normal}
  /\ pc \in {"seed", "snapshot", "fork", "local", "manifest", "provisioned", "kept"} =>
       live = RecordedRange
  /\ pc = "fallback" => RecordedRange \subseteq live
  /\ pc = "aborted" => refused # {} \/ live \subseteq {Normal}

\* A fork that exists was made from the bucket before it; the first two buckets
\* and those that do not exist have no parent.
ParentInv ==
  \A c \in Bucket :
    parent[c] = IF c \in live \ {Normal, Root} THEN c - 1 ELSE NoBucket

AskedInv ==
  /\ pc \notin {"cleanup", "cleaned", "aborted"} => asked = 0 /\ refused = {}
  /\ pc = "cleaned" => asked = Len(scenarios)
  /\ pc \in {"cleanup", "cleaned"} =>
       \A i \in 1 .. asked : BucketToRemove(i) \in live => BucketToRemove(i) \in refused

ManifestInv == Usable => manifest = scenarios

IInv ==
  /\ TypeOK
  /\ ScenInv
  /\ LoopInv
  /\ LiveInv
  /\ ParentInv
  /\ AskedInv
  /\ ManifestInv
-----------------------------------------------------------------------------
\* The keys that are seeded are keys.
LEMMA KeyFacts ==
  /\ \A i \in 1 .. 4 : SharedKeys(i) \subseteq Key
  /\ \A b \in Bucket : LocalKeysOf(b) \subseteq Key
BY RunAssumption DEF SharedKeys, LocalKeysOf, Key

LEMMA BucketFacts ==
  /\ Normal \in Bucket /\ Root \in Bucket
  /\ Bucket \subseteq Nat
  /\ NoBucket \notin Bucket
BY RunAssumption DEF Normal, Root, Bucket, NoBucket

\* The sort names recorded scenarios only, and all of them.
LEMMA OrderFacts ==
  ASSUME ScenInv
  PROVE  /\ \A i \in 1 .. Len(scenarios) : BucketToRemove(i) \in RecordedRange
         /\ \A b \in RecordedRange : \E i \in 1 .. Len(scenarios) : BucketToRemove(i) = b
<1> DEFINE n == Len(scenarios)
<1>1. n \in 2 .. MaxForkDepth + 2
  BY DEF ScenInv
<1>2. SortedPositions[n] \in [1 .. n -> 1 .. n]
  BY <1>1, OrderAssumption
<1>3. \A p \in 1 .. n : \E i \in 1 .. n : SortedPositions[n][i] = p
  BY <1>1, OrderAssumption
<1>4. \A i \in 1 .. n : BucketToRemove(i) = SortedPositions[n][i] - 1
  BY <1>2 DEF ScenInv, BucketToRemove
<1>5. ASSUME NEW b \in RecordedRange PROVE \E i \in 1 .. n : BucketToRemove(i) = b
  <2>1. b + 1 \in 1 .. n
    BY <1>1, RunAssumption DEF RecordedRange
  <2>2. PICK i \in 1 .. n : SortedPositions[n][i] = b + 1
    BY <2>1, <1>3
  <2>3. BucketToRemove(i) = b
    BY <2>2, <1>4 DEF RecordedRange
  <2> QED
    BY <2>3
<1>6. \A i \in 1 .. n : BucketToRemove(i) \in RecordedRange
  BY <1>1, <1>2, <1>4, RunAssumption DEF RecordedRange
<1> QED
  BY <1>5, <1>6

LEMMA InitIInv == Init => IInv
<1> SUFFICES ASSUME Init PROVE IInv
  OBVIOUS
<1> USE BucketFacts, RunAssumption DEF Init, StoreInit
<1>1. Len(scenarios) = 2 /\ scenarios \in Seq(ScenarioSet)
  BY DEF Scenario, ScenarioSet, Normal, Root, NoVersion
<1>2. TypeOK
  <2>1. live \in SUBSET Bucket /\ snapEnabled \in SUBSET live
    OBVIOUS
  <2>2. objs \in [Bucket -> SUBSET (Key \X Bucket)] /\ parent \in [Bucket -> Bucket \union {NoBucket}]
    BY Zenon
  <2>3. snaps \in Seq([bucket : Bucket, objs : SUBSET (Key \X Bucket)])
    OBVIOUS
  <2>4. manifest \in Seq(ScenarioSet)
    OBVIOUS
  <2>5. depth \in 0 .. MaxForkDepth + 1 /\ snapshotVersion \in Nat /\ keySet \in 1 .. 4
    BY DEF NoVersion
  <2>6. asked \in 0 .. Len(scenarios)
    BY <1>1
  <2> QED
    BY <1>1, <2>1, <2>2, <2>3, <2>4, <2>5, <2>6 DEF TypeOK, StoreTypeOK, RunTypeOK
<1>3. ScenInv
  BY <1>1 DEF ScenInv, Scenario, Normal, Root
<1>4. LoopInv /\ LiveInv /\ ParentInv /\ AskedInv /\ ManifestInv
  BY <1>1 DEF LoopInv, LiveInv, ParentInv, AskedInv, ManifestInv, Usable, RecordedRange
<1> QED
  BY <1>2, <1>3, <1>4 DEF IInv
-----------------------------------------------------------------------------
(***************************************************************************)
(* The service keeps its types, whichever call is made of it.              *)
(***************************************************************************)

LEMMA CreateType ==
  ASSUME StoreTypeOK, NEW b \in Bucket, NEW e \in BOOLEAN, DoCreateBucket(b, e)
  PROVE  StoreTypeOK'
BY DEF StoreTypeOK, DoCreateBucket

LEMMA SnapshotType ==
  ASSUME StoreTypeOK, NEW b \in Bucket, DoSnapshot(b)
  PROVE  StoreTypeOK' /\ Len(snaps') = Len(snaps) + 1
BY DEF StoreTypeOK, DoSnapshot

LEMMA SnapshotFacts ==
  ASSUME StoreTypeOK, NEW version \in 1 .. Len(snaps)
  PROVE  snaps[version].objs \in SUBSET (Key \X Bucket)
<1>1. snaps \in Seq([bucket : Bucket, objs : SUBSET (Key \X Bucket)])
  BY DEF StoreTypeOK
<1>2. snaps[version] \in [bucket : Bucket, objs : SUBSET (Key \X Bucket)]
  BY <1>1, ElementOfSeq
<1> QED
  BY <1>2

LEMMA ForkType ==
  ASSUME StoreTypeOK, NEW b \in Bucket, NEW source, NEW version, NEW e \in BOOLEAN,
         CanFork(b, source, version), DoFork(b, source, version, e)
  PROVE  StoreTypeOK'
<1>1. source \in Bucket /\ version \in 1 .. Len(snaps)
  BY DEF StoreTypeOK, CanFork
<1>2. snaps[version].objs \in SUBSET (Key \X Bucket)
  BY <1>1, SnapshotFacts
<1>3. objs' \in [Bucket -> SUBSET (Key \X Bucket)]
  BY <1>2 DEF StoreTypeOK, DoFork
<1>4. parent' \in [Bucket -> Bucket \union {NoBucket}]
  BY <1>1 DEF StoreTypeOK, DoFork
<1>5. live' \in SUBSET Bucket /\ snapEnabled' \in SUBSET live' /\ snaps' = snaps
  BY DEF StoreTypeOK, DoFork
<1> QED
  BY <1>3, <1>4, <1>5 DEF StoreTypeOK

LEMMA PutType ==
  ASSUME StoreTypeOK, NEW b \in Bucket, NEW key \in Key, DoPut(b, key, b)
  PROVE  StoreTypeOK'
BY DEF StoreTypeOK, DoPut

LEMMA RemoveType ==
  ASSUME StoreTypeOK, NEW b \in Bucket, DoRemove(b)
  PROVE  StoreTypeOK'
BY DEF StoreTypeOK, DoRemove

LEMMA StutterType ==
  ASSUME StoreTypeOK, UNCHANGED store
  PROVE  StoreTypeOK'
BY DEF StoreTypeOK, store

-----------------------------------------------------------------------------
(***************************************************************************)
(* Each step keeps the invariant.                                          *)
(***************************************************************************)

\* What is left of a create once the call has come back.
LEMMA CreateEffect ==
  ASSUME StoreTypeOK, NEW b \in Bucket, b \notin live, NEW e \in BOOLEAN,
         UNCHANGED store \/ DoCreateBucket(b, e)
  PROVE  /\ StoreTypeOK'
         /\ live' = live \/ live' = live \union {b}
         /\ parent' = parent
<1>1. StoreTypeOK'
  BY CreateType, StutterType
<1> QED
  BY <1>1 DEF DoCreateBucket, store

LEMMA CreateNormalStep == IInv /\ CreateNormal => IInv'
<1> SUFFICES ASSUME IInv, CreateNormal PROVE IInv'
  OBVIOUS
<1>1. /\ pc = "createNormal" /\ live = {} /\ Len(scenarios) = 2
      /\ asked = 0 /\ refused = {}
  BY DEF IInv, LiveInv, LoopInv, AskedInv, CreateNormal
<1>2. UNCHANGED store \/ DoCreateBucket(Normal, FALSE)
  BY DEF CreateNormal, CallFails
<1>3. /\ StoreTypeOK'
      /\ live' = live \/ live' = live \union {Normal}
      /\ parent' = parent
  BY <1>1, <1>2, CreateEffect, BucketFacts DEF IInv, TypeOK, Normal, Root
<1>4. \/ pc' = "createRoot" /\ live' = live \union {Normal} /\ err' = err /\ pending' = pending
      \/ pc' \in {"cleanup", "aborted"} /\ err' = "error" /\ pending' = pending
  BY <1>3 DEF CreateNormal, DoCreateBucket, GiveUp, seeding
<1>5. pc' \in {"createRoot", "cleanup", "aborted"}
  BY DEF CreateNormal, CallFails, GiveUp
<1>6. UNCHANGED <<scenarios, depth, parentScenario, snapshotVersion, keySet, target,
                  manifest, asked, refused>>
  BY DEF CreateNormal, run, seeding, cleaning
<1>7. RunTypeOK'
  BY <1>4, <1>6, KeyFacts DEF IInv, TypeOK, RunTypeOK
<1>8. ScenInv' /\ LoopInv' /\ ManifestInv'
  BY <1>1, <1>4, <1>6 DEF IInv, ScenInv, LoopInv, ManifestInv, Usable
<1>9. LiveInv'
  BY <1>1, <1>3, <1>4, <1>5, <1>6 DEF LiveInv, RecordedRange, Normal, Root
<1>10. ParentInv'
  BY <1>3 DEF IInv, ParentInv
<1>11. AskedInv'
  BY <1>1, <1>4, <1>6 DEF AskedInv
<1> QED
  BY <1>3, <1>7, <1>8, <1>9, <1>10, <1>11 DEF IInv, TypeOK

LEMMA CreateRootStep == IInv /\ CreateRoot => IInv'
<1> SUFFICES ASSUME IInv, CreateRoot PROVE IInv'
  OBVIOUS
<1>1. /\ pc = "createRoot" /\ live = {Normal} /\ Len(scenarios) = 2
      /\ asked = 0 /\ refused = {}
  BY DEF IInv, LiveInv, LoopInv, AskedInv, CreateRoot
<1>2. UNCHANGED store \/ DoCreateBucket(Root, TRUE)
  BY DEF CreateRoot, CallFails
<1>3. /\ StoreTypeOK'
      /\ live' = live \/ live' = live \union {Root}
      /\ parent' = parent
  <2>1. Root \in Bucket /\ Root \notin live /\ StoreTypeOK
    BY <1>1, BucketFacts DEF IInv, TypeOK, Normal, Root
  <2> QED
    BY <2>1, <1>2, CreateEffect
<1>4. \/ pc' = "seed" /\ live' = live \union {Root} /\ err' = err /\ pending' = SharedKeys(1)
      \/ pc' \in {"cleanup", "aborted"} /\ err' = "error" /\ pending' = pending
  BY <1>3 DEF CreateRoot, DoCreateBucket, GiveUp
<1>5. pc' # "aborted"
  BY DEF CreateRoot, CallFails, GiveUp
<1>6. UNCHANGED <<scenarios, depth, parentScenario, snapshotVersion, keySet, target,
                  manifest, asked, refused>>
  BY DEF CreateRoot, run, seeding, cleaning
<1>7. RunTypeOK'
  BY <1>4, <1>6, KeyFacts DEF IInv, TypeOK, RunTypeOK
<1>8. ScenInv' /\ LoopInv' /\ ManifestInv'
  BY <1>1, <1>4, <1>6 DEF IInv, ScenInv, LoopInv, ManifestInv, Usable
<1>9. LiveInv'
  <2>1. live' \subseteq {0, 1} /\ (pc' = "seed" => live' = {0, 1})
    BY <1>1, <1>3, <1>4 DEF Normal, Root
  <2>2. Len(scenarios)' = 2
    BY <1>1, <1>6
  <2>3. RecordedRange' = 0 .. 1 /\ 0 .. 1 = {0, 1}
    BY <2>2 DEF RecordedRange
  <2>4. live' \subseteq 0 .. Len(scenarios)'
    BY <2>1, <2>2
  <2> QED
    BY <2>1, <2>3, <2>4, <1>4, <1>5 DEF LiveInv
<1>10. ParentInv'
  BY <1>3 DEF IInv, ParentInv
<1>11. AskedInv'
  BY <1>1, <1>4, <1>6 DEF AskedInv
<1> QED
  BY <1>3, <1>7, <1>8, <1>9, <1>10, <1>11 DEF IInv, TypeOK

LEMMA SeedPutStep == IInv /\ SeedPut => IInv'
<1> SUFFICES ASSUME IInv, SeedPut PROVE IInv'
  OBVIOUS
<1> USE BucketFacts, RunAssumption DEF IInv, SeedPut, GiveUp
<1>1. target \in Bucket /\ pending \subseteq Key
  BY DEF TypeOK, RunTypeOK
<1>2. UNCHANGED store \/ \E key \in Key : DoPut(target, key, target)
  BY <1>1 DEF CallFails
<1>3. StoreTypeOK'
  BY <1>1, <1>2, PutType, StutterType DEF TypeOK
<1>4. UNCHANGED <<live, parent>>
  BY <1>2 DEF store, DoPut
<1>5. RunTypeOK'
  BY DEF TypeOK, RunTypeOK, run, cleaning
<1>6. ScenInv' /\ LoopInv' /\ ManifestInv'
  BY DEF ScenInv, LoopInv, ManifestInv, Usable, run
<1>7. LiveInv' /\ ParentInv'
  BY <1>4 DEF LiveInv, ParentInv, ScenInv, RecordedRange, run, cleaning
<1>8. AskedInv'
  BY DEF AskedInv, cleaning, run
<1> QED
  BY <1>3, <1>5, <1>6, <1>7, <1>8 DEF TypeOK

LEMMA NextSharedStep == IInv /\ NextShared => IInv'
<1> SUFFICES ASSUME IInv, NextShared PROVE IInv'
  OBVIOUS
<1> USE BucketFacts, RunAssumption, KeyFacts DEF IInv, NextShared, ForkLoop
<1>1. StoreTypeOK' /\ UNCHANGED <<live, parent>>
  BY StutterType DEF TypeOK, store
<1>2. scenarios[1].bucket = Normal /\ Len(scenarios) = 2
  BY DEF ScenInv, LoopInv, Normal
<1>3. RunTypeOK'
  BY <1>2 DEF TypeOK, RunTypeOK, cleaning
<1>4. ScenInv' /\ ManifestInv'
  BY DEF ScenInv, ManifestInv, Usable
<1>5. LoopInv'
  BY <1>2 DEF LoopInv, Root
<1>6. LiveInv' /\ ParentInv'
  BY <1>1 DEF LiveInv, ParentInv, ScenInv, RecordedRange, cleaning
<1>7. AskedInv'
  BY DEF AskedInv, cleaning
<1> QED
  BY <1>1, <1>3, <1>4, <1>5, <1>6, <1>7 DEF TypeOK

LEMMA TakeSnapshotStep == IInv /\ TakeSnapshot => IInv'
<1> SUFFICES ASSUME IInv, TakeSnapshot PROVE IInv'
  OBVIOUS
<1> USE BucketFacts, RunAssumption DEF IInv, TakeSnapshot, GiveUp
<1>1. UNCHANGED store \/ DoSnapshot(parentScenario)
  BY DEF CallFails
<1>2. parentScenario \in Bucket
  BY DEF TypeOK, RunTypeOK
<1>3. StoreTypeOK' /\ UNCHANGED <<live, parent>>
  BY <1>1, <1>2, SnapshotType, StutterType DEF TypeOK, store, DoSnapshot
<1>4. Len(snaps) \in Nat
  BY DEF TypeOK, StoreTypeOK
<1>5. RunTypeOK'
  BY <1>4 DEF TypeOK, RunTypeOK, seeding, cleaning
<1>6. ScenInv' /\ LoopInv' /\ ManifestInv'
  BY DEF ScenInv, LoopInv, ManifestInv, Usable, seeding
<1>7. LiveInv' /\ ParentInv'
  BY <1>3 DEF LiveInv, ParentInv, ScenInv, RecordedRange, seeding, cleaning
<1>8. AskedInv'
  BY DEF AskedInv, cleaning
<1> QED
  BY <1>3, <1>5, <1>6, <1>7, <1>8 DEF TypeOK

\* What RecordChild leaves, given that the child is the next bucket.
LEMMA RecordFacts ==
  ASSUME IInv, NEW e \in BOOLEAN, pc \in {"fork", "fallback"}, RecordChild(e)
  PROVE  /\ scenarios' \in Seq(ScenarioSet)
         /\ Len(scenarios)' = Len(scenarios) + 1
         /\ ScenInv'
         /\ parentScenario' = Child /\ Child \in Bucket
         /\ depth' = depth + 1
         /\ pc' \in {"snapshot", "local"}
         /\ pc' = "snapshot" => depth' <= MaxForkDepth
         /\ target' \in Bucket /\ pending' \in SUBSET Key
<1> USE RunAssumption
<1>1. /\ depth \in 1 .. MaxForkDepth /\ Len(scenarios) = depth + 1
      /\ parentScenario = depth /\ scenarios \in Seq(ScenarioSet)
      /\ snapshotVersion \in Nat /\ target \in Bucket /\ pending \in SUBSET Key
  BY DEF IInv, LoopInv, TypeOK, RunTypeOK
<1>2. Child = depth + 1 /\ Child \in Bucket /\ depth \in Bucket
  BY <1>1 DEF Child, Bucket, Normal
<1> DEFINE new == Scenario(Child, e, parentScenario, snapshotVersion)
<1>3. new.bucket = Child /\ new \in ScenarioSet
  BY <1>1, <1>2 DEF Scenario, ScenarioSet, Normal
<1>4. scenarios' = Append(scenarios, new) /\ parentScenario' = Child /\ ForkLoop(depth + 1)
  BY DEF RecordChild
<1> HIDE DEF new
<1>5. /\ scenarios' \in Seq(ScenarioSet) /\ Len(scenarios') = Len(scenarios) + 1
      /\ \A k \in 1 .. Len(scenarios) : scenarios'[k] = scenarios[k]
      /\ scenarios'[Len(scenarios) + 1] = new
  BY <1>1, <1>3, <1>4, AppendProperties
<1>6. ScenInv'
  BY <1>1, <1>2, <1>3, <1>5 DEF IInv, ScenInv
<1>7. scenarios[1].bucket = Normal
  BY <1>1 DEF IInv, ScenInv, Normal
<1> QED
  BY <1>1, <1>2, <1>4, <1>5, <1>6, <1>7, BucketFacts, KeyFacts DEF ForkLoop

\* What is left of a fork request once the call has come back.
LEMMA ForkEffect ==
  ASSUME IInv, NEW e \in BOOLEAN, pc \in {"fork", "fallback"},
         \/ UNCHANGED store
         \/ /\ CanFork(Child, parentScenario, snapshotVersion)
            /\ DoFork(Child, parentScenario, snapshotVersion, e)
  PROVE  /\ StoreTypeOK'
         /\ live' = live \/ live' = live \union {Child}
         /\ DoFork(Child, parentScenario, snapshotVersion, e) =>
              live' = live \union {Child}
         /\ ParentInv'
         /\ Child = Len(scenarios) /\ Child \in Bucket
<1>1. /\ depth \in 1 .. MaxForkDepth /\ Len(scenarios) = depth + 1
      /\ parentScenario = depth
  BY DEF IInv, LoopInv
<1>2. Child = depth + 1 /\ Child \in Bucket /\ Child \notin {Normal, Root}
  BY <1>1, RunAssumption DEF Child, Bucket, Normal, Root
<1>3. CASE UNCHANGED store
  <2>1. StoreTypeOK' /\ live' = live /\ parent' = parent
    BY <1>3, StutterType DEF store, IInv, TypeOK
  <2>2. ParentInv'
    BY <2>1 DEF IInv, ParentInv
  <2>3. DoFork(Child, parentScenario, snapshotVersion, e) => live' = live \union {Child}
    BY DEF DoFork
  <2> QED
    BY <1>1, <1>2, <2>1, <2>2, <2>3
<1>4. CASE /\ CanFork(Child, parentScenario, snapshotVersion)
           /\ DoFork(Child, parentScenario, snapshotVersion, e)
  <2>1. StoreTypeOK'
    BY <1>2, <1>4, ForkType DEF IInv, TypeOK
  <2>2. live' = live \union {Child} /\ parent' = [parent EXCEPT ![Child] = parentScenario]
    BY <1>4 DEF DoFork
  <2>3. ParentInv'
    BY <1>1, <1>2, <2>2 DEF IInv, ParentInv, TypeOK, StoreTypeOK
  <2> QED
    BY <1>1, <1>2, <2>1, <2>2, <2>3
<1> QED
  BY <1>3, <1>4

LEMMA CreateForkStep == IInv /\ CreateFork => IInv'
<1> SUFFICES ASSUME IInv, CreateFork PROVE IInv'
  OBVIOUS
<1>1. /\ pc = "fork" /\ live = RecordedRange /\ asked = 0 /\ refused = {}
      /\ depth \in 1 .. MaxForkDepth /\ Len(scenarios) = depth + 1
  BY DEF CreateFork, IInv, LiveInv, AskedInv, LoopInv
<1>2. \/ UNCHANGED store
      \/ /\ CanFork(Child, parentScenario, snapshotVersion)
         /\ DoFork(Child, parentScenario, snapshotVersion, TRUE)
  BY DEF CreateFork, CallFails
<1>3. /\ StoreTypeOK' /\ ParentInv'
      /\ live' = live \/ live' = live \union {Child}
      /\ DoFork(Child, parentScenario, snapshotVersion, TRUE) =>
           live' = live \union {Child}
      /\ Child = Len(scenarios) /\ Child \in Bucket
  BY <1>1, <1>2, ForkEffect
<1>4. UNCHANGED <<snapshotVersion, keySet, manifest, asked, refused, err>>
  BY DEF CreateFork, cleaning
<1>5. CASE RecordChild(TRUE) /\ live' = live \union {Child}
  <2>1. /\ scenarios' \in Seq(ScenarioSet)
        /\ Len(scenarios)' = Len(scenarios) + 1
        /\ ScenInv'
        /\ parentScenario' = Child
        /\ depth' = depth + 1
        /\ pc' \in {"snapshot", "local"}
        /\ pc' = "snapshot" => depth' <= MaxForkDepth
        /\ target' \in Bucket /\ pending' \in SUBSET Key
    BY <1>1, <1>5, RecordFacts
  <2>2. RunTypeOK'
    BY <1>1, <1>3, <1>4, <2>1, RunAssumption DEF IInv, TypeOK, RunTypeOK
  <2>3. LoopInv'
    BY <1>1, <1>3, <2>1, RunAssumption DEF LoopInv, Child
  <2>4. LiveInv'
    BY <1>1, <1>3, <1>5, <2>1, RunAssumption DEF LiveInv, RecordedRange
  <2>5. AskedInv' /\ ManifestInv'
    BY <1>1, <1>4, <2>1 DEF AskedInv, ManifestInv, Usable
  <2> QED
    BY <1>3, <2>1, <2>2, <2>3, <2>4, <2>5 DEF IInv, TypeOK
<1>6. CASE /\ pc' = "fallback"
           /\ UNCHANGED <<scenarios, parentScenario, depth, target, pending>>
  <2>1. RunTypeOK'
    BY <1>4, <1>6 DEF IInv, TypeOK, RunTypeOK
  <2>2. ScenInv' /\ LoopInv' /\ ManifestInv' /\ AskedInv'
    BY <1>1, <1>4, <1>6 DEF IInv, ScenInv, LoopInv, ManifestInv, Usable, AskedInv
  <2>3. LiveInv'
    BY <1>1, <1>3, <1>6, RunAssumption DEF LiveInv, RecordedRange
  <2> QED
    BY <1>3, <2>1, <2>2, <2>3 DEF IInv, TypeOK
<1> QED
  BY <1>3, <1>5, <1>6 DEF CreateFork

LEMMA ForkFallbackStep == IInv /\ ForkFallback => IInv'
<1> SUFFICES ASSUME IInv, ForkFallback PROVE IInv'
  OBVIOUS
<1>1. /\ pc = "fallback" /\ live \subseteq 0 .. Len(scenarios) /\ asked = 0 /\ refused = {}
      /\ depth \in 1 .. MaxForkDepth /\ Len(scenarios) = depth + 1
  BY DEF ForkFallback, IInv, LiveInv, AskedInv, LoopInv
<1>2. \/ UNCHANGED store
      \/ /\ CanFork(Child, parentScenario, snapshotVersion)
         /\ DoFork(Child, parentScenario, snapshotVersion, FALSE)
  BY DEF ForkFallback, CallFails
<1>3. /\ StoreTypeOK' /\ ParentInv'
      /\ live' = live \/ live' = live \union {Child}
      /\ DoFork(Child, parentScenario, snapshotVersion, FALSE) =>
           live' = live \union {Child}
      /\ Child = Len(scenarios) /\ Child \in Bucket
  BY <1>1, <1>2, ForkEffect
<1>4. UNCHANGED <<snapshotVersion, keySet, manifest, asked, refused>>
  BY DEF ForkFallback, cleaning
<1>5. CASE /\ depth = MaxForkDepth /\ RecordChild(FALSE) /\ UNCHANGED err
           /\ CanFork(Child, parentScenario, snapshotVersion)
           /\ live' = live \union {Child}
  <2>1. /\ scenarios' \in Seq(ScenarioSet)
        /\ Len(scenarios)' = Len(scenarios) + 1
        /\ ScenInv'
        /\ depth' = depth + 1
        /\ pc' \in {"snapshot", "local"}
        /\ pc' = "snapshot" => depth' <= MaxForkDepth
        /\ parentScenario' = Child
        /\ target' \in Bucket /\ pending' \in SUBSET Key
    BY <1>1, <1>5, RecordFacts
  <2>2. pc' = "local"
    BY <1>1, <1>5, <2>1, RunAssumption
  <2>3. RunTypeOK'
    BY <1>1, <1>3, <1>4, <1>5, <2>1, RunAssumption DEF IInv, TypeOK, RunTypeOK
  <2>4. LoopInv' /\ AskedInv' /\ ManifestInv'
    BY <1>1, <1>4, <2>2 DEF LoopInv, AskedInv, ManifestInv, Usable
  <2>5. live = RecordedRange
    <3>1. RecordedRange \subseteq live
      BY <1>1 DEF IInv, LiveInv
    <3>2. Len(scenarios) \notin live
      BY <1>3, <1>5 DEF CanFork
    <3>3. \A b \in live : b \in 0 .. depth + 1 /\ b # depth + 1
      BY <1>1, <3>2
    <3>4. \A b \in 0 .. depth + 1 : b # depth + 1 => b \in 0 .. depth
      BY <1>1, RunAssumption
    <3>5. RecordedRange = 0 .. depth
      BY <1>1, RunAssumption DEF RecordedRange
    <3> QED
      BY <3>1, <3>3, <3>4, <3>5
  <2>6. LiveInv'
    BY <1>1, <1>3, <1>5, <2>1, <2>2, <2>5, RunAssumption DEF LiveInv, RecordedRange
  <2> QED
    BY <1>3, <2>1, <2>3, <2>4, <2>6 DEF IInv, TypeOK
<1>6. CASE /\ GiveUp
           /\ UNCHANGED <<scenarios, parentScenario, depth, target, pending>>
  <2>1. pc' = "cleanup" /\ err' = "error"
    BY <1>6 DEF GiveUp
  <2>2. RunTypeOK'
    BY <1>4, <1>6, <2>1 DEF IInv, TypeOK, RunTypeOK
  <2>3. ScenInv' /\ LoopInv' /\ ManifestInv' /\ AskedInv'
    BY <1>1, <1>4, <1>6, <2>1 DEF IInv, ScenInv, LoopInv, ManifestInv, Usable, AskedInv
  <2>4. LiveInv'
    <3>1. Len(scenarios)' = Len(scenarios) /\ Len(scenarios) \in 0 .. Len(scenarios)
      BY <1>1, <1>6, RunAssumption
    <3>2. live' \subseteq 0 .. Len(scenarios)'
      BY <1>1, <1>3, <3>1
    <3> QED
      BY <2>1, <3>2 DEF LiveInv
  <2> QED
    BY <1>3, <2>2, <2>3, <2>4 DEF IInv, TypeOK
<1> QED
  BY <1>3, <1>5, <1>6 DEF ForkFallback

LEMMA NextLocalStep == IInv /\ NextLocal => IInv'
<1> SUFFICES ASSUME IInv, NextLocal PROVE IInv'
  OBVIOUS
<1>1. /\ pc = "local" /\ target \in Bucket
      /\ Len(scenarios) \in 2 .. MaxForkDepth + 2
      /\ live = RecordedRange /\ asked = 0 /\ refused = {}
  BY DEF NextLocal, IInv, TypeOK, RunTypeOK, ScenInv, LiveInv, AskedInv
<1>2. /\ UNCHANGED <<live, snapEnabled, parent, objs, snaps>> /\ StoreTypeOK'
      /\ UNCHANGED <<scenarios, depth, parentScenario, snapshotVersion, keySet,
                     manifest, asked, refused, err>>
  BY StutterType DEF NextLocal, store, run, cleaning, IInv, TypeOK
<1>3. /\ pc' \in {"local", "manifest"}
      /\ target' \in Bucket /\ pending' \in SUBSET Key
  <2>1. CASE target < Len(scenarios) - 1 /\ target' = target + 1 /\ UNCHANGED pc
             /\ pending' = LocalKeysOf(target + 1)
    <3>1. target + 1 \in Bucket
      BY <1>1, <2>1, RunAssumption DEF Bucket, Normal
    <3> QED
      BY <1>1, <2>1, <3>1, KeyFacts
  <2>2. CASE pc' = "manifest" /\ UNCHANGED <<target, pending>>
    BY <2>2 DEF IInv, TypeOK, RunTypeOK
  <2> QED
    BY <2>1, <2>2 DEF NextLocal
<1>4. RunTypeOK'
  BY <1>2, <1>3 DEF IInv, TypeOK, RunTypeOK
<1>5. ScenInv' /\ LoopInv' /\ ManifestInv' /\ ParentInv' /\ AskedInv'
  BY <1>1, <1>2, <1>3 DEF IInv, ScenInv, LoopInv, ManifestInv, Usable, ParentInv, AskedInv
<1>6. LiveInv'
  BY <1>1, <1>2, <1>3 DEF IInv, LiveInv, RecordedRange
<1> QED
  BY <1>2, <1>4, <1>5, <1>6 DEF IInv, TypeOK

LEMMA WriteManifestStep == IInv /\ WriteManifest => IInv'
<1> SUFFICES ASSUME IInv, WriteManifest PROVE IInv'
  OBVIOUS
<1>1. pc = "manifest" /\ live = RecordedRange /\ asked = 0 /\ refused = {}
  BY DEF WriteManifest, IInv, LiveInv, AskedInv
<1>2. /\ UNCHANGED <<live, parent>> /\ StoreTypeOK'
      /\ UNCHANGED <<scenarios, depth, parentScenario, snapshotVersion, keySet, target,
                     pending, asked, refused>>
  BY StutterType DEF WriteManifest, store, run, seeding, cleaning, IInv, TypeOK
<1>3. /\ pc' \in {"provisioned", "cleanup"} /\ manifest' \in {manifest, scenarios}
      /\ pc' = "provisioned" => manifest' = scenarios
      /\ err' \in {err, "error"}
  BY DEF WriteManifest, GiveUp
<1>4. RunTypeOK'
  BY <1>2, <1>3 DEF IInv, TypeOK, RunTypeOK
<1>5. ScenInv' /\ LoopInv' /\ ManifestInv' /\ ParentInv' /\ AskedInv'
  BY <1>1, <1>2, <1>3 DEF IInv, ScenInv, LoopInv, ManifestInv, Usable, ParentInv, AskedInv
<1>6. LiveInv'
  BY <1>1, <1>2, <1>3 DEF IInv, LiveInv, RecordedRange
<1> QED
  BY <1>2, <1>4, <1>5, <1>6 DEF IInv, TypeOK

\* The steps that only move pc, and stuttering.
LEMMA KeepsStep ==
  IInv /\ (KeepBuckets \/ StartCleanup \/ CleanupDone \/ UNCHANGED vars) => IInv'
<1> SUFFICES ASSUME IInv, KeepBuckets \/ StartCleanup \/ CleanupDone \/ UNCHANGED vars
             PROVE  IInv'
  OBVIOUS
<1>1. /\ UNCHANGED <<live, parent>> /\ StoreTypeOK'
      /\ UNCHANGED <<scenarios, depth, parentScenario, snapshotVersion, keySet, target,
                     pending, manifest, asked, refused, err>>
  BY StutterType DEF KeepBuckets, StartCleanup, CleanupDone, vars, store, run, seeding,
                     cleaning, IInv, TypeOK
<1>2. \/ pc = "provisioned" /\ pc' \in {"kept", "cleanup"}
      \/ pc = "cleanup" /\ pc' = "cleaned" /\ asked = Len(scenarios)
      \/ pc' = pc
  BY DEF KeepBuckets, StartCleanup, CleanupDone, vars
<1>3. RunTypeOK'
  BY <1>1, <1>2 DEF IInv, TypeOK, RunTypeOK
<1>4. ScenInv' /\ LoopInv' /\ ManifestInv' /\ ParentInv'
  BY <1>1, <1>2 DEF IInv, ScenInv, LoopInv, ManifestInv, Usable, ParentInv
<1>5. LiveInv'
  BY <1>1, <1>2 DEF IInv, LiveInv, RecordedRange
<1>6. AskedInv'
  <2>1. pc = "provisioned" => \A i \in 1 .. asked : FALSE
    BY DEF IInv, AskedInv
  <2> QED
    BY <1>1, <1>2, <2>1 DEF IInv, AskedInv, BucketToRemove
<1> QED
  BY <1>1, <1>3, <1>4, <1>5, <1>6 DEF IInv, TypeOK

LEMMA RemoveNextStep == IInv /\ RemoveNext => IInv'
<1> SUFFICES ASSUME IInv, RemoveNext PROVE IInv'
  OBVIOUS
<1> DEFINE b == BucketToRemove(asked + 1)
<1>1. /\ pc = "cleanup" /\ asked \in Nat /\ asked < Len(scenarios)
      /\ Len(scenarios) \in 2 .. MaxForkDepth + 2
  BY DEF RemoveNext, IInv, TypeOK, RunTypeOK, ScenInv
<1>2. b \in RecordedRange /\ b \in Bucket
  <2>1. asked + 1 \in 1 .. Len(scenarios)
    BY <1>1, RunAssumption
  <2>2. b \in RecordedRange
    BY <2>1, OrderFacts DEF IInv
  <2>3. RecordedRange \subseteq Bucket
    BY <1>1, RunAssumption DEF RecordedRange, Bucket, Normal
  <2> QED
    BY <2>2, <2>3
<1>3. /\ asked' = asked + 1
      /\ UNCHANGED <<scenarios, depth, parentScenario, snapshotVersion, keySet, target,
                     pending, manifest, err>>
  BY DEF RemoveNext, run, seeding
<1>4. \/ DoRemove(b) /\ refused' = refused /\ pc' = pc
      \/ /\ UNCHANGED store \/ DoRemove(b)
         /\ refused' = refused \union {b} /\ pc' \in {"aborted", "cleanup"}
  BY DEF RemoveNext, CallFails
<1> HIDE DEF b
<1>5. StoreTypeOK'
  BY <1>2, <1>4, RemoveType, StutterType DEF IInv, TypeOK
<1>6. live' \subseteq live
  BY <1>4 DEF DoRemove, store
<1>7. b \in live' => b \in refused'
  BY <1>4 DEF DoRemove
<1>8. /\ refused \subseteq refused' /\ refused' \subseteq refused \union {b}
      /\ pc' \in {"aborted", "cleanup"} /\ (pc' = "aborted" => refused' # {})
  BY <1>1, <1>4
<1>9. RunTypeOK'
  BY <1>1, <1>2, <1>3, <1>8 DEF IInv, TypeOK, RunTypeOK
<1>10. ScenInv' /\ LoopInv' /\ ManifestInv'
  BY <1>1, <1>3, <1>8 DEF IInv, ScenInv, LoopInv, ManifestInv, Usable
<1>11. LiveInv'
  BY <1>3, <1>6, <1>8 DEF IInv, LiveInv
<1>12. ParentInv'
  <2>1. CASE UNCHANGED store
    BY <2>1 DEF store, IInv, ParentInv
  <2>2. CASE DoRemove(b)
    BY <1>2, <2>2 DEF DoRemove, IInv, ParentInv, TypeOK, StoreTypeOK
  <2> QED
    BY <1>4, <2>1, <2>2
<1>13. AskedInv'
  <2>1. \A i \in Nat : BucketToRemove(i)' = BucketToRemove(i)
    BY <1>3 DEF BucketToRemove
  <2>2. ASSUME NEW i \in 1 .. asked + 1, BucketToRemove(i) \in live'
        PROVE  BucketToRemove(i) \in refused'
    <3>1. CASE i = asked + 1
      BY <1>7, <2>2, <3>1 DEF b
    <3>2. CASE i \in 1 .. asked
      BY <1>1, <1>6, <1>8, <2>2, <3>2 DEF IInv, AskedInv
    <3> QED
      BY <1>1, <3>1, <3>2
  <2> QED
    BY <1>3, <1>8, <2>1, <2>2 DEF AskedInv
<1> QED
  BY <1>5, <1>9, <1>10, <1>11, <1>12, <1>13 DEF IInv, TypeOK

LEMMA NextIInv == IInv /\ [Next]_vars => IInv'
<1> SUFFICES ASSUME IInv, [Next]_vars PROVE IInv'
  OBVIOUS
<1>1. CASE CreateNormal
  BY <1>1, CreateNormalStep
<1>2. CASE CreateRoot
  BY <1>2, CreateRootStep
<1>3. CASE SeedPut
  BY <1>3, SeedPutStep
<1>4. CASE NextShared
  BY <1>4, NextSharedStep
<1>5. CASE NextLocal
  BY <1>5, NextLocalStep
<1>6. CASE TakeSnapshot
  BY <1>6, TakeSnapshotStep
<1>7. CASE CreateFork
  BY <1>7, CreateForkStep
<1>8. CASE ForkFallback
  BY <1>8, ForkFallbackStep
<1>9. CASE WriteManifest
  BY <1>9, WriteManifestStep
<1>10. CASE RemoveNext
  BY <1>10, RemoveNextStep
<1>11. CASE KeepBuckets \/ StartCleanup \/ CleanupDone \/ UNCHANGED vars
  BY <1>11, KeepsStep
<1> QED
  BY <1>1, <1>2, <1>3, <1>4, <1>5, <1>6, <1>7, <1>8, <1>9, <1>10, <1>11
     DEF Next, Step, Terminated

\* The inductive invariant holds of every run, whichever calls fail.
THEOREM Invariant == Spec => []IInv
<1>1. Init => IInv
  BY InitIInv
<1>2. IInv /\ [Next]_vars => IInv'
  BY NextIInv
<1> QED
  BY <1>1, <1>2, PTL DEF Spec
-----------------------------------------------------------------------------
(***************************************************************************)
(* The properties.                                                         *)
(***************************************************************************)

LEMMA RecordedFacts ==
  ASSUME ScenInv
  PROVE  Recorded = RecordedRange
<1>1. Len(scenarios) \in 2 .. MaxForkDepth + 2
      /\ \A i \in 1 .. Len(scenarios) : scenarios[i].bucket = i - 1
  BY DEF ScenInv
<1>2. Recorded \subseteq RecordedRange
  BY <1>1, RunAssumption DEF Recorded, RecordedRange
<1>3. ASSUME NEW b \in RecordedRange PROVE b \in Recorded
  <2>1. b + 1 \in 1 .. Len(scenarios) /\ (b + 1) - 1 = b
    BY <1>1, RunAssumption DEF RecordedRange
  <2> QED
    BY <1>1, <2>1 DEF Recorded
<1> QED
  BY <1>2, <1>3

\* The type of every variable.
THEOREM TypeOKHolds == Spec => []TypeOK
<1>1. IInv => TypeOK
  BY DEF IInv
<1> QED
  BY <1>1, Invariant, PTL

\* A run that is handed on has a manifest that names exactly the buckets that
\* exist (gobench/provision.go 145-157), for every depth of the chain.
THEOREM ManifestIsCompleteHolds == Spec => []ManifestIsComplete
<1>1. ASSUME IInv, Usable
      PROVE  manifest = scenarios /\ live = {manifest[i].bucket : i \in 1 .. Len(manifest)}
  <2>1. manifest = scenarios
    BY <1>1 DEF IInv, ManifestInv
  <2>2. live = RecordedRange
    BY <1>1 DEF IInv, LiveInv, Usable
  <2>3. Recorded = RecordedRange
    BY <1>1, RecordedFacts DEF IInv
  <2>4. live = {scenarios[i].bucket : i \in 1 .. Len(scenarios)}
    BY <2>2, <2>3 DEF Recorded
  <2> QED
    BY <2>1, <2>4
<1>2. IInv => ManifestIsComplete
  BY <1>1 DEF ManifestIsComplete
<1> QED
  BY <1>2, Invariant, PTL

\* After a complete cleanup what is left of the recorded buckets was refused.
LEMMA CleanedFacts ==
  ASSUME IInv, pc = "cleaned"
  PROVE  live \intersect RecordedRange \subseteq refused
<1>1. ASSUME NEW b \in live \intersect RecordedRange PROVE b \in refused
  <2>1. PICK i \in 1 .. Len(scenarios) : BucketToRemove(i) = b
    BY OrderFacts DEF IInv
  <2>2. asked = Len(scenarios)
    BY DEF IInv, AskedInv
  <2> QED
    BY <2>1, <2>2 DEF IInv, AskedInv
<1> QED
  BY <1>1

\* What outlives a complete cleanup was not recorded or its removal was refused
\* (gobench/provision.go 169-173), for every order of removal that
\* OrderAssumption allows.
THEOREM SurvivorsExplainedHolds == Spec => []SurvivorsExplained
<1>1. ASSUME IInv, pc = "cleaned" PROVE live \intersect Recorded \subseteq refused
  <2>1. Recorded = RecordedRange
    BY <1>1, RecordedFacts DEF IInv
  <2> QED
    BY <1>1, <2>1, CleanedFacts
<1>2. IInv => SurvivorsExplained
  BY <1>1 DEF SurvivorsExplained
<1> QED
  BY <1>2, Invariant, PTL

\* No failure leaves more than one bucket behind when cleanup itself meets no
\* error (gobench/provision.go 80-83 and 119-128), however long the chain was.
THEOREM OneLeakAtMostHolds == Spec => []OneLeakAtMost
<1>1. ASSUME IInv, pc \in {"cleaned", "aborted"}, refused = {}
      PROVE  Cardinality(live) <= 1
  <2>1. PICK b : live \subseteq {b}
    <3>1. CASE pc = "aborted"
      BY <1>1, <3>1 DEF IInv, LiveInv
    <3>2. CASE pc = "cleaned"
      <4>1. live \intersect RecordedRange = {}
        BY <1>1, <3>2, CleanedFacts
      <4>2. live \subseteq 0 .. Len(scenarios) /\ Len(scenarios) \in Nat
        BY <1>1, RunAssumption DEF IInv, LiveInv, ScenInv
      <4>3. \A c \in 0 .. Len(scenarios) : c \in RecordedRange \/ c = Len(scenarios)
        BY <4>2 DEF RecordedRange
      <4> QED
        BY <4>1, <4>2, <4>3
    <3> QED
      BY <1>1, <3>1, <3>2
  <2>2. live = {} \/ live = {b}
    BY <2>1
  <2>3. Cardinality({}) = 0 /\ Cardinality({b}) = 1
    BY FS_EmptySet, FS_Singleton
  <2> QED
    BY <2>2, <2>3
<1>2. IInv => OneLeakAtMost
  BY <1>1 DEF OneLeakAtMost
<1> QED
  BY <1>2, Invariant, PTL

\* Cleanup never asks for a bucket before the recorded forks of that bucket
\* (gobench/provision.go 161-168): it is the chain's shape, kept by ParentInv,
\* that makes an order by descending depth the right one.
THEOREM ForksBeforeParentsHolds == Spec => []ForksBeforeParents
<1>1. ASSUME IInv, pc = "cleanup", asked < Len(scenarios),
             NEW c \in live \intersect Recorded, parent[c] = BucketToRemove(asked + 1)
      PROVE  \E i \in 1 .. asked : BucketToRemove(i) = c
  <2> DEFINE n == Len(scenarios)
             sp == SortedPositions[n]
  <2>1. n \in 2 .. MaxForkDepth + 2 /\ asked \in Nat /\ asked + 1 \in 1 .. n
    BY <1>1, RunAssumption DEF IInv, ScenInv, TypeOK, RunTypeOK
  <2>2. Recorded = RecordedRange /\ c \in 0 .. n - 1
    BY <1>1, RecordedFacts DEF IInv, RecordedRange
  <2>3. BucketToRemove(asked + 1) \in 0 .. n - 1
    BY <1>1, <2>1, OrderFacts DEF IInv, RecordedRange
  <2>4. c \in Bucket
    BY <2>1, <2>2, RunAssumption DEF Bucket, Normal
  <2>5. c >= 2 /\ BucketToRemove(asked + 1) = c - 1
    BY <1>1, <2>1, <2>2, <2>3, <2>4 DEF IInv, ParentInv, NoBucket, Normal, Root
  <2>6. PICK j \in 1 .. n : BucketToRemove(j) = c
    BY <1>1, <2>2, OrderFacts DEF IInv
  <2>7. sp \in [1 .. n -> 1 .. n]
    BY <2>1, OrderAssumption
  <2>8. BucketToRemove(j) = sp[j] - 1 /\ BucketToRemove(asked + 1) = sp[asked + 1] - 1
    BY <1>1, <2>1, <2>7 DEF IInv, ScenInv, BucketToRemove
  <2>9. sp[j] = c + 1 /\ sp[asked + 1] = c
    <3>1. n \in Nat /\ c \in Int
      BY <2>1, <2>2
    <3>2. sp[j] \in 1 .. n /\ sp[asked + 1] \in 1 .. n
      BY <2>1, <2>6, <2>7
    <3>3. sp[j] \in Int /\ sp[asked + 1] \in Int
      BY <3>1, <3>2
    <3>4. sp[j] - 1 = c /\ sp[asked + 1] - 1 = c - 1
      BY <2>5, <2>6, <2>8
    <3> HIDE DEF sp, n
    <3> QED
      BY <3>1, <3>3, <3>4
  <2>10. DepthsOf(n)[sp[asked + 1]] < DepthsOf(n)[sp[j]]
    BY <2>1, <2>2, <2>5, <2>7, <2>9 DEF DepthsOf
  <2>11. ~(asked + 1 < j)
    <3>1. asked + 1 < j => DepthsOf(n)[sp[asked + 1]] >= DepthsOf(n)[sp[j]]
      BY <2>1, OrderAssumption
    <3>2. DepthsOf(n)[c] \in Int /\ DepthsOf(n)[c + 1] \in Int
      BY <2>1, <2>2, <2>5, <2>7, <2>9 DEF DepthsOf
    <3> QED
      BY <2>9, <2>10, <3>1, <3>2
  <2>12. j # asked + 1
    BY <2>2, <2>9
  <2> QED
    BY <2>1, <2>6, <2>11, <2>12
<1>2. IInv => ForksBeforeParents
  BY <1>1 DEF ForksBeforeParents
<1> QED
  BY <1>2, Invariant, PTL
-----------------------------------------------------------------------------
(***************************************************************************)
(* Provision implements IsolatedRun                                        *)
(***************************************************************************)

Early == {"createNormal", "createRoot", "seed", "snapshot", "fork", "fallback",
          "local", "manifest"}

ErrInv ==
  /\ pc \in Early \union {"provisioned", "kept"} => err = "nil"
  /\ pc \in {"local", "manifest", "provisioned"} => Len(scenarios) = MaxForkDepth + 2
  /\ pc = "cleanup" /\ err = "nil" => live \subseteq RecordedRange

-----------------------------------------------------------------------------
\* A step that fails puts the run in a state about which ErrInv says nothing.
LEMMA FailedErrInv ==
  ASSUME err' = "error", pc' \in {"cleanup", "aborted"}
  PROVE  ErrInv'
BY DEF ErrInv, Early

\* The fork loop ends with the chain at its full depth.
LEMMA LoopErrInv ==
  ASSUME NEW d \in Nat, ForkLoop(d), err' = "nil", Len(scenarios') = d + 1,
         d <= MaxForkDepth + 1
  PROVE  ErrInv'
<1>1. pc' = "snapshot" \/ (pc' = "local" /\ d > MaxForkDepth)
  BY DEF ForkLoop
<1>2. pc' = "local" => Len(scenarios)' = MaxForkDepth + 2
  BY <1>1, RunAssumption
<1> QED
  BY <1>1, <1>2 DEF ErrInv, Early

LEMMA InitErrInv == Init => ErrInv
BY DEF Init, ErrInv, Early

LEMMA NextErrInv == IInv /\ ErrInv /\ [Next]_vars => ErrInv'
<1> SUFFICES ASSUME IInv, ErrInv, [Next]_vars PROVE ErrInv'
  OBVIOUS
<1>1. CASE CreateNormal \/ CreateRoot
  <2>1. \/ pc \in Early /\ pc' \in {"createRoot", "seed"} /\ err' = err
        \/ pc' \in {"cleanup", "aborted"} /\ err' = "error"
    BY <1>1 DEF CreateNormal, CreateRoot, GiveUp, Early
  <2> QED
    BY <2>1, FailedErrInv DEF ErrInv, Early
<1>2. CASE SeedPut
  <2>1. \/ pc \in {"seed", "local"} /\ pc' = pc /\ err' = err /\ scenarios' = scenarios
        \/ pc' = "cleanup" /\ err' = "error"
    BY <1>2 DEF SeedPut, GiveUp, run
  <2> QED
    BY <2>1, FailedErrInv DEF ErrInv, Early
<1>3. CASE NextShared
  <2>1. pc = "seed" /\ err' = err /\ scenarios' = scenarios /\ err = "nil"
    BY <1>3 DEF NextShared, ErrInv, Early
  <2>2. pc' = "seed" \/ ForkLoop(1)
    BY <1>3 DEF NextShared
  <2>3. Len(scenarios') = 2
    BY <2>1 DEF IInv, LoopInv
  <2>4. ASSUME ForkLoop(1) PROVE ErrInv'
    BY <2>1, <2>3, <2>4, LoopErrInv, RunAssumption
  <2> QED
    BY <2>1, <2>2, <2>4 DEF ErrInv, Early
<1>4. CASE NextLocal
  <2>1. /\ pc = "local" /\ pc' \in {"local", "manifest"}
        /\ err' = err /\ scenarios' = scenarios
    BY <1>4 DEF NextLocal, run
  <2> QED
    BY <2>1 DEF ErrInv, Early
<1>5. CASE TakeSnapshot
  <2>1. \/ pc = "snapshot" /\ pc' = "fork" /\ err' = err
        \/ pc' = "cleanup" /\ err' = "error"
    BY <1>5 DEF TakeSnapshot, GiveUp
  <2> QED
    BY <2>1, FailedErrInv DEF ErrInv, Early
<1>6. CASE CreateFork \/ ForkFallback
  <2>1. /\ pc \in {"fork", "fallback"} /\ err = "nil"
        /\ depth \in 1 .. MaxForkDepth /\ Len(scenarios) = depth + 1
    BY <1>6 DEF CreateFork, ForkFallback, ErrInv, Early, IInv, LoopInv
  <2>2. \/ pc' = "fallback" /\ err' = err
        \/ pc' = "cleanup" /\ err' = "error"
        \/ err' = err /\ \E e \in BOOLEAN : RecordChild(e)
    BY <1>6 DEF CreateFork, ForkFallback, GiveUp
  <2>3. ASSUME NEW e \in BOOLEAN, RecordChild(e), err' = err PROVE ErrInv'
    <3>1. Len(scenarios)' = Len(scenarios) + 1
      BY <2>1, <2>3, RecordFacts
    <3>2. ForkLoop(depth + 1)
      BY <2>3 DEF RecordChild
    <3> QED
      BY <2>1, <2>3, <3>1, <3>2, LoopErrInv, RunAssumption
  <2>4. CASE pc' = "fallback" /\ err' = err
    BY <2>1, <2>4 DEF ErrInv, Early
  <2> QED
    BY <2>2, <2>3, <2>4, FailedErrInv
<1>7. CASE WriteManifest
  <2>1. \/ pc = "manifest" /\ pc' = "provisioned" /\ err' = err /\ scenarios' = scenarios
        \/ pc' = "cleanup" /\ err' = "error"
    BY <1>7 DEF WriteManifest, GiveUp, run
  <2> QED
    BY <2>1, FailedErrInv DEF ErrInv, Early
<1>8. CASE KeepBuckets \/ StartCleanup \/ CleanupDone
  <2>1. /\ \/ pc = "provisioned" /\ pc' \in {"kept", "cleanup"}
           \/ pc' = "cleaned"
        /\ err' = err /\ scenarios' = scenarios /\ live' = live
    BY <1>8 DEF KeepBuckets, StartCleanup, CleanupDone, run, store
  <2>2. pc = "provisioned" => live = RecordedRange
    BY DEF IInv, LiveInv
  <2> QED
    BY <2>1, <2>2 DEF ErrInv, Early, RecordedRange
<1>9. CASE RemoveNext
  <2>1. /\ pc = "cleanup" /\ pc' \in {"cleanup", "aborted"}
        /\ err' = err /\ scenarios' = scenarios
    BY <1>9 DEF RemoveNext, run
  <2>2. live' \subseteq live
    BY <1>9 DEF RemoveNext, CallFails, DoRemove, store
  <2> QED
    BY <2>1, <2>2 DEF ErrInv, Early, RecordedRange
<1>10. CASE UNCHANGED vars
  BY <1>10 DEF vars, run, store, ErrInv, RecordedRange
<1> QED
  BY <1>1, <1>2, <1>3, <1>4, <1>5, <1>6, <1>7, <1>8, <1>9, <1>10
     DEF Next, Step, Terminated
-----------------------------------------------------------------------------
(***************************************************************************)
(* The step simulation.                                                    *)
(***************************************************************************)

\* The phase by the place of the run, and after the step.
LEMMA PhaseFacts ==
  /\ pc \in Early => Phase = "provisioning"
  /\ pc = "provisioned" => Phase = "ready"
  /\ pc = "kept" => Phase = "kept"
  /\ pc = "cleanup" => Phase = IF err = "nil" THEN "removing" ELSE "undoing"
  /\ pc \in {"cleaned", "aborted"} => Phase = IF err = "nil" THEN "removed" ELSE "failed"
BY DEF Phase, Early

LEMMA NextPhaseFacts ==
  /\ pc' \in Early => Phase' = "provisioning"
  /\ pc' = "provisioned" => Phase' = "ready"
  /\ pc' = "kept" => Phase' = "kept"
  /\ pc' = "cleanup" => Phase' = IF err' = "nil" THEN "removing" ELSE "undoing"
  /\ pc' \in {"cleaned", "aborted"} =>
       Phase' = IF err' = "nil" THEN "removed" ELSE "failed"
BY DEF Phase, Early

\* A step that changes nothing the contract speaks of.
LEMMA EarlyStutter ==
  ASSUME pc \in Early, pc' \in Early, live' = live, manifest' = manifest, refused' = refused
  PROVE  UNCHANGED Run!vars
BY PhaseFacts, NextPhaseFacts DEF Run!vars

\* The bucket after those there are appears.
LEMMA MakesFacts ==
  ASSUME NEW b \in Bucket, live = 0 .. b - 1, live' = live \union {b}
  PROVE  Run!Makes
<1>1. b \in Run!Bucket /\ live' = 0 .. b
  BY RunAssumption DEF Bucket, Normal, Run!Bucket
<1> QED
  BY <1>1 DEF Run!Makes

LEMMA EarlyMake ==
  ASSUME pc \in Early, pc' \in Early, Run!Makes, manifest' = manifest, refused' = refused
  PROVE  Run!Make
BY PhaseFacts, NextPhaseFacts DEF Run!Make

\* A call fails and the run begins to undo what it has done.
LEMMA EarlyFail ==
  ASSUME pc \in Early, GiveUp, live' = live \/ Run!Makes, manifest' = manifest,
         refused' = refused
  PROVE  Run!Fail
<1>1. Phase = "provisioning" /\ Phase' = "undoing"
  BY PhaseFacts, NextPhaseFacts DEF GiveUp
<1> QED
  BY <1>1 DEF Run!Fail

LEMMA CreateSim ==
  ASSUME IInv, CreateNormal \/ CreateRoot
  PROVE  Run!Make \/ Run!Fail
<1> DEFINE b == IF pc = "createNormal" THEN Normal ELSE Root
<1>1. /\ pc \in Early /\ b \in Bucket /\ live = 0 .. b - 1
      /\ manifest' = manifest /\ refused' = refused
  <2>1. CASE CreateNormal
    <3>1. pc = "createNormal" /\ manifest' = manifest /\ refused' = refused
      BY <2>1 DEF CreateNormal, cleaning
    <3>2. live = {} /\ 0 .. Normal - 1 = {}
      BY <3>1 DEF IInv, LiveInv, Normal
    <3> QED
      BY <3>1, <3>2, BucketFacts DEF Early
  <2>2. CASE CreateRoot
    <3>1. pc = "createRoot" /\ manifest' = manifest /\ refused' = refused
      BY <2>2 DEF CreateRoot, cleaning
    <3>2. live = {Normal} /\ 0 .. Root - 1 = {Normal}
      BY <3>1 DEF IInv, LiveInv, Normal, Root
    <3> QED
      BY <3>1, <3>2, BucketFacts DEF Early
  <2> QED
    BY <2>1, <2>2
<1>2. \/ live' = live \union {b} /\ pc' \in Early
      \/ (live' = live \/ live' = live \union {b}) /\ GiveUp
      \/ /\ live' = live \/ live' = live \union {b}
         /\ pc = "createNormal" /\ pc' = "aborted" /\ err' = "error"
  BY DEF CreateNormal, CreateRoot, CallFails, DoCreateBucket, GiveUp, store, Early
<1> HIDE DEF b
<1>3. live' = live \union {b} => Run!Makes
  BY <1>1, MakesFacts
<1>4. CASE pc = "createNormal" /\ pc' = "aborted" /\ err' = "error"
  <2>1. Phase = "provisioning" /\ Phase' = "failed" /\ live = {}
    BY <1>1, <1>4, PhaseFacts, NextPhaseFacts DEF IInv, LiveInv
  <2>2. live' = live \/ Run!Makes
    BY <1>2, <1>3, <1>4 DEF GiveUp, Early
  <2> QED
    BY <1>1, <2>1, <2>2 DEF Run!Fail
<1> QED
  BY <1>1, <1>2, <1>3, <1>4, EarlyMake, EarlyFail

LEMMA ForkSim ==
  ASSUME IInv, ErrInv, CreateFork \/ ForkFallback
  PROVE  Run!Make \/ Run!Fail \/ UNCHANGED Run!vars
<1>1. /\ pc \in {"fork", "fallback"} /\ pc \in Early
      /\ manifest' = manifest /\ refused' = refused
  BY DEF CreateFork, ForkFallback, cleaning, Early
<1>2. /\ depth \in 1 .. MaxForkDepth /\ Len(scenarios) = depth + 1
      /\ 0 .. depth \subseteq live /\ live \subseteq 0 .. depth + 1
  <2>1. depth \in 1 .. MaxForkDepth /\ Len(scenarios) = depth + 1
    BY <1>1 DEF IInv, LoopInv
  <2>2. RecordedRange = 0 .. depth
    BY <2>1, RunAssumption DEF RecordedRange
  <2> QED
    BY <1>1, <2>1, <2>2 DEF IInv, LiveInv
<1>3. live' = live \/ (Child \notin live /\ live' = live \union {Child})
  BY DEF CreateFork, ForkFallback, CallFails, CanFork, DoFork, store
<1>4. live' = live \/ Run!Makes
  <2>1. ASSUME Child \notin live, live' = live \union {Child} PROVE Run!Makes
    <3>1. Child = depth + 1 /\ Child \in Bucket
      BY <1>2, RunAssumption DEF Child, Bucket, Normal
    <3>2. live = 0 .. Child - 1
      <4>1. \A c \in 0 .. depth + 1 : c \in 0 .. depth \/ c = depth + 1
        BY <1>2, RunAssumption
      <4>2. Child - 1 = depth
        BY <1>2, <3>1, RunAssumption
      <4> QED
        BY <1>2, <2>1, <3>1, <4>1, <4>2
    <3> QED
      BY <2>1, <3>1, <3>2, MakesFacts
  <2> QED
    BY <1>3, <2>1
<1>5. pc' \in Early \/ GiveUp
  <2>1. ASSUME NEW e \in BOOLEAN, RecordChild(e) PROVE pc' \in Early
    BY <1>1, <2>1, RecordFacts DEF Early
  <2>2. pc' = "fallback" \/ GiveUp \/ \E e \in BOOLEAN : RecordChild(e)
    BY DEF CreateFork, ForkFallback
  <2> QED
    BY <2>1, <2>2 DEF Early
<1> QED
  BY <1>1, <1>4, <1>5, EarlyMake, EarlyFail, EarlyStutter

\* The steps between the creations.
LEMMA EarlySim ==
  ASSUME IInv, SeedPut \/ NextShared \/ NextLocal \/ TakeSnapshot
  PROVE  Run!Fail \/ UNCHANGED Run!vars
<1>1. pc \in Early /\ manifest' = manifest /\ refused' = refused
  BY DEF SeedPut, NextShared, NextLocal, TakeSnapshot, cleaning, Early
<1>2. live' = live
  BY DEF SeedPut, NextShared, NextLocal, TakeSnapshot, CallFails, DoPut, DoSnapshot, store
<1>3. pc' \in Early \/ GiveUp
  <2>1. CASE SeedPut \/ NextLocal \/ TakeSnapshot
    BY <2>1 DEF SeedPut, NextLocal, TakeSnapshot, Early
  <2>2. CASE NextShared
    BY <2>2 DEF NextShared, ForkLoop, Early
  <2> QED
    BY <2>1, <2>2
<1> QED
  BY <1>1, <1>2, <1>3, EarlyFail, EarlyStutter

\* The manifest is written when all the buckets exist.
LEMMA ManifestSim ==
  ASSUME IInv, ErrInv, WriteManifest
  PROVE  Run!Finish \/ Run!Fail
<1>1. pc = "manifest" /\ pc \in Early /\ UNCHANGED <<live, refused>>
  BY DEF WriteManifest, store, cleaning, Early
<1>2. live = Run!Bucket
  <2>1. live = RecordedRange /\ Len(scenarios) = MaxForkDepth + 2
    BY <1>1 DEF IInv, LiveInv, ErrInv
  <2> QED
    BY <2>1, RunAssumption DEF RecordedRange, Run!Bucket
<1>3. scenarios # <<>>
  BY RunAssumption DEF IInv, ScenInv
<1>4. \/ manifest' = scenarios /\ pc' = "provisioned"
      \/ manifest' \in {manifest, scenarios} /\ GiveUp
  BY DEF WriteManifest
<1>5. Phase = "provisioning"
  BY <1>1, PhaseFacts
<1>6. CASE manifest' = scenarios /\ pc' = "provisioned"
  <2>1. Phase' = "ready"
    BY <1>6, NextPhaseFacts
  <2> QED
    BY <1>1, <1>2, <1>3, <1>5, <1>6, <2>1 DEF Run!Finish
<1>7. CASE manifest' = manifest /\ GiveUp
  BY <1>1, <1>7, EarlyFail
<1>8. CASE manifest' = scenarios /\ GiveUp
  <2>1. Phase' = "undoing"
    BY <1>8, NextPhaseFacts DEF GiveUp
  <2> QED
    BY <1>1, <1>2, <1>3, <1>5, <1>8, <2>1 DEF Run!Fail
<1> QED
  BY <1>4, <1>6, <1>7, <1>8

LEMMA DecideSim ==
  ASSUME ErrInv, KeepBuckets \/ StartCleanup
  PROVE  Run!Decide
<1>1. /\ pc = "provisioned" /\ pc' \in {"kept", "cleanup"} /\ err' = err
      /\ UNCHANGED <<live, manifest, refused>>
  BY DEF KeepBuckets, StartCleanup, store, cleaning
<1>2. err = "nil"
  BY <1>1 DEF ErrInv
<1>3. Phase = "ready" /\ Phase' \in {"kept", "removing"}
  BY <1>1, <1>2, PhaseFacts, NextPhaseFacts
<1> QED
  BY <1>1, <1>3 DEF Run!Decide

LEMMA RemoveSim ==
  ASSUME RemoveNext
  PROVE  Run!Remove \/ Run!Refuse
<1> DEFINE b == BucketToRemove(asked + 1)
<1>1. pc = "cleanup" /\ err' = err /\ manifest' = manifest
  BY DEF RemoveNext
<1>2. \/ b \in live /\ live' = live \ {b} /\ refused' = refused /\ pc' = pc
      \/ /\ live' = live \/ (b \in live /\ live' = live \ {b})
         /\ refused' = refused \union {b} /\ pc' \in {"aborted", "cleanup"}
  BY DEF RemoveNext, CallFails, CanRemove, DoRemove, store
<1> HIDE DEF b
<1>3. Phase \in {"undoing", "removing"} /\ Phase' \in {Phase, Run!Outcome}
  BY <1>1, <1>2, PhaseFacts, NextPhaseFacts DEF Run!Outcome
<1>4. CASE b \in live /\ live' = live \ {b} /\ refused' = refused /\ pc' = pc
  <2>1. Phase' = Phase
    BY <1>1, <1>4, PhaseFacts, NextPhaseFacts
  <2> QED
    BY <1>1, <1>3, <1>4, <2>1 DEF Run!Remove
<1>5. CASE /\ live' = live \/ (b \in live /\ live' = live \ {b})
           /\ refused' = refused \union {b} /\ pc' \in {"aborted", "cleanup"}
  BY <1>1, <1>3, <1>5 DEF Run!Refuse
<1> QED
  BY <1>2, <1>4, <1>5

\* What a complete cleanup has left behind.
LEMMA DoneSim ==
  ASSUME IInv, ErrInv, CleanupDone
  PROVE  Run!Removed
<1>1. /\ pc = "cleanup" /\ pc' = "cleaned" /\ asked = Len(scenarios) /\ err' = err
      /\ UNCHANGED <<live, manifest, refused>>
  BY DEF CleanupDone, store, cleaning
<1>2. Phase = (IF err = "nil" THEN "removing" ELSE "undoing") /\ Phase' = Run!Outcome
  BY <1>1, PhaseFacts, NextPhaseFacts DEF Run!Outcome
<1>3. live \intersect RecordedRange \subseteq refused
  <2>1. ASSUME NEW b \in live \intersect RecordedRange PROVE b \in refused
    <3>1. PICK i \in 1 .. Len(scenarios) : BucketToRemove(i) = b
      BY OrderFacts DEF IInv
    <3> QED
      BY <1>1, <3>1 DEF IInv, AskedInv
  <2> QED
    BY <2>1
<1>4. refused = {} => live = {} \/ (err # "nil" /\ \E b \in Bucket : live = {b})
  <2>1. CASE refused = {} /\ err = "nil"
    BY <1>1, <1>3, <2>1 DEF ErrInv
  <2>2. CASE refused = {} /\ err # "nil"
    <3>1. live \subseteq Bucket /\ live \subseteq 0 .. Len(scenarios) /\ Len(scenarios) \in Nat
      BY RunAssumption DEF IInv, LiveInv, ScenInv, TypeOK, StoreTypeOK
    <3>2. \A c \in 0 .. Len(scenarios) : c \in RecordedRange \/ c = Len(scenarios)
      BY <3>1 DEF RecordedRange
    <3>3. live = {} \/ live = {Len(scenarios)}
      BY <1>3, <2>2, <3>1, <3>2
    <3> QED
      BY <2>2, <3>1, <3>3
  <2> QED
    BY <2>1, <2>2
<1>5. Phase \in {"undoing", "removing"} /\ Run!Bucket = Bucket
  BY <1>2 DEF Bucket, Normal, Run!Bucket
<1>6. \/ refused # {}
      \/ live = {}
      \/ Phase = "undoing" /\ \E b \in Run!Bucket : live = {b}
  BY <1>2, <1>4, <1>5
<1> QED
  BY <1>1, <1>2, <1>5, <1>6 DEF Run!Removed
-----------------------------------------------------------------------------
\* Provision implements IsolatedRun: whatever calls fail and however deep the
\* chain, the suite may rely on the contract alone (gobench/provision.go 26-175).
THEOREM ContractHolds == Spec => Contract
<1>1. Init => Run!Init
  <2> SUFFICES ASSUME Init PROVE Run!Init
    OBVIOUS
  <2>1. pc = "createNormal" /\ live = {} /\ manifest = <<>> /\ refused = {}
    BY DEF Init, StoreInit
  <2>2. Phase = "provisioning"
    BY <2>1, PhaseFacts DEF Early
  <2> QED
    BY <2>1, <2>2 DEF Run!Init
<1>2. IInv /\ ErrInv /\ [Next]_vars => [Run!Next]_(Run!vars)
  <2> SUFFICES ASSUME IInv, ErrInv, [Next]_vars PROVE [Run!Next]_(Run!vars)
    OBVIOUS
  <2>1. CASE CreateNormal \/ CreateRoot
    BY <2>1, CreateSim DEF Run!Next
  <2>2. CASE CreateFork \/ ForkFallback
    BY <2>2, ForkSim DEF Run!Next
  <2>3. CASE SeedPut \/ NextShared \/ NextLocal \/ TakeSnapshot
    BY <2>3, EarlySim DEF Run!Next
  <2>4. CASE WriteManifest
    BY <2>4, ManifestSim DEF Run!Next
  <2>5. CASE KeepBuckets \/ StartCleanup
    BY <2>5, DecideSim DEF Run!Next
  <2>6. CASE RemoveNext
    BY <2>6, RemoveSim DEF Run!Next
  <2>7. CASE CleanupDone
    BY <2>7, DoneSim DEF Run!Next
  <2>8. CASE UNCHANGED vars
    BY <2>8 DEF vars, store, cleaning, Phase, Run!vars
  <2> QED
    BY <2>1, <2>2, <2>3, <2>4, <2>5, <2>6, <2>7, <2>8 DEF Next, Step, Terminated
<1>3. Spec => []ErrInv
  BY InitErrInv, NextErrInv, Invariant, PTL DEF Spec
<1> QED
  BY <1>1, <1>2, <1>3, Invariant, PTL DEF Spec, Contract, Run!Spec
=============================================================================

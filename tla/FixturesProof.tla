----------------------------- MODULE FixturesProof -----------------------------
(***************************************************************************)
(* What the buckets of a run hold when it is handed on, and how they hang  *)
(* together, for every depth of the chain, every set of keys and whichever *)
(* calls fail.  FixInv strengthens ProvisionProof's IInv: the links that   *)
(* the manifest will state are those of the service (LinkInv, EnabledInv,  *)
(* LengthInv), a bucket never holds anything but its fixtures and a        *)
(* snapshot exactly the shared ones (OnlyFixtures, SnapshotsShared), and   *)
(* seeding gets as far as its loop variables say (SeedInv, ForkInv,        *)
(* LocalInv).  The last part is about the TypeScript tool.                 *)
(***************************************************************************)
EXTENDS ProvisionProof, TsProvision

\* The body that bucket b holds for a shared key: its own for the first two
\* buckets, and the root's for every fork.
Seeder(b) == IF b = Normal THEN Normal ELSE Root

\* The shared and the local fixtures of bucket b.
SharedOf(b) == AllShared \X {Seeder(b)}
OwnOf(b) == LocalKeysOf(b) \X {b}

\* Recorded forks hang from the fork before, at a snapshot of that fork, and
\* only the last may be without snapshots of its own.
LinkInv ==
  \A i \in 3 .. Len(scenarios) :
    /\ scenarios[i].forkDepth = i - 2
    /\ scenarios[i].parentBucket = i - 2
    /\ scenarios[i].parentSnapshotVersion \in 1 .. Len(snaps)
    /\ snaps[scenarios[i].parentSnapshotVersion].bucket = i - 2
    /\ i < MaxForkDepth + 2 => scenarios[i].snapshotEnabled

\* Until cleanup starts the service agrees on which forks have snapshots.
EnabledInv ==
  pc \notin {"cleanup", "cleaned", "aborted"} =>
    \A i \in 3 .. Len(scenarios) :
      scenarios[i].snapshotEnabled <=> i - 1 \in snapEnabled

\* The fork loop is left with the chain at its full depth.
LengthInv ==
  pc \in {"local", "manifest", "provisioned", "kept"} => Len(scenarios) = MaxForkDepth + 2

\* No bucket ever holds anything but its fixtures, and every snapshot holds the
\* shared ones, all of them and nothing else.
OnlyFixtures == \A b \in Bucket : objs[b] \subseteq SharedOf(b) \union OwnOf(b)
SnapshotsShared == \A v \in 1 .. Len(snaps) : snaps[v].objs = SharedOf(Root)

\* While the first two buckets are seeded, and before.
SeedInv ==
  /\ pc \in {"createNormal", "createRoot"} =>
       keySet = 1 /\ target = Normal /\ objs[Normal] = {} /\ objs[Root] = {}
  /\ pc = "seed" =>
       /\ \A b \in {Normal, Root} : objs[b] \subseteq SharedOf(b)
       /\ \A i \in 1 .. 4 : i < keySet =>
            \A b \in {Normal, Root} : SharedKeys(i) \X {b} \subseteq objs[b]
       /\ target = Root => SharedKeys(keySet) \X {Normal} \subseteq objs[Normal]
       /\ pending \subseteq SharedKeys(keySet)
       /\ (SharedKeys(keySet) \ pending) \X {target} \subseteq objs[target]

\* While the chain is built every recorded bucket holds the shared fixtures only.
ForkInv ==
  pc \in {"snapshot", "fork", "fallback"} => \A b \in RecordedRange : objs[b] = SharedOf(b)

\* From then on they stay, and the local fixtures come bucket by bucket.
LocalInv ==
  /\ pc = "local" =>
       /\ target \in RecordedRange
       /\ \A b \in RecordedRange :
            /\ SharedOf(b) \subseteq objs[b]
            /\ b < target => OwnOf(b) \subseteq objs[b]
       /\ pending \subseteq LocalKeysOf(target)
       /\ (LocalKeysOf(target) \ pending) \X {target} \subseteq objs[target]
  /\ pc \in {"manifest", "provisioned", "kept"} =>
       \A b \in RecordedRange : SharedOf(b) \union OwnOf(b) \subseteq objs[b]

FixInv ==
  /\ LinkInv
  /\ EnabledInv
  /\ LengthInv
  /\ OnlyFixtures
  /\ SnapshotsShared
  /\ SeedInv
  /\ ForkInv
  /\ LocalInv
-----------------------------------------------------------------------------
\* No snapshot is lost or changed.
SnapsKept ==
  /\ Len(snaps) <= Len(snaps')
  /\ \A v \in 1 .. Len(snaps) : snaps'[v] = snaps[v]

\* A shared key is no local key.
LEMMA KeysApart ==
  /\ \A key \in AllShared : key[1] = NoBucket
  /\ \A b \in Bucket : \A key \in LocalKeysOf(b) : key[1] = b
  /\ \A b \in Bucket : \A key \in LocalKeysOf(b) : key \notin AllShared
<1>1. \A key \in AllShared : key[1] = NoBucket
  BY DEF AllShared, SharedKeys
<1>2. \A b \in Bucket : \A key \in LocalKeysOf(b) : key[1] = b
  BY DEF LocalKeysOf
<1> QED
  BY <1>1, <1>2, BucketFacts

LEMMA SharedFacts == \A i \in 1 .. 4 : SharedKeys(i) \subseteq AllShared
BY DEF AllShared

\* A step that touches neither objects nor snapshots.
LEMMA UntouchedFacts ==
  ASSUME IInv, FixInv, UNCHANGED <<objs, snaps>>
  PROVE  OnlyFixtures' /\ SnapshotsShared' /\ SnapsKept
<1>1. Len(snaps) \in Nat
  BY DEF IInv, TypeOK, StoreTypeOK
<1> QED
  BY <1>1 DEF FixInv, OnlyFixtures, SnapshotsShared, SnapsKept

LEMMA LinkStays ==
  ASSUME IInv, FixInv, UNCHANGED scenarios, SnapsKept
  PROVE  LinkInv'
<1>1. Len(snaps) \in Nat /\ Len(snaps') >= Len(snaps)
  BY DEF SnapsKept, IInv, TypeOK, StoreTypeOK
<1>2. LinkInv
  BY DEF FixInv
<1> QED
  BY <1>1, <1>2 DEF LinkInv, SnapsKept

\* Once the run has given up, or is being removed, little is left to show.
LEMMA GivenUp ==
  ASSUME IInv, FixInv, pc' \in {"cleanup", "cleaned", "aborted"}, UNCHANGED scenarios,
         OnlyFixtures', SnapshotsShared', SnapsKept
  PROVE  FixInv'
<1>1. LinkInv'
  BY LinkStays
<1> QED
  BY <1>1 DEF FixInv, EnabledInv, LengthInv, SeedInv, ForkInv, LocalInv

-----------------------------------------------------------------------------
\* A PutObject adds one fixture: what it might overwrite is the same object.
LEMMA PutFacts ==
  ASSUME IInv, FixInv, NEW key \in pending, DoPut(target, key, target),
         pc \in {"seed", "local"}
  PROVE  /\ objs' = [objs EXCEPT ![target] = @ \union {<<key, target>>}]
         /\ pc = "seed" => <<key, target>> \in SharedOf(target)
         /\ OnlyFixtures' /\ SnapshotsShared' /\ SnapsKept
<1>1. target \in Bucket /\ objs \in [Bucket -> SUBSET (Key \X Bucket)]
  BY DEF IInv, TypeOK, StoreTypeOK, RunTypeOK
<1>2. objs[target] \subseteq SharedOf(target) \union OwnOf(target)
  BY <1>1 DEF FixInv, OnlyFixtures
<1>3. /\ <<key, target>> \in SharedOf(target) \union OwnOf(target)
      /\ pc = "seed" => <<key, target>> \in SharedOf(target)
      /\ \A o \in objs[target] : o[1] = key => o = <<key, target>>
  <2>1. CASE pc = "seed"
    <3>1. key \in AllShared /\ target \in {Normal, Root}
      BY <2>1, SharedFacts DEF FixInv, SeedInv, IInv, LoopInv, TypeOK, RunTypeOK
    <3>2. Seeder(target) = target
      BY <3>1 DEF Seeder
    <3>3. <<key, target>> \in SharedOf(target)
      BY <3>1, <3>2 DEF SharedOf
    <3>4. \A o \in objs[target] : o[1] = key => o = <<key, target>>
      BY <1>1, <1>2, <3>2 DEF SharedOf, OwnOf
    <3> QED
      BY <2>1, <3>3, <3>4
  <2>2. CASE pc = "local"
    <3>1. key \in LocalKeysOf(target)
      BY <2>2 DEF FixInv, LocalInv
    <3>2. <<key, target>> \in OwnOf(target)
      BY <3>1 DEF OwnOf
    <3>3. \A o \in objs[target] : o[1] = key => o = <<key, target>>
      BY <1>1, <1>2, <3>1, KeysApart DEF SharedOf, OwnOf
    <3> QED
      BY <2>2, <3>2, <3>3
  <2> QED
    BY <2>1, <2>2
<1>4. {o \in objs[target] : o[1] # key} \union {<<key, target>>} = objs[target] \union {<<key, target>>}
  BY <1>3
<1>5. objs' = [objs EXCEPT ![target] = @ \union {<<key, target>>}]
  BY <1>4 DEF DoPut
<1>6. OnlyFixtures'
  BY <1>1, <1>3, <1>5 DEF FixInv, OnlyFixtures
<1>7. SnapshotsShared' /\ SnapsKept
  BY DEF DoPut, FixInv, SnapshotsShared, SnapsKept, IInv, TypeOK, StoreTypeOK
<1> QED
  BY <1>3, <1>5, <1>6, <1>7

LEMMA SeedPutFix == IInv /\ FixInv /\ SeedPut => FixInv'
<1> SUFFICES ASSUME IInv, FixInv, SeedPut PROVE FixInv'
  OBVIOUS
<1>1. /\ pc \in {"seed", "local"}
      /\ UNCHANGED <<scenarios, keySet, target>>
  BY DEF SeedPut, run
<1>2. PICK key \in pending :
        \/ DoPut(target, key, target) /\ pending' = pending \ {key} /\ pc' = pc
        \/ pc' = "cleanup" /\ (UNCHANGED store \/ DoPut(target, key, target))
  BY DEF SeedPut, CallFails, GiveUp
<1>3. OnlyFixtures' /\ SnapshotsShared' /\ SnapsKept
  BY <1>1, <1>2, PutFacts, UntouchedFacts DEF store
<1>4. CASE pc' = "cleanup"
  BY <1>1, <1>3, <1>4, GivenUp
<1>5. CASE DoPut(target, key, target) /\ pending' = pending \ {key} /\ pc' = pc
  <2>1. /\ objs' = [objs EXCEPT ![target] = @ \union {<<key, target>>}]
        /\ pc = "seed" => <<key, target>> \in SharedOf(target)
    BY <1>1, <1>5, PutFacts
  <2>2. target \in Bucket /\ objs \in [Bucket -> SUBSET (Key \X Bucket)]
    BY DEF IInv, TypeOK, StoreTypeOK, RunTypeOK
  <2>3. /\ \A b \in Bucket : objs[b] \subseteq objs'[b]
        /\ \A b \in Bucket : b # target => objs'[b] = objs[b]
        /\ objs'[target] = objs[target] \union {<<key, target>>}
    BY <2>1, <2>2
  <2>4. LinkInv' /\ EnabledInv' /\ LengthInv'
    BY <1>1, <1>3, <1>5, LinkStays DEF FixInv, EnabledInv, LengthInv, DoPut
  <2>5. SeedInv'
    <3>1. CASE pc = "seed"
      <4>1. \A b \in {Normal, Root} : objs'[b] \subseteq SharedOf(b)
        BY <2>1, <2>3, <3>1, BucketFacts DEF FixInv, SeedInv
      <4>2. (SharedKeys(keySet) \ pending') \X {target} \subseteq objs'[target]
        BY <1>5, <2>3, <3>1 DEF FixInv, SeedInv
      <4>3. \A i \in 1 .. 4 : i < keySet =>
              \A b \in {Normal, Root} : SharedKeys(i) \X {b} \subseteq objs'[b]
        BY <2>3, <3>1, BucketFacts DEF FixInv, SeedInv
      <4>4. target = Root => SharedKeys(keySet) \X {Normal} \subseteq objs'[Normal]
        BY <2>3, <3>1, BucketFacts DEF FixInv, SeedInv
      <4>5. pending' \subseteq SharedKeys(keySet)
        BY <1>5, <3>1 DEF FixInv, SeedInv
      <4> QED
        BY <1>1, <1>5, <3>1, <4>1, <4>2, <4>3, <4>4, <4>5 DEF SeedInv, SharedKeys
    <3>2. CASE pc = "local"
      BY <1>5, <3>2 DEF SeedInv
    <3> QED
      BY <1>1, <3>1, <3>2
  <2>6. ForkInv'
    BY <1>1, <1>5 DEF ForkInv
  <2>7. LocalInv'
    <3>1. CASE pc = "local"
      <4>1. RecordedRange' = RecordedRange /\ RecordedRange \subseteq Bucket
        BY <1>1, RunAssumption DEF RecordedRange, Bucket, Normal, IInv, ScenInv
      <4>2. /\ target \in RecordedRange
            /\ \A b \in RecordedRange :
                 /\ SharedOf(b) \subseteq objs[b]
                 /\ b < target => OwnOf(b) \subseteq objs[b]
            /\ pending \subseteq LocalKeysOf(target)
            /\ (LocalKeysOf(target) \ pending) \X {target} \subseteq objs[target]
        BY <3>1 DEF FixInv, LocalInv
      <4>3. \A b \in RecordedRange :
                 /\ SharedOf(b) \subseteq objs'[b]
                 /\ b < target => OwnOf(b) \subseteq objs'[b]
        BY <2>3, <4>1, <4>2
      <4>4. (LocalKeysOf(target) \ pending') \X {target} \subseteq objs'[target]
        BY <1>5, <2>3, <4>2
      <4>5. pending' \subseteq LocalKeysOf(target)
        BY <1>5, <4>2
      <4> QED
        BY <1>1, <1>5, <3>1, <4>1, <4>2, <4>3, <4>4, <4>5 DEF LocalInv
    <3>2. CASE pc = "seed"
      BY <1>5, <3>2 DEF LocalInv
    <3> QED
      BY <1>1, <3>1, <3>2
  <2> QED
    BY <1>3, <2>4, <2>5, <2>6, <2>7 DEF FixInv
<1> QED
  BY <1>2, <1>4, <1>5

LEMMA CreateFix == IInv /\ FixInv /\ (CreateNormal \/ CreateRoot) => FixInv'
<1> SUFFICES ASSUME IInv, FixInv, CreateNormal \/ CreateRoot PROVE FixInv'
  OBVIOUS
<1>1. UNCHANGED <<objs, snaps, scenarios, keySet, target>>
  BY DEF CreateNormal, CreateRoot, CallFails, DoCreateBucket, store, run, seeding
<1>2. OnlyFixtures' /\ SnapshotsShared' /\ SnapsKept
  BY <1>1, UntouchedFacts
<1>3. pc \in {"createNormal", "createRoot"} /\ Len(scenarios) = 2
  BY DEF CreateNormal, CreateRoot, IInv, LoopInv
<1>4. LinkInv' /\ EnabledInv'
  BY <1>1, <1>2, <1>3, LinkStays DEF EnabledInv
<1>5. keySet = 1 /\ target = Normal /\ objs[Normal] = {} /\ objs[Root] = {}
  BY <1>3 DEF FixInv, SeedInv
<1>6. CASE pc' = "createRoot"
  BY <1>1, <1>2, <1>4, <1>5, <1>6 DEF FixInv, LengthInv, SeedInv, ForkInv, LocalInv
<1>7. CASE pc' = "seed" /\ pending' = SharedKeys(1)
  <2>1. SeedInv'
    BY <1>1, <1>5, <1>7, BucketFacts DEF SeedInv, Normal, Root, SharedKeys
  <2> QED
    BY <1>2, <1>4, <1>7, <2>1 DEF FixInv, LengthInv, ForkInv, LocalInv
<1>8. CASE pc' \in {"cleanup", "aborted"}
  BY <1>1, <1>2, <1>8, GivenUp
<1> QED
  BY <1>6, <1>7, <1>8 DEF CreateNormal, CreateRoot, GiveUp

\* With the last key set in the root the first two buckets hold all of them.
LEMMA SeededFacts ==
  ASSUME IInv, FixInv, pc = "seed", pending = {}, target = Root, keySet = 4
  PROVE  \A b \in {Normal, Root} : objs[b] = SharedOf(b)
<1>1. ASSUME NEW b \in {Normal, Root}, NEW i \in 1 .. 4
      PROVE  SharedKeys(i) \X {b} \subseteq objs[b]
  <2>1. CASE i < 4
    BY <2>1 DEF FixInv, SeedInv
  <2>2. CASE i = 4
    BY <2>2 DEF FixInv, SeedInv
  <2> QED
    BY <2>1, <2>2
<1>2. ASSUME NEW b \in {Normal, Root} PROVE AllShared \X {b} \subseteq objs[b]
  BY <1>1, <1>2 DEF AllShared
<1> QED
  BY <1>2 DEF FixInv, SeedInv, SharedOf, Seeder

LEMMA NextSharedFix == IInv /\ FixInv /\ NextShared => FixInv'
<1> SUFFICES ASSUME IInv, FixInv, NextShared PROVE FixInv'
  OBVIOUS
<1>1. /\ UNCHANGED <<live, snapEnabled, objs, snaps, scenarios>>
      /\ pc = "seed" /\ pending = {} /\ Len(scenarios) = 2 /\ scenarios[1].bucket = Normal
      /\ keySet \in 1 .. 4
  BY DEF NextShared, store, IInv, LoopInv, ScenInv, TypeOK, RunTypeOK, Normal
<1>2. OnlyFixtures' /\ SnapshotsShared' /\ SnapsKept
  BY <1>1, UntouchedFacts
<1>3. LinkInv' /\ EnabledInv'
  BY <1>1, <1>2, LinkStays DEF FixInv, EnabledInv
<1>4. \A b \in {Normal, Root} : objs[b] \subseteq SharedOf(b)
  BY <1>1 DEF FixInv, SeedInv
<1>5. \A i \in 1 .. 4 : i < keySet =>
        \A b \in {Normal, Root} : SharedKeys(i) \X {b} \subseteq objs[b]
  BY <1>1 DEF FixInv, SeedInv
<1>6. SharedKeys(keySet) \X {target} \subseteq objs[target]
  BY <1>1 DEF FixInv, SeedInv
<1>7. CASE target = Normal /\ target' = Root /\ pending' = SharedKeys(keySet)
           /\ UNCHANGED <<pc, keySet>>
  <2>1. SeedInv'
    BY <1>1, <1>4, <1>5, <1>6, <1>7 DEF SeedInv, SharedKeys
  <2> QED
    BY <1>1, <1>2, <1>3, <1>7, <2>1 DEF FixInv, LengthInv, ForkInv, LocalInv
<1>8. CASE target = Root /\ keySet < 4 /\ keySet' = keySet + 1 /\ target' = Normal
           /\ pending' = SharedKeys(keySet + 1) /\ UNCHANGED pc
  <2>1. \A b \in {Normal, Root} : SharedKeys(keySet) \X {b} \subseteq objs[b]
    BY <1>1, <1>6, <1>8 DEF FixInv, SeedInv
  <2>2. \A i \in 1 .. 4 : i < keySet + 1 =>
          \A b \in {Normal, Root} : SharedKeys(i) \X {b} \subseteq objs[b]
    <3>1. \A i \in 1 .. 4 : i < keySet + 1 => i < keySet \/ i = keySet
      BY <1>1
    <3> QED
      BY <3>1, <2>1, <1>5
  <2>3. SeedInv'
    <3>1. pending' = SharedKeys(keySet)'
      BY <1>8 DEF SharedKeys
    <3> QED
      BY <1>1, <1>4, <1>8, <2>2, <3>1 DEF SeedInv, Normal, Root, SharedKeys
  <2> QED
    BY <1>1, <1>2, <1>3, <1>8, <2>3 DEF FixInv, LengthInv, ForkInv, LocalInv
<1>9. CASE target = Root /\ keySet = 4 /\ ForkLoop(1)
  <2>1. \A b \in {Normal, Root} : objs[b] = SharedOf(b)
    BY <1>1, <1>9, SeededFacts
  <2>2. RecordedRange' = {Normal, Root}
    BY <1>1 DEF RecordedRange, Normal, Root
  <2>3. CASE pc' = "snapshot"
    <3>1. ForkInv'
      BY <1>1, <2>1, <2>2 DEF ForkInv, SharedOf, AllShared, SharedKeys
    <3> QED
      BY <1>2, <1>3, <2>3, <3>1 DEF FixInv, LengthInv, SeedInv, LocalInv
  <2>4. CASE 1 > MaxForkDepth /\ pc' = "local" /\ target' = Normal
             /\ pending' = LocalKeysOf(Normal)
    <3>1. Len(scenarios)' = MaxForkDepth + 2
      BY <1>1, <2>4, RunAssumption
    <3>2. LocalInv'
      BY <1>1, <2>1, <2>2, <2>4 DEF LocalInv, Normal, Root
    <3> QED
      BY <1>2, <1>3, <2>4, <3>1, <3>2 DEF FixInv, LengthInv, SeedInv, ForkInv
  <2> QED
    BY <1>1, <1>9, <2>3, <2>4 DEF ForkLoop
<1> QED
  BY <1>7, <1>8, <1>9 DEF NextShared

\* What is snapshotted holds the shared fixtures, and is no normal bucket.
LEMMA SnapshotEffect ==
  ASSUME IInv, FixInv, pc = "snapshot", UNCHANGED store \/ DoSnapshot(parentScenario)
  PROVE  OnlyFixtures' /\ SnapshotsShared' /\ SnapsKept
<1>1. CASE UNCHANGED store
  BY <1>1, UntouchedFacts DEF store
<1>2. CASE DoSnapshot(parentScenario)
  <2>1. parentScenario \in RecordedRange /\ parentScenario # Normal
    BY RunAssumption DEF IInv, LoopInv, RecordedRange, Normal
  <2>2. objs[parentScenario] = SharedOf(Root)
    BY <2>1 DEF FixInv, ForkInv, SharedOf, Seeder, Normal, Root
  <2> DEFINE new == [bucket |-> parentScenario, objs |-> objs[parentScenario]]
  <2>3. /\ snaps' = Append(snaps, new) /\ new.objs = SharedOf(Root)
        /\ snaps \in Seq([bucket : Bucket, objs : SUBSET (Key \X Bucket)])
    BY <1>2, <2>2 DEF DoSnapshot, IInv, TypeOK, StoreTypeOK
  <2> HIDE DEF new
  <2>4. /\ Len(snaps') = Len(snaps) + 1
        /\ \A v \in 1 .. Len(snaps) : snaps'[v] = snaps[v]
        /\ snaps'[Len(snaps) + 1] = new
    BY <2>3, AppendProperties
  <2>5. Len(snaps) \in Nat
    BY <2>3
  <2>6. SnapshotsShared'
    <3> SUFFICES ASSUME NEW v \in 1 .. Len(snaps') PROVE snaps'[v].objs = SharedOf(Root)
      BY DEF SnapshotsShared, SharedOf, AllShared, SharedKeys, Seeder
    <3>1. v \in 1 .. Len(snaps) \/ v = Len(snaps) + 1
      BY <2>4, <2>5
    <3> QED
      BY <3>1, <2>3, <2>4 DEF FixInv, SnapshotsShared
  <2>7. OnlyFixtures'
    BY <1>2 DEF DoSnapshot, FixInv, OnlyFixtures
  <2> QED
    BY <2>4, <2>5, <2>6, <2>7 DEF SnapsKept
<1> QED
  BY <1>1, <1>2

LEMMA TakeSnapshotFix == IInv /\ FixInv /\ TakeSnapshot => FixInv'
<1> SUFFICES ASSUME IInv, FixInv, TakeSnapshot PROVE FixInv'
  OBVIOUS
<1>1. /\ pc = "snapshot" /\ UNCHANGED scenarios
      /\ UNCHANGED store \/ DoSnapshot(parentScenario)
  BY DEF TakeSnapshot, CallFails
<1>2. OnlyFixtures' /\ SnapshotsShared' /\ SnapsKept
  BY <1>1, SnapshotEffect
<1>3. LinkInv' /\ EnabledInv'
  BY <1>1, <1>2, LinkStays DEF FixInv, EnabledInv, store, DoSnapshot
<1>4. CASE pc' = "fork"
  <2>1. UNCHANGED objs
    BY <1>1 DEF store, DoSnapshot
  <2>2. ForkInv'
    BY <1>1, <2>1 DEF FixInv, ForkInv, RecordedRange, SharedOf, AllShared, SharedKeys
  <2> QED
    BY <1>2, <1>3, <1>4, <2>2 DEF FixInv, LengthInv, SeedInv, LocalInv
<1>5. CASE pc' = "cleanup"
  BY <1>1, <1>2, <1>5, GivenUp
<1> QED
  BY <1>4, <1>5 DEF TakeSnapshot, GiveUp

\* What a fork request leaves in the service once the call has come back.
LEMMA ForkContents ==
  ASSUME IInv, FixInv, NEW e \in BOOLEAN, pc \in {"fork", "fallback"},
         \/ UNCHANGED store
         \/ /\ CanFork(Child, parentScenario, snapshotVersion)
            /\ DoFork(Child, parentScenario, snapshotVersion, e)
  PROVE  /\ OnlyFixtures' /\ SnapshotsShared' /\ SnapsKept
         /\ \A b \in RecordedRange : objs'[b] = SharedOf(b)
         /\ \A b \in RecordedRange : b \in snapEnabled' <=> b \in snapEnabled
         /\ DoFork(Child, parentScenario, snapshotVersion, e)
              /\ CanFork(Child, parentScenario, snapshotVersion) =>
                /\ objs'[Child] = SharedOf(Child)
                /\ Child \in snapEnabled' <=> e
<1>1. /\ depth \in 1 .. MaxForkDepth /\ Len(scenarios) = depth + 1
      /\ Child = depth + 1 /\ Child \in Bucket /\ Child # Normal
      /\ RecordedRange \subseteq Bucket /\ Child \notin RecordedRange
  BY RunAssumption DEF IInv, LoopInv, Child, Bucket, Normal, RecordedRange
<1>2. objs \in [Bucket -> SUBSET (Key \X Bucket)] /\ snapEnabled \subseteq live
  BY DEF IInv, TypeOK, StoreTypeOK
<1>3. \A b \in RecordedRange : objs[b] = SharedOf(b)
  BY DEF FixInv, ForkInv
<1>4. CASE UNCHANGED store /\ ~(/\ DoFork(Child, parentScenario, snapshotVersion, e)
                                /\ CanFork(Child, parentScenario, snapshotVersion))
  BY <1>3, <1>4, UntouchedFacts DEF store
<1>5. CASE /\ CanFork(Child, parentScenario, snapshotVersion)
           /\ DoFork(Child, parentScenario, snapshotVersion, e)
  <2>1. snaps[snapshotVersion].objs = SharedOf(Root)
    BY <1>5 DEF CanFork, FixInv, SnapshotsShared
  <2>2. SharedOf(Child) = SharedOf(Root)
    BY <1>1 DEF SharedOf, Seeder, Root, Normal
  <2>3. objs' = [objs EXCEPT ![Child] = SharedOf(Child)]
    BY <1>5, <2>1, <2>2 DEF DoFork
  <2>4. /\ objs'[Child] = SharedOf(Child)
        /\ \A b \in Bucket : b # Child => objs'[b] = objs[b]
    BY <1>1, <1>2, <2>3
  <2>5. OnlyFixtures'
    BY <2>4 DEF FixInv, OnlyFixtures
  <2>6. SnapshotsShared' /\ SnapsKept
    BY <1>5 DEF DoFork, FixInv, SnapshotsShared, SnapsKept, IInv, TypeOK, StoreTypeOK
  <2>7. Child \notin snapEnabled
    BY <1>2, <1>5 DEF CanFork
  <2>8. /\ Child \in snapEnabled' <=> e
        /\ \A b \in RecordedRange : b \in snapEnabled' <=> b \in snapEnabled
    BY <1>1, <1>5, <2>7 DEF DoFork
  <2> QED
    BY <1>1, <1>3, <2>4, <2>5, <2>6, <2>8
<1> QED
  BY <1>4, <1>5

\* A recorded child is one more link of the chain.
LEMMA RecordLink ==
  ASSUME IInv, FixInv, NEW e \in BOOLEAN, pc \in {"fork", "fallback"}, RecordChild(e),
         CanFork(Child, parentScenario, snapshotVersion), UNCHANGED snaps,
         e \/ depth = MaxForkDepth
  PROVE  /\ LinkInv' /\ LengthInv'
         /\ Len(scenarios)' = Len(scenarios) + 1
         /\ \A k \in 1 .. Len(scenarios) : scenarios'[k] = scenarios[k]
         /\ scenarios'[Child + 1].snapshotEnabled = e
<1>1. /\ depth \in 1 .. MaxForkDepth /\ Len(scenarios) = depth + 1
      /\ parentScenario = depth /\ scenarios \in Seq(ScenarioSet)
      /\ Child = depth + 1 /\ Child # Normal
  BY RunAssumption DEF IInv, LoopInv, TypeOK, RunTypeOK, Child, Normal
<1> DEFINE new == Scenario(Child, e, parentScenario, snapshotVersion)
<1>2. /\ new.forkDepth = depth /\ new.snapshotEnabled = e
      /\ new.parentBucket = depth /\ new.parentSnapshotVersion = snapshotVersion
  BY <1>1, RunAssumption DEF Scenario
<1>3. scenarios' = Append(scenarios, new)
  BY DEF RecordChild
<1> HIDE DEF new
<1>4. /\ Len(scenarios') = Len(scenarios) + 1
      /\ \A k \in 1 .. Len(scenarios) : scenarios'[k] = scenarios[k]
      /\ scenarios'[Len(scenarios) + 1] = new
  BY <1>1, <1>3
<1>5. snapshotVersion \in 1 .. Len(snaps) /\ snaps[snapshotVersion].bucket = depth
  BY <1>1 DEF CanFork
<1>6. ASSUME NEW i \in 3 .. Len(scenarios')
      PROVE  /\ scenarios'[i].forkDepth = i - 2
             /\ scenarios'[i].parentBucket = i - 2
             /\ scenarios'[i].parentSnapshotVersion \in 1 .. Len(snaps)
             /\ snaps[scenarios'[i].parentSnapshotVersion].bucket = i - 2
             /\ i < MaxForkDepth + 2 => scenarios'[i].snapshotEnabled
  <2>1. CASE i \in 3 .. Len(scenarios)
    BY <1>1, <1>4, <2>1 DEF FixInv, LinkInv
  <2>2. CASE i = depth + 2
    <3>1. scenarios'[i] = new /\ i - 2 = depth
      BY <1>1, <1>4, <2>2, RunAssumption
    <3>2. i < MaxForkDepth + 2 => e
      BY <1>1, <2>2, RunAssumption
    <3> QED
      BY <1>2, <1>5, <3>1, <3>2
  <2> QED
    BY <1>1, <1>4, <2>1, <2>2, RunAssumption
<1>7. LengthInv'
  <2>1. pc' = "snapshot" \/ (pc' = "local" /\ depth + 1 > MaxForkDepth)
    BY DEF RecordChild, ForkLoop
  <2> QED
    BY <1>1, <1>4, <2>1, RunAssumption DEF LengthInv
<1> QED
  BY <1>1, <1>2, <1>4, <1>6, <1>7 DEF LinkInv

LEMMA RecordFix ==
  ASSUME IInv, FixInv, NEW e \in BOOLEAN, pc \in {"fork", "fallback"}, RecordChild(e),
         CanFork(Child, parentScenario, snapshotVersion),
         DoFork(Child, parentScenario, snapshotVersion, e),
         e \/ depth = MaxForkDepth
  PROVE  FixInv'
<1>1. /\ depth \in 1 .. MaxForkDepth /\ Len(scenarios) = depth + 1
      /\ Child = depth + 1 /\ scenarios[1].bucket = Normal
  BY RunAssumption DEF IInv, LoopInv, ScenInv, Child, Normal
<1>2. /\ OnlyFixtures' /\ SnapshotsShared'
      /\ \A b \in RecordedRange : objs'[b] = SharedOf(b)
      /\ \A b \in RecordedRange : b \in snapEnabled' <=> b \in snapEnabled
      /\ objs'[Child] = SharedOf(Child)
      /\ Child \in snapEnabled' <=> e
  BY ForkContents
<1>3. /\ LinkInv' /\ LengthInv'
      /\ Len(scenarios)' = Len(scenarios) + 1
      /\ \A k \in 1 .. Len(scenarios) : scenarios'[k] = scenarios[k]
      /\ scenarios'[Child + 1].snapshotEnabled = e
  BY RecordLink DEF DoFork
<1>4. /\ RecordedRange' = RecordedRange \union {Child}
      /\ Normal \in RecordedRange /\ RecordedRange' \subseteq Nat
  BY <1>1, <1>3, RunAssumption DEF RecordedRange, Normal
<1>5. \A b \in RecordedRange' : objs'[b] = SharedOf(b)
  BY <1>2, <1>4
<1>6. EnabledInv'
  <2> SUFFICES ASSUME NEW i \in 3 .. Len(scenarios')
               PROVE  scenarios'[i].snapshotEnabled <=> i - 1 \in snapEnabled'
    BY DEF EnabledInv
  <2>1. CASE i \in 3 .. Len(scenarios)
    <3>1. i - 1 \in RecordedRange
      BY <2>1, <1>1, RunAssumption DEF RecordedRange
    <3>2. scenarios[i].snapshotEnabled <=> i - 1 \in snapEnabled
      BY <2>1 DEF FixInv, EnabledInv
    <3>3. scenarios'[i] = scenarios[i]
      BY <1>1, <1>3, <2>1
    <3> QED
      BY <1>2, <3>1, <3>2, <3>3
  <2>2. CASE i = Child + 1
    <3>1. i - 1 = Child
      BY <1>1, <2>2
    <3> QED
      BY <1>2, <1>3, <2>2, <3>1
  <2> QED
    BY <1>1, <1>3, <2>1, <2>2
<1>7. CASE pc' = "snapshot"
  <2>1. ForkInv'
    BY <1>5 DEF ForkInv, SharedOf, AllShared, SharedKeys
  <2> QED
    BY <1>2, <1>3, <1>6, <1>7, <2>1 DEF FixInv, SeedInv, LocalInv
<1>8. CASE pc' = "local" /\ target' = Normal /\ pending' = LocalKeysOf(Normal)
  <2>1. LocalInv'
    BY <1>4, <1>5, <1>8 DEF LocalInv, Normal
  <2> QED
    BY <1>2, <1>3, <1>6, <1>8, <2>1 DEF FixInv, SeedInv, ForkInv
<1> QED
  BY <1>1, <1>7, <1>8 DEF RecordChild, ForkLoop

\* The preferred request failed: whatever it left, the chain is as it was.
LEMMA FallbackFix ==
  ASSUME IInv, FixInv, pc = "fork", pc' = "fallback", UNCHANGED scenarios,
         \/ UNCHANGED store
         \/ /\ CanFork(Child, parentScenario, snapshotVersion)
            /\ DoFork(Child, parentScenario, snapshotVersion, TRUE)
  PROVE  FixInv'
<1>1. /\ OnlyFixtures' /\ SnapshotsShared' /\ SnapsKept
      /\ \A b \in RecordedRange : objs'[b] = SharedOf(b)
      /\ \A b \in RecordedRange : b \in snapEnabled' <=> b \in snapEnabled
  BY ForkContents
<1>2. LinkInv'
  BY <1>1, LinkStays
<1>3. EnabledInv'
  <2> SUFFICES ASSUME NEW i \in 3 .. Len(scenarios)
               PROVE  scenarios[i].snapshotEnabled <=> i - 1 \in snapEnabled'
    BY DEF EnabledInv
  <2>1. i - 1 \in RecordedRange
    BY RunAssumption DEF RecordedRange, IInv, ScenInv
  <2> QED
    BY <1>1, <2>1 DEF FixInv, EnabledInv
<1>4. ForkInv'
  BY <1>1 DEF ForkInv, RecordedRange, SharedOf, AllShared, SharedKeys
<1> QED
  BY <1>1, <1>2, <1>3, <1>4 DEF FixInv, LengthInv, SeedInv, LocalInv

LEMMA CreateForkFix == IInv /\ FixInv /\ CreateFork => FixInv'
<1> SUFFICES ASSUME IInv, FixInv, CreateFork PROVE FixInv'
  OBVIOUS
<1>1. pc = "fork"
  BY DEF CreateFork
<1>2. CASE /\ CanFork(Child, parentScenario, snapshotVersion)
           /\ DoFork(Child, parentScenario, snapshotVersion, TRUE)
           /\ RecordChild(TRUE)
  BY <1>1, <1>2, RecordFix
<1>3. CASE /\ CallFails("createForkSnapshotEnabled",
                        CanFork(Child, parentScenario, snapshotVersion),
                        DoFork(Child, parentScenario, snapshotVersion, TRUE))
           /\ pc' = "fallback" /\ UNCHANGED scenarios
  BY <1>1, <1>3, FallbackFix DEF CallFails
<1> QED
  BY <1>2, <1>3 DEF CreateFork

LEMMA ForkFallbackFix == IInv /\ FixInv /\ ForkFallback => FixInv'
<1> SUFFICES ASSUME IInv, FixInv, ForkFallback PROVE FixInv'
  OBVIOUS
<1>1. pc = "fallback"
  BY DEF ForkFallback
<1>2. CASE /\ depth = MaxForkDepth /\ RecordChild(FALSE)
           /\ CanFork(Child, parentScenario, snapshotVersion)
           /\ DoFork(Child, parentScenario, snapshotVersion, FALSE)
  BY <1>1, <1>2, RecordFix
<1>3. CASE /\ pc' = "cleanup" /\ UNCHANGED scenarios
           /\ \/ UNCHANGED store
              \/ /\ CanFork(Child, parentScenario, snapshotVersion)
                 /\ DoFork(Child, parentScenario, snapshotVersion, FALSE)
  <2>1. OnlyFixtures' /\ SnapshotsShared' /\ SnapsKept
    BY <1>1, <1>3, ForkContents
  <2> QED
    BY <1>3, <2>1, GivenUp
<1> QED
  BY <1>2, <1>3 DEF ForkFallback, CallFails, GiveUp

LEMMA NextLocalFix == IInv /\ FixInv /\ NextLocal => FixInv'
<1> SUFFICES ASSUME IInv, FixInv, NextLocal PROVE FixInv'
  OBVIOUS
<1>1. /\ UNCHANGED <<snapEnabled, objs, snaps, scenarios>>
      /\ pc = "local" /\ pending = {}
      /\ Len(scenarios) \in 2 .. MaxForkDepth + 2
      /\ RecordedRange' = RecordedRange
  BY DEF NextLocal, store, run, IInv, ScenInv, RecordedRange
<1>2. OnlyFixtures' /\ SnapshotsShared' /\ SnapsKept
  BY <1>1, UntouchedFacts
<1>3. LinkInv' /\ EnabledInv'
  BY <1>1, <1>2, LinkStays DEF NextLocal, FixInv, EnabledInv
<1>4. /\ target \in RecordedRange
      /\ \A b \in RecordedRange :
           /\ SharedOf(b) \subseteq objs[b]
           /\ b < target => OwnOf(b) \subseteq objs[b]
      /\ OwnOf(target) \subseteq objs[target]
  BY <1>1 DEF FixInv, LocalInv, OwnOf
<1>5. \A b \in RecordedRange : b \in Int
  BY <1>1, RunAssumption DEF RecordedRange
<1>6. CASE target < Len(scenarios) - 1 /\ target' = target + 1
           /\ pending' = LocalKeysOf(target + 1) /\ UNCHANGED pc
  <2>1. target + 1 \in RecordedRange
    BY <1>1, <1>4, <1>6, RunAssumption DEF RecordedRange
  <2>2. \A b \in RecordedRange : b < target + 1 => OwnOf(b) \subseteq objs[b]
    <3>1. \A b \in RecordedRange : b < target + 1 => b < target \/ b = target
      BY <1>4, <1>5
    <3> QED
      BY <1>4, <3>1
  <2>3. LocalInv'
    BY <1>1, <1>4, <1>6, <2>1, <2>2
       DEF LocalInv, SharedOf, AllShared, SharedKeys, OwnOf, LocalKeysOf
  <2> QED
    BY <1>1, <1>2, <1>3, <1>6, <2>3 DEF FixInv, LengthInv, SeedInv, ForkInv
<1>7. CASE target = Len(scenarios) - 1 /\ pc' = "manifest"
  <2>1. \A b \in RecordedRange : b < target \/ b = target
    BY <1>1, <1>5, <1>7, RunAssumption DEF RecordedRange
  <2>2. \A b \in RecordedRange : SharedOf(b) \union OwnOf(b) \subseteq objs[b]
    BY <1>4, <2>1
  <2>3. LocalInv'
    BY <1>1, <1>7, <2>2 DEF LocalInv, SharedOf, AllShared, SharedKeys, OwnOf, LocalKeysOf
  <2> QED
    BY <1>1, <1>2, <1>3, <1>7, <2>3 DEF FixInv, LengthInv, SeedInv, ForkInv
<1> QED
  BY <1>6, <1>7 DEF NextLocal

LEMMA WrittenFix ==
  IInv /\ FixInv /\ (WriteManifest \/ KeepBuckets \/ StartCleanup \/ CleanupDone) => FixInv'
<1> SUFFICES ASSUME IInv, FixInv,
                    WriteManifest \/ KeepBuckets \/ StartCleanup \/ CleanupDone
             PROVE  FixInv'
  OBVIOUS
<1>1. UNCHANGED <<snapEnabled, objs, snaps, scenarios>> /\ RecordedRange' = RecordedRange
  BY DEF WriteManifest, KeepBuckets, StartCleanup, CleanupDone, store, run, RecordedRange
<1>2. OnlyFixtures' /\ SnapshotsShared' /\ SnapsKept
  BY <1>1, UntouchedFacts
<1>3. CASE pc \in {"manifest", "provisioned"} /\ pc' \in {"provisioned", "kept"}
  <2>1. LinkInv' /\ EnabledInv'
    BY <1>1, <1>2, <1>3, LinkStays DEF FixInv, EnabledInv
  <2>2. LocalInv'
    BY <1>1, <1>3
       DEF FixInv, LocalInv, SharedOf, AllShared, SharedKeys, OwnOf, LocalKeysOf
  <2> QED
    BY <1>1, <1>2, <1>3, <2>1, <2>2 DEF FixInv, LengthInv, SeedInv, ForkInv
<1>4. CASE pc' \in {"cleanup", "cleaned"}
  BY <1>1, <1>2, <1>4, GivenUp
<1> QED
  BY <1>3, <1>4 DEF WriteManifest, KeepBuckets, StartCleanup, CleanupDone, GiveUp

LEMMA RemoveNextFix == IInv /\ FixInv /\ RemoveNext => FixInv'
<1> SUFFICES ASSUME IInv, FixInv, RemoveNext PROVE FixInv'
  OBVIOUS
<1>1. /\ pc' \in {"cleanup", "aborted"} /\ UNCHANGED <<scenarios, snaps>>
      /\ UNCHANGED store \/ \E b : DoRemove(b)
  BY DEF RemoveNext, CallFails, run, store, DoRemove
<1>2. \A b \in Bucket : objs'[b] \subseteq objs[b]
  BY <1>1 DEF store, DoRemove, IInv, TypeOK, StoreTypeOK
<1>3. OnlyFixtures'
  BY <1>2 DEF FixInv, OnlyFixtures
<1>4. SnapshotsShared' /\ SnapsKept
  BY <1>1 DEF FixInv, SnapshotsShared, SnapsKept, IInv, TypeOK, StoreTypeOK
<1> QED
  BY <1>1, <1>3, <1>4, GivenUp

LEMMA InitFix == Init => FixInv
<1> SUFFICES ASSUME Init PROVE FixInv
  OBVIOUS
<1>1. /\ pc = "createNormal" /\ Len(scenarios) = 2 /\ snaps = <<>>
      /\ \A b \in Bucket : objs[b] = {}
      /\ keySet = 1 /\ target = Normal
  BY DEF Init, StoreInit
<1> QED
  BY <1>1, BucketFacts
     DEF FixInv, LinkInv, EnabledInv, LengthInv, OnlyFixtures, SnapshotsShared, SeedInv,
         ForkInv, LocalInv

LEMMA NextFix == IInv /\ FixInv /\ [Next]_vars => FixInv'
<1> SUFFICES ASSUME IInv, FixInv, [Next]_vars PROVE FixInv'
  OBVIOUS
<1>1. CASE CreateNormal \/ CreateRoot
  BY <1>1, CreateFix
<1>2. CASE SeedPut
  BY <1>2, SeedPutFix
<1>3. CASE NextShared
  BY <1>3, NextSharedFix
<1>4. CASE NextLocal
  BY <1>4, NextLocalFix
<1>5. CASE TakeSnapshot
  BY <1>5, TakeSnapshotFix
<1>6. CASE CreateFork
  BY <1>6, CreateForkFix
<1>7. CASE ForkFallback
  BY <1>7, ForkFallbackFix
<1>8. CASE WriteManifest \/ KeepBuckets \/ StartCleanup \/ CleanupDone
  BY <1>8, WrittenFix
<1>9. CASE RemoveNext
  BY <1>9, RemoveNextFix
<1>10. CASE UNCHANGED vars
  BY <1>10
     DEF vars, store, run, seeding, FixInv, LinkInv, EnabledInv, LengthInv, OnlyFixtures,
         SnapshotsShared, SeedInv, ForkInv, LocalInv, RecordedRange
<1> QED
  BY <1>1, <1>2, <1>3, <1>4, <1>5, <1>6, <1>7, <1>8, <1>9, <1>10
     DEF Next, Step, Terminated

LEMMA FixInvariant == Spec => [](IInv /\ FixInv)
<1>1. Init => IInv /\ FixInv
  BY InitIInv, InitFix
<1>2. IInv /\ FixInv /\ [Next]_vars => (IInv /\ FixInv)'
  BY NextIInv, NextFix
<1> QED
  BY <1>1, <1>2, PTL DEF Spec
-----------------------------------------------------------------------------
(***************************************************************************)
(* The properties.                                                         *)
(***************************************************************************)

\* Until the run is removed a recorded bucket holds its fixtures, all of them
\* and nothing else.
LEMMA ContentsFacts ==
  ASSUME IInv, FixInv, Usable, NEW i \in 1 .. Len(scenarios)
  PROVE  /\ scenarios[i].bucket = i - 1 /\ i - 1 \in Bucket
         /\ objs[i - 1] = SharedOf(i - 1) \union OwnOf(i - 1)
<1>1. scenarios[i].bucket = i - 1 /\ i - 1 \in RecordedRange /\ i - 1 \in Bucket
  BY RunAssumption DEF IInv, ScenInv, RecordedRange, Bucket, Normal
<1>2. SharedOf(i - 1) \union OwnOf(i - 1) \subseteq objs[i - 1]
  BY <1>1 DEF Usable, FixInv, LocalInv
<1> QED
  BY <1>1, <1>2 DEF FixInv, OnlyFixtures

\* Every bucket of a run that is handed on serves every shared fixture, at any
\* depth (gobench/provision.go 88-101): the root is seeded before the first
\* snapshot, and no snapshot ever holds less than the root did then.
THEOREM InheritedFixturesHolds == Spec => []InheritedFixtures
<1>1. ASSUME IInv, FixInv, Usable, NEW i \in 1 .. Len(scenarios), NEW key \in AllShared
      PROVE  <<key, IF i = 1 THEN Normal ELSE Root>> \in objs[scenarios[i].bucket]
  <2>1. scenarios[i].bucket = i - 1 /\ SharedOf(i - 1) \subseteq objs[i - 1]
    BY <1>1, ContentsFacts
  <2>2. Seeder(i - 1) = IF i = 1 THEN Normal ELSE Root
    BY DEF Seeder, Normal
  <2> QED
    BY <2>1, <2>2 DEF SharedOf
<1>2. IInv /\ FixInv => InheritedFixtures
  BY <1>1 DEF InheritedFixtures
<1> QED
  BY <1>2, FixInvariant, PTL

\* The local fixtures of a bucket are its own writes, and none of another
\* bucket's reached it through a fork (gobench/provision.go 99-143).
THEOREM LocalFixturesHolds == Spec => []LocalFixtures
<1>1. ASSUME IInv, FixInv, Usable, NEW i \in 1 .. Len(scenarios)
      PROVE  {o \in objs[scenarios[i].bucket] : o[1] \notin AllShared}
               = LocalKeysOf(scenarios[i].bucket) \X {scenarios[i].bucket}
  <2> DEFINE b == i - 1
  <2>1. scenarios[i].bucket = b /\ b \in Bucket /\ objs[b] = SharedOf(b) \union OwnOf(b)
    BY <1>1, ContentsFacts
  <2>2. \A o \in SharedOf(b) : o[1] \in AllShared
    BY DEF SharedOf
  <2>3. \A o \in OwnOf(b) : o[1] \notin AllShared
    BY <2>1, KeysApart DEF OwnOf
  <2>4. {o \in objs[b] : o[1] \notin AllShared} = OwnOf(b)
    BY <2>1, <2>2, <2>3
  <2> QED
    BY <2>1, <2>4 DEF OwnOf
<1>2. IInv /\ FixInv => LocalFixtures
  BY <1>1 DEF LocalFixtures
<1> QED
  BY <1>2, FixInvariant, PTL

\* The chain that is handed on has the depth asked for, each fork made from the
\* one before it at the snapshot the manifest names, and only its end may be
\* without snapshots (gobench/provision.go 99-132).
THEOREM ChainNotFlattenedHolds == Spec => []ChainNotFlattened
<1>1. ASSUME IInv, FixInv, Usable
      PROVE  Len(scenarios) = MaxForkDepth + 2
  BY <1>1 DEF FixInv, LengthInv, Usable
<1>2. ASSUME IInv, FixInv, Usable, NEW i \in 3 .. Len(scenarios)
      PROVE  /\ scenarios[i].forkDepth = i - 2
             /\ scenarios[i].parentBucket = scenarios[i - 1].bucket
             /\ parent[scenarios[i].bucket] = scenarios[i].parentBucket
             /\ scenarios[i].parentSnapshotVersion \in 1 .. Len(snaps)
             /\ snaps[scenarios[i].parentSnapshotVersion].bucket = scenarios[i].parentBucket
             /\ scenarios[i].snapshotEnabled <=> scenarios[i].bucket \in snapEnabled
             /\ i < Len(scenarios) => scenarios[i].snapshotEnabled
  <2>1. /\ scenarios[i].forkDepth = i - 2
        /\ scenarios[i].parentBucket = i - 2
        /\ scenarios[i].parentSnapshotVersion \in 1 .. Len(snaps)
        /\ snaps[scenarios[i].parentSnapshotVersion].bucket = i - 2
        /\ i < MaxForkDepth + 2 => scenarios[i].snapshotEnabled
    BY <1>2 DEF FixInv, LinkInv
  <2>2. scenarios[i].snapshotEnabled <=> i - 1 \in snapEnabled
    BY <1>2 DEF FixInv, EnabledInv, Usable
  <2>3. scenarios[i].bucket = i - 1 /\ scenarios[i - 1].bucket = i - 2
    BY <1>2, RunAssumption DEF IInv, ScenInv
  <2>4. i - 1 \in Bucket /\ i - 1 \in live /\ i - 1 \notin {Normal, Root}
    BY <1>2, RunAssumption
       DEF IInv, ScenInv, LiveInv, Usable, RecordedRange, Bucket, Normal, Root
  <2>5. parent[i - 1] = i - 2
    BY <1>2, <2>4, RunAssumption DEF IInv, ParentInv
  <2> QED
    BY <1>1, <1>2, <2>1, <2>2, <2>3, <2>5
<1>3. IInv /\ FixInv => ChainNotFlattened
  BY <1>1, <1>2 DEF ChainNotFlattened
<1> QED
  BY <1>3, FixInvariant, PTL
-----------------------------------------------------------------------------
(***************************************************************************)
(* The TypeScript tool: everything proved of Spec is proved of TsSpec too. *)
(***************************************************************************)

\* src/provision.ts makes the steps of Provision and no others.
LEMMA TypeScriptNext == [TsNext]_vars => [Next]_vars
BY DEF TsNext, TsCreateAndSeed, TsForkLoop, TsFinish, TsCleanupRun, Next, Step

THEOREM TypeScriptIsProvision == TsSpec => Spec
BY TypeScriptNext, PTL DEF TsSpec, Spec

\* Nothing makes the TypeScript tool stop half-way: its one catch block covers
\* the first create and its cleanup passes over errors.
LEMMA NeverAborted == pc # "aborted" /\ [Next]_vars => pc' # "aborted"
BY TypeScriptAssumption
   DEF Next, Step, Terminated, vars, CreateNormal, CreateRoot, SeedPut, NextShared, NextLocal,
       ForkLoop, TakeSnapshot, CreateFork, ForkFallback, RecordChild, WriteManifest,
       KeepBuckets, StartCleanup, RemoveNext, CleanupDone, GiveUp

\* A TypeScript run that is not kept asks for the removal of every bucket it has
\* recorded, whatever failed (src/provision.ts 122-132, 138-145).
THEOREM EveryRemovalAskedHolds == TsSpec => []EveryRemovalAsked
<1>1. Init => pc # "aborted"
  BY DEF Init
<1>2. pc # "aborted" /\ [Next]_vars => (pc # "aborted")'
  BY NeverAborted
<1>3. IInv /\ pc # "aborted" => EveryRemovalAsked
  BY DEF IInv, AskedInv, EveryRemovalAsked, Ended
<1> QED
  BY <1>1, <1>2, <1>3, Invariant, TypeScriptIsProvision, PTL DEF Spec
=============================================================================

------------------------------- MODULE SuiteProof -------------------------------
(***************************************************************************)
(* Proofs about Suite, for any number of operations, of buckets of a run   *)
(* and of cleanup commands, and whatever goes wrong.                       *)
(*                                                                         *)
(* The inductive invariant SInv says where the loop over the operations is *)
(* (PlaceInv), which files are complete by then (FilesInv), whose buckets  *)
(* can be there (LiveInv), that a bucket of the run being removed is still *)
(* to be asked for or has been refused in TypeScript (TidyInv), or is the  *)
(* one fork a failed provisionRun does not know of (UndoInv), and that a   *)
(* cleanup command of Go has the runs of all that is left before it        *)
(* (QueueInv).                                                             *)
(***************************************************************************)
EXTENDS Suite, ListsProof, SequenceTheorems

\* What is in a list.
Members(list) == {list[k] : k \in 1 .. Len(list)}

BucketName == (1 .. Runs) \X (1 .. Buckets)

TypeInv ==
  /\ tool \in {"go", "ts"}
  /\ keep \in BOOLEAN
  /\ op \in 1 .. Runs + 1
  /\ operationRuns \in 0 .. Runs
  /\ live \in SUBSET BucketName
  /\ files \in [File -> {"absent", "partial", "complete"}]
  /\ todo \in Seq(BucketName)
  /\ queue \in Seq(1 .. Runs)

\* In the loop over the operations, and in what comes after it.
InLoop == {"setup", "provision", "bench", "results", "summary", "undo", "tidy", "tidyFailed"}

PlaceInv ==
  /\ pc \in InLoop \union {"suiteFile", "ended", "command", "removing"}
  /\ status = "running" <=> pc \in InLoop \union {"suiteFile"}
  /\ pc \in InLoop => op <= Runs
  /\ pc = "setup" => live = {}
  /\ pc = "tidy" => operationRuns = op
  /\ pc \in {"tidy", "tidyFailed"} => ~keep
  /\ pc = "suiteFile" \/ status = "ok" => op = Runs + 1
  /\ pc = "suiteFile" => operationRuns = Runs
  /\ pc = "removing" => queue # <<>>
  /\ command = "ok" => pc = "ended"

RunFiles == {"manifest", "results", "summary"}

FilesInv ==
  /\ \A r \in 1 .. Runs : r < op \/ (r = op /\ pc = "tidy") =>
       \A name \in RunFiles : files[<<r, name>>] = "complete"
  /\ pc \in {"bench", "results", "summary"} => files[<<op, "manifest">>] = "complete"
  /\ pc = "summary" => files[<<op, "results">>] = "complete"
  /\ \A r \in 1 .. Runs : r > op \/ (r = op /\ pc \in {"setup", "provision"}) =>
       \A name \in RunFiles : files[<<r, name>>] = "absent"
  /\ \A r \in 1 .. Runs :
       files[<<r, "manifest">>] # "complete" => files[<<r, "results">>] = "absent"
  /\ files[<<SuiteDir, "suite">>] = "complete" => op = Runs + 1 /\ operationRuns = Runs

LiveInv ==
  /\ \A bucket \in live : bucket[1] <= op
  /\ OneRunAtATime
  /\ TsFailureIsTidy

\* The run whose buckets are being removed.
Victim == IF pc = "removing" THEN Head(queue) ELSE op

TidyInv ==
  Removing /\ pc # "undo" =>
    \A bucket \in live :
      bucket[1] = Victim => bucket \in Members(todo) \/ (tool = "ts" /\ bucket \in stuck)

\* The buckets of the run at hand that are neither asked for nor refused.
Unasked == {bucket \in live : bucket[1] = op /\ bucket \notin Members(todo) /\ bucket \notin stuck}

UndoInv == tool = "ts" /\ pc = "undo" => OneLostFork(Unasked)

QueueInv ==
  tool = "go" =>
    /\ pc \in {"command", "removing"} => \A bucket \in live : bucket[1] \in Members(queue)
    /\ command = "ok" => live = {}

SInv == TypeInv /\ PlaceInv /\ FilesInv /\ LiveInv /\ TidyInv /\ UndoInv /\ QueueInv
-----------------------------------------------------------------------------
(***************************************************************************)
(* Lists and files.                                                        *)
(***************************************************************************)

\* A list is its head and its tail.
LEMMA TailFacts ==
  ASSUME NEW S, NEW list \in Seq(S), list # <<>>
  PROVE  /\ Head(list) \in S /\ Tail(list) \in Seq(S)
         /\ Members(list) \subseteq {Head(list)} \union Members(Tail(list))
<1>1. /\ Head(list) \in S /\ Tail(list) \in Seq(S)
      /\ Len(list) \in Nat \ {0} /\ Len(Tail(list)) = Len(list) - 1
      /\ Head(list) = list[1]
      /\ \A k \in 1 .. Len(list) - 1 : Tail(list)[k] = list[k + 1]
  OBVIOUS
<1>2. ASSUME NEW k \in 1 .. Len(list)
      PROVE  list[k] = Head(list) \/ list[k] \in Members(Tail(list))
  <2>1. CASE k = 1
    BY <1>1, <2>1
  <2>2. CASE k # 1
    <3>1. k - 1 \in 1 .. Len(Tail(list)) /\ Tail(list)[k - 1] = list[k]
      BY <1>1, <2>2
    <3> QED
      BY <3>1 DEF Members
  <2> QED
    BY <2>1, <2>2
<1> QED
  BY <1>1, <1>2 DEF Members

LEMMA EmptyFacts == Members(<<>>) = {}
BY DEF Members

\* Cleanup's list names the buckets recorded, all of them, whatever the sort.
LEMMA RemovalFacts ==
  ASSUME NEW r \in 1 .. Runs, NEW n \in 2 .. Buckets
  PROVE  /\ RemovalList(r, n) \in Seq(BucketName)
         /\ Len(RemovalList(r, n)) = n
         /\ Members(RemovalList(r, n)) = {r} \X (1 .. n)
<1> DEFINE order == IF tool = "go" THEN ExchangeOrder(DepthsOf(n)) ELSE StableOrder(DepthsOf(n))
           list == RemovalList(r, n)
<1>1. n \in Nat /\ n <= Buckets /\ Buckets \in Nat
  BY SuiteAssumption
<1>2. DepthsOf(n) \in Seq(Int) /\ Len(DepthsOf(n)) = n
  BY <1>1 DEF DepthsOf
<1>3. /\ order \in [1 .. n -> 1 .. n]
      /\ \A p \in 1 .. n : \E i \in 1 .. n : order[i] = p
  <2>1. order \in {ExchangeOrder(DepthsOf(n)), StableOrder(DepthsOf(n))}
    OBVIOUS
  <2> HIDE DEF order
  <2>2. LET m == Len(DepthsOf(n))
        IN  /\ order \in [1 .. m -> 1 .. m]
            /\ \A p \in 1 .. m : \E i \in 1 .. m : order[i] = p
    BY <1>2, <2>1, SortsAreOrders
  <2> QED
    BY <1>2, <2>2
<1>4. list = [k \in 1 .. n |-> <<r, order[k]>>]
  BY DEF RemovalList
<1> HIDE DEF order, list
<1>5. \A k \in 1 .. n : order[k] \in 1 .. n /\ order[k] \in 1 .. Buckets
  <2>1. \A k \in 1 .. n : order[k] \in 1 .. n
    BY <1>3
  <2>2. \A b \in 1 .. n : b \in 1 .. Buckets
    BY <1>1
  <2> QED
    BY <2>1, <2>2
<1>6. list \in [1 .. n -> BucketName]
  BY <1>4, <1>5 DEF BucketName
<1>7. list \in Seq(BucketName) /\ Len(list) = n
  BY <1>1, <1>6
<1>8. Members(list) \subseteq {r} \X (1 .. n)
  BY <1>4, <1>5, <1>7 DEF Members
<1>9. {r} \X (1 .. n) \subseteq Members(list)
  BY <1>3, <1>4, <1>7 DEF Members
<1> QED
  BY <1>7, <1>8, <1>9 DEF list

LEMMA FullRemoval ==
  ASSUME NEW r \in 1 .. Runs
  PROVE  /\ RemovalList(r, Buckets) \in Seq(BucketName)
         /\ Members(RemovalList(r, Buckets)) = {r} \X (1 .. Buckets)
<1>1. Buckets \in 2 .. Buckets
  BY SuiteAssumption
<1> QED
  BY <1>1, RemovalFacts

LEMMA FileFacts ==
  /\ \A r \in 1 .. Runs, name \in RunFiles : <<r, name>> \in File
  /\ \A name \in RunFiles \union {"suite"} : <<SuiteDir, name>> \in File
  /\ SuiteDir \notin 1 .. Runs
BY SuiteAssumption DEF File, RunFiles, SuiteDir

-----------------------------------------------------------------------------
(***************************************************************************)
(* What holds of the buckets as long as nothing about them changes.        *)
(***************************************************************************)

\* A suite that goes on, is killed, or ends with an error when it may leave its
\* buckets.
LEMMA LiveStays ==
  ASSUME LiveInv, UNCHANGED <<tool, keep, live, stuck, op>>,
         status = "running" \/ UNCHANGED files,
         status' \in {status, "killed"} \/ (status' = "failed" /\ (keep \/ tool = "go"))
  PROVE  LiveInv'
<1>1. OneRunAtATime'
  BY DEF LiveInv, OneRunAtATime
<1>2. TsFailureIsTidy'
  BY DEF LiveInv, TsFailureIsTidy, OneLostFork
<1> QED
  BY <1>1, <1>2 DEF LiveInv

\* A suite whose last bucket has gone, or has been refused, or is the one it does
\* not know of, may end as it likes.
LEMMA LiveEnds ==
  ASSUME LiveInv, UNCHANGED <<tool, keep, live, stuck, op, files>>, status = "running",
         tool = "ts" => OneLostFork({bucket \in live : bucket[1] = op /\ bucket \notin stuck}),
         status' = "failed"
  PROVE  LiveInv'
<1>1. ASSUME tool = "ts", ~keep PROVE OneLostFork(live \ stuck)
  <2>1. \A bucket \in live : bucket[1] = op \/ bucket \in stuck
    BY <1>1 DEF LiveInv, OneRunAtATime
  <2> QED
    BY <1>1, <2>1 DEF OneLostFork
<1>2. TsFailureIsTidy'
  BY <1>1 DEF TsFailureIsTidy, OneLostFork
<1>3. OneRunAtATime'
  BY DEF OneRunAtATime
<1> QED
  BY <1>2, <1>3 DEF LiveInv

\* With all the buckets of a run on cleanup's list there is nothing to miss.
LEMMA TidyStarts ==
  ASSUME TypeInv, NEW r \in 1 .. Runs, todo' = RemovalList(r, Buckets), Victim' = r,
         live' = live
  PROVE  TidyInv'
<1>1. Members(todo') = {r} \X (1 .. Buckets)
  BY FullRemoval
<1>2. \A bucket \in live' : bucket[1] = r => bucket \in Members(todo')
  BY <1>1 DEF TypeInv, BucketName
<1> QED
  BY <1>2 DEF TidyInv, Members
-----------------------------------------------------------------------------
(***************************************************************************)
(* Each step keeps the invariant.                                          *)
(***************************************************************************)

LEMMA InitSInv == Init => SInv
<1> SUFFICES ASSUME Init PROVE SInv
  OBVIOUS
<1> USE SuiteAssumption, FileFacts DEF Init
<1>1. TypeInv
  BY DEF TypeInv
<1>2. PlaceInv
  BY DEF PlaceInv, InLoop
<1>3. FilesInv
  <2>1. \A r \in 1 .. Runs : ~(r < op) /\ \A name \in RunFiles : files[<<r, name>>] = "absent"
    <3>1. \A r \in 1 .. Runs, name \in RunFiles : <<r, name>> \in File
      OBVIOUS
    <3>2. \A r \in 1 .. Runs, name \in RunFiles : files[<<r, name>>] = "absent"
      BY <3>1
    <3>3. op = 1
      OBVIOUS
    <3>4. ASSUME NEW r \in 1 .. Runs PROVE ~(r < op)
      <4>1. r \in Int /\ r >= 1
        OBVIOUS
      <4> HIDE DEF Init
      <4> QED
        BY <3>3, <4>1
    <3> QED
      BY <3>2, <3>4
  <2>2. files[<<SuiteDir, "suite">>] = "absent"
    OBVIOUS
  <2> QED
    BY <2>1, <2>2 DEF FilesInv, RunFiles
<1>4. LiveInv /\ TidyInv /\ UndoInv /\ QueueInv
  BY DEF LiveInv, OneRunAtATime, TsFailureIsTidy, TidyInv, UndoInv, Removing, QueueInv
<1> QED
  BY <1>1, <1>2, <1>3, <1>4 DEF SInv

\* Where the process is when it is not in a cleanup command.
LEMMA SuiteFacts ==
  ASSUME SInv, pc \in InLoop \union {"suiteFile"}
  PROVE  /\ TypeInv /\ PlaceInv /\ FilesInv /\ LiveInv /\ TidyInv /\ UndoInv /\ QueueInv
         /\ status = "running" /\ command # "ok"
         /\ pc \in InLoop => op \in 1 .. Runs
BY SuiteAssumption DEF SInv, TypeInv, PlaceInv, InLoop

LEMMA SetupStep == SInv /\ Setup => SInv'
<1> SUFFICES ASSUME SInv, Setup PROVE SInv'
  OBVIOUS
<1>1. /\ pc = "setup"
      /\ \/ pc' = "provision" /\ status' = status
         \/ pc' = "ended" /\ status' = "failed"
      /\ UNCHANGED <<tool, keep, op, operationRuns, live, stuck, files, todo, queue, here,
                     command, commands>>
  BY DEF Setup, End, options, service, cleanup, commanding
<1>2. /\ TypeInv /\ PlaceInv /\ FilesInv /\ LiveInv /\ QueueInv
      /\ status = "running" /\ command # "ok" /\ live = {}
  BY <1>1, SuiteFacts DEF InLoop, PlaceInv
<1>3. TypeInv' /\ PlaceInv'
  BY <1>1, <1>2 DEF TypeInv, PlaceInv, InLoop
<1>4. FilesInv'
  BY <1>1, <1>2 DEF FilesInv
<1>5. LiveInv' /\ TidyInv' /\ UndoInv' /\ QueueInv'
  BY <1>1, <1>2
     DEF LiveInv, OneRunAtATime, TsFailureIsTidy, OneLostFork, TidyInv, UndoInv, Removing,
         QueueInv
<1> QED
  BY <1>3, <1>4, <1>5 DEF SInv

LEMMA NextBucketFacts ==
  ASSUME op \in 1 .. Runs
  PROVE  NextBucket \in SUBSET BucketName /\ \A bucket \in NextBucket : bucket[1] = op
BY DEF NextBucket, BucketName

LEMMA ProvisionStep == SInv /\ Provision => SInv'
<1> SUFFICES ASSUME SInv, Provision PROVE SInv'
  OBVIOUS
<1>1. /\ pc = "provision"
      /\ \/ /\ pc' = pc /\ files' = files
            /\ \E bucket \in NextBucket : live' = live \union {bucket}
         \/ /\ pc' = "bench" /\ live' = live
            /\ files' = [files EXCEPT ![<<op, "manifest">>] = "complete"]
      /\ UNCHANGED <<tool, keep, status, op, operationRuns, stuck, todo, queue, here,
                     command, commands>>
  BY DEF Provision, options, suite, cleanup, commanding
<1>2. /\ TypeInv /\ PlaceInv /\ FilesInv /\ LiveInv /\ QueueInv
      /\ status = "running" /\ command # "ok" /\ op \in 1 .. Runs
  BY <1>1, SuiteFacts DEF InLoop
<1>3. live' \in SUBSET BucketName /\ \A bucket \in live' : bucket \in live \/ bucket[1] = op
  BY <1>1, <1>2, NextBucketFacts DEF TypeInv
<1>4. TypeInv' /\ PlaceInv'
  BY <1>1, <1>2, <1>3, FileFacts DEF TypeInv, PlaceInv, InLoop
<1>5. FilesInv'
  <2>1. CASE files' = files /\ pc' = pc
    BY <1>1, <1>2, <2>1 DEF FilesInv
  <2>2. CASE files' = [files EXCEPT ![<<op, "manifest">>] = "complete"] /\ pc' = "bench"
    <3>1. /\ \A f \in File : f # <<op, "manifest">> => files'[f] = files[f]
          /\ <<op, "manifest">> \in File /\ files'[<<op, "manifest">>] = "complete"
      BY <1>2, <2>2, FileFacts DEF TypeInv, RunFiles
    <3>2. op \in Int /\ \A r \in 1 .. Runs : ~(r < r) /\ (r > op => r # op)
      BY <1>2, SuiteAssumption
    <3> QED
      BY <1>1, <1>2, <2>2, <3>1, <3>2, FileFacts DEF FilesInv, RunFiles
  <2> QED
    BY <1>1, <2>1, <2>2
<1>6. LiveInv'
  BY <1>1, <1>2, <1>3 DEF LiveInv, OneRunAtATime, TsFailureIsTidy
<1>7. TidyInv' /\ UndoInv' /\ QueueInv'
  BY <1>1, <1>2 DEF TidyInv, UndoInv, Removing, QueueInv
<1> QED
  BY <1>4, <1>5, <1>6, <1>7 DEF SInv

\* What a failed write has left of a file, none of the others is touched.
LEMMA SpoiledFacts ==
  ASSUME TypeInv, NEW file \in File, Spoiled(file)
  PROVE  /\ files' \in [File -> {"absent", "partial", "complete"}]
         /\ \A f \in File : f # file => files'[f] = files[f]
BY DEF Spoiled, TypeInv

LEMMA ProvisionFailsStep == SInv /\ ProvisionFails => SInv'
<1> SUFFICES ASSUME SInv, ProvisionFails PROVE SInv'
  OBVIOUS
<1>1. PICK stray \in SUBSET NextBucket : live' = live \union stray
  BY DEF ProvisionFails
<1>2. PICK n \in 2 .. Buckets :
        /\ Made \union {<<op, 1>>, <<op, 2>>} = {op} \X (1 .. n)
        /\ todo' = RemovalList(op, n)
  BY DEF ProvisionFails, UndoProvision
<1>3. /\ pc = "provision" /\ pc' = "undo"
      /\ files' = files \/ (NextBucket = {} /\ Spoiled(<<op, "manifest">>))
      /\ UNCHANGED <<tool, keep, status, op, operationRuns, stuck, queue, here, command, commands>>
  BY DEF ProvisionFails, UndoProvision, Spoiled, options, commanding
<1>4. /\ TypeInv /\ PlaceInv /\ FilesInv /\ LiveInv /\ QueueInv
      /\ status = "running" /\ command # "ok" /\ op \in 1 .. Runs
  BY <1>3, SuiteFacts DEF InLoop
<1>5. live' \in SUBSET BucketName /\ \A bucket \in live' : bucket \in live \/ bucket[1] = op
  BY <1>1, <1>4, NextBucketFacts DEF TypeInv
<1>6. todo' \in Seq(BucketName) /\ Members(todo') = {op} \X (1 .. n)
  BY <1>2, <1>4, RemovalFacts
<1>7. /\ files' \in [File -> {"absent", "partial", "complete"}]
      /\ \A f \in File : f # <<op, "manifest">> => files'[f] = files[f]
  BY <1>3, <1>4, SpoiledFacts, FileFacts DEF TypeInv, RunFiles
<1>8. TypeInv' /\ PlaceInv'
  BY <1>3, <1>4, <1>5, <1>6, <1>7 DEF TypeInv, PlaceInv, InLoop
<1>9. FilesInv'
  BY <1>3, <1>4, <1>7, FileFacts, SuiteAssumption DEF FilesInv, RunFiles
<1>10. LiveInv'
  BY <1>3, <1>4, <1>5 DEF LiveInv, OneRunAtATime, TsFailureIsTidy
<1>11. UndoInv'
  <2>1. ASSUME NEW bucket \in Unasked'
        PROVE  bucket \in stray /\ bucket[1] = op /\ bucket[2] > 2
    <3>1. bucket \in live' /\ bucket[1] = op /\ bucket \notin {op} \X (1 .. n)
      BY <1>3, <1>6, <2>1 DEF Unasked, Members
    <3>2. bucket \notin Made
      BY <1>2, <3>1
    <3>3. bucket \in stray
      BY <1>1, <1>5, <3>1, <3>2 DEF Made, BucketName, BucketsOf
    <3>4. PICK b \in 1 .. Buckets : bucket = <<op, b>>
      BY <1>5, <3>1 DEF BucketName
    <3>5. b \notin 1 .. n /\ b \in Nat /\ n \in Nat /\ n >= 2
      BY <3>1, <3>4, SuiteAssumption
    <3>6. b > 2
      BY <3>5
    <3> QED
      BY <3>1, <3>3, <3>4, <3>6
  <2>2. ASSUME NEW bucket \in NextBucket, NEW other \in NextBucket PROVE bucket = other
    <3>1. PICK b \in 1 .. Buckets : bucket = <<op, b>> /\ Made = {op} \X (1 .. b - 1)
      BY DEF NextBucket
    <3>2. PICK c \in 1 .. Buckets : other = <<op, c>> /\ Made = {op} \X (1 .. c - 1)
      BY DEF NextBucket
    <3>3. \A k \in Nat : k \in 1 .. b - 1 <=> k \in 1 .. c - 1
      <4>1. ASSUME NEW k \in Nat PROVE /\ k \in 1 .. b - 1 <=> <<op, k>> \in Made
                                       /\ k \in 1 .. c - 1 <=> <<op, k>> \in Made
        BY <3>1, <3>2
      <4> QED
        BY <4>1
    <3>4. b \in Nat /\ c \in Nat /\ b >= 1 /\ c >= 1
      BY SuiteAssumption
    <3>5. ~(b < c)
      <4>1. b < c => b \in 1 .. c - 1 /\ b \notin 1 .. b - 1
        BY <3>4
      <4> QED
        BY <3>3, <3>4, <4>1
    <3>6. ~(c < b)
      <4>1. c < b => c \in 1 .. b - 1 /\ c \notin 1 .. c - 1
        BY <3>4
      <4> QED
        BY <3>3, <3>4, <4>1
    <3> QED
      BY <3>1, <3>2, <3>4, <3>5, <3>6
  <2>3. Unasked' # {} => files'[<<op, "manifest">>] = "absent"
    <3>1. Unasked' # {} => NextBucket # {}
      BY <2>1
    <3>2. files[<<op, "manifest">>] = "absent"
      BY <1>3, <1>4 DEF FilesInv, RunFiles
    <3> QED
      BY <1>3, <3>1, <3>2
  <2>4. \A b, c \in Unasked' : /\ b = c /\ b[1] = op /\ b[2] > 2
                               /\ files'[<<op, "manifest">>] = "absent"
    BY <2>1, <2>2, <2>3
  <2>5. OneLostFork(Unasked)'
    BY <1>3, <2>4 DEF OneLostFork
  <2> QED
    BY <2>5 DEF UndoInv
<1>12. TidyInv' /\ QueueInv'
  BY <1>3, <1>4 DEF TidyInv, QueueInv
<1> QED
  BY <1>8, <1>9, <1>10, <1>11, <1>12 DEF SInv

LEMMA ProvisionFailsAtOnceStep == SInv /\ ProvisionFailsAtOnce => SInv'
<1> SUFFICES ASSUME SInv, ProvisionFailsAtOnce PROVE SInv'
  OBVIOUS
<1>1. /\ pc = "provision" /\ pc' = "ended" /\ status' = "failed" /\ Made = {}
      /\ \/ live' = live
         \/ tool = "go" /\ live' = live \union NextBucket
      /\ UNCHANGED <<tool, keep, op, operationRuns, stuck, files, todo, queue, here, command,
                     commands>>
  BY DEF ProvisionFailsAtOnce, End, options, cleanup, commanding
<1>2. /\ TypeInv /\ PlaceInv /\ FilesInv /\ LiveInv /\ QueueInv
      /\ status = "running" /\ command # "ok" /\ op \in 1 .. Runs
  BY <1>1, SuiteFacts DEF InLoop
<1>3. live' \in SUBSET BucketName /\ \A bucket \in live' : bucket \in live \/ bucket[1] = op
  BY <1>1, <1>2, NextBucketFacts DEF TypeInv
<1>4. TypeInv' /\ PlaceInv' /\ FilesInv'
  BY <1>1, <1>2, <1>3 DEF TypeInv, PlaceInv, FilesInv, InLoop
<1>5. LiveInv'
  <2>1. CASE live' = live
    <3>1. {bucket \in live : bucket[1] = op /\ bucket \notin stuck} = {}
      BY <1>1, <1>2 DEF Made, BucketsOf, TypeInv, BucketName
    <3> QED
      BY <1>1, <1>2, <2>1, <3>1, LiveEnds DEF OneLostFork
  <2>2. CASE tool = "go"
    BY <1>1, <1>2, <1>3, <2>2 DEF LiveInv, OneRunAtATime, TsFailureIsTidy
  <2> QED
    BY <1>1, <2>1, <2>2
<1>6. TidyInv' /\ UndoInv' /\ QueueInv'
  BY <1>1, <1>2 DEF TidyInv, UndoInv, Removing, QueueInv
<1> QED
  BY <1>4, <1>5, <1>6 DEF SInv

\* An error after ProvisionRun, for every step that meets one.
LEMMA RunFailsFacts ==
  ASSUME SInv, pc \in {"bench", "results", "summary"}, NEW writing \in BOOLEAN,
         RunFails(writing), UNCHANGED <<tool, keep, op, operationRuns, live, stuck, queue,
                                        command>>
  PROVE  /\ PlaceInv' /\ LiveInv' /\ TidyInv' /\ UndoInv' /\ QueueInv'
         /\ todo' \in Seq(BucketName)
         /\ pc' \in {"ended", "tidyFailed"}
<1>1. /\ TypeInv /\ PlaceInv /\ LiveInv /\ QueueInv
      /\ status = "running" /\ command # "ok" /\ op \in 1 .. Runs
  BY SuiteFacts DEF InLoop
<1>2. CASE /\ keep \/ tool = "go"
           /\ pc' = "ended" /\ status' = "failed" /\ UNCHANGED todo
  <2>1. PlaceInv'
    BY <1>1, <1>2 DEF PlaceInv, InLoop
  <2>2. LiveInv'
    BY <1>1, <1>2, LiveStays
  <2>3. TidyInv' /\ UndoInv' /\ QueueInv'
    BY <1>1, <1>2 DEF TidyInv, UndoInv, Removing, QueueInv
  <2> QED
    BY <1>1, <1>2, <2>1, <2>2, <2>3 DEF TypeInv
<1>3. CASE /\ ~keep /\ pc' = "tidyFailed" /\ todo' = RemovalList(op, Buckets)
           /\ UNCHANGED status
  <2>1. PlaceInv'
    BY <1>1, <1>3 DEF PlaceInv, InLoop
  <2>2. LiveInv'
    BY <1>1, <1>3, LiveStays
  <2>3. TidyInv'
    BY <1>1, <1>3, TidyStarts DEF Victim
  <2>4. UndoInv' /\ QueueInv'
    BY <1>1, <1>3 DEF UndoInv, QueueInv
  <2> QED
    BY <1>1, <1>3, <2>1, <2>2, <2>3, <2>4, FullRemoval
<1> QED
  BY <1>2, <1>3 DEF RunFails, End

LEMMA BenchStep == SInv /\ Bench => SInv'
<1> SUFFICES ASSUME SInv, Bench PROVE SInv'
  OBVIOUS
<1>1. /\ pc = "bench"
      /\ (pc' = "results" /\ UNCHANGED <<status, todo>>) \/ RunFails(FALSE)
      /\ UNCHANGED <<tool, keep, op, operationRuns, live, stuck, files, queue, here,
                     command, commands>>
  BY DEF Bench, options, service, commanding
<1>2. /\ TypeInv /\ PlaceInv /\ FilesInv /\ LiveInv /\ QueueInv
      /\ status = "running" /\ command # "ok" /\ op \in 1 .. Runs
  BY <1>1, SuiteFacts DEF InLoop
<1>3. CASE pc' = "results" /\ UNCHANGED <<status, todo>>
  <2>1. TypeInv' /\ PlaceInv' /\ FilesInv'
    BY <1>1, <1>2, <1>3 DEF TypeInv, PlaceInv, InLoop, FilesInv
  <2>2. LiveInv' /\ TidyInv' /\ UndoInv' /\ QueueInv'
    BY <1>1, <1>2, <1>3, LiveStays DEF TidyInv, UndoInv, Removing, QueueInv
  <2> QED
    BY <2>1, <2>2 DEF SInv
<1>4. CASE RunFails(FALSE)
  <2>1. /\ PlaceInv' /\ LiveInv' /\ TidyInv' /\ UndoInv' /\ QueueInv'
        /\ todo' \in Seq(BucketName)
        /\ pc' \in {"ended", "tidyFailed"}
    BY <1>1, <1>4, RunFailsFacts
  <2>2. TypeInv' /\ FilesInv'
    BY <1>1, <1>2, <2>1 DEF TypeInv, FilesInv
  <2> QED
    BY <2>1, <2>2 DEF SInv
<1> QED
  BY <1>1, <1>3, <1>4

LEMMA WriteResultsStep == SInv /\ WriteResults => SInv'
<1> SUFFICES ASSUME SInv, WriteResults PROVE SInv'
  OBVIOUS
<1>1. /\ pc = "results"
      /\ \/ /\ files' = [files EXCEPT ![<<op, "results">>] = "complete"]
            /\ pc' = "summary" /\ UNCHANGED <<status, todo>>
         \/ /\ Spoiled(<<op, "results">>)
            /\ RunFails(TRUE)
      /\ UNCHANGED <<tool, keep, op, operationRuns, live, stuck, queue, here, command, commands>>
  BY DEF WriteResults, Spoiled, options, service, commanding
<1>2. /\ TypeInv /\ PlaceInv /\ FilesInv /\ LiveInv /\ QueueInv
      /\ status = "running" /\ command # "ok" /\ op \in 1 .. Runs
  BY <1>1, SuiteFacts DEF InLoop
<1>3. /\ files' \in [File -> {"absent", "partial", "complete"}]
      /\ \A f \in File : f # <<op, "results">> => files'[f] = files[f]
  <2>1. <<op, "results">> \in File
    BY <1>2, FileFacts DEF RunFiles
  <2>2. CASE Spoiled(<<op, "results">>)
    BY <1>2, <2>1, <2>2, SpoiledFacts
  <2> QED
    BY <1>1, <1>2, <2>1, <2>2 DEF TypeInv
<1>4. CASE /\ files' = [files EXCEPT ![<<op, "results">>] = "complete"]
           /\ pc' = "summary" /\ UNCHANGED <<status, todo>>
  <2>1. TypeInv' /\ PlaceInv'
    BY <1>1, <1>2, <1>3, <1>4 DEF TypeInv, PlaceInv, InLoop
  <2>2. FilesInv'
    BY <1>1, <1>2, <1>4, FileFacts, SuiteAssumption DEF FilesInv, TypeInv, RunFiles
  <2>3. LiveInv' /\ TidyInv' /\ UndoInv' /\ QueueInv'
    BY <1>1, <1>2, <1>4, LiveStays DEF TidyInv, UndoInv, Removing, QueueInv
  <2> QED
    BY <2>1, <2>2, <2>3 DEF SInv
<1>5. CASE /\ Spoiled(<<op, "results">>)
           /\ RunFails(TRUE)
  <2>1. /\ PlaceInv' /\ LiveInv' /\ TidyInv' /\ UndoInv' /\ QueueInv'
        /\ todo' \in Seq(BucketName)
        /\ pc' \in {"ended", "tidyFailed"}
    BY <1>1, <1>5, RunFailsFacts
  <2>2. TypeInv'
    BY <1>1, <1>2, <1>3, <2>1 DEF TypeInv
  <2>3. FilesInv'
    BY <1>1, <1>2, <1>3, <2>1, FileFacts, SuiteAssumption DEF FilesInv, RunFiles
  <2> QED
    BY <2>1, <2>2, <2>3 DEF SInv
<1> QED
  BY <1>1, <1>4, <1>5

\* The loop over the operations goes on, or is over.
LEMMA NextFacts ==
  ASSUME TypeInv, op \in 1 .. Runs, op' = op + 1, NextOperation
  PROVE  /\ op' \in 1 .. Runs + 1
         /\ \/ op' <= Runs /\ pc' = "provision"
            \/ op = Runs /\ op' = Runs + 1 /\ pc' = "suiteFile"
         /\ \A r \in 1 .. Runs : (r < op' <=> r < op \/ r = op) /\ (r >= op' <=> r > op)
<1>1. Runs \in Nat /\ op \in Nat /\ op <= Runs
  BY SuiteAssumption
<1> QED
  BY <1>1 DEF NextOperation

\* With its files complete and its buckets gone, or to be kept, one operation
\* gives way to the next.
LEMMA AdvanceFacts ==
  ASSUME TypeInv, PlaceInv, FilesInv, LiveInv, QueueInv, op \in 1 .. Runs,
         status = "running", command # "ok",
         op' = op + 1, NextOperation,
         UNCHANGED <<tool, keep, status, live, stuck, todo, queue, command>>,
         files' \in [File -> {"absent", "partial", "complete"}],
         operationRuns' = op,
         \A r \in 1 .. Runs, name \in RunFiles :
           r # op => files'[<<r, name>>] = files[<<r, name>>],
         \A name \in RunFiles : files'[<<op, name>>] = "complete",
         files'[<<SuiteDir, "suite">>] = files[<<SuiteDir, "suite">>],
         ~keep => \A bucket \in live : bucket[1] = op => tool = "ts" /\ bucket \in stuck
  PROVE  SInv'
<1>1. /\ op' \in 1 .. Runs + 1
      /\ \/ op' <= Runs /\ pc' = "provision"
         \/ op = Runs /\ op' = Runs + 1 /\ pc' = "suiteFile"
      /\ \A r \in 1 .. Runs : (r < op' <=> r < op \/ r = op) /\ (r >= op' <=> r > op)
  BY NextFacts
<1>2. TypeInv'
  BY <1>1, SuiteAssumption DEF TypeInv
<1>3. PlaceInv'
  BY <1>1 DEF PlaceInv, InLoop
<1>4. FilesInv'
  <2>1. \A r \in 1 .. Runs : r < op => \A name \in RunFiles : files[<<r, name>>] = "complete"
    BY DEF FilesInv
  <2>2. \A r \in 1 .. Runs : r < op' =>
          \A name \in RunFiles : files'[<<r, name>>] = "complete"
    <3> SUFFICES ASSUME NEW r \in 1 .. Runs, r < op', NEW name \in RunFiles
                 PROVE  files'[<<r, name>>] = "complete"
      OBVIOUS
    <3>1. CASE r = op
      BY <3>1
    <3>2. CASE r # op
      <4>1. r < op
        BY <1>1, <3>2
      <4> QED
        BY <2>1, <3>2, <4>1
    <3> QED
      BY <3>1, <3>2
  <2>3. \A r \in 1 .. Runs : r >= op' =>
          \A name \in RunFiles : files'[<<r, name>>] = "absent"
    <3> SUFFICES ASSUME NEW r \in 1 .. Runs, r >= op', NEW name \in RunFiles
                 PROVE  files'[<<r, name>>] = "absent"
      OBVIOUS
    <3>1. r > op /\ r # op
      BY <1>1
    <3> QED
      BY <3>1 DEF FilesInv
  <2>4. \A r \in 1 .. Runs :
          files'[<<r, "manifest">>] # "complete" => files'[<<r, "results">>] = "absent"
    BY DEF FilesInv, RunFiles
  <2>5. files'[<<SuiteDir, "suite">>] # "complete"
    <3>1. op # Runs + 1
      BY SuiteAssumption
    <3> QED
      BY <3>1 DEF FilesInv
  <2>6. op' \in Int /\ \A r \in 1 .. Runs : r > op' \/ r = op' => r >= op'
    BY <1>1
  <2> QED
    BY <1>1, <2>2, <2>3, <2>4, <2>5, <2>6 DEF FilesInv
<1>5. LiveInv'
  <2>1. \A bucket \in live : bucket[1] <= op'
    BY SuiteAssumption DEF LiveInv, TypeInv, BucketName
  <2> QED
    BY <2>1 DEF LiveInv, OneRunAtATime, TsFailureIsTidy
<1>6. TidyInv' /\ UndoInv' /\ QueueInv'
  BY <1>1 DEF TidyInv, UndoInv, Removing, QueueInv
<1> QED
  BY <1>2, <1>3, <1>4, <1>5, <1>6 DEF SInv

LEMMA WriteSummaryStep == SInv /\ WriteSummary => SInv'
<1> SUFFICES ASSUME SInv, WriteSummary PROVE SInv'
  OBVIOUS
<1>1. /\ pc = "summary"
      /\ UNCHANGED <<tool, keep, live, stuck, queue, here, command, commands>>
  BY DEF WriteSummary, options, service, commanding
<1>2. /\ TypeInv /\ PlaceInv /\ FilesInv /\ LiveInv /\ QueueInv
      /\ status = "running" /\ command # "ok" /\ op \in 1 .. Runs
  BY <1>1, SuiteFacts DEF InLoop
<1>3. CASE /\ Spoiled(<<op, "summary">>)
           /\ RunFails(TRUE) /\ UNCHANGED <<op, operationRuns>>
  <2>1. /\ PlaceInv' /\ LiveInv' /\ TidyInv' /\ UndoInv' /\ QueueInv'
        /\ todo' \in Seq(BucketName)
        /\ pc' \in {"ended", "tidyFailed"}
    BY <1>1, <1>3, RunFailsFacts
  <2>2. /\ files' \in [File -> {"absent", "partial", "complete"}]
        /\ \A f \in File : f # <<op, "summary">> => files'[f] = files[f]
    BY <1>2, <1>3, SpoiledFacts, FileFacts DEF RunFiles
  <2>3. TypeInv'
    BY <1>1, <1>2, <1>3, <2>1, <2>2 DEF TypeInv
  <2>4. FilesInv'
    BY <1>1, <1>2, <1>3, <2>1, <2>2, FileFacts, SuiteAssumption DEF FilesInv, RunFiles
  <2> QED
    BY <2>1, <2>3, <2>4 DEF SInv
<1>4. CASE /\ files' = [files EXCEPT ![<<op, "summary">>] = "complete"]
           /\ operationRuns' = op /\ UNCHANGED status
           /\ keep /\ op' = op + 1 /\ NextOperation /\ UNCHANGED todo
  <2>1. /\ files' \in [File -> {"absent", "partial", "complete"}]
        /\ \A r \in 1 .. Runs, name \in RunFiles :
             r # op => files'[<<r, name>>] = files[<<r, name>>]
        /\ \A name \in RunFiles : files'[<<op, name>>] = "complete"
        /\ files'[<<SuiteDir, "suite">>] = files[<<SuiteDir, "suite">>]
    BY <1>1, <1>2, <1>4, FileFacts DEF TypeInv, FilesInv, RunFiles
  <2> QED
    BY <1>1, <1>2, <1>4, <2>1, AdvanceFacts
<1>5. CASE /\ files' = [files EXCEPT ![<<op, "summary">>] = "complete"]
           /\ operationRuns' = op /\ UNCHANGED <<status, op>>
           /\ ~keep /\ pc' = "tidy" /\ todo' = RemovalList(op, Buckets)
  <2>1. todo' \in Seq(BucketName)
    BY <1>2, <1>5, FullRemoval
  <2>2. /\ files' \in [File -> {"absent", "partial", "complete"}]
        /\ \A r \in 1 .. Runs, name \in RunFiles :
             files'[<<r, name>>] =
               IF r = op /\ name = "summary" THEN "complete" ELSE files[<<r, name>>]
        /\ files'[<<SuiteDir, "suite">>] = files[<<SuiteDir, "suite">>]
    BY <1>2, <1>5, FileFacts DEF TypeInv, RunFiles
  <2>3. TypeInv' /\ PlaceInv' /\ FilesInv'
    <3>1. operationRuns' \in 0 .. Runs /\ op # Runs + 1
      BY <1>2, <1>5, SuiteAssumption
    <3>2. TypeInv' /\ PlaceInv'
      BY <1>1, <1>2, <1>5, <2>1, <2>2, <3>1 DEF TypeInv, PlaceInv, InLoop
    <3>3. \A r \in 1 .. Runs, name \in RunFiles :
            r < op \/ r = op => files'[<<r, name>>] = "complete"
      <4>1. \A r \in 1 .. Runs, name \in RunFiles :
              r < op => files[<<r, name>>] = "complete"
        BY <1>2 DEF FilesInv
      <4>2. \A name \in RunFiles : name # "summary" => files[<<op, name>>] = "complete"
        BY <1>1, <1>2 DEF FilesInv, RunFiles
      <4> QED
        BY <2>2, <4>1, <4>2
    <3>4. \A r \in 1 .. Runs : /\ files'[<<r, "results">>] = files[<<r, "results">>]
                              /\ files'[<<r, "manifest">>] = files[<<r, "manifest">>]
      BY <2>2 DEF RunFiles
    <3>5. FilesInv'
      BY <1>1, <1>2, <1>5, <2>2, <3>1, <3>3, <3>4 DEF FilesInv
    <3> QED
      BY <3>2, <3>5
  <2>4. LiveInv'
    BY <1>1, <1>2, <1>5, LiveStays
  <2>5. TidyInv'
    BY <1>1, <1>2, <1>5, TidyStarts DEF Victim
  <2>6. UndoInv' /\ QueueInv'
    BY <1>1, <1>2, <1>5 DEF UndoInv, QueueInv
  <2> QED
    BY <2>3, <2>4, <2>5, <2>6 DEF SInv
<1> QED
  BY <1>3, <1>4, <1>5 DEF WriteSummary, Spoiled

LEMMA WriteSuiteFileStep == SInv /\ WriteSuiteFile => SInv'
<1> SUFFICES ASSUME SInv, WriteSuiteFile PROVE SInv'
  OBVIOUS
<1>1. PICK n \in 1 .. 3 :
        \/ /\ files' = [files EXCEPT ![<<SuiteDir, SuiteFiles[n]>>] = "complete"]
           /\ IF n = 3 THEN End("ok") ELSE UNCHANGED <<pc, status>>
        \/ Spoiled(<<SuiteDir, SuiteFiles[n]>>) /\ End("failed")
  BY DEF WriteSuiteFile
<1>2. PICK name : name = SuiteFiles[n] /\ name \in RunFiles \union {"suite"}
  BY DEF SuiteFiles, RunFiles
<1>3. /\ pc = "suiteFile"
      /\ UNCHANGED <<tool, keep, op, operationRuns, live, stuck, todo, queue, here, command,
                     commands>>
      /\ files' \in {files, [files EXCEPT ![<<SuiteDir, name>>] = "complete"],
                     [files EXCEPT ![<<SuiteDir, name>>] = "partial"]}
      /\ \/ pc' = "ended" /\ status' \in {"ok", "failed"}
         \/ UNCHANGED <<pc, status>>
  BY <1>1, <1>2 DEF WriteSuiteFile, Spoiled, End, options, service, cleanup, commanding
<1>4. /\ TypeInv /\ PlaceInv /\ FilesInv /\ LiveInv /\ QueueInv
      /\ status = "running" /\ command # "ok"
  BY <1>3, SuiteFacts
<1>5. op = Runs + 1 /\ operationRuns = Runs
  BY <1>3, <1>4 DEF PlaceInv
<1>6. /\ files' \in [File -> {"absent", "partial", "complete"}]
      /\ \A r \in 1 .. Runs, other \in RunFiles : files'[<<r, other>>] = files[<<r, other>>]
  BY <1>2, <1>3, <1>4, FileFacts DEF TypeInv
<1>7. TypeInv' /\ PlaceInv'
  BY <1>3, <1>4, <1>5, <1>6 DEF TypeInv, PlaceInv, InLoop
<1>8. FilesInv'
  <2>1. \A r \in 1 .. Runs : r < op /\ ~(r > op) /\ r # op
    BY <1>5, SuiteAssumption
  <2> QED
    BY <1>3, <1>4, <1>5, <1>6, <2>1 DEF FilesInv, RunFiles
<1>9. \A bucket \in live : bucket[1] # op
  BY <1>4, <1>5, SuiteAssumption DEF TypeInv, BucketName
<1>10. LiveInv'
  BY <1>3, <1>4, <1>9 DEF LiveInv, OneRunAtATime, TsFailureIsTidy, OneLostFork
<1>11. TidyInv' /\ UndoInv' /\ QueueInv'
  BY <1>3, <1>4 DEF TidyInv, UndoInv, Removing, QueueInv
<1> QED
  BY <1>7, <1>8, <1>10, <1>11 DEF SInv

LEMMA KilledStep == SInv /\ Killed => SInv'
<1> SUFFICES ASSUME SInv, Killed PROVE SInv'
  OBVIOUS
<1>1. /\ status = "running" /\ pc' = "ended" /\ status' = "killed"
      /\ \/ UNCHANGED files
         \/ \E file \in OpenFiles :
              files[file] = "absent" /\ files' = [files EXCEPT ![file] = "partial"]
      /\ UNCHANGED <<tool, keep, op, operationRuns, live, stuck, todo, queue, here, command,
                     commands>>
  BY DEF Killed, End, options, service, cleanup, commanding
<1>2. pc \in InLoop \union {"suiteFile"}
  BY <1>1 DEF SInv, PlaceInv
<1>3. /\ TypeInv /\ PlaceInv /\ FilesInv /\ LiveInv /\ QueueInv /\ command # "ok"
  BY <1>2, SuiteFacts
<1>4. ASSUME NEW file \in OpenFiles, files[file] = "absent",
             files' = [files EXCEPT ![file] = "partial"]
      PROVE  /\ files' \in [File -> {"absent", "partial", "complete"}]
             /\ \A f \in File : files[f] = "complete" => files'[f] = "complete"
             /\ \A f \in File : files'[f] = "complete" => files[f] = "complete"
             /\ \A r \in 1 .. Runs, name \in RunFiles :
                  files'[<<r, name>>] # files[<<r, name>>] => r = op
             /\ \A r \in 1 .. Runs : files'[<<r, "results">>] # files[<<r, "results">>] =>
                  pc = "results"
  <2>1. files' \in [File -> {"absent", "partial", "complete"}]
    BY <1>3, <1>4 DEF TypeInv
  <2>2. \A f \in File : f # file => files'[f] = files[f]
    BY <1>3, <1>4 DEF TypeInv
  <2>3. file \in File => files'[file] = "partial"
    BY <1>3, <1>4 DEF TypeInv
  <2>4. ASSUME NEW r \in 1 .. Runs, NEW name \in RunFiles, <<r, name>> = file
        PROVE  r = op /\ (name = "results" => pc = "results")
    <3>1. CASE pc = "provision" /\ NextBucket = {}
      BY <2>4, <3>1 DEF OpenFiles
    <3>2. CASE pc \in {"results", "summary"}
      BY <2>4, <3>2 DEF OpenFiles
    <3>3. CASE pc = "suiteFile"
      BY <2>4, <3>3, FileFacts DEF OpenFiles
    <3>4. CASE ~(pc = "provision" /\ NextBucket = {}) /\ pc \notin {"results", "summary", "suiteFile"}
      BY <1>4, <3>4 DEF OpenFiles
    <3> QED
      BY <3>1, <3>2, <3>3, <3>4
  <2>5. /\ \A r \in 1 .. Runs, name \in RunFiles : <<r, name>> \in File
        /\ "results" \in RunFiles
    BY FileFacts DEF RunFiles
  <2> QED
    BY <1>4, <2>1, <2>2, <2>3, <2>4, <2>5
<1>5. /\ files' \in [File -> {"absent", "partial", "complete"}]
      /\ \A f \in File : files'[f] = "complete" <=> files[f] = "complete"
      /\ \A r \in 1 .. Runs, name \in RunFiles :
           files'[<<r, name>>] # files[<<r, name>>] => r = op
      /\ \A r \in 1 .. Runs : files'[<<r, "results">>] # files[<<r, "results">>] =>
           pc = "results"
  BY <1>1, <1>3, <1>4 DEF TypeInv
<1>6. TypeInv' /\ PlaceInv'
  BY <1>1, <1>2, <1>3, <1>5 DEF TypeInv, PlaceInv, InLoop
<1>7. FilesInv'
  <2>1. \A r \in 1 .. Runs : r < op => \A name \in RunFiles : files'[<<r, name>>] = "complete"
    BY <1>3, <1>5, FileFacts DEF FilesInv
  <2>2. \A r \in 1 .. Runs : r > op => \A name \in RunFiles : files'[<<r, name>>] = "absent"
    BY <1>3, <1>5, SuiteAssumption DEF FilesInv, TypeInv
  <2>3. \A r \in 1 .. Runs :
          files'[<<r, "manifest">>] # "complete" => files'[<<r, "results">>] = "absent"
    <3> SUFFICES ASSUME NEW r \in 1 .. Runs, files'[<<r, "manifest">>] # "complete"
                 PROVE  files'[<<r, "results">>] = "absent"
      OBVIOUS
    <3>1. files[<<r, "manifest">>] # "complete"
      BY <1>5, FileFacts DEF RunFiles
    <3>2. ~(r = op /\ pc = "results") /\ files[<<r, "results">>] = "absent"
      BY <1>3, <3>1 DEF FilesInv
    <3> QED
      BY <1>5, <3>2 DEF RunFiles
  <2>4. files'[<<SuiteDir, "suite">>] = "complete" => op = Runs + 1 /\ operationRuns = Runs
    BY <1>3, <1>5, FileFacts DEF FilesInv
  <2> QED
    BY <1>1, <2>1, <2>2, <2>3, <2>4 DEF FilesInv
<1>8. LiveInv'
  BY <1>1, <1>3, LiveStays
<1>9. TidyInv' /\ UndoInv' /\ QueueInv'
  BY <1>1, <1>3 DEF TidyInv, UndoInv, Removing, QueueInv
<1> QED
  BY <1>6, <1>7, <1>8, <1>9 DEF SInv

\* What a removal does to its bucket, whatever its reply: it goes, or it is one
\* more that was refused.
Handled(bucket) ==
  \/ live' = live \ {bucket} /\ stuck' = stuck \ {bucket}
  \/ live' = live /\ stuck' = stuck \union ({bucket} \intersect live)

\* Either leaves the others where they were.
LEMMA LiveShrinks ==
  ASSUME LiveInv, NEW bucket, Handled(bucket), UNCHANGED <<tool, keep, op, files>>,
         status' = status \/ (status = "running" /\ status' = "failed" /\ tool = "go")
  PROVE  LiveInv'
<1>1. /\ live' \subseteq live /\ live' \intersect stuck \subseteq stuck'
      /\ live' \ stuck' \subseteq live \ stuck
  BY DEF Handled
<1>2. OneRunAtATime'
  BY <1>1 DEF LiveInv, OneRunAtATime
<1>3. TsFailureIsTidy'
  BY <1>1 DEF LiveInv, TsFailureIsTidy, OneLostFork
<1> QED
  BY <1>1, <1>2, <1>3 DEF LiveInv

LEMMA RemoveOneStep == SInv /\ RemoveOne => SInv'
<1> SUFFICES ASSUME SInv, RemoveOne PROVE SInv'
  OBVIOUS
<1> DEFINE bucket == Head(todo)
<1>1. /\ Removing /\ todo # <<>> /\ Handled(bucket)
      /\ \/ /\ todo' = Tail(todo) /\ UNCHANGED <<pc, status, command>>
            /\ bucket \in live' => tool = "ts"
         \/ tool = "go" /\ todo' = <<>> /\ CleanupFails
      /\ UNCHANGED <<tool, keep, op, operationRuns, files, queue, here, commands>>
  BY DEF RemoveOne, Refused, Goes, Handled, options
<1>2. /\ TypeInv /\ PlaceInv /\ FilesInv /\ LiveInv /\ TidyInv /\ UndoInv /\ QueueInv
      /\ command # "ok"
  BY <1>1 DEF SInv, PlaceInv, Removing
<1>3. /\ bucket \in BucketName /\ Tail(todo) \in Seq(BucketName)
      /\ Members(todo) \subseteq {bucket} \union Members(Tail(todo))
  BY <1>1, <1>2, TailFacts DEF TypeInv
<1>4. /\ live' \subseteq live /\ live' \intersect stuck \subseteq stuck'
      /\ bucket \in live' => bucket \in stuck'
  BY <1>1 DEF Handled
<1> HIDE DEF bucket
<1>5. CASE /\ todo' = Tail(todo) /\ UNCHANGED <<pc, status, command>>
           /\ bucket \in live' => tool = "ts"
  <2>1. TypeInv' /\ PlaceInv' /\ FilesInv'
    BY <1>1, <1>2, <1>3, <1>4, <1>5 DEF TypeInv, PlaceInv, FilesInv
  <2>2. LiveInv'
    BY <1>1, <1>2, <1>5, LiveShrinks
  <2>3. Members(todo) \subseteq {bucket} \union Members(todo')
    BY <1>3, <1>5
  <2>4. TidyInv'
    <3>1. Victim' = Victim
      BY <1>1, <1>5 DEF Victim
    <3> SUFFICES ASSUME Removing, pc # "undo", NEW b \in live', b[1] = Victim
                 PROVE  b \in Members(todo') \/ (tool = "ts" /\ b \in stuck')
      BY <1>1, <1>5, <3>1 DEF TidyInv, Removing, Members
    <3>2. b \in Members(todo) \/ (tool = "ts" /\ b \in stuck)
      BY <1>2, <1>4 DEF TidyInv
    <3> QED
      BY <1>4, <1>5, <2>3, <3>2
  <2>6. QueueInv'
    BY <1>1, <1>2, <1>4, <1>5 DEF QueueInv, Members
  <2>5. UndoInv'
    <3>1. tool = "ts" /\ pc = "undo" => Unasked' \subseteq Unasked
      BY <1>1, <1>4, <1>5, <2>3 DEF Unasked, Members
    <3> QED
      BY <1>1, <1>2, <1>5, <3>1 DEF UndoInv, OneLostFork
  <2> QED
    BY <2>1, <2>2, <2>4, <2>5, <2>6 DEF SInv
<1>6. CASE tool = "go" /\ todo' = <<>> /\ CleanupFails
  <2>1. /\ pc' = "ended" /\ command' # "ok"
        /\ \/ pc # "removing" /\ status = "running" /\ status' = "failed"
           \/ pc = "removing" /\ status # "running" /\ status' = status
    BY <1>2, <1>6 DEF CleanupFails, End, PlaceInv, InLoop
  <2>2. TypeInv' /\ PlaceInv' /\ FilesInv'
    BY <1>1, <1>2, <1>4, <1>6, <2>1 DEF TypeInv, PlaceInv, FilesInv, InLoop
  <2>3. LiveInv'
    BY <1>1, <1>2, <1>6, <2>1, LiveShrinks
  <2>4. TidyInv' /\ UndoInv' /\ QueueInv'
    BY <1>1, <1>6, <2>1 DEF TidyInv, UndoInv, Removing, QueueInv
  <2> QED
    BY <2>2, <2>3, <2>4 DEF SInv
<1> QED
  BY <1>1, <1>5, <1>6

\* Nothing of the run that has been removed is left, but for TypeScript's refusals.
LEMMA RemovedFacts ==
  ASSUME TidyInv, Removing, todo = <<>>, pc # "undo"
  PROVE  \A bucket \in live : bucket[1] = Victim => tool = "ts" /\ bucket \in stuck
BY EmptyFacts DEF TidyInv, UndoInv

LEMMA CleanupReturnsStep == SInv /\ CleanupReturns => SInv'
<1> SUFFICES ASSUME SInv, CleanupReturns PROVE SInv'
  OBVIOUS
<1>1. /\ Removing /\ todo = <<>>
      /\ UNCHANGED <<tool, keep, operationRuns, live, stuck, files, todo, here, command,
                     commands>>
  BY DEF CleanupReturns, options, service
<1>2. TypeInv /\ PlaceInv /\ FilesInv /\ LiveInv /\ TidyInv /\ UndoInv /\ QueueInv /\ command # "ok"
  BY <1>1 DEF SInv, PlaceInv, Removing
<1>3. CASE pc = "tidy" /\ op' = op + 1 /\ NextOperation /\ UNCHANGED <<status, queue>>
  <2>1. op \in 1 .. Runs /\ status = "running" /\ operationRuns' = op
    BY <1>1, <1>2, <1>3, SuiteFacts DEF PlaceInv, InLoop
  <2>2. \A name \in RunFiles : files'[<<op, name>>] = "complete"
    BY <1>1, <1>2, <1>3, <2>1 DEF FilesInv
  <2>3. \A bucket \in live : bucket[1] = op => tool = "ts" /\ bucket \in stuck
    BY <1>1, <1>2, <1>3, RemovedFacts DEF Victim
  <2>4. files' \in [File -> {"absent", "partial", "complete"}]
    BY <1>1, <1>2 DEF TypeInv
  <2> QED
    BY <1>1, <1>2, <1>3, <2>1, <2>2, <2>3, <2>4, AdvanceFacts
<1>4. CASE pc \in {"undo", "tidyFailed"} /\ End("failed") /\ UNCHANGED <<op, queue>>
  <2>1. status = "running" /\ pc' = "ended" /\ status' = "failed"
    BY <1>4, SuiteFacts DEF InLoop, End
  <2>2. TypeInv' /\ PlaceInv' /\ FilesInv'
    BY <1>1, <1>2, <1>4, <2>1 DEF TypeInv, PlaceInv, FilesInv, InLoop
  <2>3. tool = "ts" => OneLostFork({bucket \in live : bucket[1] = op /\ bucket \notin stuck})
    <3>1. CASE pc = "undo"
      BY <1>1, <1>2, <3>1, EmptyFacts DEF UndoInv, Unasked, OneLostFork
    <3>2. CASE pc = "tidyFailed"
      <4>1. \A bucket \in live : bucket[1] = op => bucket \in stuck
        BY <1>1, <1>2, <3>2, RemovedFacts DEF Victim
      <4> QED
        BY <4>1 DEF OneLostFork
    <3> QED
      BY <1>4, <3>1, <3>2
  <2>4. LiveInv'
    BY <1>1, <1>2, <1>4, <2>1, <2>3, LiveEnds
  <2>5. TidyInv' /\ UndoInv' /\ QueueInv'
    BY <1>1, <1>2, <2>1 DEF TidyInv, UndoInv, Removing, QueueInv
  <2> QED
    BY <2>2, <2>4, <2>5 DEF SInv
<1>5. CASE pc = "removing" /\ pc' = "command" /\ queue' = Tail(queue) /\ UNCHANGED <<status, op>>
  <2>1. /\ queue # <<>> /\ Tail(queue) \in Seq(1 .. Runs)
        /\ Members(queue) \subseteq {Head(queue)} \union Members(Tail(queue))
    BY <1>2, <1>5, TailFacts DEF TypeInv, PlaceInv
  <2>2. TypeInv' /\ PlaceInv' /\ FilesInv'
    BY <1>1, <1>2, <1>5, <2>1 DEF TypeInv, PlaceInv, FilesInv, InLoop
  <2>3. LiveInv'
    BY <1>1, <1>2, <1>5, LiveStays
  <2>4. \A bucket \in live : bucket[1] = Head(queue) => tool = "ts" /\ bucket \in stuck
    BY <1>1, <1>2, <1>5, RemovedFacts DEF Victim
  <2>5. TidyInv' /\ UndoInv' /\ QueueInv'
    BY <1>1, <1>2, <1>5, <2>1, <2>4 DEF TidyInv, UndoInv, Removing, QueueInv, Members
  <2> QED
    BY <2>2, <2>3, <2>5 DEF SInv
<1> QED
  BY <1>3, <1>4, <1>5 DEF CleanupReturns

LEMMA StartCommandStep == SInv /\ StartCommand => SInv'
<1> SUFFICES ASSUME SInv, StartCommand PROVE SInv'
  OBVIOUS
<1>1. /\ pc = "ended"
      /\ UNCHANGED <<tool, keep, op, operationRuns, status, live, stuck, files, todo>>
  BY DEF StartCommand, options, suite, service
<1>2. TypeInv /\ PlaceInv /\ FilesInv /\ LiveInv /\ QueueInv
  BY DEF SInv
<1>3. CASE /\ tool = "go" /\ files[<<SuiteDir, "suite">>] = "complete"
           /\ queue' = [r \in 1 .. operationRuns |-> r]
           /\ pc' = "command" /\ command' = "running"
  <2>1. operationRuns = Runs /\ Runs \in Nat
    BY <1>2, <1>3, SuiteAssumption DEF FilesInv
  <2>2. queue' \in Seq(1 .. Runs) /\ Len(queue') = Runs
    BY <1>3, <2>1
  <2>3. \A r \in 1 .. Runs : r \in Members(queue')
    BY <1>3, <2>1, <2>2 DEF Members
  <2>4. TypeInv' /\ PlaceInv' /\ FilesInv'
    BY <1>1, <1>2, <1>3, <2>2 DEF TypeInv, PlaceInv, FilesInv, InLoop
  <2>5. LiveInv'
    BY <1>1, <1>2, LiveStays
  <2>6. TidyInv' /\ UndoInv' /\ QueueInv'
    BY <1>1, <1>2, <1>3, <2>3 DEF TidyInv, UndoInv, Removing, QueueInv, TypeInv, BucketName, Members
  <2> QED
    BY <2>4, <2>5, <2>6 DEF SInv
<1>4. CASE /\ tool = "ts" /\ \E r \in 1 .. Runs : queue' = <<r>>
           /\ pc' = "command" /\ command' = "running"
  <2>1. TypeInv' /\ PlaceInv' /\ FilesInv'
    BY <1>1, <1>2, <1>4 DEF TypeInv, PlaceInv, FilesInv, InLoop
  <2>2. LiveInv'
    BY <1>1, <1>2, LiveStays
  <2>3. TidyInv' /\ UndoInv' /\ QueueInv'
    BY <1>1, <1>4 DEF TidyInv, UndoInv, Removing, QueueInv
  <2> QED
    BY <2>1, <2>2, <2>3 DEF SInv
<1>5. CASE command' = "failed" /\ UNCHANGED <<pc, queue, here>>
  <2>1. TypeInv' /\ PlaceInv' /\ FilesInv'
    BY <1>1, <1>2, <1>5 DEF TypeInv, PlaceInv, FilesInv
  <2>2. LiveInv'
    BY <1>1, <1>2, LiveStays
  <2>3. TidyInv' /\ UndoInv' /\ QueueInv'
    BY <1>1, <1>5 DEF TidyInv, UndoInv, Removing, QueueInv
  <2> QED
    BY <2>1, <2>2, <2>3 DEF SInv
<1> QED
  BY <1>3, <1>4, <1>5 DEF StartCommand

LEMMA ReadManifestStep == SInv /\ ReadManifest => SInv'
<1> SUFFICES ASSUME SInv, ReadManifest PROVE SInv'
  OBVIOUS
<1>1. /\ pc = "command" /\ queue # <<>>
      /\ UNCHANGED <<tool, keep, op, operationRuns, status, live, stuck, files, queue, here,
                     commands>>
  BY DEF ReadManifest, options, suite, service
<1>2. TypeInv /\ PlaceInv /\ FilesInv /\ LiveInv /\ QueueInv /\ command # "ok"
  BY <1>1 DEF SInv, PlaceInv
<1>3. LiveInv'
  BY <1>1, <1>2, LiveStays
<1>4. CASE /\ todo' = RemovalList(Head(queue), Buckets) /\ pc' = "removing"
           /\ UNCHANGED command
  <2>1. Head(queue) \in 1 .. Runs
    BY <1>1, <1>2, TailFacts DEF TypeInv
  <2>2. todo' \in Seq(BucketName)
    BY <1>4, <2>1, FullRemoval
  <2>3. TypeInv' /\ PlaceInv' /\ FilesInv'
    BY <1>1, <1>2, <1>4, <2>2 DEF TypeInv, PlaceInv, FilesInv, InLoop
  <2>4. TidyInv'
    BY <1>1, <1>2, <1>4, <2>1, TidyStarts DEF Victim
  <2>5. UndoInv' /\ QueueInv'
    BY <1>1, <1>2, <1>4 DEF UndoInv, QueueInv, Members
  <2> QED
    BY <1>3, <2>3, <2>4, <2>5 DEF SInv
<1>5. CASE pc' = "ended" /\ command' = "failed" /\ UNCHANGED todo
  <2>1. TypeInv' /\ PlaceInv' /\ FilesInv'
    BY <1>1, <1>2, <1>5 DEF TypeInv, PlaceInv, FilesInv, InLoop
  <2>2. TidyInv' /\ UndoInv' /\ QueueInv'
    BY <1>5 DEF TidyInv, UndoInv, Removing, QueueInv
  <2> QED
    BY <1>3, <2>1, <2>2 DEF SInv
<1> QED
  BY <1>4, <1>5 DEF ReadManifest

LEMMA CommandDoneStep == SInv /\ CommandDone => SInv'
<1> SUFFICES ASSUME SInv, CommandDone PROVE SInv'
  OBVIOUS
<1>1. /\ pc = "command" /\ queue = <<>> /\ pc' = "ended" /\ command' = "ok"
      /\ UNCHANGED <<tool, keep, op, operationRuns, status, live, stuck, files, todo, queue>>
  BY DEF CommandDone, options, suite, service
<1>2. TypeInv /\ PlaceInv /\ FilesInv /\ LiveInv /\ QueueInv
  BY DEF SInv
<1>3. TypeInv' /\ PlaceInv' /\ FilesInv'
  BY <1>1, <1>2 DEF TypeInv, PlaceInv, FilesInv, InLoop
<1>4. LiveInv'
  BY <1>1, <1>2, LiveStays
<1>5. tool = "go" => live = {}
  BY <1>1, <1>2, EmptyFacts DEF QueueInv
<1>6. TidyInv' /\ UndoInv' /\ QueueInv'
  BY <1>1, <1>5 DEF TidyInv, UndoInv, Removing, QueueInv
<1> QED
  BY <1>3, <1>4, <1>6 DEF SInv

LEMMA CommandKilledStep == SInv /\ CommandKilled => SInv'
<1> SUFFICES ASSUME SInv, CommandKilled PROVE SInv'
  OBVIOUS
<1>1. /\ pc \in {"command", "removing"} /\ pc' = "ended" /\ command' = "failed" /\ todo' = <<>>
      /\ UNCHANGED <<tool, keep, op, operationRuns, status, live, stuck, files, queue>>
  BY DEF CommandKilled, options, suite, service
<1>2. TypeInv /\ PlaceInv /\ FilesInv /\ LiveInv
  BY DEF SInv
<1>3. TypeInv' /\ PlaceInv' /\ FilesInv'
  BY <1>1, <1>2 DEF TypeInv, PlaceInv, FilesInv, InLoop
<1>4. LiveInv'
  BY <1>1, <1>2, LiveStays
<1>5. TidyInv' /\ UndoInv' /\ QueueInv'
  BY <1>1 DEF TidyInv, UndoInv, Removing, QueueInv
<1> QED
  BY <1>3, <1>4, <1>5 DEF SInv

LEMMA NextSInv == SInv /\ [Next]_vars => SInv'
<1> SUFFICES ASSUME SInv, [Next]_vars PROVE SInv'
  OBVIOUS
<1>1. CASE Work
  BY <1>1, SetupStep, ProvisionStep, ProvisionFailsStep, ProvisionFailsAtOnceStep,
     BenchStep, WriteResultsStep,
     WriteSummaryStep, WriteSuiteFileStep, RemoveOneStep, CleanupReturnsStep,
     ReadManifestStep, CommandDoneStep DEF Work
<1>2. CASE Killed \/ StartCommand \/ CommandKilled
  BY <1>2, KilledStep, StartCommandStep, CommandKilledStep
<1>3. CASE UNCHANGED vars
  <2>1. UNCHANGED <<tool, keep, pc, status, op, operationRuns, live, stuck, files, todo, queue,
                    command>>
    BY <1>3 DEF vars, options, suite, service, cleanup, commanding
  <2>2. TypeInv' /\ PlaceInv' /\ FilesInv' /\ LiveInv'
    BY <2>1 DEF SInv, TypeInv, PlaceInv, FilesInv, LiveInv, OneRunAtATime, TsFailureIsTidy,
                OneLostFork
  <2>3. TidyInv' /\ UndoInv' /\ QueueInv'
    BY <2>1 DEF SInv, TidyInv, UndoInv, Unasked, OneLostFork, Removing, Victim, QueueInv, Members
  <2> QED
    BY <2>2, <2>3 DEF SInv
<1> QED
  BY <1>1, <1>2, <1>3 DEF Next, Terminated
-----------------------------------------------------------------------------
(***************************************************************************)
(* The theorems                                                            *)
(***************************************************************************)

\* The invariant holds of every state of both commands.
THEOREM Invariant == Spec => []SInv
<1>1. Init => SInv
  BY InitSInv
<1>2. SInv /\ [Next]_vars => SInv'
  BY NextSInv
<1> QED
  BY <1>1, <1>2, PTL DEF Spec

\* Without --keep-buckets no operation is measured, and no suite ends well, with
\* buckets of an earlier operation about, but for removals TypeScript was refused
\* and warned about (main.go 88-92, cli.ts 56-57).
THEOREM OneRunAtATimeHolds == Spec => []OneRunAtATime
<1>1. SInv => OneRunAtATime
  BY DEF SInv, LiveInv
<1> QED
  BY <1>1, Invariant, PTL

\* suite.json is written last: whoever finds it complete finds every run of the
\* suite in it, and every file of each of them complete (main.go 108).
THEOREM SuiteFileIsCompleteHolds == Spec => []SuiteFileIsComplete
<1>1. SInv => SuiteFileIsComplete
  <2> SUFFICES ASSUME SInv, files[<<SuiteDir, "suite">>] = "complete"
               PROVE  /\ operationRuns = Runs
                      /\ \A r \in 1 .. Runs, name \in RunFiles : files[<<r, name>>] = "complete"
    BY DEF SuiteFileIsComplete, RunFiles
  <2>1. op = Runs + 1 /\ operationRuns = Runs
    BY DEF SInv, FilesInv
  <2>2. \A r \in 1 .. Runs : r < op
    BY <2>1, SuiteAssumption
  <2> QED
    BY <2>1, <2>2 DEF SInv, FilesInv
<1> QED
  BY <1>1, Invariant, PTL

\* The buckets of all runs but one, the one that was being provisioned, can be
\* found from a complete manifest, wherever the suite ends (main.go 141-148).
THEOREM UnnamedBucketsOfOneRunHolds == Spec => []UnnamedBucketsOfOneRun
<1>1. SInv => UnnamedBucketsOfOneRun
  <2> SUFFICES ASSUME SInv, NEW bucket \in live,
                      files[<<bucket[1], "manifest">>] # "complete"
               PROVE  bucket[1] = op /\ files[<<op, "results">>] = "absent"
    BY DEF UnnamedBucketsOfOneRun
  <2>1. bucket[1] \in 1 .. Runs /\ bucket[1] <= op /\ op \in Int
    BY DEF SInv, TypeInv, LiveInv, BucketName
  <2>2. ~(bucket[1] < op)
    BY <2>1 DEF SInv, FilesInv, RunFiles
  <2>3. bucket[1] = op
    BY <2>1, <2>2
  <2> QED
    BY <2>1, <2>3 DEF SInv, FilesInv
<1> QED
  BY <1>1, Invariant, PTL

\* A cleanup command is through with a run only when nothing of it is left, but
\* for the removals TypeScript was refused, and Go's succeeds only when nothing of
\* the suite is left (main.go 159-174).
THEOREM CommandRemovesRunsHolds == Spec => []CommandRemovesRuns
<1>1. SInv => CommandRemovesRuns
  <2> SUFFICES ASSUME SInv PROVE CommandRemovesRuns
    OBVIOUS
  <2>1. tool = "go" /\ command = "ok" => live = {}
    BY DEF SInv, QueueInv
  <2>2. ASSUME pc = "removing", todo = <<>>
        PROVE  live \intersect BucketsOf(Head(queue)) \subseteq IF tool = "ts" THEN stuck ELSE {}
    <3>1. \A bucket \in live : bucket[1] = Head(queue) => tool = "ts" /\ bucket \in stuck
      BY <2>2, RemovedFacts DEF SInv, Removing, Victim
    <3> QED
      BY <3>1 DEF BucketsOf
  <2> QED
    BY <2>1, <2>2 DEF CommandRemovesRuns
<1> QED
  BY <1>1, Invariant, PTL

\* In TypeScript a suite that ends with an error, wherever it comes from, leaves
\* only buckets whose removal was refused and one fork at most that nobody asks
\* for: the one that was being made when provisionRun failed (cli.ts 62-66,
\* provision.ts 91-98).
THEOREM TsFailureIsTidyHolds == Spec => []TsFailureIsTidy
<1>1. SInv => TsFailureIsTidy
  BY DEF SInv, LiveInv
<1> QED
  BY <1>1, Invariant, PTL
-----------------------------------------------------------------------------
(***************************************************************************)
(* A command cannot run for ever, and nothing keeps it from going on.      *)
(***************************************************************************)

\* The buckets that the run at hand has yet to make, and the files that the suite
\* has yet to write.
Unmade == {b \in 1 .. Buckets : <<op, b>> \notin live}
Unwritten == {n \in 1 .. 3 : files[<<SuiteDir, SuiteFiles[n]>>] # "complete"}

\* How many steps the command has before it at most, without those of the
\* operations after the one at hand.
Stage ==
  CASE pc = "setup" -> 2 * Buckets + 7
    [] pc = "provision" -> Cardinality(Unmade) + Buckets + 6
    [] pc = "bench" -> Buckets + 5
    [] pc = "results" -> Buckets + 4
    [] pc = "summary" -> Buckets + 3
    [] pc \in {"undo", "tidy", "tidyFailed"} -> Len(todo) + 1
    [] pc = "suiteFile" -> Cardinality(Unwritten) + 1
    [] pc = "ended" -> 0
    [] pc = "command" -> Len(queue) * (Buckets + 3) + Buckets + 2
    [] pc = "removing" -> Len(queue) * (Buckets + 3) + Len(todo) + 1

\* More than an operation takes, or the files of the suite.
Round == 2 * Buckets + 10
StepsLeft == (Runs + 1 - op) * Round + Stage

\* There are no more buckets to make than a run has, and no more than three files.
Counts ==
  /\ IsFiniteSet(Unmade) /\ Cardinality(Unmade) \in 0 .. Buckets
  /\ IsFiniteSet(Unwritten) /\ Cardinality(Unwritten) \in 0 .. 3

LEMMA IntervalCount ==
  ASSUME NEW n \in Nat \ {0}
  PROVE  IsFiniteSet(1 .. n) /\ Cardinality(1 .. n) = n
<1>1. 1 \in Int /\ n \in Int /\ ~ 1 > n /\ n - 1 + 1 = n
  OBVIOUS
<1>2. Cardinality(1 .. n) = IF 1 > n THEN 0 ELSE n - 1 + 1
  BY <1>1, FS_Interval
<1> QED
  BY <1>1, <1>2, FS_Interval

LEMMA CountFacts == Counts
<1>1. Buckets \in Nat \ {0} /\ 3 \in Nat \ {0}
  BY SuiteAssumption
<1>2. IsFiniteSet(1 .. Buckets) /\ Cardinality(1 .. Buckets) = Buckets
  BY <1>1, IntervalCount
<1>3. IsFiniteSet(1 .. 3) /\ Cardinality(1 .. 3) = 3
  BY <1>1, IntervalCount
<1>4. Unmade \in SUBSET (1 .. Buckets) /\ Unwritten \in SUBSET (1 .. 3)
  BY DEF Unmade, Unwritten
<1>5. IsFiniteSet(Unmade) /\ Cardinality(Unmade) <= Buckets /\ Cardinality(Unmade) \in Nat
  BY <1>2, <1>4, FS_Subset, FS_CardinalityType
<1>6. IsFiniteSet(Unwritten) /\ Cardinality(Unwritten) <= 3 /\ Cardinality(Unwritten) \in Nat
  BY <1>3, <1>4, FS_Subset, FS_CardinalityType
<1> QED
  BY <1>1, <1>5, <1>6 DEF Counts

\* Stages are numbers.
StageFits ==
  /\ Stage \in Nat
  /\ pc = "provision" => Stage \in Buckets + 6 .. 2 * Buckets + 6
  /\ pc = "suiteFile" => Stage \in 1 .. 4

LEMMA StageFacts == TypeInv /\ PlaceInv => StageFits
<1> SUFFICES ASSUME TypeInv, PlaceInv PROVE StageFits
  OBVIOUS
<1> DEFINE made == Cardinality(Unmade)
           written == Cardinality(Unwritten)
           q == Len(queue)
           t == Len(todo)
<1>1. made \in 0 .. Buckets /\ written \in 0 .. 3
  BY CountFacts DEF Counts
<1>2. q \in Nat /\ t \in Nat
  BY DEF TypeInv
<1>3. Buckets \in Nat /\ q * (Buckets + 3) \in Nat
  BY <1>2, SuiteAssumption
<1>4. pc \in {"setup", "provision", "bench", "results", "summary", "undo", "tidy", "tidyFailed",
              "suiteFile", "ended", "command", "removing"}
  BY DEF PlaceInv, InLoop
<1>5. Stage = CASE pc = "setup" -> 2 * Buckets + 7
    [] pc = "provision" -> made + Buckets + 6
    [] pc = "bench" -> Buckets + 5
    [] pc = "results" -> Buckets + 4
    [] pc = "summary" -> Buckets + 3
    [] pc \in {"undo", "tidy", "tidyFailed"} -> t + 1
    [] pc = "suiteFile" -> written + 1
    [] pc = "ended" -> 0
    [] pc = "command" -> q * (Buckets + 3) + Buckets + 2
    [] pc = "removing" -> q * (Buckets + 3) + t + 1
  BY DEF Stage
<1> HIDE DEF made, written, q, t
<1> QED
  BY <1>1, <1>2, <1>3, <1>4, <1>5 DEF StageFits

\* A step within an operation, or after the last.
LEMMA StageAdvances ==
  ASSUME SInv, op' = op, Stage' < Stage, Stage \in Nat, Stage' \in Nat
  PROVE  StepsLeft' < StepsLeft
<1>1. op \in Nat /\ Runs \in Nat /\ Buckets \in Nat
  BY SuiteAssumption DEF SInv, TypeInv
<1>2. (Runs + 1 - op) * Round \in Int
  BY <1>1 DEF Round
<1>3. StepsLeft' = (Runs + 1 - op) * Round + Stage'
  BY DEF StepsLeft, Round
<1> QED
  BY <1>2, <1>3 DEF StepsLeft

\* The step to the next operation, or from the last to the files of the suite.
LEMMA OperationAdvances ==
  ASSUME SInv, op \in 1 .. Runs, op' = op + 1, Stage \in Nat, Stage' \in Nat,
         Stage' <= 2 * Buckets + 6
  PROVE  StepsLeft' < StepsLeft
<1>1. op \in Nat /\ Runs \in Nat /\ Buckets \in Nat
  BY SuiteAssumption DEF SInv, TypeInv
<1>2. Round \in Nat /\ Stage' < Round
  BY <1>1 DEF Round
<1>3. (Runs + 1 - op) * Round = (Runs + 1 - (op + 1)) * Round + Round
  BY <1>1, <1>2
<1>4. (Runs + 1 - (op + 1)) * Round \in Int
  BY <1>1, <1>2
<1>5. StepsLeft' = (Runs + 1 - (op + 1)) * Round + Stage'
  BY DEF StepsLeft, Round
<1> QED
  BY <1>2, <1>3, <1>4, <1>5 DEF StepsLeft

\* The list of a removal has the length of what was recorded.
LEMMA RemovalLength ==
  ASSUME NEW r, NEW n \in Nat
  PROVE  Len(RemovalList(r, n)) = n
BY DEF RemovalList

\* A set that lacks a member of another, and has no others, is smaller.
LEMMA FewerMembers ==
  ASSUME NEW S, NEW T, IsFiniteSet(S), T \subseteq S, NEW x \in S, x \notin T
  PROVE  Cardinality(T) < Cardinality(S) /\ Cardinality(T) \in Nat
<1>1. T \in SUBSET S /\ S # T
  OBVIOUS
<1>2. IsFiniteSet(T) /\ Cardinality(T) <= Cardinality(S) /\ Cardinality(S) # Cardinality(T)
  BY <1>1, FS_Subset
<1>3. Cardinality(T) \in Nat /\ Cardinality(S) \in Nat
  BY <1>2, FS_CardinalityType
<1> QED
  BY <1>2, <1>3

\* One bucket more leaves fewer to make.
LEMMA UnmadeShrinks ==
  ASSUME NEW b \in 1 .. Buckets, <<op, b>> \notin live, op' = op, live' = live \union {<<op, b>>}
  PROVE  Cardinality(Unmade') < Cardinality(Unmade) /\ Cardinality(Unmade') \in Nat
<1>1. Unmade' \subseteq Unmade /\ b \in Unmade /\ b \notin Unmade'
  BY DEF Unmade
<1>2. IsFiniteSet(Unmade)
  BY CountFacts DEF Counts
<1> QED
  BY <1>1, <1>2, FewerMembers

\* One file more leaves fewer to write.
LEMMA UnwrittenShrinks ==
  ASSUME TypeInv, NEW n \in 1 .. 3, files[<<SuiteDir, SuiteFiles[n]>>] # "complete",
         files' = [files EXCEPT ![<<SuiteDir, SuiteFiles[n]>>] = "complete"]
  PROVE  Cardinality(Unwritten') < Cardinality(Unwritten) /\ Cardinality(Unwritten') \in Nat
<1>1. \A m \in 1 .. 3 : <<SuiteDir, SuiteFiles[m]>> \in File
  BY FileFacts DEF SuiteFiles, RunFiles
<1>2. Unwritten' \subseteq Unwritten /\ n \in Unwritten /\ n \notin Unwritten'
  BY <1>1 DEF Unwritten, TypeInv
<1>3. IsFiniteSet(Unwritten)
  BY CountFacts DEF Counts
<1> QED
  BY <1>2, <1>3, FewerMembers

\* The loop of CleanupRun asks for one bucket after the other, the command reads one
\* manifest after the other, and the suite goes from each operation to the next.
LEMMA StepsDecrease == SInv /\ [Next]_vars => [StartCommand \/ StepsLeft' < StepsLeft]_vars
<1>1. SInv' => StageFits'
  BY StageFacts, PTL DEF SInv
<1>2. SInv /\ [Next]_vars => SInv'
  BY NextSInv
<1> SUFFICES ASSUME SInv, Next, vars' # vars PROVE StartCommand \/ StepsLeft' < StepsLeft
  OBVIOUS
<1> DEFINE Q == Len(queue) * (Buckets + 3)
           P == Len(queue') * (Buckets + 3)
<1>3. StageFits /\ StageFits' /\ TypeInv /\ PlaceInv
  BY <1>1, <1>2, StageFacts DEF SInv
<1>4. Stage \in Nat /\ Stage' \in Nat /\ Buckets \in Nat \ {0} /\ Len(todo) \in Nat
  BY <1>3, SuiteAssumption DEF StageFits, TypeInv
<1>5. /\ op' = op /\ Stage' < Stage => StepsLeft' < StepsLeft
      /\ op \in 1 .. Runs /\ op' = op + 1 /\ Stage' <= 2 * Buckets + 6 => StepsLeft' < StepsLeft
  BY <1>4, StageAdvances, OperationAdvances
<1>6. pc = "ended" => Stage = 0
  BY DEF Stage
<1>7. pc' = "ended" => Stage' = 0
  BY DEF Stage
<1>8. pc # "ended" => Stage > 0
  <2>1. Len(queue) \in Nat /\ Q \in Nat
    BY <1>3, <1>4 DEF TypeInv
  <2>2. pc = "provision" => Stage >= Buckets + 6
    BY <1>3, <1>4 DEF StageFits
  <2>3. pc = "suiteFile" => Stage >= 1
    BY <1>3 DEF StageFits
  <2> HIDE DEF Q
  <2> QED
    BY <1>3, <1>4, <2>1, <2>2, <2>3 DEF Stage, PlaceInv, InLoop, Q
<1>9. op' = op /\ pc # "ended" /\ pc' = "ended" => StepsLeft' < StepsLeft
  BY <1>5, <1>7, <1>8
<1>10. \A n \in Nat : pc' \in {"undo", "tidy", "tidyFailed"} /\ todo' = RemovalList(op, n)
                        => Stage' = n + 1
  BY RemovalLength DEF Stage
<1>11. NextOperation => Stage' <= 2 * Buckets + 6
  BY <1>3, <1>4 DEF NextOperation, StageFits
<1>12. pc \in {"bench", "results", "summary"} /\ op' = op
         /\ (RunFails(FALSE) \/ RunFails(TRUE)) => StepsLeft' < StepsLeft
  <2> SUFFICES ASSUME pc \in {"bench", "results", "summary"}, op' = op,
                      RunFails(FALSE) \/ RunFails(TRUE)
               PROVE  StepsLeft' < StepsLeft
    OBVIOUS
  <2>1. CASE pc' = "ended"
    BY <1>9, <2>1
  <2>2. CASE pc' # "ended"
    <3>1. pc' = "tidyFailed" /\ todo' = RemovalList(op, Buckets)
      BY <2>2 DEF RunFails, End
    <3>2. Stage' = Buckets + 1
      BY <1>4, <1>10, <3>1
    <3>3. Stage >= Buckets + 3
      BY <1>4 DEF Stage
    <3> QED
      BY <1>4, <1>5, <3>2, <3>3
  <2> QED
    BY <2>1, <2>2
<1>13. CASE Setup
  <2>1. pc = "setup" /\ op' = op /\ pc' \in {"provision", "ended"}
    BY <1>13 DEF Setup, End
  <2>2. Stage = 2 * Buckets + 7
    BY <2>1 DEF Stage
  <2>3. Stage' <= 2 * Buckets + 6
    BY <1>3, <1>4, <1>7, <2>1 DEF StageFits
  <2> QED
    BY <1>4, <1>5, <2>1, <2>2, <2>3
<1>14. CASE Provision
  <2>1. pc = "provision" /\ op' = op
    BY <1>14 DEF Provision, suite
  <2>2. CASE pc' = "bench"
    <3>1. Stage' = Buckets + 5 /\ Stage >= Buckets + 6
      BY <1>3, <1>4, <2>1, <2>2 DEF Stage, StageFits
    <3> QED
      BY <1>4, <1>5, <2>1, <3>1
  <2>3. CASE pc' # "bench"
    <3>1. PICK bucket \in NextBucket : live' = live \union {bucket}
      BY <1>14, <2>3 DEF Provision
    <3>2. PICK b \in 1 .. Buckets : bucket = <<op, b>> /\ Made = {op} \X (1 .. b - 1)
      BY <3>1 DEF NextBucket
    <3>3. <<op, b>> \notin live
      <4>1. b \notin 1 .. b - 1
        OBVIOUS
      <4>2. <<op, b>> \notin Made
        BY <3>2, <4>1
      <4> QED
        BY <4>2 DEF Made, BucketsOf
    <3>4. Cardinality(Unmade') < Cardinality(Unmade) /\ Cardinality(Unmade') \in Nat
      BY <2>1, <3>1, <3>2, <3>3, UnmadeShrinks
    <3>5. Cardinality(Unmade) \in Nat
      BY CountFacts DEF Counts
    <3>6. pc' = "provision"
      BY <1>14, <2>3 DEF Provision
    <3>7. /\ Stage = Cardinality(Unmade) + Buckets + 6
          /\ Stage' = Cardinality(Unmade') + Buckets + 6
      BY <2>1, <3>6 DEF Stage
    <3> QED
      BY <1>4, <1>5, <2>1, <3>4, <3>5, <3>7
  <2> QED
    BY <2>2, <2>3
<1>15. CASE ProvisionFails
  <2>1. pc = "provision" /\ op' = op /\ pc' = "undo"
    BY <1>15 DEF ProvisionFails, UndoProvision
  <2>2. PICK n \in 2 .. Buckets : todo' = RemovalList(op, n)
    BY <1>15 DEF ProvisionFails, UndoProvision
  <2>3. n \in Nat /\ n <= Buckets
    BY <1>4
  <2>4. Stage' = n + 1
    BY <1>10, <2>1, <2>2, <2>3
  <2>5. Stage >= Buckets + 6
    BY <1>3, <1>4, <2>1 DEF StageFits
  <2> QED
    BY <1>4, <1>5, <2>1, <2>3, <2>4, <2>5
<1>16. CASE Bench
  <2>1. pc = "bench" /\ op' = op /\ (pc' = "results" \/ RunFails(FALSE))
    BY <1>16 DEF Bench
  <2>2. CASE pc' = "results"
    <3>1. Stage = Buckets + 5 /\ Stage' = Buckets + 4
      BY <2>1, <2>2 DEF Stage
    <3> QED
      BY <1>4, <1>5, <2>1, <3>1
  <2> QED
    BY <1>12, <2>1, <2>2
<1>17. CASE WriteResults
  <2>1. pc = "results" /\ op' = op /\ (pc' = "summary" \/ RunFails(TRUE))
    BY <1>17 DEF WriteResults
  <2>2. CASE pc' = "summary"
    <3>1. Stage = Buckets + 4 /\ Stage' = Buckets + 3
      BY <2>1, <2>2 DEF Stage
    <3> QED
      BY <1>4, <1>5, <2>1, <3>1
  <2> QED
    BY <1>12, <2>1, <2>2
<1>18. CASE WriteSummary
  <2>1. /\ pc = "summary" /\ op \in 1 .. Runs
        /\ \/ op' = op + 1 /\ NextOperation
           \/ op' = op /\ pc' = "tidy" /\ todo' = RemovalList(op, Buckets)
           \/ op' = op /\ RunFails(TRUE)
    <3>1. pc = "summary" /\ op \in 1 .. Runs
      BY <1>3, <1>18, SuiteAssumption DEF WriteSummary, PlaceInv, TypeInv, InLoop
    <3> QED
      BY <1>18, <3>1 DEF WriteSummary
  <2>2. CASE op' = op /\ pc' = "tidy" /\ todo' = RemovalList(op, Buckets)
    <3>1. Stage = Buckets + 3
      BY <2>1 DEF Stage
    <3>2. Stage' = Buckets + 1
      BY <1>4, <1>10, <2>2
    <3> QED
      BY <1>4, <1>5, <2>2, <3>1, <3>2
  <2> QED
    BY <1>5, <1>11, <1>12, <2>1, <2>2
<1>19. CASE WriteSuiteFile
  <2>1. pc = "suiteFile" /\ op' = op
    BY <1>19 DEF WriteSuiteFile
  <2>2. CASE pc' = "ended"
    BY <1>9, <2>1, <2>2
  <2>3. CASE pc' # "ended"
    <3>1. PICK n \in 1 .. 3 :
            /\ \A m \in 1 .. 3 : m < n <=> files[<<SuiteDir, SuiteFiles[m]>>] = "complete"
            /\ files' = [files EXCEPT ![<<SuiteDir, SuiteFiles[n]>>] = "complete"]
      BY <1>19, <2>3 DEF WriteSuiteFile, End
    <3>2. files[<<SuiteDir, SuiteFiles[n]>>] # "complete" /\ pc' = pc
      BY <1>19, <2>3, <3>1 DEF WriteSuiteFile, End
    <3>3. Cardinality(Unwritten') < Cardinality(Unwritten) /\ Cardinality(Unwritten') \in Nat
      BY <1>3, <3>1, <3>2, UnwrittenShrinks
    <3>4. Cardinality(Unwritten) \in Nat
      BY CountFacts DEF Counts
    <3>5. Stage = Cardinality(Unwritten) + 1 /\ Stage' = Cardinality(Unwritten') + 1
      BY <2>1, <3>2 DEF Stage
    <3> QED
      BY <1>4, <1>5, <2>1, <3>3, <3>4, <3>5
  <2> QED
    BY <2>2, <2>3
<1>20. CASE RemoveOne
  <2>1. /\ Removing /\ todo # <<>> /\ op' = op /\ queue' = queue
        /\ \/ todo' = Tail(todo) /\ pc' = pc
           \/ pc' = "ended"
    BY <1>20 DEF RemoveOne, Refused, Goes, CleanupFails, End
  <2>2. CASE todo' = Tail(todo) /\ pc' = pc
    <3>1. Len(todo') = Len(todo) - 1
      BY <1>3, <2>1, <2>2 DEF TypeInv
    <3>2. Q \in Nat /\ P = Q
      BY <1>3, <1>4, <2>1 DEF TypeInv
    <3>3. \/ Stage = Len(todo) + 1 /\ Stage' = Len(todo') + 1
          \/ Stage = Q + Len(todo) + 1 /\ Stage' = P + Len(todo') + 1
      BY <2>1, <2>2 DEF Stage, Removing
    <3> HIDE DEF Q, P
    <3> QED
      BY <1>4, <1>5, <2>1, <3>1, <3>2, <3>3
  <2>3. CASE pc' = "ended"
    BY <1>9, <2>1, <2>3 DEF Removing
  <2> QED
    BY <2>1, <2>2, <2>3
<1>21. CASE CleanupReturns
  <2>1. CASE pc = "tidy"
    <3>1. op \in 1 .. Runs /\ op' = op + 1 /\ NextOperation
      BY <1>3, <1>21, <2>1, SuiteAssumption DEF CleanupReturns, PlaceInv, TypeInv, InLoop
    <3> QED
      BY <1>5, <1>11, <3>1
  <2>2. CASE pc \in {"undo", "tidyFailed"}
    BY <1>9, <1>21, <2>2 DEF CleanupReturns, End
  <2>3. CASE pc = "removing"
    <3>1. /\ pc' = "command" /\ op' = op /\ queue # <<>> /\ queue' = Tail(queue)
          /\ todo = <<>>
      BY <1>3, <1>21, <2>3 DEF CleanupReturns, PlaceInv
    <3>2. Len(queue) \in Nat /\ Len(queue') \in Nat /\ Len(queue) = Len(queue') + 1
      BY <1>3, <3>1 DEF TypeInv
    <3>3. Q = P + Buckets + 3 /\ P \in Nat
      BY <1>4, <3>2
    <3>4. Stage = Q + Len(todo) + 1 /\ Stage' = P + Buckets + 2
      BY <2>3, <3>1 DEF Stage
    <3> HIDE DEF Q, P
    <3> QED
      BY <1>4, <1>5, <3>1, <3>3, <3>4
  <2> QED
    BY <1>21, <2>1, <2>2, <2>3 DEF CleanupReturns, Removing
<1>22. CASE ReadManifest
  <2>1. /\ pc = "command" /\ op' = op /\ queue' = queue
        /\ \/ pc' = "removing" /\ todo' = RemovalList(Head(queue), Buckets)
           \/ pc' = "ended"
    BY <1>22 DEF ReadManifest, suite
  <2>2. CASE pc' = "removing" /\ todo' = RemovalList(Head(queue), Buckets)
    <3>1. Len(todo') = Buckets
      BY <1>4, <2>2, RemovalLength
    <3>2. Q \in Nat /\ P = Q
      BY <1>3, <1>4, <2>1 DEF TypeInv
    <3>3. Stage = Q + Buckets + 2 /\ Stage' = P + Len(todo') + 1
      BY <2>1, <2>2 DEF Stage
    <3> HIDE DEF Q, P
    <3> QED
      BY <1>4, <1>5, <2>1, <3>1, <3>2, <3>3
  <2> QED
    BY <1>9, <2>1, <2>2
<1>23. CASE CommandDone
  BY <1>9, <1>23 DEF CommandDone, suite
<1>24. CASE Killed
  <2>1. op' = op /\ pc # "ended" /\ pc' = "ended"
    BY <1>3, <1>24 DEF Killed, End, PlaceInv, InLoop
  <2> QED
    BY <1>9, <2>1
<1>25. CASE CommandKilled
  BY <1>9, <1>25 DEF CommandKilled, suite
<1>26. CASE ProvisionFailsAtOnce
  BY <1>9, <1>26 DEF ProvisionFailsAtOnce, End
<1> QED
  BY <1>13, <1>14, <1>15, <1>16, <1>17, <1>18, <1>19, <1>20, <1>21, <1>22, <1>23, <1>24, <1>25,
     <1>26
     DEF Next, Work, Terminated

\* Whatever the outcome of its calls, a suite or a cleanup command that has been
\* started has a number of steps left that each of its steps makes smaller
\* (main.go 46-126 and 159-171, cli.ts 25-93 and 95-102).
THEOREM Advances == Spec => [](StepsLeft \in Nat) /\ [][StartCommand \/ StepsLeft' < StepsLeft]_vars
<1>1. SInv => StepsLeft \in Nat
  <2> SUFFICES ASSUME SInv PROVE StepsLeft \in Nat
    OBVIOUS
  <2>1. Stage \in Nat
    BY StageFacts DEF SInv, StageFits
  <2>2. Runs + 1 - op \in Nat /\ Round \in Nat
    BY SuiteAssumption DEF SInv, TypeInv, Round
  <2>3. (Runs + 1 - op) * Round \in Nat
    BY <2>2
  <2> QED
    BY <2>1, <2>3 DEF StepsLeft
<1> QED
  BY Invariant, StepsDecrease, <1>1, PTL DEF Spec

\* The files of the suite are written in order, once its operations are over.
Written == {n \in 1 .. 3 : files[<<SuiteDir, SuiteFiles[n]>>] = "complete"}

OrderInv ==
  /\ pc \in InLoop => Written = {}
  /\ pc = "suiteFile" => \E n \in 1 .. 3 : Written = 1 .. n - 1

\* The files of an operation are not those of the suite.
LEMMA OrderKept ==
  ASSUME TypeInv, NEW name \in RunFiles, op \in 1 .. Runs,
         files' = files \/ Spoiled(<<op, name>>)
           \/ files' = [files EXCEPT ![<<op, name>>] = "complete"]
  PROVE  Written' = Written
<1>1. \A n \in 1 .. 3 : <<SuiteDir, SuiteFiles[n]>> # <<op, name>>
  BY FileFacts
<1>2. \A n \in 1 .. 3 : <<SuiteDir, SuiteFiles[n]>> \in File
  BY FileFacts DEF SuiteFiles, RunFiles
<1>3. \A n \in 1 .. 3 : files'[<<SuiteDir, SuiteFiles[n]>>] = files[<<SuiteDir, SuiteFiles[n]>>]
  BY <1>1, <1>2 DEF Spoiled, TypeInv
<1> QED
  BY <1>3 DEF Written

\* Each file of the suite is written when those before it have been.
LEMMA OrderStep == SInv /\ OrderInv /\ [Next]_vars => OrderInv'
<1> SUFFICES ASSUME SInv, OrderInv, [Next]_vars PROVE OrderInv'
  OBVIOUS
<1> DEFINE Going == InLoop \union {"suiteFile"}
<1>1. TypeInv /\ PlaceInv
  BY DEF SInv
<1>2. CASE UNCHANGED vars
  BY <1>2 DEF OrderInv, Written, vars
<1>3. CASE pc' \notin Going
  BY <1>3 DEF OrderInv
<1>4. CASE pc \in InLoop /\ pc' \in Going /\ Next
  <2>1. op \in 1 .. Runs /\ Written = {}
    BY <1>1, <1>4, SuiteAssumption DEF PlaceInv, TypeInv, OrderInv
  <2>2. "manifest" \in RunFiles /\ "results" \in RunFiles /\ "summary" \in RunFiles
    BY DEF RunFiles
  <2>3. Written' = Written
    <3>1. CASE Provision \/ ProvisionFails \/ ProvisionFailsAtOnce
      <4>1. files' = files \/ Spoiled(<<op, "manifest">>)
              \/ files' = [files EXCEPT ![<<op, "manifest">>] = "complete"]
        BY <3>1 DEF Provision, ProvisionFails, ProvisionFailsAtOnce
      <4> QED
        BY <1>1, <2>1, <2>2, <4>1, OrderKept
    <3>2. CASE WriteResults
      <4>1. Spoiled(<<op, "results">>)
              \/ files' = [files EXCEPT ![<<op, "results">>] = "complete"]
        BY <3>2 DEF WriteResults
      <4> QED
        BY <1>1, <2>1, <2>2, <4>1, OrderKept
    <3>3. CASE WriteSummary
      <4>1. Spoiled(<<op, "summary">>)
              \/ files' = [files EXCEPT ![<<op, "summary">>] = "complete"]
        BY <3>3 DEF WriteSummary
      <4> QED
        BY <1>1, <2>1, <2>2, <4>1, OrderKept
    <3>4. CASE Setup \/ Bench \/ RemoveOne \/ CleanupReturns
      BY <3>4 DEF Setup, Bench, RemoveOne, CleanupReturns, Written
    <3>5. ~(WriteSuiteFile \/ ReadManifest \/ CommandDone \/ Killed \/ StartCommand
              \/ CommandKilled \/ Terminated)
      BY <1>4 DEF WriteSuiteFile, ReadManifest, CommandDone, Killed, StartCommand, CommandKilled,
                  Terminated, End, InLoop
    <3> QED
      BY <1>4, <3>1, <3>2, <3>3, <3>4, <3>5 DEF Next, Work
  <2>4. pc' = "suiteFile" => Written' = 1 .. 1 - 1 /\ 1 \in 1 .. 3
    BY <2>1, <2>3
  <2> QED
    BY <2>1, <2>3, <2>4 DEF OrderInv
<1>5. CASE pc = "suiteFile" /\ pc' \in Going /\ Next
  <2>1. WriteSuiteFile
    BY <1>5 DEF Next, Work, Setup, Provision, ProvisionFails, ProvisionFailsAtOnce, Bench, WriteResults, WriteSummary,
                RemoveOne, CleanupReturns, Removing, ReadManifest, CommandDone, Killed,
                StartCommand, CommandKilled, Terminated, End, InLoop
  <2>2. PICK n \in 1 .. 2 :
          /\ \A m \in 1 .. 3 : m < n <=> files[<<SuiteDir, SuiteFiles[m]>>] = "complete"
          /\ files' = [files EXCEPT ![<<SuiteDir, SuiteFiles[n]>>] = "complete"]
          /\ pc' = pc
    BY <1>5, <2>1 DEF WriteSuiteFile, End, InLoop
  <2>3. \A m, k \in 1 .. 3 : SuiteFiles[m] = SuiteFiles[k] => m = k
    BY DEF SuiteFiles
  <2>4. \A m \in 1 .. 3 : <<SuiteDir, SuiteFiles[m]>> \in File
    BY FileFacts DEF SuiteFiles, RunFiles
  <2>5. \A m \in 1 .. 3 : files'[<<SuiteDir, SuiteFiles[m]>>] = "complete" <=> m < n \/ m = n
    <3>1. n \in 1 .. 3
      OBVIOUS
    <3>2. files'[<<SuiteDir, SuiteFiles[n]>>] = "complete"
      BY <1>1, <2>2, <2>4, <3>1 DEF TypeInv
    <3>3. ASSUME NEW m \in 1 .. 3, m # n
          PROVE  files'[<<SuiteDir, SuiteFiles[m]>>] = files[<<SuiteDir, SuiteFiles[m]>>]
      <4>1. <<SuiteDir, SuiteFiles[m]>> # <<SuiteDir, SuiteFiles[n]>>
        BY <2>3, <3>1, <3>3
      <4> QED
        BY <1>1, <2>2, <2>4, <4>1 DEF TypeInv
    <3> QED
      BY <2>2, <3>1, <3>2, <3>3
  <2>6. Written' = 1 .. (n + 1) - 1 /\ n + 1 \in 1 .. 3
    BY <2>5 DEF Written
  <2> QED
    BY <1>5, <2>2, <2>6 DEF OrderInv, InLoop
<1>6. CASE pc \notin Going /\ Next
  <2>1. pc' \notin Going
    BY <1>1, <1>6 DEF Next, Work, Setup, Provision, ProvisionFails, ProvisionFailsAtOnce, Bench, WriteResults,
              WriteSummary, WriteSuiteFile, RemoveOne, CleanupReturns, ReadManifest, CommandDone,
              Killed, StartCommand, CommandKilled, Terminated, PlaceInv, InLoop, Removing, Refused,
              CleanupFails, End, vars
  <2> QED
    BY <1>3, <2>1
<1> QED
  BY <1>2, <1>3, <1>4, <1>5, <1>6

\* There is a file of the suite to write until the suite ends, and a run to go on
\* from when a removal of the cleanup command is over: nothing else that a step
\* waits for could fail to be there.
NeverStuck ==
  /\ pc = "suiteFile" =>
       \E n \in 1 .. 3 : \A m \in 1 .. 3 :
         m < n <=> files[<<SuiteDir, SuiteFiles[m]>>] = "complete"
  /\ pc = "removing" => queue # <<>>

\* Until it ends, a command can go on: the files of the suite are written one after
\* the other (main.go 108-121, cli.ts 82-89).
THEOREM NeverStuckHolds == Spec => []NeverStuck
<1>1. Init => OrderInv
  <2> SUFFICES ASSUME Init PROVE OrderInv
    OBVIOUS
  <2>1. \A m \in 1 .. 3 : <<SuiteDir, SuiteFiles[m]>> \in File
    BY FileFacts DEF SuiteFiles, RunFiles
  <2>2. Written = {} /\ pc # "suiteFile"
    BY <2>1 DEF Init, Written
  <2> QED
    BY <2>2 DEF OrderInv
<1>2. SInv /\ OrderInv => NeverStuck
  <2> SUFFICES ASSUME SInv, OrderInv PROVE NeverStuck
    OBVIOUS
  <2>1. pc = "removing" => queue # <<>>
    BY DEF SInv, PlaceInv
  <2>2. ASSUME pc = "suiteFile"
        PROVE  \E n \in 1 .. 3 : \A m \in 1 .. 3 :
                 m < n <=> files[<<SuiteDir, SuiteFiles[m]>>] = "complete"
    <3>1. PICK n \in 1 .. 3 : Written = 1 .. n - 1
      BY <2>2 DEF OrderInv
    <3>2. \A m \in 1 .. 3 : m < n <=> m \in Written
      BY <3>1
    <3> QED
      BY <3>2 DEF Written
  <2> QED
    BY <2>1, <2>2 DEF NeverStuck
<1> QED
  BY Invariant, <1>1, <1>2, OrderStep, PTL DEF Spec
=============================================================================

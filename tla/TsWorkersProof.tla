---------------------------- MODULE TsWorkersProof ----------------------------
(***************************************************************************)
(* Proofs about TsWorkers, for every number of items and workers.          *)
(*                                                                         *)
(* As in the Go pool the core is bookkeeping, here without a lock: a       *)
(* worker's step from one await to the next is one action.  Before Start   *)
(* nothing is claimed (StartInv); afterwards a claim is an index below the *)
(* cursor and of one worker (ClaimInv, UniqueInv), and every index below   *)
(* the cursor is recorded or held (Accounted).  The reason of a rejection  *)
(* is the item of a rejected worker (ReasonInv).                           *)
(***************************************************************************)
EXTENDS TsWorkers, FiniteSetTheorems, TLAPS

\* Array.from starts all the workers in one step.
StartInv ==
  \/ /\ \A w \in Workers : pc[w] = "unspawned" /\ index[w] = NoItem
     /\ cursor = 0 /\ durations = {} /\ reason = NoItem /\ result = "running"
  \/ \A w \in Workers : pc[w] # "unspawned"

\* A claim is an index the cursor has passed, past the end only for a worker
\* that is done.
ClaimInv ==
  /\ \A w \in Workers : pc[w] # "unspawned" => index[w] \in 0 .. cursor - 1
  /\ \A w \in Workers : pc[w] \in {"await", "rejected"} => index[w] \in Items
  /\ \A w \in Workers : pc[w] = "done" => index[w] >= N
  /\ \A i \in durations : i < cursor

\* No index is claimed twice, and none that has been recorded.
UniqueInv ==
  \A w \in Workers : pc[w] # "unspawned" =>
    /\ index[w] \notin durations
    /\ \A v \in Workers : index[v] = index[w] => v = w

\* No index is lost.
Accounted ==
  \A i \in Items : i < cursor => i \in durations \/ \E w \in Workers : index[w] = i

\* Promise.all has a reason when a worker is rejected: that worker's item.
ReasonInv ==
  /\ reason # NoItem => \E w \in Workers : Failed(w) /\ index[w] = reason
  /\ \A w \in Workers : Failed(w) => reason # NoItem

ResultInv ==
  /\ result = "ok" => \A w \in Workers : pc[w] = "done"
  /\ result = "error" => reason # NoItem

Inv ==
  /\ TypeOK
  /\ StartInv
  /\ ClaimInv
  /\ UniqueInv
  /\ Accounted
  /\ ReasonInv
  /\ ResultInv
-----------------------------------------------------------------------------
\* There is always at least one worker, and no more of them than items but for
\* the one that finds no items.
LEMMA WorkersFacts ==
  /\ WorkerCount \in Nat \ {0}
  /\ Workers \subseteq Nat /\ 1 \in Workers
  /\ NoItem \notin Items
  /\ Items \subseteq Nat
  /\ N > 0 => WorkerCount <= N
BY SizeAssumption DEF WorkerCount, Workers, NoItem, Items

LEMMA InitInv == Init => Inv
BY WorkersFacts DEF Init, Inv, TypeOK, StartInv, ClaimInv, UniqueInv, Accounted,
                    ReasonInv, ResultInv, Failed, Items, NoItem

\* Array.from: the first indexes are claimed by one worker each.
LEMMA StartStep == Inv /\ Start => Inv'
<1> SUFFICES ASSUME Inv, Start PROVE Inv'
  OBVIOUS
<1> USE WorkersFacts, SizeAssumption DEF Start
<1>1. durations = {} /\ reason = NoItem /\ result = "running"
  BY DEF Inv, StartInv
<1>2. TypeOK'
  BY <1>1 DEF Inv, TypeOK, Workers
<1>3. StartInv' /\ ClaimInv' /\ UniqueInv'
  BY <1>1 DEF StartInv, ClaimInv, UniqueInv, Workers, Items
<1>4. Accounted'
  <2> SUFFICES ASSUME NEW i \in Items, i < WorkerCount
               PROVE  \E w \in Workers : index'[w] = i
    BY DEF Accounted
  <2>1. i + 1 \in Workers /\ (i + 1) - 1 = i
    BY DEF Workers, Items
  <2> QED
    BY <2>1
<1>5. ReasonInv' /\ ResultInv'
  BY <1>1 DEF ReasonInv, ResultInv, Failed
<1> QED
  BY <1>2, <1>3, <1>4, <1>5 DEF Inv

\* A worker that is answered hands its index over to durations and takes the
\* one the cursor stands at.
LEMMA ResumeStep == \A w \in Workers : Inv /\ Resume(w) => Inv'
<1> SUFFICES ASSUME NEW w \in Workers, Inv, Resume(w) PROVE Inv'
  OBVIOUS
<1> USE WorkersFacts, SizeAssumption DEF Resume
<1>1. \A v \in Workers : pc[v] # "unspawned"
  BY DEF Inv, StartInv
<1>2. index[w] \in Items /\ index[w] < cursor /\ cursor \in Nat
  BY DEF Inv, TypeOK, ClaimInv
<1>3. TypeOK'
  <2>1. cursor' \in Nat /\ index' \in [Workers -> Nat \union {NoItem}]
    BY <1>2 DEF Inv, TypeOK
  <2>2. durations' \in SUBSET Items
    BY <1>2 DEF Inv, TypeOK
  <2>3. pc' \in [Workers -> {"unspawned", "await", "done", "rejected"}]
    BY DEF Inv, TypeOK
  <2> QED
    BY <2>1, <2>2, <2>3 DEF Inv, TypeOK
<1>4. StartInv'
  BY <1>1 DEF Inv, TypeOK, StartInv
<1>5. ClaimInv'
  BY <1>1, <1>2 DEF Inv, TypeOK, ClaimInv, Items
<1>6. UniqueInv'
  BY <1>1, <1>2 DEF Inv, TypeOK, ClaimInv, UniqueInv
<1>7. Accounted'
  BY <1>2 DEF Inv, TypeOK, Accounted, Items
<1>8. ReasonInv' /\ ResultInv'
  BY DEF Inv, TypeOK, ReasonInv, ResultInv, Failed
<1> QED
  BY <1>3, <1>4, <1>5, <1>6, <1>7, <1>8 DEF Inv

LEMMA RejectStep == \A w \in Workers : Inv /\ Reject(w) => Inv'
<1> SUFFICES ASSUME NEW w \in Workers, Inv, Reject(w) PROVE Inv'
  OBVIOUS
<1> USE WorkersFacts, SizeAssumption DEF Reject
<1>1. index[w] \in Items
  BY DEF Inv, TypeOK, ClaimInv
<1>2. TypeOK'
  BY <1>1 DEF Inv, TypeOK
<1>3. StartInv' /\ ClaimInv'
  BY DEF Inv, TypeOK, StartInv, ClaimInv
<1>4. UniqueInv' /\ Accounted'
  BY DEF Inv, TypeOK, StartInv, UniqueInv, Accounted
<1>5. ReasonInv'
  BY <1>1 DEF Inv, TypeOK, ReasonInv, Failed
<1>6. ResultInv'
  BY <1>1 DEF Inv, TypeOK, ResultInv
<1> QED
  BY <1>2, <1>3, <1>4, <1>5, <1>6 DEF Inv

\* Settling changes nothing but the result.
LEMMA SettleStep == Inv /\ (SettleOk \/ SettleError \/ UNCHANGED vars) => Inv'
<1> SUFFICES ASSUME Inv, SettleOk \/ SettleError \/ UNCHANGED vars PROVE Inv'
  OBVIOUS
<1>1. UNCHANGED <<cursor, pc, index, durations, reason>>
  BY DEF SettleOk, SettleError, vars
<1>2. TypeOK' /\ ClaimInv' /\ UniqueInv' /\ Accounted' /\ ReasonInv'
  BY <1>1 DEF Inv, TypeOK, ClaimInv, UniqueInv, Accounted, ReasonInv, Failed,
              SettleOk, SettleError, vars
<1>3. StartInv' /\ ResultInv'
  BY <1>1, WorkersFacts DEF Inv, TypeOK, StartInv, ResultInv, SettleOk, SettleError, vars
<1> QED
  BY <1>2, <1>3 DEF Inv

\* The bookkeeping holds of every execution, whichever requests are rejected and
\* in whatever order they are answered.
THEOREM Invariant == Spec => []Inv
<1>1. Inv /\ [Next]_vars => Inv'
  BY StartStep, ResumeStep, RejectStep, SettleStep DEF Next, Worker, Terminated
<1> QED
  BY InitInv, <1>1, PTL DEF Spec
-----------------------------------------------------------------------------
\* The type of every variable of the pool.
THEOREM TypeOKHolds == Spec => []TypeOK
<1>1. Inv => TypeOK
  BY DEF Inv
<1> QED
  BY Invariant, <1>1, PTL

\* A worker that is done has seen the cursor at the end of the items.
LEMMA DoneFacts ==
  ASSUME Inv, NEW w \in Workers, pc[w] = "done"
  PROVE  cursor > N
BY SizeAssumption DEF Inv, TypeOK, ClaimInv

\* When every worker is done, every item has been recorded.
LEMMA AllDone ==
  ASSUME Inv, \A w \in Workers : pc[w] = "done"
  PROVE  durations = Items
<1>1. cursor > N
  BY DoneFacts, WorkersFacts
<1>2. ASSUME NEW i \in Items PROVE i \in durations
  <2>1. i < cursor /\ i < N
    BY <1>1, SizeAssumption DEF Items, Inv, TypeOK
  <2>2. \A w \in Workers : index[w] # i
    BY <2>1, SizeAssumption DEF Inv, ClaimInv, Items
  <2> QED
    BY <2>1, <2>2 DEF Inv, Accounted
<1> QED
  BY <1>2 DEF Inv, TypeOK

\* A call that resolves has a duration for every item and leaves no worker
\* behind it (src/benchmark.ts 37 and 41): Promise.all is fulfilled only by all.
THEOREM ResolvedMeansDoneHolds == Spec => []ResolvedMeansDone
<1>1. Inv => ResolvedMeansDone
  BY AllDone DEF Inv, ResultInv, ResolvedMeansDone, Quiet
<1> QED
  BY Invariant, <1>1, PTL

\* The workers that a rejected call leaves behind perform every item that is
\* left, as long as one of them is not rejected itself (src/benchmark.ts 26-39).
THEOREM OrphansFinishTheItemsHolds == Spec => []OrphansFinishTheItems
<1>1. ASSUME Inv, Quiet, NEW i \in Items, i >= cursor, NEW w \in Workers
      PROVE  Failed(w)
  <2>1. pc[w] = "done" => cursor > N
    BY <1>1, DoneFacts
  <2>2. i < N /\ i \in Int /\ cursor \in Int
    BY <1>1, SizeAssumption DEF Items, Inv, TypeOK
  <2>3. pc[w] # "done"
    BY <1>1, <2>1, <2>2, SizeAssumption
  <2> QED
    BY <1>1, <2>3 DEF Quiet, Failed
<1>2. Inv => OrphansFinishTheItems
  BY <1>1 DEF OrphansFinishTheItems
<1> QED
  BY Invariant, <1>2, PTL
-----------------------------------------------------------------------------
(***************************************************************************)
(* The pool implements ParallelFor without the join.                       *)
(***************************************************************************)

\* Seen from outside, the item of a worker is where the worker is, and an item
\* that nobody holds is done or still to do.
LEMMA StatusFacts ==
  ASSUME Inv, NEW i \in Items
  PROVE  /\ \A w \in Workers : index[w] = i =>
              /\ pc[w] = "await" => statusOf(i) = "running"
              /\ Failed(w) => statusOf(i) = "failed"
         /\ i \in durations => statusOf(i) = "done"
         /\ i >= cursor => statusOf(i) = "todo"
<1> USE WorkersFacts, SizeAssumption
<1>1. i \in durations => statusOf(i) = "done"
  BY DEF statusOf
<1>2. ASSUME NEW w \in Workers, index[w] = i, pc[w] = "await" PROVE statusOf(i) = "running"
  BY <1>2 DEF Inv, UniqueInv, statusOf
<1>3. ASSUME NEW w \in Workers, index[w] = i, Failed(w) PROVE statusOf(i) = "failed"
  BY <1>3 DEF Inv, UniqueInv, statusOf, Failed
<1>4. ASSUME i >= cursor PROVE statusOf(i) = "todo"
  <2>1. i \notin durations
    BY <1>4 DEF Inv, TypeOK, ClaimInv, Items
  <2>2. \A w \in Workers : pc[w] # "unspawned" => index[w] # i
    BY <1>4 DEF Inv, TypeOK, ClaimInv, Items
  <2> QED
    BY <2>1, <2>2 DEF statusOf, Failed
<1> QED
  BY <1>1, <1>2, <1>3, <1>4

\* The workers' first run up to their awaits starts the first items at once.
LEMMA StartSim == Inv /\ Inv' /\ Start => PF!StartMany
<1> SUFFICES ASSUME Inv, Inv', Start PROVE PF!StartMany
  OBVIOUS
<1> USE WorkersFacts, SizeAssumption
<1> DEFINE S == {i \in Items : i < WorkerCount}
<1>1. \A i \in Items : statusOf(i) = "todo"
  BY DEF Inv, StartInv, Start, statusOf, Failed
<1>2. ASSUME NEW i \in Items
      PROVE  statusOf(i)' = IF i \in S THEN "running" ELSE "todo"
  <2>1. durations' = {} /\ \A w \in Workers : pc'[w] # "rejected"
    BY DEF Inv, StartInv, Start
  <2>2. CASE i < WorkerCount
    <3>1. i + 1 \in Workers /\ index'[i + 1] = i /\ pc'[i + 1] = "await"
      BY <2>2 DEF Start, Workers, Items
    <3> QED
      BY <2>1, <2>2, <3>1 DEF statusOf
  <2>3. CASE i >= WorkerCount
    <3>1. \A w \in Workers : index'[w] # i
      BY <2>3 DEF Start, Workers, Items
    <3> QED
      BY <2>1, <2>3, <3>1 DEF statusOf, Failed
  <2> QED
    BY <2>2, <2>3 DEF Items
<1>3. result = "running" /\ result' = result
  BY DEF Inv, StartInv, Start
<1> HIDE DEF S
<1>4. S \in SUBSET Items
  BY DEF S
<1> QED
  BY <1>1, <1>2, <1>3, <1>4 DEF PF!StartMany

\* The end of an item is, in the same step, the start of the next one.
LEMMA ResumeSim ==
  \A w \in Workers : Inv /\ Inv' /\ Resume(w) =>
    \/ \E i \in Items : PF!End(i)
    \/ \E i, j \in Items : PF!EndAndStart(i, j)
<1> SUFFICES ASSUME NEW w \in Workers, Inv, Inv', Resume(w)
             PROVE  \/ \E i \in Items : PF!End(i)
                    \/ \E i, j \in Items : PF!EndAndStart(i, j)
  OBVIOUS
<1> USE WorkersFacts, SizeAssumption
<1>1. PICK k \in Items, c \in Nat : k = index[w] /\ c = cursor
  BY DEF Resume, Inv, TypeOK, ClaimInv
<1>2. statusOf(k) = "running" /\ k < c
  BY <1>1, StatusFacts DEF Resume, Inv, ClaimInv
<1>3. result \in {"running", "error"} /\ result' = result
  BY DEF Resume, Inv, TypeOK, ResultInv
<1>4. statusOf(k)' = "done"
  BY <1>1 DEF Resume, statusOf
<1>5. ASSUME NEW i \in Items, i # k, i # c PROVE statusOf(i)' = statusOf(i)
  BY <1>1, <1>5 DEF Resume, Inv, TypeOK, statusOf, Failed
<1>6. CASE c < N
  <2>1. c \in Items /\ c # k /\ statusOf(c) = "todo"
    BY <1>1, <1>2, <1>6, StatusFacts DEF Items
  <2>2. statusOf(c)' = "running"
    <3>1. index'[w] = c /\ pc'[w] = "await" /\ c \notin durations'
      BY <1>1, <1>2, <1>6 DEF Resume, Inv, TypeOK, ClaimInv
    <3> QED
      BY <3>1 DEF statusOf
  <2>3. PF!EndAndStart(k, c)
    BY <1>2, <1>3, <1>4, <1>5, <2>1, <2>2 DEF PF!EndAndStart
  <2> QED
    BY <2>1, <2>3
<1>7. CASE c >= N
  <2>1. c \notin Items
    BY <1>7 DEF Items
  <2>2. PF!End(k)
    BY <1>2, <1>3, <1>4, <1>5, <2>1 DEF PF!End
  <2> QED
    BY <2>2
<1> QED
  BY <1>6, <1>7

LEMMA RejectSim ==
  \A w \in Workers : Inv /\ Inv' /\ Reject(w) => \E i \in Items : PF!End(i)
<1> SUFFICES ASSUME NEW w \in Workers, Inv, Inv', Reject(w)
             PROVE  \E i \in Items : PF!End(i)
  OBVIOUS
<1> USE WorkersFacts, SizeAssumption
<1>1. PICK k \in Items : k = index[w]
  BY DEF Reject, Inv, TypeOK, ClaimInv
<1>2. statusOf(k) = "running"
  BY <1>1, StatusFacts DEF Reject, Inv
<1>3. result \in {"running", "error"} /\ result' = result
  BY DEF Reject, Inv, TypeOK, ResultInv
<1>4. statusOf(k)' = "failed"
  <2>1. k \notin durations' /\ \A v \in Workers : index'[v] = k => v = w
    BY <1>1 DEF Reject, Inv, UniqueInv
  <2>2. pc'[w] = "rejected" /\ index'[w] = k
    BY <1>1 DEF Reject, Inv, TypeOK
  <2> QED
    BY <2>1, <2>2 DEF statusOf, Failed
<1>5. ASSUME NEW i \in Items, i # k PROVE statusOf(i)' = statusOf(i)
  BY <1>1, <1>5 DEF Reject, Inv, TypeOK, statusOf, Failed
<1>6. PF!End(k)
  BY <1>2, <1>3, <1>4, <1>5 DEF PF!End
<1> QED
  BY <1>6

\* Promise.all settles as the contract's verdict.
LEMMA SettleSim ==
  Inv /\ (SettleOk \/ SettleError) => PF!ReturnOk \/ PF!ReturnError
<1> SUFFICES ASSUME Inv, SettleOk \/ SettleError PROVE PF!ReturnOk \/ PF!ReturnError
  OBVIOUS
<1>1. \A i \in Items : statusOf(i)' = statusOf(i)
  BY DEF SettleOk, SettleError, statusOf, Failed
<1>2. CASE SettleOk
  <2>1. \A i \in Items : statusOf(i) = "done"
    BY <1>2, AllDone DEF SettleOk, statusOf
  <2> QED
    BY <1>1, <1>2, <2>1 DEF SettleOk, PF!ReturnOk
<1>3. CASE SettleError
  <2>1. PICK w \in Workers : Failed(w) /\ index[w] = reason
    BY <1>3 DEF SettleError, Inv, ReasonInv
  <2>2. reason \in Items
    BY <1>3 DEF SettleError, Inv, TypeOK
  <2>3. statusOf(reason) = "failed"
    BY <2>1, <2>2, StatusFacts
  <2> QED
    BY <1>1, <1>3, <2>2, <2>3 DEF SettleError, PF!ReturnError
<1> QED
  BY <1>2, <1>3

\* The async pool implements a parallel loop that does not join: its steps are
\* steps of ParallelFor under statusOf, the synchronous continuation from one
\* item to the next as one step of both.
THEOREM ContractHolds == Spec => Contract
<1>1. Init => PF!Init
  BY WorkersFacts DEF Init, PF!Init, statusOf, Failed
<1>2. Inv /\ Inv' /\ [Next]_vars => [PF!Next]_(PF!vars)
  <2> SUFFICES ASSUME Inv, Inv', [Next]_vars PROVE [PF!Next]_(PF!vars)
    OBVIOUS
  <2>1. CASE Start
    BY <2>1, StartSim DEF PF!Next
  <2>2. ASSUME NEW w \in Workers, Resume(w) PROVE PF!Next
    BY <2>2, ResumeSim DEF PF!Next
  <2>3. ASSUME NEW w \in Workers, Reject(w) PROVE PF!Next
    BY <2>3, RejectSim DEF PF!Next
  <2>4. CASE SettleOk \/ SettleError
    BY <2>4, SettleSim DEF PF!Next
  <2>5. CASE UNCHANGED vars
    BY <2>5 DEF vars, PF!vars, statusOf, Failed
  <2> QED
    BY <2>1, <2>2, <2>3, <2>4, <2>5 DEF Next, Worker, Terminated
<1> QED
  BY Invariant, <1>1, <1>2, PTL DEF Spec, Contract, PF!Spec
-----------------------------------------------------------------------------
(***************************************************************************)
(* The call cannot run for ever, nor can what it leaves behind, and        *)
(* nothing keeps it from going on.                                         *)
(***************************************************************************)

\* How many steps worker w has before it that claim no item.
StepsOf(w) ==
  CASE pc[w] = "unspawned" -> 2
    [] pc[w] = "await" -> 1
    [] OTHER -> 0

NoWorker == 0
Everyone == Workers \union {NoWorker}

\* The steps ahead; the one that has no worker is the promise's.
Ahead ==
  {step \in Everyone \X (1 .. 2) :
     IF step[1] = NoWorker THEN result = "running" /\ step[2] = 1
                           ELSE step[2] <= StepsOf(step[1])}

Unclaimed == {i \in Items : i >= cursor}

\* A bound on the steps until the end: a claim counts for more steps than there
\* can be ahead.
Round == Cardinality(Everyone \X (1 .. 2)) + 1
StepsLeft == Cardinality(Unclaimed) * Round + Cardinality(Ahead)

Counted ==
  /\ IsFiniteSet(Unclaimed) /\ IsFiniteSet(Ahead)
  /\ Cardinality(Unclaimed) \in Nat /\ Cardinality(Ahead) \in Nat
  /\ Round \in Nat \ {0} /\ Cardinality(Ahead) < Round

\* There are finitely many steps ahead, and fewer of them than a claim counts for.
LEMMA AheadFacts == Counted
<1>1. IsFiniteSet(Items) /\ IsFiniteSet(Workers) /\ IsFiniteSet(1 .. 2)
  <2>1. 0 \in Int /\ 1 \in Int /\ 2 \in Int /\ N - 1 \in Int /\ WorkerCount \in Int
    BY SizeAssumption, WorkersFacts
  <2> QED
    BY <2>1, FS_Interval DEF Items, Workers
<1>2. IsFiniteSet(Everyone)
  BY <1>1, FS_AddElement DEF Everyone
<1>3. IsFiniteSet(Everyone \X (1 .. 2))
  BY <1>1, <1>2, FS_Product
<1>4. IsFiniteSet(Unclaimed) /\ Cardinality(Unclaimed) \in Nat
  BY <1>1, FS_Subset, FS_CardinalityType DEF Unclaimed
<1>5. Ahead \subseteq Everyone \X (1 .. 2)
  BY DEF Ahead
<1>6. /\ IsFiniteSet(Ahead) /\ Cardinality(Ahead) <= Cardinality(Everyone \X (1 .. 2))
      /\ Cardinality(Ahead) \in Nat /\ Cardinality(Everyone \X (1 .. 2)) \in Nat
  BY <1>3, <1>5, FS_Subset, FS_CardinalityType
<1> QED
  BY <1>4, <1>6 DEF Counted, Round

\* A step that claims an item may bring steps ahead, but fewer than it counts for.
LEMMA ClaimAdvances ==
  ASSUME Counted', Unclaimed' \subseteq Unclaimed, Unclaimed' # Unclaimed
  PROVE  StepsLeft' < StepsLeft
<1>1. Cardinality(Unclaimed') < Cardinality(Unclaimed) /\ Cardinality(Unclaimed') \in Nat
  BY AheadFacts, FS_Subset, FS_CardinalityType DEF Counted
<1>2. Round' = Round
  BY DEF Round, Everyone
<1> DEFINE u == Cardinality(Unclaimed)
           v == Cardinality(Unclaimed')
           a == Cardinality(Ahead)
           b == Cardinality(Ahead')
<1>3. u \in Nat /\ v \in Nat /\ a \in Nat /\ b \in Nat /\ Round \in Nat \ {0} /\ v < u /\ b < Round
  BY <1>1, <1>2, AheadFacts DEF Counted
<1>4. StepsLeft = u * Round + a /\ StepsLeft' = v * Round + b
  BY <1>2 DEF StepsLeft
<1> HIDE DEF u, v, a, b
<1>5. PICK d \in Nat : u = v + 1 + d
  <2>1. u - v - 1 \in Nat /\ u = v + 1 + (u - v - 1)
    BY <1>3
  <2> QED
    BY <2>1
<1>6. u * Round = v * Round + Round + d * Round
  BY <1>3, <1>5
<1>7. d * Round \in Nat /\ v * Round \in Nat
  BY <1>3
<1> QED
  BY <1>3, <1>4, <1>6, <1>7

\* A step that claims no item leaves fewer steps ahead.
LEMMA StepAdvances ==
  ASSUME Ahead' \subseteq Ahead, Ahead' # Ahead, Unclaimed' = Unclaimed
  PROVE  StepsLeft' < StepsLeft
<1>1. /\ Cardinality(Ahead') < Cardinality(Ahead)
      /\ Cardinality(Ahead) \in Nat /\ Cardinality(Ahead') \in Nat
  BY AheadFacts, FS_Subset, FS_CardinalityType DEF Counted
<1>2. Round' = Round /\ Round \in Nat /\ Cardinality(Unclaimed) \in Nat
  BY AheadFacts DEF Round, Everyone, Counted
<1>3. Cardinality(Unclaimed) * Round \in Nat
  BY <1>2
<1> QED
  BY <1>1, <1>2, <1>3 DEF StepsLeft


\* No worker has more steps before it, and the promise is no more unsettled.
LEMMA AheadShrinks ==
  ASSUME \A w \in Workers : StepsOf(w) \in Int /\ StepsOf(w)' \in Int /\ StepsOf(w)' <= StepsOf(w),
         result' = "running" => result = "running"
  PROVE  Ahead' \subseteq Ahead
<1>1. ASSUME NEW v \in Everyone, NEW k \in 1 .. 2, <<v, k>> \in Ahead'
      PROVE  <<v, k>> \in Ahead
  <2>1. CASE v = NoWorker
    BY <1>1, <2>1 DEF Ahead
  <2>2. CASE v # NoWorker
    <3>1. v \in Workers /\ k <= StepsOf(v)'
      BY <1>1, <2>2 DEF Ahead, Everyone
    <3>2. k <= StepsOf(v)
      BY <3>1
    <3> QED
      BY <2>2, <3>2 DEF Ahead
  <2> QED
    BY <2>1, <2>2
<1> QED
  BY <1>1 DEF Ahead, Everyone

\* One worker has fewer steps before it.
LEMMA FewerSteps ==
  ASSUME \A w \in Workers : StepsOf(w) \in 0 .. 2 /\ StepsOf(w)' \in 0 .. 2
                              /\ StepsOf(w)' <= StepsOf(w),
         NEW v \in Workers, StepsOf(v)' < StepsOf(v),
         UNCHANGED result, Unclaimed' = Unclaimed
  PROVE  StepsLeft' < StepsLeft
<1>1. Ahead' \subseteq Ahead
  BY AheadShrinks
<1>2. PICK k \in 1 .. 2 : k = StepsOf(v)
  OBVIOUS
<1>3. v # NoWorker /\ <<v, k>> \in Everyone \X (1 .. 2)
  BY <1>2, WorkersFacts DEF Everyone, Workers, NoWorker
<1>4. <<v, k>> \in Ahead
  BY <1>2, <1>3 DEF Ahead
<1>5. <<v, k>> \notin Ahead'
  BY <1>2, <1>3 DEF Ahead
<1> QED
  BY <1>1, <1>4, <1>5, StepAdvances

\* A worker that ends without claiming an item.
LEMMA WorkerAdvances ==
  ASSUME Inv, NEW w \in Workers, UNCHANGED result, pc[w] = "await",
         NEW s \in {"done", "rejected"}, pc' = [pc EXCEPT ![w] = s],
         Unclaimed' = Unclaimed
  PROVE  StepsLeft' < StepsLeft
<1>1. \A v \in Workers : pc'[v] = IF v = w THEN s ELSE pc[v]
  BY DEF Inv, TypeOK
<1>2. \A v \in Workers : StepsOf(v) \in 0 .. 2 /\ StepsOf(v)' \in 0 .. 2 /\ StepsOf(v)' <= StepsOf(v)
  BY <1>1 DEF StepsOf
<1>3. StepsOf(w)' < StepsOf(w)
  BY <1>1 DEF StepsOf
<1> QED
  BY <1>2, <1>3, FewerSteps

\* Every step brings the end nearer.
LEMMA StepsDecrease == Inv /\ [Next]_vars => [StepsLeft' < StepsLeft]_vars
<1>1. Counted'
  BY AheadFacts, PTL
<1> SUFFICES ASSUME Inv, Next, vars' # vars PROVE StepsLeft' < StepsLeft
  OBVIOUS
<1> USE WorkersFacts, SizeAssumption
<1>2. CASE Start
  <2>1. result' = result /\ cursor = 0 /\ \A w \in Workers : pc[w] = "unspawned"
    BY <1>2 DEF Start, Inv, StartInv
  <2>2. CASE N > 0
    <3>1. Unclaimed' \subseteq Unclaimed /\ 0 \in Unclaimed /\ 0 \notin Unclaimed'
      BY <1>2, <2>1, <2>2 DEF Start, Unclaimed, Items
    <3> QED
      BY <1>1, <3>1, ClaimAdvances
  <2>3. CASE N = 0
    <3>1. Unclaimed' = Unclaimed
      BY <2>3 DEF Unclaimed, Items
    <3>2. \A w \in Workers : pc'[w] = "done"
      BY <1>2, <2>3 DEF Start, Workers
    <3>3. \A w \in Workers : StepsOf(w)' = 0 /\ StepsOf(w) = 2
      BY <2>1, <3>2 DEF StepsOf
    <3> QED
      BY <2>1, <3>1, <3>3, FewerSteps
  <2> QED
    BY <2>2, <2>3
<1>3. ASSUME NEW w \in Workers, Resume(w) PROVE StepsLeft' < StepsLeft
  <2>1. cursor \in Nat /\ cursor' = cursor + 1 /\ result' = result /\ pc[w] = "await"
    BY <1>3 DEF Resume, Inv, TypeOK
  <2>2. CASE cursor < N
    <3>1. Unclaimed' \subseteq Unclaimed /\ cursor \in Unclaimed /\ cursor \notin Unclaimed'
      BY <2>1, <2>2 DEF Unclaimed, Items
    <3> QED
      BY <1>1, <3>1, ClaimAdvances
  <2>3. CASE cursor >= N
    <3>1. Unclaimed' = Unclaimed
      BY <2>1, <2>3 DEF Unclaimed, Items
    <3>2. ~(cursor < N)
      BY <2>1, <2>3
    <3>3. pc' = [pc EXCEPT ![w] = "done"]
      BY <1>3, <3>2 DEF Resume
    <3> QED
      BY <2>1, <3>1, <3>3, WorkerAdvances
  <2> QED
    BY <2>1, <2>2, <2>3
<1>4. ASSUME NEW w \in Workers, Reject(w) PROVE StepsLeft' < StepsLeft
  <2>1. Unclaimed' = Unclaimed
    BY <1>4 DEF Reject, Unclaimed
  <2> QED
    BY <1>4, <2>1, WorkerAdvances DEF Reject
<1>5. CASE SettleOk \/ SettleError
  <2>1. Unclaimed' = Unclaimed /\ \A w \in Workers : StepsOf(w)' = StepsOf(w)
    BY <1>5 DEF SettleOk, SettleError, Unclaimed, StepsOf
  <2>2. Ahead' \subseteq Ahead
    <3>1. \A w \in Workers : StepsOf(w) \in Int
      BY DEF StepsOf
    <3> QED
      BY <1>5, <2>1, <3>1, AheadShrinks DEF SettleOk, SettleError
  <2>3. <<NoWorker, 1>> \in Ahead /\ <<NoWorker, 1>> \notin Ahead'
    BY <1>5 DEF Ahead, Everyone, SettleOk, SettleError
  <2> QED
    BY <2>1, <2>2, <2>3, StepAdvances
<1> QED
  BY <1>2, <1>3, <1>4, <1>5 DEF Next, Worker, Terminated

\* The workers cannot run for ever, rejected or not: StepsLeft is a number, and each
\* step of a worker or of Promise.all makes it smaller (src/benchmark.ts 26-41).
THEOREM Advances == Spec => [](StepsLeft \in Nat) /\ [][StepsLeft' < StepsLeft]_vars
<1>1. StepsLeft \in Nat
  BY AheadFacts DEF Counted, StepsLeft
<1> QED
  BY Invariant, StepsDecrease, <1>1, PTL DEF Spec

\* The workers have not been started, or one of them awaits an answer, or the
\* promise can settle.
NeverStuck ==
  result = "running" \/ ~Quiet =>
    \/ \A w \in Workers : pc[w] = "unspawned"
    \/ \E w \in Workers : pc[w] = "await"
    \/ result = "running" /\ \A w \in Workers : pc[w] = "done"
    \/ result = "running" /\ reason # NoItem

\* Until the call has settled and its workers have ended there is a next step: a
\* promise that cannot settle yet waits for a request (src/benchmark.ts 26-41).
THEOREM NeverStuckHolds == Spec => []NeverStuck
<1>1. Inv => NeverStuck
  <2> SUFFICES ASSUME Inv, \A w \in Workers : pc[w] # "await",
                      NEW v \in Workers, pc[v] # "unspawned"
               PROVE  /\ Quiet
                      /\ reason # NoItem \/ \A w \in Workers : pc[w] = "done"
    BY DEF NeverStuck
  <2>1. \A w \in Workers : pc[w] \in {"done", "rejected"}
    BY DEF Inv, StartInv, TypeOK
  <2> QED
    BY <2>1 DEF Quiet, Inv, ReasonInv, Failed
<1> QED
  BY Invariant, <1>1, PTL
=============================================================================

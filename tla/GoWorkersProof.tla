---------------------------- MODULE GoWorkersProof ----------------------------
(***************************************************************************)
(* Proofs about GoWorkers, for every number of items and goroutines.       *)
(*                                                                         *)
(* The safety properties follow from one inductive invariant, Inv.  Its    *)
(* core is bookkeeping: every index the counter has passed is either       *)
(* recorded in durations or held by exactly one goroutine (Accounted,      *)
(* ClaimedOnce), which nextMu makes true (LockInv), and wg counts          *)
(* exactly the goroutines that are alive (GroupInv).  errMu does the same  *)
(* for firstErr: what was read under it still stands when it is written    *)
(* (ErrLockInv).                                                           *)
(***************************************************************************)
EXTENDS GoWorkers, FiniteSetTheorems, TLAPS

Active == {w \in Workers : pc[w] \notin {"unspawned", "done"}}

\* nextMu names the goroutine inside the critical section, which has read next.
LockInv ==
  /\ \A w \in Workers : pc[w] = "locked" <=> nextMu = w
  /\ \A w \in Workers : pc[w] = "locked" => index[w] = next

\* errMu names the goroutine between its Lock and its Unlock; one about to set
\* firstErr has found it nil, and it is nil still.
ErrLockInv ==
  /\ \A w \in Workers : pc[w] \in {"set", "kept"} <=> errMu = w
  /\ \A w \in Workers : pc[w] = "set" => firstErr = NoItem

\* A claim is an index the counter has passed; no claim stands before one.
ClaimInv ==
  /\ \A w \in Workers : pc[w] \in Holding => index[w] \in 0 .. next - 1
  /\ \A w \in Workers : pc[w] \in {"execute", "report", "set", "kept"} => index[w] \in Items
  /\ \A w \in Workers : pc[w] \in {"unspawned", "claim"} => index[w] = NoItem
  /\ \A i \in durations : i < next

\* No index is lost.
Accounted ==
  \A i \in Items : i < next =>
    i \in durations \/ \E w \in Workers : pc[w] \in Holding /\ index[w] = i

GroupInv ==
  /\ \A w \in Workers : pc[w] = "unspawned" <=> w > spawned
  /\ wg = Cardinality(Active)

ErrorInv ==
  /\ firstErr # NoItem =>
       \E w \in Workers : pc[w] \in {"kept", "done"} /\ index[w] = firstErr
  /\ \A w \in Workers :
       pc[w] \in {"kept", "done"} /\ index[w] \in Items => firstErr # NoItem

ResultInv ==
  result # "running" =>
    /\ \A w \in Workers : pc[w] = "done"
    /\ result = "ok" <=> firstErr = NoItem

Inv ==
  /\ TypeOK
  /\ LockInv
  /\ ErrLockInv
  /\ ClaimInv
  /\ ClaimedOnce
  /\ Accounted
  /\ GroupInv
  /\ ErrorInv
  /\ ResultInv

-----------------------------------------------------------------------------
\* There is always at least one goroutine, and there are finitely many.
LEMMA WorkersFacts ==
  /\ WorkerCount \in Nat \ {0}
  /\ Workers \subseteq Nat
  /\ NoWorker \notin Workers
  /\ NoItem \notin Items
  /\ Items \subseteq Nat
  /\ IsFiniteSet(Workers)
<1>1. WorkerCount \in Nat \ {0}
  BY SizeAssumption DEF WorkerCount
<1>2. IsFiniteSet(Workers)
  BY <1>1, FS_Interval DEF Workers
<1> QED
  BY <1>1, <1>2, SizeAssumption DEF Workers, NoWorker, NoItem, Items

\* The goroutines alive are a finite set that fits the WaitGroup's range.
LEMMA ActiveFacts ==
  ASSUME TypeOK
  PROVE  /\ IsFiniteSet(Active)
         /\ Cardinality(Active) \in 0 .. WorkerCount
         /\ Active = {} <=> Cardinality(Active) = 0
<1>1. Active \subseteq Workers
  BY DEF Active
<1>2. IsFiniteSet(Active) /\ Cardinality(Active) <= Cardinality(Workers)
  BY <1>1, WorkersFacts, FS_Subset
<1>3. Cardinality(Workers) = WorkerCount
  BY WorkersFacts, FS_Interval DEF Workers
<1> QED
  BY <1>2, <1>3, WorkersFacts, FS_CardinalityType, FS_EmptySet

\* What a step of one goroutine that stays alive leaves alone.
LEMMA StaysActive ==
  ASSUME TypeOK, NEW w \in Workers, NEW s \in {"claim", "locked"} \union Holding,
         s # "done", pc[w] \notin {"unspawned", "done"},
         pc' = [pc EXCEPT ![w] = s]
  PROVE  Active' = Active
BY DEF Active, TypeOK, Workers, WorkerCount, Holding

\* wg.Done() at the end of a goroutine keeps the count right.
LEMMA Leaves ==
  ASSUME TypeOK, NEW w \in Workers, pc[w] \notin {"unspawned", "done"},
         pc' = [pc EXCEPT ![w] = "done"]
  PROVE  /\ Cardinality(Active') = Cardinality(Active) - 1
         /\ Cardinality(Active) \in Nat \ {0}
<1>1. Active' = Active \ {w}
  BY DEF Active, TypeOK, Workers, WorkerCount
<1>2. w \in Active
  BY DEF Active
<1>3. Cardinality(Active) \in Nat \ {0}
  BY <1>2, ActiveFacts, WorkersFacts
<1> QED
  BY <1>1, <1>2, <1>3, ActiveFacts, FS_RemoveElement

\* wg.Add(1) before the go statement keeps the count right.
LEMMA Joins ==
  ASSUME TypeOK, NEW w \in Workers, pc[w] = "unspawned",
         pc' = [pc EXCEPT ![w] = "claim"]
  PROVE  Cardinality(Active') = Cardinality(Active) + 1
<1>1. Active' = Active \union {w}
  BY DEF Active, TypeOK, Workers, WorkerCount
<1>2. w \notin Active
  BY DEF Active
<1> QED
  BY <1>1, <1>2, ActiveFacts, FS_AddElement

\* There are never more goroutines alive than are spawned.
LEMMA JoinBound ==
  ASSUME pc' \in [Workers -> {"unspawned", "claim", "locked"} \union Holding]
  PROVE  Cardinality(Active') \in 0 .. WorkerCount
<1>1. Active' \subseteq Workers
  BY DEF Active
<1>2. IsFiniteSet(Active') /\ Cardinality(Active') <= Cardinality(Workers)
  BY <1>1, WorkersFacts, FS_Subset
<1>3. Cardinality(Workers) = WorkerCount
  BY WorkersFacts, FS_Interval DEF Workers
<1> QED
  BY <1>2, <1>3, WorkersFacts, FS_CardinalityType

\* The invariant holds before anything runs.
LEMMA InitInv == Init => Inv
<1> SUFFICES ASSUME Init PROVE Inv
  OBVIOUS
<1> USE WorkersFacts
<1>1. TypeOK
  BY DEF Init, TypeOK, Holding
<1>2. Active = {}
  BY DEF Init, Active
<1>3. wg = Cardinality(Active)
  BY <1>2, FS_EmptySet DEF Init
<1> QED
  BY <1>1, <1>3 DEF Init, Inv, LockInv, ErrLockInv, ClaimInv, ClaimedOnce, Accounted,
                    GroupInv, ErrorInv, ResultInv, Holding, Workers
\* Each action of the pool keeps the invariant; one step per action, and under
\* it one per part of the invariant the action can disturb.
LEMMA NextInv == Inv /\ [Next]_vars => Inv'
<1> SUFFICES ASSUME Inv, [Next]_vars PROVE Inv'
  OBVIOUS
<1> USE WorkersFacts, SizeAssumption DEF Holding, Inv
<1>1. ASSUME NEW w \in Workers, Spawn(w) PROVE Inv'
  <2> USE <1>1 DEF Spawn
  <2>1. pc[w] = "unspawned"
    BY DEF GroupInv, TypeOK, Workers
  <2>2. Cardinality(Active') = Cardinality(Active) + 1
    BY <2>1, Joins
  <2>3. GroupInv'
    BY <2>1, <2>2 DEF GroupInv, TypeOK, Workers
  <2>4. TypeOK'
    <3>1. pc' \in [Workers -> {"unspawned", "claim", "locked"} \union Holding]
      BY DEF TypeOK
    <3>2. wg' \in 0 .. WorkerCount
      BY <3>1, <2>2, <2>3, JoinBound DEF GroupInv
    <3> QED
      BY <3>1, <3>2 DEF TypeOK, Workers
  <2>5. LockInv' /\ ErrLockInv' /\ ClaimInv' /\ ClaimedOnce'
    BY <2>1 DEF TypeOK, LockInv, ErrLockInv, ClaimInv, ClaimedOnce
  <2>6. Accounted' /\ ErrorInv' /\ ResultInv'
    BY <2>1 DEF TypeOK, Accounted, ErrorInv, ResultInv
  <2> QED
    BY <2>3, <2>4, <2>5, <2>6
<1>2. ASSUME NEW w \in Workers, LockNext(w) PROVE Inv'
  <2> USE <1>2 DEF LockNext
  <2>1. Active' = Active
    BY StaysActive DEF TypeOK
  <2>2. GroupInv'
    BY <2>1 DEF GroupInv, TypeOK
  <2>3. TypeOK'
    BY <2>1, <2>2, ActiveFacts DEF TypeOK, GroupInv, ClaimInv, Workers
  <2>4. LockInv'
    BY DEF TypeOK, LockInv, Workers
  <2>5. ClaimInv'
    BY DEF TypeOK, ClaimInv, LockInv, Items
  <2>6. ClaimedOnce'
    BY DEF TypeOK, ClaimedOnce, ClaimInv, LockInv
  <2>7. Accounted'
    BY DEF TypeOK, Accounted, ClaimInv, LockInv
  <2>8. ErrorInv'
    BY DEF TypeOK, ErrorInv, ClaimInv, Items
  <2>9. ResultInv'
    BY DEF TypeOK, ResultInv, ErrorInv, ClaimInv
  <2>10. ErrLockInv'
    BY DEF TypeOK, ErrLockInv, Workers
  <2> QED
    BY <2>2, <2>3, <2>4, <2>5, <2>6, <2>7, <2>8, <2>9, <2>10
<1>3. ASSUME NEW w \in Workers, UnlockNext(w) PROVE Inv'
  <2> USE <1>3 DEF UnlockNext
  <2>1. Active' = Active
    BY StaysActive DEF TypeOK
  <2>2. GroupInv'
    BY <2>1 DEF GroupInv, TypeOK
  <2>3. TypeOK'
    BY <2>1, <2>2, ActiveFacts DEF TypeOK, GroupInv, ClaimInv, Workers
  <2>4. LockInv'
    BY DEF TypeOK, LockInv, Workers
  <2>5. ClaimInv'
    BY DEF TypeOK, ClaimInv, LockInv, Items
  <2>6. ClaimedOnce'
    BY DEF TypeOK, ClaimedOnce, ClaimInv, LockInv
  <2>7. Accounted'
    BY DEF TypeOK, Accounted, ClaimInv, LockInv
  <2>8. ErrorInv'
    BY DEF TypeOK, ErrorInv, ClaimInv, Items
  <2>9. ResultInv'
    BY DEF TypeOK, ResultInv, ErrorInv, ClaimInv
  <2>10. ErrLockInv'
    BY DEF TypeOK, ErrLockInv, Workers
  <2> QED
    BY <2>2, <2>3, <2>4, <2>5, <2>6, <2>7, <2>8, <2>9, <2>10
<1>4. ASSUME NEW w \in Workers, BeginItem(w) PROVE Inv'
  <2> USE <1>4 DEF BeginItem
  <2>1. Active' = Active
    BY StaysActive DEF TypeOK
  <2>2. GroupInv'
    BY <2>1 DEF GroupInv, TypeOK
  <2>3. TypeOK'
    BY <2>1, <2>2, ActiveFacts DEF TypeOK, GroupInv, ClaimInv, Workers
  <2>4. LockInv'
    BY DEF TypeOK, LockInv, Workers
  <2>5. ClaimInv'
    BY DEF TypeOK, ClaimInv, LockInv, Items
  <2>6. ClaimedOnce'
    BY DEF TypeOK, ClaimedOnce, ClaimInv, LockInv
  <2>7. Accounted'
    BY DEF TypeOK, Accounted, ClaimInv, LockInv
  <2>8. ErrorInv'
    BY DEF TypeOK, ErrorInv, ClaimInv, Items
  <2>9. ResultInv'
    BY DEF TypeOK, ResultInv, ErrorInv, ClaimInv
  <2>10. ErrLockInv'
    BY DEF TypeOK, ErrLockInv, Workers
  <2> QED
    BY <2>2, <2>3, <2>4, <2>5, <2>6, <2>7, <2>8, <2>9, <2>10
<1>5. ASSUME NEW w \in Workers, Drain(w) PROVE Inv'
  <2> USE <1>5 DEF Drain
  <2>1. Cardinality(Active') = Cardinality(Active) - 1 /\ Cardinality(Active) \in Nat \ {0}
    BY Leaves DEF TypeOK
  <2>2. GroupInv'
    BY <2>1 DEF GroupInv, TypeOK
  <2>3. TypeOK'
    BY <2>1, <2>2, ActiveFacts DEF TypeOK, GroupInv, ClaimInv, Workers
  <2>4. LockInv'
    BY DEF TypeOK, LockInv, Workers
  <2>5. ClaimInv'
    BY DEF TypeOK, ClaimInv, LockInv, Items
  <2>6. ClaimedOnce'
    BY DEF TypeOK, ClaimedOnce, ClaimInv, LockInv
  <2>7. Accounted'
    BY DEF TypeOK, Accounted, ClaimInv, LockInv
  <2>8. ErrorInv'
    BY DEF TypeOK, ErrorInv, ClaimInv, Items
  <2>9. ResultInv'
    BY DEF TypeOK, ResultInv, ErrorInv, ClaimInv
  <2>10. ErrLockInv'
    BY DEF TypeOK, ErrLockInv, Workers
  <2> QED
    BY <2>2, <2>3, <2>4, <2>5, <2>6, <2>7, <2>8, <2>9, <2>10
<1>6. ASSUME NEW w \in Workers, ExecuteOk(w) PROVE Inv'
  <2> USE <1>6 DEF ExecuteOk
  <2>1. Active' = Active
    BY StaysActive DEF TypeOK
  <2>2. GroupInv'
    BY <2>1 DEF GroupInv, TypeOK
  <2>3. TypeOK'
    BY <2>1, <2>2, ActiveFacts DEF TypeOK, GroupInv, ClaimInv, Workers
  <2>4. LockInv'
    BY DEF TypeOK, LockInv, Workers
  <2>5. ClaimInv'
    BY DEF TypeOK, ClaimInv, LockInv, Items
  <2>6. ClaimedOnce'
    BY DEF TypeOK, ClaimedOnce, ClaimInv, LockInv
  <2>7. Accounted'
    BY DEF TypeOK, Accounted, ClaimInv, LockInv
  <2>8. ErrorInv'
    BY DEF TypeOK, ErrorInv, ClaimInv, Items
  <2>9. ResultInv'
    BY DEF TypeOK, ResultInv, ErrorInv, ClaimInv
  <2>10. ErrLockInv'
    BY DEF TypeOK, ErrLockInv, Workers
  <2> QED
    BY <2>2, <2>3, <2>4, <2>5, <2>6, <2>7, <2>8, <2>9, <2>10
<1>7. ASSUME NEW w \in Workers, ExecuteFails(w) PROVE Inv'
  <2> USE <1>7 DEF ExecuteFails
  <2>1. Active' = Active
    BY StaysActive DEF TypeOK
  <2>2. GroupInv'
    BY <2>1 DEF GroupInv, TypeOK
  <2>3. TypeOK'
    BY <2>1, <2>2, ActiveFacts DEF TypeOK, GroupInv, ClaimInv, Workers
  <2>4. LockInv'
    BY DEF TypeOK, LockInv, Workers
  <2>5. ClaimInv'
    BY DEF TypeOK, ClaimInv, LockInv, Items
  <2>6. ClaimedOnce'
    BY DEF TypeOK, ClaimedOnce, ClaimInv, LockInv
  <2>7. Accounted'
    BY DEF TypeOK, Accounted, ClaimInv, LockInv
  <2>8. ErrorInv'
    BY DEF TypeOK, ErrorInv, ClaimInv, Items
  <2>9. ResultInv'
    BY DEF TypeOK, ResultInv, ErrorInv, ClaimInv
  <2>10. ErrLockInv'
    BY DEF TypeOK, ErrLockInv, Workers
  <2> QED
    BY <2>2, <2>3, <2>4, <2>5, <2>6, <2>7, <2>8, <2>9, <2>10
<1>8. ASSUME NEW w \in Workers, LockErr(w) PROVE Inv'
  <2> USE <1>8 DEF LockErr
  <2>1. Active' = Active
    BY StaysActive DEF TypeOK
  <2>2. GroupInv'
    BY <2>1 DEF GroupInv, TypeOK
  <2>3. TypeOK'
    BY <2>1, <2>2, ActiveFacts DEF TypeOK, GroupInv, ClaimInv, Workers
  <2>4. LockInv'
    BY DEF TypeOK, LockInv, Workers
  <2>5. ClaimInv'
    BY DEF TypeOK, ClaimInv, LockInv, Items
  <2>6. ClaimedOnce'
    BY DEF TypeOK, ClaimedOnce, ClaimInv, LockInv
  <2>7. Accounted'
    BY DEF TypeOK, Accounted, ClaimInv, LockInv
  <2>8. ErrorInv'
    BY DEF TypeOK, ErrorInv, ClaimInv, Items
  <2>9. ResultInv'
    BY DEF TypeOK, ResultInv, ErrorInv, ClaimInv
  <2>10. ErrLockInv'
    BY DEF TypeOK, ErrLockInv, Workers
  <2> QED
    BY <2>2, <2>3, <2>4, <2>5, <2>6, <2>7, <2>8, <2>9, <2>10
<1>9. ASSUME NEW w \in Workers, SetErr(w) PROVE Inv'
  <2> USE <1>9 DEF SetErr
  <2>1. Active' = Active
    BY StaysActive DEF TypeOK
  <2>2. GroupInv'
    BY <2>1 DEF GroupInv, TypeOK
  <2>3. TypeOK'
    BY <2>1, <2>2, ActiveFacts DEF TypeOK, GroupInv, ClaimInv, Workers
  <2>4. LockInv'
    BY DEF TypeOK, LockInv, Workers
  <2>5. ClaimInv'
    BY DEF TypeOK, ClaimInv, LockInv, Items
  <2>6. ClaimedOnce'
    BY DEF TypeOK, ClaimedOnce, ClaimInv, LockInv
  <2>7. Accounted'
    BY DEF TypeOK, Accounted, ClaimInv, LockInv
  <2>8. ErrorInv'
    BY DEF TypeOK, ErrorInv, ClaimInv, Items
  <2>9. ResultInv'
    BY DEF TypeOK, ResultInv, ErrorInv, ClaimInv
  <2>10. ErrLockInv'
    BY DEF TypeOK, ErrLockInv, Workers
  <2> QED
    BY <2>2, <2>3, <2>4, <2>5, <2>6, <2>7, <2>8, <2>9, <2>10
<1>10. ASSUME NEW w \in Workers, UnlockErr(w) PROVE Inv'
  <2> USE <1>10 DEF UnlockErr
  <2>1. Cardinality(Active') = Cardinality(Active) - 1 /\ Cardinality(Active) \in Nat \ {0}
    BY Leaves DEF TypeOK
  <2>2. GroupInv'
    BY <2>1 DEF GroupInv, TypeOK
  <2>3. TypeOK'
    BY <2>1, <2>2, ActiveFacts DEF TypeOK, GroupInv, ClaimInv, Workers
  <2>4. LockInv'
    BY DEF TypeOK, LockInv, Workers
  <2>5. ClaimInv'
    BY DEF TypeOK, ClaimInv, LockInv, Items
  <2>6. ClaimedOnce'
    BY DEF TypeOK, ClaimedOnce, ClaimInv, LockInv
  <2>7. Accounted'
    BY DEF TypeOK, Accounted, ClaimInv, LockInv
  <2>8. ErrorInv'
    BY DEF TypeOK, ErrorInv, ClaimInv, Items
  <2>9. ResultInv'
    BY DEF TypeOK, ResultInv, ErrorInv, ClaimInv
  <2>10. ErrLockInv'
    BY DEF TypeOK, ErrLockInv, Workers
  <2> QED
    BY <2>2, <2>3, <2>4, <2>5, <2>6, <2>7, <2>8, <2>9, <2>10
<1>11. ASSUME Return PROVE Inv'
  <2> USE <1>11 DEF Return
  <2>1. \A w \in Workers : pc[w] = "done"
    <3>1. Active = {}
      BY ActiveFacts DEF GroupInv
    <3>2. \A w \in Workers : pc[w] # "unspawned"
      BY DEF GroupInv, Workers
    <3> QED
      BY <3>1, <3>2 DEF Active
  <2>2. Active' = Active
    BY DEF Active
  <2>3. TypeOK' /\ GroupInv' /\ ResultInv'
    BY <2>1, <2>2 DEF TypeOK, GroupInv, ResultInv
  <2>4. LockInv' /\ ErrLockInv' /\ ErrorInv'
    BY DEF LockInv, ErrLockInv, ErrorInv
  <2>5. ClaimInv' /\ ClaimedOnce' /\ Accounted'
    BY DEF ClaimInv, ClaimedOnce, Accounted
  <2> QED
    BY <2>3, <2>4, <2>5
<1>12. CASE UNCHANGED vars
  BY <1>12 DEF vars, TypeOK, LockInv, ErrLockInv, ClaimInv, ClaimedOnce, Accounted, GroupInv,
               ErrorInv, ResultInv, Active
<1>13. ASSUME NEW w \in Workers, Worker(w) PROVE Inv'
  BY <1>2, <1>3, <1>4, <1>5, <1>6, <1>7, <1>8, <1>9, <1>10, <1>13 DEF Worker
<1> QED
  BY <1>1, <1>11, <1>12, <1>13 DEF Next, Terminated

\* Every reachable state satisfies the invariant: the type invariant, the locks
\* and the bookkeeping of claims, errors and the WaitGroup.
THEOREM Invariant == Spec => []Inv
BY InitInv, NextInv, PTL DEF Spec

-----------------------------------------------------------------------------
\* The type of every variable of the pool.
THEOREM TypeOKHolds == Spec => []TypeOK
<1>1. Inv => TypeOK
  BY DEF Inv
<1> QED
  BY Invariant, <1>1, PTL

\* No item is claimed twice (gobench/benchmark.go 40-43): the counter is read and
\* moved under nextMu.
THEOREM ClaimedOnceHolds == Spec => []ClaimedOnce
<1>1. Inv => ClaimedOnce
  BY DEF Inv
<1> QED
  BY Invariant, <1>1, PTL

\* No goroutine is left behind by a return (gobench/benchmark.go 34-63).
THEOREM NothingInFlightHolds == Spec => []NothingInFlight
<1>1. Inv => NothingInFlight
  BY DEF Inv, ResultInv, NothingInFlight
<1> QED
  BY Invariant, <1>1, PTL

\* Once all the goroutines are done, an item that none of them failed on has
\* been measured, or the counter has not reached it.
LEMMA AllDone ==
  ASSUME Inv, result # "running", NEW i \in Items, i < next,
         \A w \in Workers : Failed(w) => index[w] # i
  PROVE  i \in durations
BY DEF Inv, Accounted, ResultInv, Failed

\* A goroutine that is done and did not fail has seen the counter at the end.
LEMMA Drained ==
  ASSUME Inv, result # "running", NEW w \in Workers, ~Failed(w)
  PROVE  next > N
<1>1. index[w] \in 0 .. next - 1 /\ index[w] \notin Items
  BY DEF Inv, ResultInv, ClaimInv, Failed, Holding
<1> QED
  BY <1>1, SizeAssumption DEF Inv, TypeOK, Items

\* With no error every goroutine has drained, so every item is measured.
LEMMA InvFullSample == Inv => FullSample
<1> SUFFICES ASSUME Inv, result = "ok" PROVE durations = Items
  BY DEF FullSample
<1>1. \A w \in Workers : ~Failed(w)
  BY DEF Inv, ResultInv, ErrorInv, Failed
<1>2. next > N
  BY <1>1, Drained, WorkersFacts DEF Workers
<1>3. \A i \in Items : i < next
  BY <1>2, SizeAssumption DEF Items, Inv, TypeOK
<1>4. \A i \in Items : i \in durations
  BY <1>1, <1>3, AllDone
<1> QED
  BY <1>4 DEF Inv, TypeOK

\* A result without an error has a duration for every item.
THEOREM FullSampleHolds == Spec => []FullSample
BY Invariant, InvFullSample, PTL

\* firstErr is set by the first goroutine to fail, and by no other way.
LEMMA InvErrorIsGenuine == Inv => ErrorIsGenuine
<1> SUFFICES ASSUME Inv, result # "running"
             PROVE  /\ result = "error" <=> \E w \in Workers : Failed(w)
                    /\ result = "error" =>
                         \E w \in Workers : Failed(w) /\ firstErr = index[w]
  BY DEF ErrorIsGenuine
<1>1. result = "error" <=> firstErr # NoItem
  BY DEF Inv, TypeOK, ResultInv
<1>2. firstErr # NoItem => \E w \in Workers : Failed(w) /\ firstErr = index[w]
  BY DEF Inv, TypeOK, ErrorInv, Failed
<1>3. (\E w \in Workers : Failed(w)) => firstErr # NoItem
  BY DEF Inv, ResultInv, ErrorInv, Failed
<1> QED
  BY <1>1, <1>2, <1>3

\* An error is returned exactly when an item failed, and is that item's error.
THEOREM ErrorIsGenuineHolds == Spec => []ErrorIsGenuine
BY Invariant, InvErrorIsGenuine, PTL

\* An error elsewhere does not keep a goroutine from the remaining items.
THEOREM SkippedOnlyWhenAllFailedHolds == Spec => []SkippedOnlyWhenAllFailed
<1>1. Inv => SkippedOnlyWhenAllFailed
  <2> SUFFICES ASSUME Inv, result # "running", NEW i \in Items, i >= next,
                      NEW w \in Workers, ~Failed(w)
               PROVE  FALSE
    BY DEF SkippedOnlyWhenAllFailed
  <2> QED
    BY Drained, SizeAssumption DEF Items, Inv, TypeOK
<1> QED
  BY Invariant, <1>1, PTL

\* The error that is returned is the first one recorded: between the check and
\* the write under errMu no other goroutine writes (gobench/benchmark.go 51-55).
THEOREM FirstErrorKeptHolds == Spec => FirstErrorKept
<1>1. Inv /\ [Next]_vars => [firstErr # NoItem => firstErr' = firstErr]_firstErr
  <2> SUFFICES ASSUME Inv, [Next]_vars, firstErr' # firstErr PROVE firstErr = NoItem
    OBVIOUS
  <2>1. PICK w \in Workers : SetErr(w)
    BY DEF Next, vars, Spawn, Worker, LockNext, UnlockNext, BeginItem, Drain, ExecuteOk,
           ExecuteFails, LockErr, UnlockErr, Return, Terminated
  <2> QED
    BY <2>1 DEF SetErr, Inv, ErrLockInv
<1> QED
  BY Invariant, <1>1, PTL DEF Spec, FirstErrorKept

-----------------------------------------------------------------------------
\* Once everything is done no item is left running.
LEMMA NoneRunning ==
  ASSUME Inv, \A w \in Workers : pc[w] = "done", NEW i \in Items
  PROVE  statusOf(i) # "running"
BY DEF statusOf

\* A failed goroutine's item has failed, seen from outside.
LEMMA FailedStatus ==
  ASSUME Inv, NEW w \in Workers, Failed(w)
  PROVE  index[w] \in Items /\ statusOf(index[w]) = "failed"
<1>1. index[w] \notin durations
  BY DEF Inv, ClaimedOnce, Failed, Holding
<1>2. \A v \in Workers : index[v] = index[w] => pc[v] # "execute"
  BY DEF Inv, ClaimedOnce, Failed, Holding
<1> QED
  BY <1>1, <1>2 DEF Failed, statusOf

\* The pool implements the parallel loop that joins on errors: under statusOf
\* each of its steps is a step of ParallelFor or leaves it unchanged.
THEOREM ContractHolds == Spec => Contract
<1> USE WorkersFacts, SizeAssumption DEF Holding
<1> DEFINE st == [i \in Items |-> statusOf(i)]
<1>1. Init => PF!Init
  BY DEF Init, PF!Init, statusOf, Failed
<1>2. Inv' => FullSample' /\ ErrorIsGenuine'
  BY InvFullSample, InvErrorIsGenuine, PTL
<1>3. Inv /\ Inv' /\ [Next]_vars => [PF!Next]_(PF!vars)
  <2> SUFFICES ASSUME Inv, Inv', [Next]_vars PROVE [PF!Next]_(PF!vars)
    OBVIOUS
  <2>1. ASSUME NEW w \in Workers,
               Spawn(w) \/ LockNext(w) \/ UnlockNext(w) \/ Drain(w)
                 \/ LockErr(w) \/ SetErr(w) \/ UnlockErr(w)
        PROVE  UNCHANGED <<st, result>>
    <3>1. \A i \in Items : statusOf(i)' = statusOf(i)
      <4>1. CASE Spawn(w)
        BY <4>1 DEF Spawn, statusOf, Failed, Inv, TypeOK, ClaimInv, GroupInv
      <4>2. CASE LockNext(w)
        BY <4>2 DEF LockNext, statusOf, Failed, Inv, TypeOK, ClaimInv
      <4>3. CASE UnlockNext(w)
        BY <4>3 DEF UnlockNext, statusOf, Failed, Inv, TypeOK
      <4>4. CASE Drain(w)
        BY <4>4 DEF Drain, statusOf, Failed, Inv, TypeOK, Items
      <4>5. CASE LockErr(w)
        BY <4>5 DEF LockErr, statusOf, Failed, Inv, TypeOK
      <4>6. CASE SetErr(w)
        BY <4>6 DEF SetErr, statusOf, Failed, Inv, TypeOK
      <4>7. CASE UnlockErr(w)
        BY <4>7 DEF UnlockErr, statusOf, Failed, Inv, TypeOK
      <4> QED
        BY <2>1, <4>1, <4>2, <4>3, <4>4, <4>5, <4>6, <4>7
    <3> QED
      BY <2>1, <3>1 DEF Spawn, LockNext, UnlockNext, Drain, LockErr, SetErr, UnlockErr
  <2>2. ASSUME NEW w \in Workers, BeginItem(w) PROVE PF!Start(index[w])
    <3>1. index[w] \in Items /\ statusOf(index[w]) = "todo"
      BY <2>2 DEF BeginItem, statusOf, Failed, Inv, TypeOK, ClaimInv, ClaimedOnce, Items
    <3>2. result = "running"
      BY <2>2 DEF BeginItem, Inv, ResultInv, TypeOK
    <3>3. \A i \in Items : statusOf(i)' = IF i = index[w] THEN "running" ELSE statusOf(i)
      BY <2>2, <3>1 DEF BeginItem, statusOf, Failed, Inv, TypeOK, ClaimedOnce
    <3> QED
      BY <2>2, <3>1, <3>2, <3>3 DEF BeginItem, PF!Start
  <2>3. ASSUME NEW w \in Workers, ExecuteOk(w) \/ ExecuteFails(w) PROVE PF!End(index[w])
    <3>1. index[w] \in Items /\ statusOf(index[w]) = "running"
      BY <2>3 DEF ExecuteOk, ExecuteFails, statusOf, Inv, ClaimInv, ClaimedOnce
    <3>2. result = "running"
      BY <2>3 DEF ExecuteOk, ExecuteFails, Inv, ResultInv, TypeOK
    <3>3. CASE ExecuteOk(w)
      <4>1. \A i \in Items : statusOf(i)' = IF i = index[w] THEN "done" ELSE statusOf(i)
        BY <3>1, <3>3 DEF ExecuteOk, statusOf, Failed, Inv, TypeOK
      <4> QED
        BY <3>1, <3>2, <3>3, <4>1 DEF ExecuteOk, PF!End
    <3>4. CASE ExecuteFails(w)
      <4>1. \A i \in Items : statusOf(i)' = IF i = index[w] THEN "failed" ELSE statusOf(i)
        BY <3>1, <3>4 DEF ExecuteFails, statusOf, Failed, Inv, TypeOK, ClaimedOnce
      <4> QED
        BY <3>1, <3>2, <3>4, <4>1 DEF ExecuteFails, PF!End
    <3> QED
      BY <2>3, <3>3, <3>4
  <2>4. ASSUME Return PROVE PF!ReturnOk \/ PF!ReturnError
    <3>1. \A i \in Items : statusOf(i)' = statusOf(i)
      BY <2>4 DEF Return, statusOf, Failed
    <3>2. \A w \in Workers : pc[w] = "done"
      BY <2>4 DEF Return, Inv, ResultInv
    <3>3. CASE result' = "ok"
      <4>1. \A i \in Items : statusOf(i) = "done"
        BY <1>2, <2>4, <3>3 DEF Return, FullSample, statusOf
      <4> QED
        BY <2>4, <3>1, <3>3, <4>1 DEF Return, PF!ReturnOk
    <3>4. CASE result' = "error"
      <4>1. \E w \in Workers : Failed(w)
        BY <1>2, <2>4, <3>4 DEF Return, ErrorIsGenuine, Failed
      <4>2. \E i \in Items : statusOf(i) = "failed"
        BY <4>1, FailedStatus
      <4>3. \A i \in Items : statusOf(i) # "running"
        BY <3>2, NoneRunning
      <4> QED
        BY <2>4, <3>1, <3>4, <4>2, <4>3 DEF Return, PF!ReturnError
    <3> QED
      BY <2>4, <3>3, <3>4 DEF Return
  <2>5. CASE UNCHANGED vars
    BY <2>5 DEF vars, PF!vars, statusOf, Failed
  <2> QED
    BY <2>1, <2>2, <2>3, <2>4, <2>5, WorkersFacts
       DEF Next, Worker, Terminated, PF!Next, PF!vars, BeginItem, ExecuteOk, ExecuteFails,
           Inv, ClaimInv, Items
<1> QED
  BY Invariant, <1>1, <1>3, PTL DEF Spec, Contract, PF!Spec

-----------------------------------------------------------------------------
(***************************************************************************)
(* The call cannot run for ever, and nothing keeps it from going on.       *)
(***************************************************************************)

\* How many steps goroutine w has before it until it claims another item.
StepsFrom ==
  [unspawned |-> 4, claim |-> 3, locked |-> 2, claimed |-> 1, execute |-> 5,
   report |-> 3, set |-> 2, kept |-> 1, done |-> 0]

StepsOf(w) == IF pc[w] = "claimed" /\ index[w] < N THEN 6 ELSE StepsFrom[pc[w]]

Everyone == Workers \union {NoWorker}

\* The steps ahead; the caller's, which has no goroutine, is its return.
Ahead ==
  {step \in Everyone \X (1 .. 6) :
     IF step[1] = NoWorker THEN result = "running" /\ step[2] = 1
                           ELSE step[2] <= StepsOf(step[1])}

Unclaimed == {i \in Items : i >= next}

\* A bound on the steps until the end: a claim is worth more steps than there
\* can be ahead.
Round == Cardinality(Everyone \X (1 .. 6)) + 1
StepsLeft == Cardinality(Unclaimed) * Round + Cardinality(Ahead)

\* Fewer items are left, or as many and fewer steps.
LEMMA Decreases ==
  ASSUME NEW u \in Nat, NEW v \in Nat, NEW a \in Nat, NEW b \in Nat, NEW r \in Nat \ {0},
         b < r, (v = u /\ b < a) \/ v < u
  PROVE  v * r + b < u * r + a
<1>1. CASE v = u /\ b < a
  BY <1>1
<1>2. CASE v < u
  <2>1. PICK d \in Nat : u = v + 1 + d
    <3>1. u - v - 1 \in Nat /\ u = v + 1 + (u - v - 1)
      BY <1>2
    <3> QED
      BY <3>1
  <2>2. u * r = v * r + r + d * r
    BY <2>1
  <2>3. d * r \in Nat /\ v * r \in Nat
    OBVIOUS
  <2> QED
    BY <2>2, <2>3
<1> QED
  BY <1>1, <1>2

Counted ==
  /\ IsFiniteSet(Unclaimed) /\ IsFiniteSet(Ahead)
  /\ Cardinality(Unclaimed) \in Nat /\ Cardinality(Ahead) \in Nat
  /\ Round \in Nat \ {0} /\ Cardinality(Ahead) < Round

\* There are finitely many steps ahead, and less of them than a claim counts for.
LEMMA AheadFacts == Counted
<1>1. IsFiniteSet(Items)
  BY SizeAssumption, FS_Interval DEF Items
<1>2. IsFiniteSet(Everyone)
  BY WorkersFacts, FS_AddElement DEF Everyone
<1>3. IsFiniteSet(1 .. 6)
  <2>1. 1 \in Int /\ 6 \in Int
    OBVIOUS
  <2> QED
    BY <2>1, FS_Interval
<1>4. IsFiniteSet(Everyone \X (1 .. 6))
  BY <1>2, <1>3, FS_Product
<1>5. IsFiniteSet(Unclaimed) /\ Cardinality(Unclaimed) \in Nat
  BY <1>1, FS_Subset, FS_CardinalityType DEF Unclaimed
<1>6. Ahead \subseteq Everyone \X (1 .. 6)
  BY DEF Ahead
<1>7. /\ IsFiniteSet(Ahead) /\ Cardinality(Ahead) <= Cardinality(Everyone \X (1 .. 6))
      /\ Cardinality(Ahead) \in Nat /\ Cardinality(Everyone \X (1 .. 6)) \in Nat
  BY <1>4, <1>6, FS_Subset, FS_CardinalityType
<1> QED
  BY <1>5, <1>7 DEF Counted, Round

\* A step that claims no item leaves fewer steps ahead.
LEMMA FewerSteps ==
  ASSUME Ahead' \subseteq Ahead, Ahead' # Ahead, Unclaimed' = Unclaimed
  PROVE  StepsLeft' < StepsLeft
<1>1. Cardinality(Ahead') < Cardinality(Ahead) /\ Cardinality(Ahead') \in Nat
  BY AheadFacts, FS_Subset, FS_CardinalityType DEF Counted
<1>2. Round' = Round
  BY DEF Round, Everyone
<1> DEFINE u == Cardinality(Unclaimed)
           a == Cardinality(Ahead)
           b == Cardinality(Ahead')
<1>3. u \in Nat /\ a \in Nat /\ b \in Nat /\ Round \in Nat \ {0} /\ b < Round /\ b < a
  BY <1>1, AheadFacts DEF Counted
<1>4. StepsLeft = u * Round + a /\ StepsLeft' = u * Round + b
  BY <1>2 DEF StepsLeft
<1> HIDE DEF u, a, b
<1> QED
  BY <1>3, <1>4, Decreases

\* One step of one goroutine, which takes it nearer to its end.
LEMMA WorkerNearer ==
  ASSUME Inv, NEW w \in Workers, UNCHANGED result, StepsOf(w)' < StepsOf(w),
         StepsOf(w) \in 0 .. 6, StepsOf(w)' \in 0 .. 6,
         \A v \in Workers \ {w} : StepsOf(v)' = StepsOf(v),
         Unclaimed' = Unclaimed
  PROVE  StepsLeft' < StepsLeft
<1>1. ASSUME NEW v \in Everyone, NEW k \in 1 .. 6, <<v, k>> \in Ahead'
      PROVE  <<v, k>> \in Ahead
  <2>1. CASE v = NoWorker
    BY <1>1, <2>1 DEF Ahead
  <2>2. CASE v # NoWorker
    <3>1. v \in Workers /\ k <= StepsOf(v)'
      BY <1>1, <2>2 DEF Ahead, Everyone
    <3>2. k <= StepsOf(v)
      BY <3>1
    <3> QED
      BY <2>2, <3>2 DEF Ahead
  <2> QED
    BY <2>1, <2>2
<1>2. Ahead' \subseteq Ahead
  BY <1>1 DEF Ahead, Everyone
<1>3. <<w, StepsOf(w)>> \in Ahead /\ <<w, StepsOf(w)>> \notin Ahead'
  BY WorkersFacts DEF Ahead, Everyone
<1> QED
  BY <1>2, <1>3, FewerSteps

\* Every step of the call, of any goroutine and of the caller, brings it nearer to
\* its end: the loop of a goroutine claims an item each time it comes round
\* (gobench/benchmark.go 38-60).
LEMMA StepsDecrease == Inv /\ [Next]_vars => [StepsLeft' < StepsLeft]_vars
<1>1. Counted'
  BY AheadFacts, PTL
<1> SUFFICES ASSUME Inv, Next, vars' # vars PROVE StepsLeft' < StepsLeft
  OBVIOUS
<1> USE WorkersFacts, SizeAssumption DEF Holding
<1>2. ASSUME NEW w \in Workers, Spawn(w) \/ LockNext(w) \/ BeginItem(w) \/ Drain(w)
                                 \/ ExecuteOk(w) \/ ExecuteFails(w)
                                 \/ LockErr(w) \/ SetErr(w) \/ UnlockErr(w)
      PROVE  StepsLeft' < StepsLeft
  <2>1. Unclaimed' = Unclaimed /\ result' = result
    BY <1>2 DEF Unclaimed, Spawn, LockNext, BeginItem, Drain, ExecuteOk, ExecuteFails,
           LockErr, SetErr, UnlockErr
  <2>2. \A v \in Workers \ {w} : StepsOf(v)' = StepsOf(v)
    BY <1>2 DEF StepsOf, StepsFrom, Inv, TypeOK, Spawn, LockNext, BeginItem, Drain, ExecuteOk, ExecuteFails,
                LockErr, SetErr, UnlockErr
  <2>3. StepsOf(w)' < StepsOf(w) /\ StepsOf(w) \in 0 .. 6 /\ StepsOf(w)' \in 0 .. 6
    <3>1. CASE Spawn(w)
      BY <3>1 DEF Spawn, StepsOf, StepsFrom, Inv, TypeOK, GroupInv
    <3>2. CASE LockNext(w)
      BY <3>2 DEF LockNext, StepsOf, StepsFrom, Inv, TypeOK
    <3>3. CASE BeginItem(w)
      BY <3>3 DEF BeginItem, StepsOf, StepsFrom, Inv, TypeOK
    <3>4. CASE Drain(w)
      BY <3>4 DEF Drain, StepsOf, StepsFrom, Inv, TypeOK
    <3>5. CASE ExecuteOk(w)
      BY <3>5 DEF ExecuteOk, StepsOf, StepsFrom, Inv, TypeOK
    <3>6. CASE ExecuteFails(w)
      BY <3>6 DEF ExecuteFails, StepsOf, StepsFrom, Inv, TypeOK
    <3>7. CASE LockErr(w)
      BY <3>7 DEF LockErr, StepsOf, StepsFrom, Inv, TypeOK
    <3>8. CASE SetErr(w)
      BY <3>8 DEF SetErr, StepsOf, StepsFrom, Inv, TypeOK
    <3>9. CASE UnlockErr(w)
      BY <3>9 DEF UnlockErr, StepsOf, StepsFrom, Inv, TypeOK
    <3> QED
      BY <1>2, <3>1, <3>2, <3>3, <3>4, <3>5, <3>6, <3>7, <3>8, <3>9
  <2> QED
    BY <2>1, <2>2, <2>3, WorkerNearer
<1>3. ASSUME NEW w \in Workers, UnlockNext(w) PROVE StepsLeft' < StepsLeft
  <2>1. index[w] = next /\ next \in Nat /\ result' = result
    BY <1>3 DEF UnlockNext, Inv, TypeOK, LockInv
  <2>2. CASE next >= N
    <3>1. Unclaimed' = Unclaimed
      BY <1>3, <2>1, <2>2 DEF UnlockNext, Unclaimed, Items
    <3>2. \A v \in Workers \ {w} : StepsOf(v)' = StepsOf(v)
      BY <1>3 DEF StepsOf, StepsFrom, Inv, TypeOK, UnlockNext
    <3>3. StepsOf(w)' < StepsOf(w) /\ StepsOf(w) \in 0 .. 6 /\ StepsOf(w)' \in 0 .. 6
      BY <1>3, <2>1, <2>2 DEF UnlockNext, StepsOf, StepsFrom, Inv, TypeOK
    <3> QED
      BY <2>1, <3>1, <3>2, <3>3, WorkerNearer
  <2>3. CASE next < N
    <3>1. Unclaimed' \subseteq Unclaimed /\ next \in Unclaimed /\ next \notin Unclaimed'
      BY <1>3, <2>1, <2>3 DEF UnlockNext, Unclaimed, Items
    <3>2. Cardinality(Unclaimed') < Cardinality(Unclaimed) /\ Cardinality(Unclaimed') \in Nat
      BY <3>1, AheadFacts, FS_Subset, FS_CardinalityType DEF Counted
    <3>3. Round' = Round
      BY DEF Round, Everyone
    <3> DEFINE u == Cardinality(Unclaimed)
               v == Cardinality(Unclaimed')
               a == Cardinality(Ahead)
               b == Cardinality(Ahead')
    <3>4. /\ u \in Nat /\ v \in Nat /\ v < u /\ a \in Nat /\ b \in Nat
          /\ Round \in Nat \ {0} /\ b < Round
      BY <1>1, <3>2, <3>3, AheadFacts DEF Counted
    <3>5. StepsLeft = u * Round + a /\ StepsLeft' = v * Round + b
      BY <3>3 DEF StepsLeft
    <3> HIDE DEF u, v, a, b
    <3> QED
      BY <3>4, <3>5, Decreases
  <2> QED
    BY <2>1, <2>2, <2>3
<1>4. ASSUME Return PROVE StepsLeft' < StepsLeft
  <2>1. Unclaimed' = Unclaimed
    BY <1>4 DEF Return, Unclaimed
  <2>2. \A v \in Workers : StepsOf(v)' = StepsOf(v)
    BY <1>4 DEF StepsOf, Return
  <2>3. Ahead' \subseteq Ahead
    BY <1>4, <2>2 DEF Ahead, Everyone, Return
  <2>4. <<NoWorker, 1>> \in Ahead /\ <<NoWorker, 1>> \notin Ahead'
    BY <1>4 DEF Ahead, Everyone, Return
  <2> QED
    BY <2>1, <2>3, <2>4, FewerSteps
<1> QED
  BY <1>2, <1>3, <1>4 DEF Next, Worker, Terminated

\* The call cannot run for ever: StepsLeft is a number, and each step of the caller
\* or of a goroutine makes it smaller (gobench/benchmark.go 35-62).
THEOREM Advances == Spec => [](StepsLeft \in Nat) /\ [][StepsLeft' < StepsLeft]_vars
<1>1. StepsLeft \in Nat
  BY AheadFacts DEF Counted, StepsLeft
<1> QED
  BY Invariant, StepsDecrease, <1>1, PTL DEF Spec

\* What goroutine w waits for has come.
MayGo(w) ==
  \/ w = spawned + 1
  \/ pc[w] = "claim" /\ nextMu = NoWorker
  \/ pc[w] = "report" /\ errMu = NoWorker
  \/ pc[w] \in {"locked", "claimed", "execute", "set", "kept"}

MayReturn == spawned = WorkerCount /\ wg = 0

NeverStuck == result = "running" => MayReturn \/ \E w \in Workers : MayGo(w)

\* Until the call returns somebody can go on: no goroutine waits for nextMu or errMu
\* without another one being about to give it back, nor the caller for a group that is empty
\* (gobench/benchmark.go 38-62).
THEOREM NeverStuckHolds == Spec => []NeverStuck
<1>1. ASSUME Inv, ~MayReturn, \A w \in Workers : ~MayGo(w) PROVE FALSE
  <2> USE WorkersFacts
  <2>1. spawned = WorkerCount
    <3>1. spawned + 1 \notin Workers /\ spawned \in 0 .. WorkerCount
      BY <1>1 DEF MayGo, Inv, TypeOK
    <3> QED
      BY <3>1 DEF Workers
  <2>2. Active # {}
    BY <1>1, <2>1, FS_EmptySet DEF MayReturn, Inv, GroupInv
  <2>3. PICK w \in Workers : pc[w] \in {"claim", "report"}
    BY <1>1, <2>2 DEF Active, MayGo, Inv, TypeOK, Holding
  <2>4. CASE pc[w] = "claim"
    <3>1. nextMu \in Workers
      BY <1>1, <2>4 DEF MayGo, Inv, TypeOK
    <3>2. pc[nextMu] = "locked"
      BY <1>1, <3>1 DEF Inv, LockInv
    <3> QED
      BY <1>1, <3>1, <3>2 DEF MayGo
  <2>5. CASE pc[w] = "report"
    <3>1. errMu \in Workers
      BY <1>1, <2>5 DEF MayGo, Inv, TypeOK
    <3>2. pc[errMu] \in {"set", "kept"}
      BY <1>1, <3>1 DEF Inv, ErrLockInv
    <3> QED
      BY <1>1, <3>1, <3>2 DEF MayGo
  <2> QED
    BY <2>3, <2>4, <2>5
<1>2. Inv => NeverStuck
  BY <1>1 DEF NeverStuck
<1> QED
  BY Invariant, <1>2, PTL
=============================================================================

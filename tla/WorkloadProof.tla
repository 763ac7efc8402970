------------------------------ MODULE WorkloadProof ------------------------------
(***************************************************************************)
(* Proofs about Workload, for all counts that can be given on the command  *)
(* line, any number of scenarios and any number of runs.                   *)
(*                                                                         *)
(* The inductive invariant WInv says that a call of runWorkers is given    *)
(* what the options ask for (SampleInv), that the items it has still to    *)
(* perform, and during the warm-up the ones to be measured, find their     *)
(* objects as provisioned (CleanInv), and that the buckets of later        *)
(* scenarios have not been touched (FreshInv).                             *)
(***************************************************************************)
EXTENDS Workload, FiniteSetTheorems, TLAPS

\* The user has not asked Go for a warm-up without iterations: `--iterations 0`
\* with a warm-up is the one choice of counts for which the two properties are
\* false.
WarmupNeedsIterations == tool = "go" /\ iterations = 0 => warmup <= 0

Key ==
  {"read", "overwrite", "delete", "list", "local", "new"}
    \X ({"shared"} \union {Scenarios[k] : k \in 1 .. Len(Scenarios)}) \X Int

OptionsInv ==
  /\ iterations \in Int /\ warmup \in Int
  /\ tool = "ts" => iterations >= 0 /\ warmup >= 0
  /\ WarmupNeedsIterations

Performing == phase \in {"warmup", "measure"}

TypeInv ==
  /\ tool \in {"go", "ts"}
  /\ operation \in Operations
  /\ scenario \in 1 .. Len(Scenarios)
  /\ contents \in [1 .. Len(Scenarios) -> SUBSET (Key \X {"seed", "bench"})]
  /\ phase \in {"provision", "select", "warmup", "measure", "failed", "panicked"}
  /\ Performing => ~Panics(operation)
  /\ phase = "warmup" => todo \subseteq WarmupItems(operation)
  /\ phase = "measure" => todo \subseteq MeasuredItems(operation)

SampleInv ==
  phase = "measure" /\ ~errored => sample = MeasuredItems(operation) \ todo

CleanInv ==
  /\ phase = "warmup" => \A i \in MeasuredItems(operation) : Clean(KeyOf(operation, Name, i))
  /\ phase = "measure" => \A i \in todo : Clean(KeyOf(operation, Name, i))

FreshInv ==
  phase = "select" \/ Performing =>
    \A k \in 1 .. Len(Scenarios) :
      k > scenario \/ (k = scenario /\ phase = "select") =>
        contents[k] = Provisioned(Scenarios[k])

WInv == OptionsInv /\ TypeInv /\ SampleInv /\ CleanInv /\ FreshInv
-----------------------------------------------------------------------------
(***************************************************************************)
(* The slices.                                                             *)
(***************************************************************************)

First(op) == IF op \in Mutable THEN warmup ELSE 0

\* There are enough fixtures for every item, however few were asked for.
LEMMA EnoughFixtures ==
  ASSUME iterations \in Int, warmup \in Int, NEW op
  PROVE  /\ ItemCount(op) \in Int /\ Fixtures(op) \in Int /\ Length(op) \in Int
         /\ iterations >= 0 /\ warmup >= 0 => ItemCount(op) \in 0 .. Fixtures(op)
<1>1. /\ ReadFixtures \in Int /\ ReadFixtures >= iterations
      /\ MutableFixtures \in Int /\ MutableFixtures >= iterations + warmup
  BY OptionsAssumption DEF ReadFixtures, MutableFixtures, Greatest
<1>2. /\ ItemCount(op) \in {iterations, iterations + warmup}
      /\ Fixtures(op) \in {ReadFixtures, MutableFixtures}
  BY DEF ItemCount, Fixtures
<1>3. Length(op) \in Int
  BY <1>1, <1>2 DEF Length, Least, Greatest
<1>4. Fixtures(op) = ReadFixtures => ItemCount(op) = iterations \/ ReadFixtures = MutableFixtures
  BY DEF Fixtures, ItemCount, Mutable
<1>5. iterations >= 0 /\ warmup >= 0 => ItemCount(op) <= Fixtures(op) /\ ItemCount(op) >= 0
  BY <1>1, <1>2, <1>4
<1> QED
  BY <1>1, <1>2, <1>3, <1>5

\* What is left of the slices once nothing has panicked: the warm-up comes
\* first for the operations that change their objects, and the measured items
\* are as many as --iterations says.
LEMMA SliceFacts ==
  ASSUME OptionsInv, tool \in {"go", "ts"}, NEW op \in Operations, ~Panics(op)
  PROVE  /\ MeasuredItems(op) = First(op) .. First(op) + Greatest(iterations, 0) - 1
         /\ First(op) \in Nat /\ Greatest(iterations, 0) \in Nat
         /\ \A i \in MeasuredItems(op) \union WarmupItems(op) : i \in Nat /\ i < Length(op)
         /\ op \in Mutable => \A i \in WarmupItems(op) : i < First(op)
<1>1. /\ ItemCount(op) \in Int /\ Fixtures(op) \in Int /\ Length(op) \in Int
      /\ iterations \in Int /\ warmup \in Int
      /\ iterations >= 0 /\ warmup >= 0 => ItemCount(op) \in 0 .. Fixtures(op)
  BY EnoughFixtures DEF OptionsInv
<1>2. Greatest(iterations, 0) \in Nat
  BY <1>1 DEF Greatest
<1>3. Sliced(op) => ItemCount(op) \in 0 .. Fixtures(op)
  <2>1. CASE tool = "go"
    BY <2>1 DEF Panics
  <2>2. CASE tool = "ts"
    BY <1>1, <2>2 DEF OptionsInv
  <2> QED
    BY <2>1, <2>2
<1>4. Length(op) = Greatest(ItemCount(op), 0)
  BY <1>1, <1>3 DEF Length, Least, Greatest
<1>5. CASE op \notin Mutable
  <2>1. MeasuredItems(op) = All(op) /\ First(op) = 0 /\ ItemCount(op) = iterations
    BY <1>5 DEF MeasuredItems, Select, First, ItemCount
  <2>2. WarmupItems(op) \subseteq All(op)
    BY <1>5 DEF WarmupItems, Select
  <2>3. All(op) = 0 .. Greatest(iterations, 0) - 1
    BY <1>4, <2>1 DEF All
  <2>4. \A i \in All(op) : i \in Nat /\ i < Length(op)
    BY <1>1 DEF All
  <2> QED
    BY <1>2, <1>5, <2>1, <2>2, <2>3, <2>4
<1>6. CASE op \in Mutable
  <2>1. ItemCount(op) = iterations + warmup /\ First(op) = warmup
    BY <1>6 DEF ItemCount, First
  <2>2. iterations >= 0 /\ warmup >= 0
    <3>1. CASE tool = "go"
      <4>1. SplitAt(op) >= 0 /\ SplitEnd(op) >= SplitAt(op)
        BY <1>1, <1>6, <3>1 DEF Panics, SplitAt, SplitEnd, Least
      <4> QED
        BY <1>1, <4>1 DEF SplitAt, SplitEnd, Least
    <3>2. CASE tool = "ts"
      BY <3>2 DEF OptionsInv
    <3> QED
      BY <3>1, <3>2
  <2>3. Length(op) = iterations + warmup
    BY <1>1, <1>4, <2>1, <2>2 DEF Greatest
  <2>4. SplitAt(op) = warmup /\ SplitEnd(op) = warmup + iterations
    BY <1>1, <2>2, <2>3 DEF SplitAt, SplitEnd, Least
  <2>5. /\ WarmupSlice(op) = 0 .. warmup - 1
        /\ MeasuredSlice(op) = warmup .. warmup + iterations - 1
    BY <1>1, <2>4 DEF WarmupSlice, MeasuredSlice
  <2>6. MeasuredItems(op) = warmup .. warmup + iterations - 1
    <3>1. CASE MeasuredSlice(op) = {} /\ tool = "go"
      <4>1. iterations = 0
        BY <1>1, <2>2, <2>5, <3>1
      <4>2. warmup = 0
        BY <1>1, <2>2, <3>1, <4>1 DEF OptionsInv, WarmupNeedsIterations
      <4>3. All(op) = 0 .. 0 - 1
        BY <2>3, <4>1, <4>2 DEF All
      <4> QED
        BY <1>6, <3>1, <4>1, <4>2, <4>3 DEF MeasuredItems, Select
    <3>2. CASE ~(MeasuredSlice(op) = {} /\ tool = "go")
      BY <1>6, <2>5, <3>2 DEF MeasuredItems, Select
    <3> QED
      BY <3>1, <3>2
  <2>7. \A i \in WarmupItems(op) : i \in Nat /\ i < warmup
    BY <1>1, <2>3, <2>5 DEF WarmupItems, Select, All
  <2>8. Greatest(iterations, 0) = iterations
    BY <1>1, <2>2 DEF Greatest
  <2> QED
    BY <1>1, <1>2, <2>1, <2>2, <2>3, <2>6, <2>7, <2>8
<1> QED
  BY <1>5, <1>6

-----------------------------------------------------------------------------
(***************************************************************************)
(* The fixtures and the requests.                                          *)
(***************************************************************************)

\* Every item has a key, and no two items of an operation that changes its
\* objects have the same.
LEMMA KeyFacts ==
  ASSUME NEW op \in Operations, NEW s
  PROVE  /\ \A i \in Int : s \in {Scenarios[k] : k \in 1 .. Len(Scenarios)} =>
              KeyOf(op, s, i) \in Key
         /\ op \in Mutable => \A i, j \in Int : i # j => KeyOf(op, s, i) # KeyOf(op, s, j)
<1>1. CASE op \in {"head-shared", "get-shared"}
  BY <1>1 DEF KeyOf, Key, Mutable
<1>2. CASE op = "get-local"
  BY <1>2 DEF KeyOf, Key, Mutable
<1>3. CASE op = "list-prefix"
  BY <1>3 DEF KeyOf, Key, Mutable
<1>4. CASE op = "put-new"
  BY <1>4 DEF KeyOf, Key, Mutable
<1>5. CASE op = "put-overwrite-seeded"
  BY <1>5 DEF KeyOf, Key, Mutable
<1>6. CASE op = "remove-seeded"
  BY <1>6 DEF KeyOf, Key, Mutable
<1> QED
  BY <1>1, <1>2, <1>3, <1>4, <1>5, <1>6 DEF Operations, Reads, Mutable

LEMMA ProvisionedType ==
  ASSUME iterations \in Int, warmup \in Int, NEW k \in 1 .. Len(Scenarios)
  PROVE  Provisioned(Scenarios[k]) \subseteq Key \X {"seed", "bench"}
<1>1. ReadFixtures \in Int /\ MutableFixtures \in Int /\ FixtureCount \in Int
  BY OptionsAssumption DEF ReadFixtures, MutableFixtures, Greatest
<1>2. SharedFixtures \subseteq Key
  BY <1>1 DEF SharedFixtures, Key
<1>3. LocalFixtures(Scenarios[k]) \subseteq Key
  BY <1>1 DEF LocalFixtures, Key
<1> QED
  BY <1>2, <1>3 DEF Provisioned

\* In a bucket as provisioned every item of the operation finds what it needs.
LEMMA ProvisionedIsClean ==
  ASSUME OptionsInv, TypeInv, contents[scenario] = Provisioned(Name),
         NEW i \in Nat, i < Length(operation)
  PROVE  Clean(KeyOf(operation, Name, i))
<1> DEFINE op == operation
<1>1. /\ iterations \in Int /\ warmup \in Int /\ op \in Operations
      /\ Fixtures(op) \in Int /\ ItemCount(op) \in Int
  BY EnoughFixtures DEF OptionsInv, TypeInv
<1>2. Sliced(op) => i \in 0 .. Fixtures(op) - 1
  BY <1>1 DEF Length, Least, Greatest
<1>3. CASE op \in {"head-shared", "get-shared"}
  <2>1. i \in 0 .. ReadFixtures - 1
    BY <1>2, <1>3 DEF Sliced, Fixtures
  <2>2. <<"read", "shared", i>> \in SharedFixtures
    BY <2>1 DEF SharedFixtures
  <2>3. <<<<"read", "shared", i>>, "seed">> \in contents[scenario]
    BY <2>2 DEF Provisioned
  <2> QED
    BY <1>3, <2>3 DEF Clean, KeyOf
<1>4. CASE op = "get-local"
  <2>1. i \in 0 .. ReadFixtures - 1
    BY <1>2, <1>4 DEF Sliced, Fixtures
  <2>2. <<"local", Name, i>> \in LocalFixtures(Name)
    BY <2>1 DEF LocalFixtures
  <2>3. <<<<"local", Name, i>>, "seed">> \in contents[scenario]
    BY <2>2 DEF Provisioned
  <2> QED
    BY <1>4, <2>3 DEF Clean, KeyOf
<1>5. CASE op = "put-new"
  <2>1. \A o \in contents[scenario] : o[1][1] # "new"
    BY DEF Provisioned, SharedFixtures, LocalFixtures
  <2>2. ~Stored(<<"new", Name, i>>)
    BY <2>1 DEF Stored
  <2> QED
    BY <1>5, <2>2 DEF Clean, KeyOf
<1>6. CASE op = "put-overwrite-seeded"
  <2>1. i \in 0 .. MutableFixtures - 1
    BY <1>2, <1>6 DEF Sliced, Fixtures
  <2>2. <<"overwrite", "shared", i>> \in SharedFixtures
    BY <2>1 DEF SharedFixtures
  <2>3. <<<<"overwrite", "shared", i>>, "seed">> \in contents[scenario]
    BY <2>2 DEF Provisioned
  <2> QED
    BY <1>6, <2>3 DEF Clean, KeyOf
<1>7. CASE op = "remove-seeded"
  <2>1. i \in 0 .. MutableFixtures - 1
    BY <1>2, <1>7 DEF Sliced, Fixtures
  <2>2. <<"delete", "shared", i>> \in SharedFixtures
    BY <2>1 DEF SharedFixtures
  <2>3. <<<<"delete", "shared", i>>, "seed">> \in contents[scenario]
    BY <2>2 DEF Provisioned
  <2> QED
    BY <1>7, <2>3 DEF Clean, KeyOf
<1>8. CASE op = "list-prefix"
  BY <1>8 DEF Clean
<1> QED
  BY <1>1, <1>3, <1>4, <1>5, <1>6, <1>7, <1>8 DEF Operations, Reads, Mutable

\* A request leaves the objects of the other items alone, and one that only
\* reads leaves all of them.
LEMMA EffectFacts ==
  ASSUME TypeInv, NEW mine, NEW other, mine # other \/ operation \in Reads,
         UNCHANGED <<operation, scenario>>,
         contents' = [contents EXCEPT ![scenario] = Effect(mine)],
         Clean(other)
  PROVE  Clean(other)'
<1>1. operation \in Operations /\ scenario \in 1 .. Len(Scenarios)
  BY DEF TypeInv
<1>2. contents'[scenario] = Effect(mine)
  BY <1>1 DEF TypeInv
<1>3. CASE operation \in Reads
  <2>1. contents'[scenario] = contents[scenario]
    BY <1>2, <1>3 DEF Effect, Reads
  <2> QED
    BY <2>1 DEF Clean, Stored
<1>4. CASE operation \in Mutable
  <2>1. mine # other
    BY <1>4 DEF Reads, Mutable
  <2>2. \A body : <<other, body>> \in contents'[scenario] <=>
                     <<other, body>> \in contents[scenario]
    BY <1>2, <1>4, <2>1 DEF Effect, Reads, Mutable
  <2>3. \A o \in contents'[scenario] : o[1] = other => o \in contents[scenario]
    BY <1>2, <1>4, <2>1 DEF Effect, Reads, Mutable
  <2> QED
    BY <2>2, <2>3 DEF Clean, Stored
<1> QED
  BY <1>1, <1>3, <1>4 DEF Operations

\* The same of the items of a call of runWorkers.
LEMMA OthersStayClean ==
  ASSUME OptionsInv, TypeInv, NEW i \in Int, NEW j \in Int,
         i # j \/ operation \in Reads,
         UNCHANGED <<operation, scenario>>,
         contents' = [contents EXCEPT ![scenario] = Effect(KeyOf(operation, Name, i))],
         Clean(KeyOf(operation, Name, j))
  PROVE  Clean(KeyOf(operation, Name, j))'
<1>1. PICK mine : mine = KeyOf(operation, Name, i)
  OBVIOUS
<1>2. PICK other : other = KeyOf(operation, Name, j)
  OBVIOUS
<1>3. mine # other \/ operation \in Reads
  BY <1>1, <1>2, KeyFacts DEF TypeInv, Operations
<1>4. Clean(other)'
  BY <1>1, <1>2, <1>3, EffectFacts
<1>5. KeyOf(operation, Name, j)' = other
  BY <1>2 DEF Name, KeyOf
<1> QED
  BY <1>4, <1>5
-----------------------------------------------------------------------------
(***************************************************************************)
(* Each step keeps the invariant.                                          *)
(***************************************************************************)

\* What a step that keeps the options, the operation and the scenario leaves.
LEMMA SameItems ==
  ASSUME UNCHANGED <<options, operation, scenario>>
  PROVE  /\ MeasuredItems(operation)' = MeasuredItems(operation)
         /\ WarmupItems(operation)' = WarmupItems(operation)
         /\ Panics(operation)' <=> Panics(operation)
         /\ \A s : Provisioned(s)' = Provisioned(s)
         /\ OptionsInv => OptionsInv'
<1> USE DEF options
<1>1. /\ ReadFixtures' = ReadFixtures /\ MutableFixtures' = MutableFixtures
      /\ ItemCount(operation)' = ItemCount(operation)
  BY DEF ReadFixtures, MutableFixtures, ItemCount
<1>2. Fixtures(operation)' = Fixtures(operation)
  BY <1>1 DEF Fixtures
<1>3. Length(operation)' = Length(operation)
  BY <1>1, <1>2 DEF Length, Sliced
<1>4. All(operation)' = All(operation)
  BY <1>3 DEF All
<1>5. SplitAt(operation)' = SplitAt(operation) /\ SplitEnd(operation)' = SplitEnd(operation)
  BY <1>3 DEF SplitAt, SplitEnd
<1>6. /\ WarmupSlice(operation)' = WarmupSlice(operation)
      /\ MeasuredSlice(operation)' = MeasuredSlice(operation)
  BY <1>5 DEF WarmupSlice, MeasuredSlice
<1>7. /\ MeasuredItems(operation)' = MeasuredItems(operation)
      /\ WarmupItems(operation)' = WarmupItems(operation)
  BY <1>4, <1>6 DEF MeasuredItems, WarmupItems, Select
<1>8. Panics(operation)' <=> Panics(operation)
  BY <1>1, <1>2, <1>5 DEF Panics, Sliced
<1>9. \A s : Provisioned(s)' = Provisioned(s)
  BY <1>1 DEF Provisioned, SharedFixtures, LocalFixtures
<1>10. OptionsInv => OptionsInv'
  BY DEF OptionsInv, WarmupNeedsIterations
<1> QED
  BY <1>7, <1>8, <1>9, <1>10

LEMMA InitWInv == WarmupNeedsIterations /\ Init => WInv
<1> SUFFICES ASSUME WarmupNeedsIterations, Init PROVE WInv
  OBVIOUS
<1>1. OptionsInv
  <2>1. CASE tool = "go"
    <3>1. PICK o \in GoOptions : iterations = o[1] /\ warmup = o[2]
      BY <2>1 DEF Init
    <3> QED
      BY <2>1, <3>1, OptionsAssumption DEF OptionsInv, WarmupNeedsIterations
  <2>2. CASE tool = "ts"
    <3>1. PICK o \in TsOptions : iterations = o[1] /\ warmup = o[2]
      BY <2>2 DEF Init
    <3> QED
      BY <2>2, <3>1, OptionsAssumption DEF OptionsInv, WarmupNeedsIterations
  <2> QED
    BY <2>1, <2>2 DEF Init
<1>2. TypeInv
  <2>1. 1 \in 1 .. Len(Scenarios)
    BY OptionsAssumption
  <2> QED
    BY <2>1 DEF Init, TypeInv, Performing, Operations, Mutable
<1>3. SampleInv /\ CleanInv /\ FreshInv
  BY DEF Init, SampleInv, CleanInv, FreshInv, Performing
<1> QED
  BY <1>1, <1>2, <1>3 DEF WInv

LEMMA ProvisionForStep == WInv /\ ProvisionFor => WInv'
<1> SUFFICES ASSUME WInv, ProvisionFor PROVE WInv'
  OBVIOUS
<1>1. /\ operation' \in Operations /\ scenario' = 1 /\ phase' = "select"
      /\ contents' = [k \in 1 .. Len(Scenarios) |-> Provisioned(Scenarios[k])]
      /\ UNCHANGED <<tool, iterations, warmup>>
  BY DEF ProvisionFor, options
<1>2. OptionsInv'
  BY <1>1 DEF WInv, OptionsInv, WarmupNeedsIterations
<1>3. \A k \in 1 .. Len(Scenarios) : Provisioned(Scenarios[k]) \subseteq Key \X {"seed", "bench"}
  BY ProvisionedType DEF WInv, OptionsInv
<1>4. TypeInv'
  <2>1. scenario' \in 1 .. Len(Scenarios)
    BY <1>1, OptionsAssumption
  <2>2. contents' \in [1 .. Len(Scenarios) -> SUBSET (Key \X {"seed", "bench"})]
    BY <1>1, <1>3
  <2>3. ~Performing'
    BY <1>1 DEF Performing
  <2> QED
    BY <1>1, <2>1, <2>2, <2>3 DEF WInv, TypeInv
<1>5. \A s : Provisioned(s)' = Provisioned(s)
  BY <1>1 DEF Provisioned, SharedFixtures, LocalFixtures, ReadFixtures, MutableFixtures
<1>6. FreshInv'
  BY <1>1, <1>5 DEF FreshInv
<1>7. SampleInv' /\ CleanInv'
  BY <1>1 DEF SampleInv, CleanInv
<1> QED
  BY <1>2, <1>4, <1>6, <1>7 DEF WInv

LEMMA SelectItemsStep == WInv /\ SelectItems => WInv'
<1> SUFFICES ASSUME WInv, SelectItems PROVE WInv'
  OBVIOUS
<1>1. /\ phase = "select" /\ UNCHANGED <<options, operation, scenario, contents, sample, errored>>
      /\ OptionsInv /\ TypeInv /\ FreshInv
  BY DEF SelectItems, WInv
<1>2. /\ MeasuredItems(operation)' = MeasuredItems(operation)
      /\ WarmupItems(operation)' = WarmupItems(operation)
      /\ Panics(operation)' <=> Panics(operation)
      /\ \A s : Provisioned(s)' = Provisioned(s)
      /\ OptionsInv'
  BY <1>1, SameItems
<1>3. CASE Panics(operation) /\ phase' = "panicked"
  <2>1. TypeInv'
    BY <1>1, <1>3 DEF TypeInv, Performing, options
  <2>2. SampleInv' /\ CleanInv' /\ FreshInv'
    BY <1>3 DEF SampleInv, CleanInv, FreshInv, Performing
  <2> QED
    BY <1>2, <2>1, <2>2 DEF WInv
<1>4. CASE ~Panics(operation) /\ phase' = "warmup" /\ todo' = WarmupItems(operation)
  <2>1. TypeInv'
    BY <1>1, <1>2, <1>4 DEF TypeInv, Performing, options
  <2>2. contents[scenario] = Provisioned(Name)
    BY <1>1 DEF FreshInv, TypeInv, Name
  <2>3. \A i \in MeasuredItems(operation) : Clean(KeyOf(operation, Name, i))
    BY <1>1, <1>4, <2>2, SliceFacts, ProvisionedIsClean DEF TypeInv
  <2>4. \A i : Clean(KeyOf(operation, Name, i))' <=> Clean(KeyOf(operation, Name, i))
    BY <1>1 DEF Clean, KeyOf, Name, Stored
  <2>5. CleanInv'
    BY <1>2, <1>4, <2>3, <2>4 DEF CleanInv
  <2>6. FreshInv'
    BY <1>1, <1>2, <1>4 DEF FreshInv, Performing
  <2>7. SampleInv'
    BY <1>4 DEF SampleInv
  <2> QED
    BY <1>2, <2>1, <2>5, <2>6, <2>7 DEF WInv
<1> QED
  BY <1>3, <1>4 DEF SelectItems

\* A request on the current bucket changes no other.
LEMMA EffectType ==
  ASSUME OptionsInv, TypeInv, NEW i \in Int,
         contents' = [contents EXCEPT ![scenario] = Effect(KeyOf(operation, Name, i))]
  PROVE  /\ contents' \in [1 .. Len(Scenarios) -> SUBSET (Key \X {"seed", "bench"})]
         /\ \A k \in 1 .. Len(Scenarios) : k # scenario => contents'[k] = contents[k]
<1>1. PICK key : key = KeyOf(operation, Name, i)
  OBVIOUS
<1>2. key \in Key
  BY <1>1, KeyFacts DEF TypeInv, Name
<1>3. contents[scenario] \subseteq Key \X {"seed", "bench"}
  BY DEF TypeInv
<1>4. Effect(key) \subseteq contents[scenario] \union {<<key, "bench">>}
  <2>1. CASE operation \in Reads
    BY <2>1 DEF Effect, Reads
  <2>2. CASE operation = "remove-seeded"
    BY <2>2 DEF Effect, Reads
  <2>3. CASE operation \notin Reads /\ operation # "remove-seeded"
    BY <2>3 DEF Effect
  <2> QED
    BY <2>1, <2>2, <2>3
<1>5. Effect(key) \subseteq Key \X {"seed", "bench"}
  BY <1>2, <1>3, <1>4
<1> QED
  BY <1>1, <1>5 DEF TypeInv

LEMMA PerformStep == ASSUME WInv, NEW i \in todo, Perform(i) PROVE WInv'
<1>1. /\ Performing /\ UNCHANGED <<options, operation, scenario, phase, errored>>
      /\ OptionsInv /\ TypeInv /\ FreshInv /\ SampleInv /\ CleanInv /\ ~Panics(operation)
      /\ todo' = todo \ {i}
      /\ contents' = [contents EXCEPT ![scenario] = Effect(KeyOf(operation, Name, i))]
      /\ sample' = IF phase = "measure" THEN sample \union {i} ELSE sample
  BY DEF Perform, WInv, TypeInv, Performing
<1>2. /\ MeasuredItems(operation)' = MeasuredItems(operation)
      /\ WarmupItems(operation)' = WarmupItems(operation)
      /\ Panics(operation)' <=> Panics(operation)
      /\ \A s : Provisioned(s)' = Provisioned(s)
      /\ OptionsInv'
  BY <1>1, SameItems
<1>3. /\ phase = "warmup" => todo \subseteq WarmupItems(operation)
      /\ phase = "measure" => todo \subseteq MeasuredItems(operation)
      /\ operation \in Operations /\ tool \in {"go", "ts"}
  BY <1>1 DEF TypeInv
<1>4. /\ \A j \in MeasuredItems(operation) : j \in Int
      /\ i \in Int
      /\ operation \in Mutable /\ phase = "warmup" => i \notin MeasuredItems(operation)
  <2>1. /\ MeasuredItems(operation)
             = First(operation) .. First(operation) + Greatest(iterations, 0) - 1
        /\ First(operation) \in Nat
        /\ \A j \in MeasuredItems(operation) \union WarmupItems(operation) : j \in Nat
        /\ operation \in Mutable => \A j \in WarmupItems(operation) : j < First(operation)
    BY <1>1, <1>3, SliceFacts
  <2> QED
    BY <1>1, <1>3, <2>1 DEF Performing
<1>5. /\ contents' \in [1 .. Len(Scenarios) -> SUBSET (Key \X {"seed", "bench"})]
      /\ \A k \in 1 .. Len(Scenarios) : k # scenario => contents'[k] = contents[k]
  BY <1>1, <1>4, EffectType
<1>6. TypeInv'
  BY <1>1, <1>2, <1>3, <1>5 DEF TypeInv, Performing, options
<1>7. SampleInv'
  BY <1>1, <1>2, <1>3 DEF SampleInv
<1>8. CleanInv'
  <2>1. ASSUME NEW j \in MeasuredItems(operation), phase = "warmup"
        PROVE  Clean(KeyOf(operation, Name, j))'
    <3>1. i # j \/ operation \in Reads
      BY <1>3, <1>4, <2>1 DEF Operations
    <3>2. Clean(KeyOf(operation, Name, j))
      BY <1>1, <2>1 DEF CleanInv
    <3> QED
      BY <1>1, <1>4, <3>1, <3>2, OthersStayClean
  <2>2. ASSUME NEW j \in todo', phase = "measure"
        PROVE  Clean(KeyOf(operation, Name, j))'
    <3>1. i # j /\ j \in todo /\ j \in MeasuredItems(operation)
      BY <1>1, <1>3, <2>2
    <3>2. Clean(KeyOf(operation, Name, j))
      BY <1>1, <2>2, <3>1 DEF CleanInv
    <3> QED
      BY <1>1, <1>4, <3>1, <3>2, OthersStayClean
  <2> QED
    BY <1>1, <1>2, <2>1, <2>2 DEF CleanInv
<1>9. FreshInv'
  <2>1. scenario \in Int
    BY <1>1 DEF TypeInv
  <2>2. phase # "select" /\ phase' # "select"
    BY <1>1 DEF Performing
  <2>3. \A k \in 1 .. Len(Scenarios) : k > scenario => contents[k] = Provisioned(Scenarios[k])
    BY <1>1 DEF FreshInv
  <2>4. \A k \in 1 .. Len(Scenarios) : k > scenario => k # scenario
    BY <2>1
  <2> QED
    BY <1>1, <1>2, <1>5, <2>2, <2>3, <2>4 DEF FreshInv
<1> QED
  BY <1>2, <1>6, <1>7, <1>8, <1>9 DEF WInv

\* The steps that leave the buckets alone.
LEMMA BeginMeasuringStep == WInv /\ BeginMeasuring => WInv'
<1> SUFFICES ASSUME WInv, BeginMeasuring PROVE WInv'
  OBVIOUS
<1>1. /\ phase = "warmup" /\ phase' = "measure" /\ todo' = MeasuredItems(operation)
      /\ sample' = {}
      /\ UNCHANGED <<options, operation, scenario, contents, errored>>
      /\ OptionsInv /\ TypeInv /\ FreshInv /\ CleanInv
  BY DEF BeginMeasuring, WInv
<1>2. /\ MeasuredItems(operation)' = MeasuredItems(operation)
      /\ Panics(operation)' <=> Panics(operation)
      /\ \A s : Provisioned(s)' = Provisioned(s)
      /\ OptionsInv'
  BY <1>1, SameItems
<1>3. TypeInv'
  BY <1>1, <1>2 DEF TypeInv, Performing, options
<1>4. SampleInv'
  BY <1>1, <1>2 DEF SampleInv
<1>5. \A i : Clean(KeyOf(operation, Name, i))' <=> Clean(KeyOf(operation, Name, i))
  BY <1>1 DEF Clean, KeyOf, Name, Stored
<1>6. CleanInv'
  BY <1>1, <1>5 DEF CleanInv
<1>7. FreshInv'
  BY <1>1, <1>2 DEF FreshInv, Performing
<1> QED
  BY <1>2, <1>3, <1>4, <1>6, <1>7 DEF WInv

LEMMA PerformFailsStep == ASSUME WInv, NEW i \in todo, PerformFails(i) PROVE WInv'
<1>1. /\ Performing /\ todo' = todo \ {i} /\ errored' = TRUE
      /\ UNCHANGED <<options, operation, scenario, contents, phase, sample>>
      /\ OptionsInv /\ TypeInv /\ FreshInv /\ CleanInv
  BY DEF PerformFails, WInv, Performing
<1>2. /\ MeasuredItems(operation)' = MeasuredItems(operation)
      /\ WarmupItems(operation)' = WarmupItems(operation)
      /\ Panics(operation)' <=> Panics(operation)
      /\ \A s : Provisioned(s)' = Provisioned(s)
      /\ OptionsInv'
  BY <1>1, SameItems
<1>3. TypeInv'
  BY <1>1, <1>2 DEF TypeInv, Performing, options
<1>4. SampleInv'
  BY <1>1 DEF SampleInv
<1>5. \A j : Clean(KeyOf(operation, Name, j))' <=> Clean(KeyOf(operation, Name, j))
  BY <1>1 DEF Clean, KeyOf, Name, Stored
<1>6. CleanInv'
  BY <1>1, <1>2, <1>5 DEF CleanInv
<1>7. FreshInv'
  BY <1>1, <1>2 DEF FreshInv, Performing
<1> QED
  BY <1>2, <1>3, <1>4, <1>6, <1>7 DEF WInv

LEMMA RecordResultStep == WInv /\ RecordResult => WInv'
<1> SUFFICES ASSUME WInv, RecordResult PROVE WInv'
  OBVIOUS
<1>1. /\ phase = "measure" /\ UNCHANGED <<options, operation, contents>>
      /\ \/ scenario < Len(Scenarios) /\ scenario' = scenario + 1 /\ phase' = "select"
         \/ scenario' = scenario /\ phase' = "provision"
      /\ OptionsInv /\ TypeInv /\ FreshInv
  BY DEF RecordResult, WInv
<1>2. scenario \in 1 .. Len(Scenarios) /\ Len(Scenarios) \in Nat
  BY <1>1, OptionsAssumption DEF TypeInv
<1>3. OptionsInv'
  BY <1>1 DEF OptionsInv, WarmupNeedsIterations, options
<1>4. ~Performing' /\ scenario' \in 1 .. Len(Scenarios)
  BY <1>1, <1>2 DEF Performing
<1>5. TypeInv'
  BY <1>1, <1>4 DEF TypeInv, Performing, options
<1>6. SampleInv' /\ CleanInv'
  BY <1>1 DEF SampleInv, CleanInv
<1>7. \A s : Provisioned(s)' = Provisioned(s)
  BY <1>1 DEF options, Provisioned, SharedFixtures, LocalFixtures, ReadFixtures, MutableFixtures
<1>8. FreshInv'
  <2>1. \A k \in 1 .. Len(Scenarios) : k > scenario => contents[k] = Provisioned(Scenarios[k])
    BY <1>1 DEF FreshInv, Performing
  <2>2. \A k \in 1 .. Len(Scenarios) : k >= scenario + 1 => k > scenario
    BY <1>2
  <2>3. CASE scenario' = scenario + 1 /\ phase' = "select"
    <3>1. ASSUME NEW k \in 1 .. Len(Scenarios), k > scenario' \/ k = scenario'
          PROVE  contents'[k] = Provisioned(Scenarios[k])'
      BY <1>1, <1>2, <1>7, <2>1, <2>3, <3>1
    <3> QED
      BY <3>1 DEF FreshInv
  <2>4. CASE phase' = "provision"
    BY <2>4 DEF FreshInv, Performing
  <2> QED
    BY <1>1, <2>3, <2>4
<1> QED
  BY <1>3, <1>5, <1>6, <1>8 DEF WInv

LEMMA KeepsStep == WInv /\ (ReturnError \/ UNCHANGED vars) => WInv'
<1>1. ASSUME WInv, ReturnError PROVE WInv'
  <2>1. /\ phase' = "failed" /\ UNCHANGED <<options, operation, scenario, contents>>
        /\ OptionsInv /\ TypeInv
    BY <1>1 DEF ReturnError, WInv
  <2>2. OptionsInv' /\ TypeInv'
    BY <2>1 DEF OptionsInv, WarmupNeedsIterations, TypeInv, Performing, options
  <2>3. SampleInv' /\ CleanInv' /\ FreshInv'
    BY <2>1 DEF SampleInv, CleanInv, FreshInv, Performing
  <2> QED
    BY <2>2, <2>3 DEF WInv
<1>2. ASSUME WInv, UNCHANGED vars PROVE WInv'
  <2>1. /\ UNCHANGED <<options, operation, scenario, contents, phase, todo, sample, errored>>
        /\ OptionsInv /\ TypeInv /\ SampleInv /\ CleanInv /\ FreshInv
    BY <1>2 DEF vars, WInv
  <2>2. /\ MeasuredItems(operation)' = MeasuredItems(operation)
        /\ WarmupItems(operation)' = WarmupItems(operation)
        /\ Panics(operation)' <=> Panics(operation)
        /\ \A s : Provisioned(s)' = Provisioned(s)
        /\ OptionsInv'
    BY <2>1, SameItems
  <2>3. TypeInv' /\ SampleInv' /\ FreshInv'
    BY <2>1, <2>2 DEF TypeInv, SampleInv, FreshInv, Performing, options
  <2>4. \A j : Clean(KeyOf(operation, Name, j))' <=> Clean(KeyOf(operation, Name, j))
    BY <2>1 DEF Clean, KeyOf, Name, Stored
  <2>5. CleanInv'
    BY <2>1, <2>2, <2>4 DEF CleanInv
  <2> QED
    BY <2>2, <2>3, <2>5 DEF WInv
<1> QED
  BY <1>1, <1>2

LEMMA NextWInv == WInv /\ [Next]_vars => WInv'
<1> SUFFICES ASSUME WInv, [Next]_vars PROVE WInv'
  OBVIOUS
<1>1. CASE ProvisionFor
  BY <1>1, ProvisionForStep
<1>2. CASE SelectItems
  BY <1>2, SelectItemsStep
<1>3. CASE BeginMeasuring
  BY <1>3, BeginMeasuringStep
<1>4. CASE RecordResult
  BY <1>4, RecordResultStep
<1>5. CASE \E i \in todo : Perform(i)
  BY <1>5, PerformStep
<1>6. CASE \E i \in todo : PerformFails(i)
  BY <1>6, PerformFailsStep
<1>7. CASE ReturnError \/ UNCHANGED vars
  BY <1>7, KeepsStep
<1> QED
  BY <1>1, <1>2, <1>3, <1>4, <1>5, <1>6, <1>7 DEF Next, Terminated

\* The inductive invariant, whatever counts are given but a warm-up without
\* iterations.
THEOREM Invariant == WarmupNeedsIterations /\ Spec => []WInv
<1>1. WarmupNeedsIterations /\ Init => WInv
  BY InitWInv
<1>2. WInv /\ [Next]_vars => WInv'
  BY NextWInv
<1> QED
  BY <1>1, <1>2, PTL DEF Spec
-----------------------------------------------------------------------------
(***************************************************************************)
(* The properties.                                                         *)
(***************************************************************************)

\* Every result is about exactly as many requests as --iterations says
\* (gobench/benchmark.go 19-24 and 123-166), however few fixtures are asked for.
THEOREM SampleHasIterationsHolds == WarmupNeedsIterations /\ Spec => []SampleHasIterations
<1>1. ASSUME WInv, phase = "measure", todo = {}, ~errored
      PROVE  Cardinality(sample) = Greatest(iterations, 0)
  <2> DEFINE first == First(operation)
             n == Greatest(iterations, 0)
  <2>1. sample = MeasuredItems(operation)
    BY <1>1 DEF WInv, SampleInv
  <2>2. MeasuredItems(operation) = first .. first + n - 1 /\ first \in Nat /\ n \in Nat
    BY <1>1, SliceFacts DEF WInv, TypeInv, Performing
  <2> HIDE DEF first, n
  <2>3. Cardinality(first .. first + n - 1) = IF first > first + n - 1 THEN 0
                                              ELSE (first + n - 1) - first + 1
    BY <2>2, FS_Interval
  <2>4. Cardinality(first .. first + n - 1) = n
    BY <2>2, <2>3
  <2> QED
    BY <2>1, <2>2, <2>4 DEF n
<1>2. WInv => SampleHasIterations
  BY <1>1 DEF SampleHasIterations
<1> QED
  BY <1>2, Invariant, PTL

\* A measured request finds its object as provisioning left it, for every
\* operation, number of warm-up requests and order of the workers
\* (gobench/benchmark.go 40-58 and 123-166): the warm-up, other scenarios,
\* other operations and earlier requests never touch it.
THEOREM MeasuredOnCleanFixtureHolds ==
  WarmupNeedsIterations /\ Spec => MeasuredOnCleanFixture
<1>1. ASSUME WInv, [Next]_vars, phase = "measure", sample' # sample,
             NEW i \in sample' \ sample
      PROVE  Clean(KeyOf(operation, Name, i))
  <2>1. PICK j \in todo : Perform(j)
    BY <1>1 DEF Next, vars, ProvisionFor, SelectItems, BeginMeasuring, RecordResult,
                ReturnError, PerformFails, Terminated
  <2>2. i = j
    BY <1>1, <2>1 DEF Perform
  <2> QED
    BY <1>1, <2>2 DEF WInv, CleanInv
<1>2. WInv /\ [Next]_vars =>
        [phase = "measure" /\ sample' # sample =>
           \A i \in sample' \ sample : Clean(KeyOf(operation, Name, i))]_vars
  BY <1>1
<1> QED
  BY <1>2, Invariant, PTL DEF Spec, MeasuredOnCleanFixture

\* The counts stay what they are, so a panic can be put down to them later.
CountsInv ==
  /\ iterations \in Int /\ warmup \in Int
  /\ PanicsOnlyOnNegative

LEMMA PanicFacts ==
  ASSUME iterations \in Int, warmup \in Int, NEW op, Panics(op)
  PROVE  iterations < 0 \/ warmup < 0
<1>1. /\ Length(op) \in Int
      /\ iterations >= 0 /\ warmup >= 0 => ItemCount(op) \in 0 .. Fixtures(op)
      /\ ItemCount(op) \in Int /\ Fixtures(op) \in Int
  BY EnoughFixtures
<1> SUFFICES ASSUME iterations >= 0, warmup >= 0 PROVE FALSE
  OBVIOUS
<1>2. ItemCount(op) \in 0 .. Fixtures(op)
  BY <1>1
<1>3. Length(op) >= 0
  BY <1>1, <1>2 DEF Length, Least, Greatest
<1>4. SplitAt(op) >= 0 /\ SplitEnd(op) >= SplitAt(op)
  BY <1>1, <1>3 DEF SplitAt, SplitEnd, Least
<1>5. SplitAt(op) \in Int /\ SplitEnd(op) \in Int
  BY <1>1 DEF SplitAt, SplitEnd, Least
<1> QED
  BY <1>2, <1>4, <1>5 DEF Panics

\* However few fixtures are asked for, the slices of the Go tool never panic on
\* counts that are not negative (gobench/provision.go 33-39).
THEOREM PanicsOnlyOnNegativeHolds == Spec => []PanicsOnlyOnNegative
<1>1. Init => CountsInv
  BY OptionsAssumption DEF Init, CountsInv, PanicsOnlyOnNegative
<1>2. CountsInv /\ [Next]_vars => CountsInv'
  <2> SUFFICES ASSUME CountsInv, [Next]_vars PROVE CountsInv'
    OBVIOUS
  <2>1. UNCHANGED <<iterations, warmup>>
    BY DEF Next, vars, options, ProvisionFor, SelectItems, BeginMeasuring, RecordResult,
           ReturnError, Perform, PerformFails, Terminated
  <2>2. phase' = "panicked" => phase = "panicked" \/ Panics(operation)
    BY DEF Next, vars, ProvisionFor, SelectItems, BeginMeasuring, RecordResult,
           ReturnError, Perform, PerformFails, Terminated
  <2>3. PanicsOnlyOnNegative'
    BY <2>1, <2>2, PanicFacts DEF CountsInv, PanicsOnlyOnNegative
  <2> QED
    BY <2>1, <2>3 DEF CountsInv
<1>3. CountsInv => PanicsOnlyOnNegative
  BY DEF CountsInv
<1> QED
  BY <1>1, <1>2, <1>3, PTL DEF Spec
=============================================================================

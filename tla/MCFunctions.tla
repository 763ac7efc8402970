------------------------------ MODULE MCFunctions ------------------------------
(***************************************************************************)
(* The pure parts of both tools, each over every input of a small set, and *)
(* what their callers need of them.  A state is one input of one part.     *)
(***************************************************************************)
EXTENDS PureParts

\* Every list of at most five depths, in any order: a manifest read back from
\* disk need not be in the order of creation.
MCDepthLists == UNION {[1 .. n -> 0 .. 3] : n \in 0 .. 5}

\* Short samples with every pattern of ties, and samples of every size up to 110
\* without any, the slowest request first.
MCSamples ==
  UNION {[1 .. n -> 0 .. 2] : n \in 0 .. 5} \union {[k \in 1 .. n |-> n - k] : n \in 6 .. 110}

\* Prefixes from none to one that fills the name, with odd characters about.
MCNamePrefixes ==
  {start \o [i \in 1 .. n |-> "a"] \o end :
     start \in {<<>>, <<"-", "B">>}, n \in 0 .. 64, end \in {<<>>, <<"_", "-">>}}

MCSpellings == {Characters(o) : o \in {"put-new", "get-local", "put-overwrite-seeded"}}
MCSuffixes == ScenarioSuffixes(3)

\* Such that differ at their beginning or their end.
MCRandoms == {Characters(r) : r \in {"00000000", "0000000a", "a0000000"}}

\* What a user may write for one option, as documented and otherwise.
MCDocumented ==
  {<<"--iterations", "0">>, <<"--iterations", "10">>, <<"--concurrency", "0">>,
   <<"--concurrency", "2">>, <<"--operations", "put-new">>,
   <<"--operations", "put-new,get-local">>, <<"--endpoint", "other">>,
   <<"--keep-buckets">>, <<"--help">>}

\* Numerals of one tool or of both: with a sign, a base, underscores, blanks, or
\* a rest that is none, and numbers too large for a double or for an int.
MCNumerals ==
  {"-1", "+2", "2x", "010", "08", "0x1F", "0b", "1_0", "_1", "0_7", "1__0", "2_", " 2",
   "-", "", "100", "999", "1000", "-1000", "-1001"}

Undocumented ==
  {<<"--iterations", numeral>> : numeral \in MCNumerals} \union
  {<<"--iterations">>, <<"--concurrency", "-1">>, <<"--concurrency", "2x">>, <<"-">>, <<"--">>,
   <<"--operations", "">>, <<"--operations", ",">>,
   <<"--operations", "put-new,">>, <<"--operations", "put-new,put-new">>,
   <<"--operations", "put-old">>, <<"--keep-buckets", "false">>, <<"--typo", "2">>, <<"stray">>}

MCLines ==
  [pieces : UNION {[1 .. n -> MCDocumented \union Undocumented] : n \in 0 .. 2}
              \union [1 .. 3 -> MCDocumented],
   env : {Absent, "", "env"}, file : {<<>>, <<"one">>, <<"one", "two">>}]

Scenarios(maxForkDepth) ==
  <<"normal", "snapshot-root">>
    \o [d \in 1 .. maxForkDepth |-> <<"fork-depth-1", "fork-depth-2">>[d]]

MCDepth == [scenario \in {"normal", "snapshot-root", "fork-depth-1", "fork-depth-2"} |->
            CASE scenario = "fork-depth-1" -> 1 [] scenario = "fork-depth-2" -> 2 [] OTHER -> 0]

\* The aggregate of a suite: operation after operation, in the manifest's order;
\* --operations may name one twice.  All its latencies are zero when nothing was
\* measured.
Results(operations, maxForkDepth, p50) ==
  LET scenarios == Scenarios(maxForkDepth)
      n == Len(scenarios)
  IN  [k \in 1 .. Len(operations) * n |->
         [operation |-> operations[((k - 1) \div n) + 1],
          scenario |-> scenarios[((k - 1) % n) + 1], p50 |-> p50 * k]]

Measured == {"put-new", "get-local", "head-shared"}

MCAggregates ==
  {Results(operations, maxForkDepth, p50) :
     operations \in UNION {[1 .. n -> Measured] : n \in 1 .. 2}
                      \union {f \in [1 .. 3 -> Measured] : IsInjective(f)},
     maxForkDepth \in 0 .. 1, p50 \in {0, 7}}
=============================================================================

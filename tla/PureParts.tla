------------------------------- MODULE PureParts -------------------------------
(***************************************************************************)
(* The pure parts of both tools, and what their callers need of them, over *)
(* any inputs.  A state is one input of one part.                          *)
(***************************************************************************)
EXTENDS CleanupOrder, Stats, Names, Options, Report, SequencesExt

CONSTANTS
  DepthLists,     \* the fork depths of the scenarios of a manifest
  Samples,        \* durations of one operation
  NamePrefixes,   \* what --prefix may be
  Spellings,      \* the operations' names
  BucketSuffixes, \* those of the buckets of one run
  Randoms,        \* random parts of names
  Lines,          \* command lines and what the environment adds to them
  Aggregates,     \* results of a suite
  Depth           \* the fork depth of each scenario of those results

\* A manifest's depths and a duration are numbers; sums are taken of finite
\* lists.
ASSUME NumbersAssumption ==
  DepthLists \subseteq Seq(Nat) /\ Samples \subseteq Seq(Nat)

\* Only the prefix is a user's: operations and suffixes are written as a bucket's
\* name may be, and are no longer than the longest of them; four random bytes are
\* hexadecimal digits.
ASSUME NamesAssumption ==
  /\ NamePrefixes \subseteq Seq(STRING)
  /\ \A operation \in Spellings :
       IsSanitized(operation) /\ Len(operation) \in 1 .. LongestOperation
  /\ \A s \in DOMAIN BucketSuffixes :
       IsSanitized(BucketSuffixes[s]) /\ Len(BucketSuffixes[s]) \in 1 .. LongestSuffix
  /\ IsInjective(BucketSuffixes)
  /\ Randoms \subseteq [1 .. RandomLength -> AlphaNumeric]

\* Tokens are strings, and every option begins with two dashes.
ASSUME LinesAssumption ==
  /\ Lines \subseteq [pieces : Seq(Seq(STRING)), env : STRING, file : Seq(STRING)]
  /\ \A f \in Flags : StartsWith(f, "--")

\* A scenario has a depth; a result has one of them; every operation of the suite
\* was measured on the normal bucket too; and no latency is zero unless all are,
\* as after --iterations 0.
ASSUME AggregatesAssumption ==
  /\ Depth \in [DOMAIN Depth -> Nat]
  /\ \A results \in Aggregates :
       /\ results \in Seq([operation : OperationName, scenario : DOMAIN Depth, p50 : Nat])
       /\ \A k \in DOMAIN results : \E m \in DOMAIN results :
            results[m].operation = results[k].operation /\ results[m].scenario = "normal"
       /\ \/ \A k \in DOMAIN results : results[k].p50 = 0
          \/ \A k \in DOMAIN results : results[k].p50 > 0

VARIABLES
  part,           \* the part of the code that is looked at
  input           \* its input

vars == <<part, input>>

Init ==
  \/ part = "sort" /\ input \in DepthLists
  \/ part = "summarize" /\ input \in Samples
  \/ part = "name" /\ input \in [prefix : NamePrefixes, operation : Spellings]
  \/ part = "options" /\ input \in Lines
  \/ part = "report" /\ input \in Aggregates

Next == UNCHANGED vars
Spec == Init /\ [][Next]_vars
-----------------------------------------------------------------------------
\* Both CleanupRuns remove every bucket, and none before a deeper one, whatever
\* order the manifest has (provision.go 161-168, provision.ts 136); TypeScript
\* keeps the order of creation among buckets of one depth.
SortsAreSound ==
  part = "sort" =>
    LET stable == StableOrder(input)
    IN  /\ IsRemovalOrder(input, ExchangeOrder(input))
        /\ IsRemovalOrder(input, stable)
        /\ \A k, m \in DOMAIN stable :
             k < m /\ input[stable[k]] = input[stable[m]] => stable[k] < stable[m]

\* Both tools report the same percentiles, and each is the sample that the
\* definition of a percentile asks for, at every sample size: 0.999999999 is
\* neither too little nor too much of a ceiling (util.go 64-76, util.ts 35-42).
PercentilesAreTrue ==
  part = "summarize" =>
    LET stats == summarize("go", input)
    IN  /\ stats = summarize("ts", input)
        /\ input # <<>> =>
             /\ IsPercentile(stats.p50, input, 50)
             /\ IsPercentile(stats.p95, input, 95)
             /\ IsPercentile(stats.p99, input, 99)
             /\ stats.min <= stats.p50 /\ stats.p50 <= stats.p95
             /\ stats.p95 <= stats.p99 /\ stats.p99 <= stats.max
        /\ stats.count * stats.min <= stats.sum /\ stats.sum <= stats.count * stats.max

\* Every name the suite makes up is one that a bucket may have, whatever the
\* prefix.  As long as the sanitized prefix leaves room for the whole name, the
\* names of one run differ from each other even when the random parts do not,
\* and those of two runs differ when the random parts do (util.go 39-48,
\* util.ts 13-19).
NamesAreSound ==
  part = "name" =>
    \A tool \in {"go", "ts"} :
      LET prefix == IsolatedPrefix(input.prefix, input.operation)
          name == [bucket \in (DOMAIN BucketSuffixes) \X Randoms |->
                     BucketName(tool, prefix, BucketSuffixes[bucket[1]], bucket[2])]
      IN  /\ \A bucket \in DOMAIN name : IsBucketName(name[bucket])
          /\ Len(SanitizeBucketPart(input.prefix)) <= WholePrefixLength => IsInjective(name)

\* "Each operation is isolated into its own fresh bucket set" (README.md): two
\* suites whose random parts differ, from the first digit on, share no bucket.
NamesAreFresh ==
  part = "name" =>
    \A tool \in {"go", "ts"} :
      LET name(random) == BucketName(tool, IsolatedPrefix(input.prefix, input.operation),
                                     Characters("snapshot-root"), Characters(random))
      IN  name("00000000") # name("a0000000")

\* What a parser accepts is a list of operations that is not empty ("no
\* operations were selected" is never reached), each of them known, with a positive
\* concurrency and, in TypeScript, no negative count; Go takes those, and does
\* worse with them (PanicsOnlyOnNegative).  On a command line as documented, whose
\* counts are written in plain decimals, and with .env naming the endpoint once at
\* most, both tools understand the same, though one reads counts in base 0 and the
\* other in base 10 (config.go 67-121, config.ts 57-168).
OptionsAreSound ==
  part = "options" =>
    LET args == FlattenSeq(input.pieces)
        go == GoOptions(args, input.env, input.file)
        ts == TsOptions(args, input.env, input.file)
    IN  /\ \A options \in {go, ts} : options.status = "accepted" =>
             /\ options.operations # <<>>
             /\ \A i \in DOMAIN options.operations : options.operations[i] \in OperationName
             /\ options.concurrency >= 1
        /\ ts.iterations >= 0
        /\ (\A i \in DOMAIN input.pieces : IsDocumented(input.pieces[i]))
             /\ Len(input.file) <= 1 => go = ts /\ go.status # "rejected"

\* Every result stands in one row of its operation's section, the rows of a
\* section go by depth, and the ratio of a row is taken against the normal bucket
\* of the same operation ("a ratio against the `normal` bucket", README.md).
ReportIsSound ==
  part = "report" =>
    \A report \in GoReports(input, Depth) \union {TsReport(input, Depth)} :
      /\ \A k \in DOMAIN input :
           \E s \in DOMAIN report :
             /\ Cardinality({i \in DOMAIN report[s].rows : report[s].rows[i] = k}) = 1
             /\ \A t \in DOMAIN report : k \in ToSet(report[t].rows) <=> t = s
      /\ \A s \in DOMAIN report :
           LET rows == report[s].rows
               normal == input[report[s].normal]
           IN  /\ normal.operation = report[s].operation /\ normal.scenario = "normal"
               /\ \A i \in DOMAIN rows :
                    /\ input[rows[i]].operation = report[s].operation
                    /\ \A j \in 1 .. i :
                         Depth[input[rows[j]].scenario] <= Depth[input[rows[i]].scenario]
                    /\ GoHasRatio(input, report[s], rows[i])
                         <=> TsHasRatio(input, report[s], rows[i])
=============================================================================

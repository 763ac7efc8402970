--------------------------------- MODULE Names ---------------------------------
(***************************************************************************)
(* Bucket names: SanitizeBucketPart and MakeBucketName of gobench/util.go, *)
(* sanitizeBucketPart and makeBucketName of src/util.ts.  A name is the    *)
(* sequence of its characters, of which Lower knows the ASCII capitals.    *)
(***************************************************************************)
EXTENDS Integers, Sequences, TLC

\* What S3 allows, and where both tools cut.
MaxNameLength == 63

Characters(string) == [i \in 1 .. Len(string) |-> SubSeq(string, i, i)]

Lower ==
  [A |-> "a", B |-> "b", C |-> "c", D |-> "d", E |-> "e", F |-> "f", G |-> "g", H |-> "h",
   I |-> "i", J |-> "j", K |-> "k", L |-> "l", M |-> "m", N |-> "n", O |-> "o", P |-> "p",
   Q |-> "q", R |-> "r", S |-> "s", T |-> "t", U |-> "u", V |-> "v", W |-> "w", X |-> "x",
   Y |-> "y", Z |-> "z"]

AlphaNumeric ==
  {Lower[c] : c \in DOMAIN Lower}
    \union {"0", "1", "2", "3", "4", "5", "6", "7", "8", "9"}

NameCharacter == AlphaNumeric \union {"-"}

EndsInDash(s) == s # <<>> /\ s[Len(s)] = "-"

TrimRight(s) == IF EndsInDash(s) THEN SubSeq(s, 1, Len(s) - 1) ELSE s

\* What becomes of one character.
Clean(c) ==
  IF c \in AlphaNumeric THEN c
  ELSE IF c \in DOMAIN Lower THEN Lower[c] ELSE "-"

\* No dash comes first or after a dash.
AddCharacter(s, c) == IF c = "-" /\ (s = <<>> \/ EndsInDash(s)) THEN s ELSE Append(s, c)

\* Lower case, every other character a dash, runs of dashes one dash, and none
\* at either end.
SanitizeBucketPart(value) ==
  LET part[i \in 0 .. Len(value)] ==
        IF i = 0 THEN <<>> ELSE AddCharacter(part[i - 1], Clean(value[i]))
  IN  TrimRight(part[Len(value)])

\* Mutant of CutName: one character too many goes.
CutNameShort(raw) ==
  IF Len(raw) >= MaxNameLength THEN SubSeq(raw, 1, MaxNameLength - 1) ELSE raw

\* The random part is the last one, and so the first to be cut.
CutName(raw) == IF Len(raw) > MaxNameLength THEN SubSeq(raw, 1, MaxNameLength) ELSE raw

RawName(prefix, suffix, random) ==
  SanitizeBucketPart(prefix) \o <<"-">> \o SanitizeBucketPart(suffix) \o <<"-">> \o random

\* A dash that the cut has left at the end goes.
GoBucketName(prefix, suffix, random) ==
  LET name == TrimRight(CutName(RawName(prefix, suffix, random)))
  IN  IF name = <<>> THEN Characters("tigris-bench") ELSE name

\* Here an a takes its place: .replace(/-$/, 'a').
TsBucketName(prefix, suffix, random) ==
  LET name == CutName(RawName(prefix, suffix, random))
  IN  IF EndsInDash(name) THEN Append(TrimRight(name), "a") ELSE name

BucketName(tool, prefix, suffix, random) ==
  IF tool = "go" THEN GoBucketName(prefix, suffix, random)
                 ELSE TsBucketName(prefix, suffix, random)

\* isolated.Prefix: every run has its operation in its prefix.
IsolatedPrefix(prefix, operation) == prefix \o <<"-">> \o operation

\* The suffixes of the buckets of one run.
ScenarioSuffixes(maxForkDepth) ==
  <<Characters("normal"), Characters("snapshot-root")>>
    \o [d \in 1 .. maxForkDepth |-> Characters("fork-" \o ToString(d))]
-----------------------------------------------------------------------------
(***************************************************************************)
(* What the service and the suite need of a name                           *)
(***************************************************************************)

IsBucketName(name) ==
  /\ Len(name) \in 3 .. MaxNameLength
  /\ name[1] \in AlphaNumeric /\ name[Len(name)] \in AlphaNumeric
  /\ \A i \in 1 .. Len(name) : name[i] \in NameCharacter

\* What SanitizeBucketPart is for: such characters, and single dashes between
\* others only.
HasSingleDashes(s) ==
  /\ s \in Seq(NameCharacter)
  /\ s # <<>> => s[1] # "-"
  /\ \A i \in 1 .. Len(s) - 1 : s[i] # "-" \/ s[i + 1] # "-"

IsSanitized(s) == HasSingleDashes(s) /\ ~EndsInDash(s)

LongestOperation == 20    \* put-overwrite-seeded
LongestSuffix == 13       \* snapshot-root
RandomLength == 8         \* four bytes in hexadecimal, or the first group of a UUID

\* The longest prefix of a suite, sanitized, that leaves every name whole.
WholePrefixLength ==
  MaxNameLength - (1 + LongestOperation) - (1 + LongestSuffix) - (1 + RandomLength)
=============================================================================

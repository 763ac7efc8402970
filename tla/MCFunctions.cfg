\* Every input of every part; 10^4 stands for Go's 10^9, whose products TLC's
\* integers do not hold, and 999 and 99 for 2^63 - 1 and 2^53 - 1.
CONSTANTS
  Guard = 10000
  DepthLists <- MCDepthLists
  Samples <- MCSamples
  NamePrefixes <- MCNamePrefixes
  Spellings <- MCSpellings
  BucketSuffixes <- MCSuffixes
  Randoms <- MCRandoms
  Lines <- MCLines
  Aggregates <- MCAggregates
  Depth <- MCDepth
  MaxInt = 999
  MaxSafe = 99
SPECIFICATION Spec
INVARIANTS
  SortsAreSound
  PercentilesAreTrue
  NamesAreSound
  OptionsAreSound
  ReportIsSound

\* The names of two suites with one prefix.
CONSTANTS
  Guard = 10000
  DepthLists <- MCDepthLists
  Samples <- MCSamples
  NamePrefixes <- MCNamePrefixes
  Spellings <- MCSpellings
  BucketSuffixes <- MCSuffixes
  Randoms <- MCRandoms
  Lines <- MCLines
  Aggregates <- MCAggregates
  Depth <- MCDepth
  MaxInt = 999
  MaxSafe = 99
SPECIFICATION Spec
INVARIANT NamesAreFresh

\* Three goroutines over four items: a goroutine can take a second item after
\* the others have failed, and the counter runs past the end.
CONSTANTS
  N = 4
  Concurrency = 3
SPECIFICATION FairSpec
INVARIANTS
  TypeOK
  ClaimedOnce
  NothingInFlight
  FullSample
  ErrorIsGenuine
  SkippedOnlyWhenAllFailed
PROPERTIES
  FirstErrorKept
  Returns
  Contract

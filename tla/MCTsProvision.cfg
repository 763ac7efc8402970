\* Any call may fail, before or after it has taken effect, and the service
\* keeps a bucket that has live forks.
CONSTANTS
  MaxForkDepth = 3
  SeedSets <- MCSeedSets
  LocalKeys <- MCLocalKeys
  Unreliable <- Calls
  LostReplies = TRUE
  PinsParents = TRUE
  TidyFirstCreate = TRUE
  StopAtRemoveError = FALSE
  RemovalOrder <- StableOrder
SPECIFICATION TsSpec
INVARIANTS
  EveryRemovalAsked
PROPERTIES
  Contract

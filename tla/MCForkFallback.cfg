\* Nothing fails but the request for a snapshot-enabled fork, which the service
\* rejects; no reply is lost, and any bucket may be removed at any time.
CONSTANTS
  MaxForkDepth = 3
  SeedSets <- MCSeedSets
  LocalKeys <- MCLocalKeys
  Unreliable <- MCOnlyPreferredFork
  LostReplies = FALSE
  PinsParents = FALSE
  TidyFirstCreate = FALSE
  StopAtRemoveError = TRUE
  RemovalOrder <- ExchangeOrder
SPECIFICATION FairSpec
INVARIANT NothingLeftAfterFailure

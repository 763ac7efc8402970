\* Three workers over five items: every worker can take a second item, and two
\* of them can outlive a rejected call.
CONSTANTS
  N = 5
  Concurrency = 3
SPECIFICATION FairSpec
INVARIANTS
  TypeOK
  ResolvedMeansDone
  OrphansFinishTheItems
PROPERTIES
  SettlesAndQuietens
  Contract

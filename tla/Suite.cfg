\* Both tools, two operations of three buckets each, two cleanup
\* commands, and everything that can go wrong.
CONSTANTS
  Tools = {"go", "ts"}
  Runs = 2
  Buckets = 3
  MaxCommands = 2
  Faults = {"setup", "provision", "bench", "write", "remove", "read", "kill"}
SPECIFICATION FairSpec
INVARIANTS
  OneRunAtATime
  SuiteFileIsComplete
  UnnamedBucketsOfOneRun
  CommandRemovesRuns
  TsFailureIsTidy
PROPERTIES
  Ends

\* The Go tool alone, one operation: what a failed write of its results leaves.
CONSTANTS
  Tools = {"go"}
  Runs = 1
  Buckets = 2
  MaxCommands = 0
  Faults = {"write"}
SPECIFICATION Spec
INVARIANT FailureIsTidy

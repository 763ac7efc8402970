\* The TypeScript tool alone: the files of a suite that has ended well.
CONSTANTS
  Tools = {"ts"}
  Runs = 1
  Buckets = 2
  MaxCommands = 0
  Faults = {}
SPECIFICATION Spec
INVARIANT DocumentedOutput

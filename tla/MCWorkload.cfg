\* Up to two measured and two warm-up requests, fewer fixtures asked for than
\* that, and in Go counts below zero.
CONSTANTS
  Scenarios <- MCScenarios
  GoOptions <- MCGoOptions
  TsOptions <- MCTsOptions
  FixtureCount = 1
  MaxRuns = 2
SPECIFICATION Spec
INVARIANTS
  SampleHasIterations
  PanicsOnlyOnNegative
PROPERTIES
  MeasuredOnCleanFixture

\* --iterations 0 with a warm-up.
CONSTANTS
  Scenarios <- MCScenarios
  GoOptions <- MCZeroIterations
  TsOptions <- MCZeroIterations
  FixtureCount = 1
  MaxRuns = 1
SPECIFICATION Spec
PROPERTY MeasuredOnCleanFixture

CONSTANTS
  Bins = {left, right}
  WorkingBlocks = 2
  WorkingWindows = 2
  Integrations = {1, 2, 3}
  BuffersToSkip = 1
  BuffersToSkipOnReset = 1
  CorrelationIntegration = 1
  MaxLookback = 3

SPECIFICATION LiveSpec

INVARIANTS
  MixedOnlyBeforeReset
  PassesAgree
  FlagsAllocated
  MeanOfLatest

PROPERTIES
  EstimatesGoOn

CONSTANTS
  Rates = {0, 1}
  LowIf <- MCLowIf
  NoRate = NoRate
  Frequencies = {0, 3, 7, 13}
  Calibrations = {0, 1}
  Adjusted <- MCAdjusted
  Khz = 2
  DEFAULT_IF_SHIFT = 2
  MIN_ZERO_IF_LO = 4
  MIN_LOW_IF_LO = 2
  Delta <- MCDelta

SPECIFICATION Spec

INVARIANT FineTuned

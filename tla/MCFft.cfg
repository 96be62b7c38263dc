CONSTANTS
  Modulus = 97
  Root <- MCRoot
  Lengths = {2, 4, 8, 16, 32}
  Inputs <- MCInputs

SPECIFICATION Spec

CHECK_DEADLOCK FALSE

INVARIANTS
  FftIsDft

CONSTANTS
  U64 = 256
  U32 = 16
  SampleBytes = 4
  BlockBytes = 8
  Samples = {0, 1, 4, 5, 64, 67, 128}
  Builds = {32, 64}
  MaxBytes = 24

SPECIFICATION Spec

INVARIANTS
  LimitConserved
  AllWritten
  FileQuiet

PROPERTIES
  ToolEnds

CONSTANTS
  RawBufferCount = 2
  TransferCount = 2
  Buffers = {b1, b2, b3, b4}
  NoBuffer = NoBuffer
  MaxBlocks = 5
  MaxUnderflow = 2

SPECIFICATION Spec

SYMMETRY BufferSymmetry

INVARIANTS
  TypeOK
  BufferPartition
  ReadingIsolated
  PositionExact
  StaleOnlyStopping
  StopQuiesces
  LiveExact
  OneStraggler
  NoLostWakeup

PROPERTIES
  ImplementsLossyFifo
  ImplementsSampleQueue
  ImplementsSession
  NoGapUnlessStopping

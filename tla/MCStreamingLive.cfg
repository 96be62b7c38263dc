CONSTANTS
  RawBufferCount = 2
  TransferCount = 1
  Buffers = {b1, b2, b3}
  NoBuffer = NoBuffer
  MaxBlocks = 2
  MaxUnderflow = 2

SPECIFICATION FairSpec

PROPERTIES
  StopReturns
  QueuedBlockDelivered

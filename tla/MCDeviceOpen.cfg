CONSTANTS
  d1 = d1
  d2 = d2
  d3 = d3
  Devices = {d1, d2, d3}
  Serial <- MCSerial
  NoSerial = NoSerial
  SERIAL_NUMBER_UNUSED = 0
  Handles = {h1, h2}
  NoDevice = NoDevice
  NoHandle = NoHandle
  NoLimit = NoLimit
  FwCount = 3
  MaxLeaks = 1

SPECIFICATION Spec

SYMMETRY HandleSymmetry

INVARIANTS
  NothingElseLeaks
  OneOwner
  TablesAgree

PROPERTIES
  SearchThorough
  ListExact

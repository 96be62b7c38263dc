CONSTANTS
  d1 = d1
  d2 = d2
  d3 = d3
  Devices = {d1, d2, d3}
  NoDevice = NoDevice
  Pins = 2
  UINT_MAX = 255

SPECIFICATION Spec

INVARIANTS
  ReportedInOrder
  OutputsSet

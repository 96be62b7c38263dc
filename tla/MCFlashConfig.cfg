CONSTANTS
  Values = {0, 1}
  Zero = 0
  Blank = Blank

SPECIFICATION Spec

INVARIANTS
  FlashedIsRestored
  DeviceFollows

PROPERTIES
  OthersKept

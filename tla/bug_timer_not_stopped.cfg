SPECIFICATION Spec
CONSTANTS
  Ids = {0, 1}
  Counts = {1}
  Masks = {TRUE}
  MaxTimers = 3
  TickMod = 8
  TickLimit = 3
INVARIANTS StoppedIsDisabled

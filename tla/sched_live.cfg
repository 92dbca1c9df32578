SPECIFICATION FairSpec
CONSTANTS
  MaxTasks = 4
  Events = {"A", "B"}
  Masks <- MasksOne
  Calls <- CallsMixed
  Delays = {0, 1, 2}
  TickMod = 4
  TickLimit = 4
  LineErrors = TRUE
  Overrun = FALSE
PROPERTIES NoStarvation DelayEndsWithBit TicksStopOnlyInUserCode

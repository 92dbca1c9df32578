SPECIFICATION FairSpec
CONSTANTS
  MaxTasks = 2
  Events = {}
  Masks <- MasksNone
  Calls <- CallsOnlyDelay
  Delays = {1}
  TickMod = 8
  TickLimit = 8
  LineErrors = FALSE
  Overrun = FALSE
PROPERTIES DelayEnds

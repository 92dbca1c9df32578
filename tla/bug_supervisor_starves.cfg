SPECIFICATION FairSpec
CONSTANTS
  MaxTasks = 2
  Events = {}
  Masks <- MasksTimer
  Calls <- CallsOnlyWait
  Delays = {}
  TickMod = 1
  TickLimit = 1
  LineErrors = FALSE
  Overrun = FALSE
PROPERTIES SupervisorRuns

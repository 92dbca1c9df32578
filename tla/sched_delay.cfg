SPECIFICATION Spec
CONSTANTS
  MaxTasks = 3
  Events = {"A"}
  Masks <- MasksOne
  Calls <- CallsDelay
  Delays = {0, 2}
  TickMod = 8
  TickLimit = 5
  LineErrors = FALSE
  Overrun = TRUE
PROPERTIES DelayNotEarly KeepsPromise

SPECIFICATION Spec
CONSTANTS
  MaxTasks = 3
  Events = {"A"}
  Masks <- MasksAny
  Calls <- CallsFaulty
  Delays = {}
  TickMod = 1
  TickLimit = 1
  LineErrors = FALSE
  Overrun = TRUE
INVARIANTS TypeOK NoLostWakeup WokenWithReason WokenByMask AlwaysDispatches
PROPERTIES RestartOnlyByRaceOrTimer KeepsPromise

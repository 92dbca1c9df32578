SPECIFICATION MCSpec
CONSTANTS
  Units = {"dcc", "stepper", "dht", "updater", "w25q", "registration", "mailbox", "timers"}
  Kinds = {"T4", "T5", "R", "A", "a", "other", "dcc_start", "dcc_stop"}
  Repeat = 2
  MaxCommands = 4
  MaxVal = 3
  Rotations = {0, 1, 2, 3}
  MaxMotorCalls = 4
  MaxPulses = 20
  Sensors = {1, 2}
  Rounds = 16
  StartTicks = 18
  CycleTicks = 6
  MaxFailures = 2
  MaxStarts = 3
  SectorWords = 2
  BankSectors = 2
  Images <- FlashImages
  MaxFlashCalls = 3
  MaxFaults = 2
  Users = {1, 2}
  PageSize = 2
  KB = 2
  Large = FALSE
  BlockCount = 4
  Requests <- QspiRequests
  HalFails = FALSE
  Drivers = {1, 2, 3}
  ArraySize = 2
  MaxRegistrations = 3
  Senders = {1, 2}
  MailboxCount = 2
  MaxEvents = 3
  Ids = {0, 1}
  Counts = {2}
  Masks = {TRUE}
  MaxTimers = 3
  TickMod = 8
  TickLimit = 3
INVARIANTS SentAsGiven PoweredWhileSent StatusTrue Exclusive Served NoneLeft
PROPERTIES OneMore Acquired Written InterruptsReturn DoneWhole MessageWhole TimerNotEarly ExpiryLostOnlyByRace
CHECK_DEADLOCK FALSE

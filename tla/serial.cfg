SPECIFICATION Spec
CONSTANTS
  Units = {"usb", "xmodem", "modbus", "esp01s", "dfplayer", "uart"}
  Requested = {0, 2, 3}
  BufSize = 3
  Reload = 2
  MaxLen = 4
  MaxBytes = 9
  Blocks = 2
  Areas = {2, 3, 6}
  Links = {"UART", "USB"}
  Downloads = 2
  MaxFaults = 2
  MaxEarly = 1
  Beyond = 1
  Regs = 6
  Coils = 4
  Bits = 2
  Half = 8
  Requests <- ModbusRequests
  MaxFrames = 3
  Lists <- EspLists
  MaxDelay = 3
  NumRetry = 3
  MaxLine = 2
  MaxEspFaults = 4
  MaxResets = 1
  Commands = {"REINIT", "PLAY", "PLAY_TRACK", "SET_VOLUME", "SET_EQ", "SET_PLAY_MODE", "other"}
  Parameters = {3, 31}
  MaxCommands = 3
  UartBufSize = 3
  Lens = {2, 3}
  UartReload = 2
  Wakes = {"RXFULL", "TIMEOUT", "ERRORS"}
  MaxChars = 7
  MaxTicks = 3
  MaxErrors = 1
INVARIANTS ReadInOrder NoneMissing InOrder OwnAnswer ReadsBack NotErased CharsKept TimeoutNotEarly
PROPERTIES PartReported Finishes OwnReply ListFinishes CommandDone DeliveredUnlessFull
CHECK_DEADLOCK FALSE

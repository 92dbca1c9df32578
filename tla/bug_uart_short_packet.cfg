SPECIFICATION Spec
CONSTANTS
  BufSize = 3
  Lens = {3}
  Reload = 2
  Wakes = {"RXFULL", "TIMEOUT"}
  MaxChars = 5
  MaxTicks = 3
  MaxErrors = 0
PROPERTIES Delivered
CHECK_DEADLOCK FALSE

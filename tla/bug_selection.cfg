CONSTANTS
  Charts = {c1}
  NoChart = NoChart
  SystemNames = {sys1}
  Me = sys1
  Dongles = {}
  SerialOf <- SmallSerials
  SerialModulus = 16
  None = None
  PollEvery = 2
  Timeout = 4
  FirstCount = 1
  Calms = {FALSE}
  Replies = {"zip", "page"}
  MaxTransfers = 1
  MaxNesting = 2
SPECIFICATION Spec
CHECK_DEADLOCK FALSE
INVARIANT BusyStaysSelected

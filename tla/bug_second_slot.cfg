CONSTANTS
  Charts = {c1}
  NoChart = NoChart
  SystemNames = {sys1}
  Me = sys1
  Dongles = {d1}
  SerialOf <- SmallSerials
  SerialModulus = 16
  None = None
  PollEvery = 2
  Timeout = 4
  FirstCount = 1
  Calms = {TRUE}
  Replies = {"zip", "page"}
  MaxTransfers = 1
  MaxNesting = 2
SPECIFICATION Spec
CHECK_DEADLOCK FALSE
INVARIANT AssignedSlotChosen

CONSTANTS
  Charts = {c1, c2}
  NoChart = NoChart
  SystemNames = {sys1, sys2}
  Me = sys1
  Dongles = {d1}
  SerialOf <- SmallSerials
  SerialModulus = 16
  None = None
  PollEvery = 2
  Timeout = 4
  FirstCount = 1
  Calms = {TRUE}
  Replies = {"zip", "page"}
  MaxTransfers = 2
  MaxNesting = 2
SPECIFICATION Spec
CHECK_DEADLOCK FALSE
SYMMETRY ChartSymmetry
CONSTRAINT Bounds
INVARIANTS
  TransferInHand
  BusyIsShown
  PollsOwnRequest
  SelectionListed
  ZipOfItsSlot
PROPERTIES
  CancelledIsGone
  OrderKept

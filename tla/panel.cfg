CONSTANTS
  Charts = {c1}
  NoChart = NoChart
  SystemNames = {sys1}
  Me = sys1
  Dongles = {}
  SerialOf <- SmallSerials
  SerialModulus = 16
  None = None
  PollEvery = 2
  Timeout = 4
  FirstCount = 1
  Calms = {TRUE, FALSE}
  Replies = {"zip", "page"}
  MaxTransfers = 2
  MaxNesting = 2
SPECIFICATION FairSpec
CHECK_DEADLOCK FALSE
CONSTRAINT CalmOrFew
INVARIANTS
  TypeOK
  CountBounded
  AssignedSlotChosen
  NoCrash
  QuietIsReady
  FetchedFileOffered
PROPERTIES
  PreparingEnds
  RefreshReturns

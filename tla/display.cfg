CONSTANTS
  peril = peril
  c5 = c5
  c10 = c10
  seabed = seabed
  border = border
  e1 = e1
  e2 = e2
  Objs = {peril, c5, c10, seabed, border}
  Charts <- Contents
  Edges = {e1, e2}
  Canvases = {c1, c2}
  NoCanvas = NoCanvas
  Views <- Settings
  Globals <- Depths
  Scales = {5, 20}
  Windows <- InSight
  NoHash = NoHash
SPECIFICATION Spec
CHECK_DEADLOCK FALSE
INVARIANTS
  TypeOK
  DrawnIsCurrent
  AllLinked
  DangerShown
  SafetyContourShown
  EdgesDrawn

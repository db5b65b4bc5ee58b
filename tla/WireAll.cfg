SPECIFICATION Spec
CONSTANTS
  Exch = {x1, x2}
  NoExch = NoExch
  Ring = 1
  MaxBody = 1
  HardCap = 2
  Requests <- RequestsMC
  MaxUnits = 2
  MaxTurns = 1
  HistorySize = 1
  MaxResponse = 1
  MaxTargets = 2
INVARIANTS LogExact CaptureTransparent FramesShownTrue OneCallAtATime WholeOrTold LoggedBeforeAnswered
SYMMETRY Symmetry
CHECK_DEADLOCK FALSE

SPECIFICATION PaneSpec
CONSTANTS
  SurfaceIDs = {1, 2}
  Fields = {x}
  x = x
  A = A
  NoValue = NoValue
  Blocked = Blocked
  Empty = Empty
  Bad = Bad
  Relative = Relative
  Root = "root"
  Texts = {Empty, A, Bad}
  MaxComponents = 5
  MaxFocusables = 2
  MaxHistory = 1
  Messages <- MCMessages
CHECK_DEADLOCK FALSE
INVARIANTS FormTrue
PROPERTIES UserUndisturbed

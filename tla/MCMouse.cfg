SPECIFICATION Spec
CONSTANTS
  XS = {0, 30}
  RealMoves = {5}
  MaxReal = 1
  MaxSwitches = 2
INVARIANTS
  TypeOK
  ClicksAlternate
  ButtonFollows
  PointerFollows
CHECK_DEADLOCK FALSE
PROPERTY
  CursorFollows

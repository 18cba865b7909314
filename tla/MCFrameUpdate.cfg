SPECIFICATION Spec
CONSTANTS
  Width = 4
  Height = 3
  Pixels = {0, 1}
  Blank = 0
  WidestWord = 2
  PixelsPerWord <- MCPixelsPerWord
  Modes = {4, 8}
  NumChunks = 1
  MallocFrames <- MCMallocFrames
  MaxDraws = 2
  MaxCluts = 0
  MaxModes = 0
  MaxChanges = 2
  Reverts = FALSE
INVARIANTS
  TypeOK
  ClientMirrors
  BodyFillsRect
PROPERTY
  FrameConverges

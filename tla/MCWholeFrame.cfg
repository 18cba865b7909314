SPECIFICATION Spec
CONSTANTS
  Width = 2
  Height = 2
  Pixels = {0, 1}
  Blank = 0
  WidestWord = 1
  PixelsPerWord <- MCPixelsPerWord
  Modes = {8}
  NumChunks = 1
  MallocFrames <- MCMallocFrames
  MaxDraws = 0
  MaxCluts = 1
  MaxModes = 0
  MaxChanges = 1
  Reverts = FALSE
INVARIANT
  WholeAfterClutChange

SPECIFICATION Spec
CONSTANTS
  Width = 1
  Height = 1
  Pixels = {0}
  Blank = 0
  WidestWord = 1
  PixelsPerWord <- MCPixelsPerWord
  Modes = {8}
  NumChunks = 2
  MallocFrames <- MCMallocFrames
  MaxDraws = 0
  MaxCluts = 2
  MaxModes = 0
  MaxChanges = 2
  Reverts = TRUE
PROPERTY
  ClutConverges

SPECIFICATION Spec
CONSTANTS
  Width = 2
  Height = 1
  Pixels = {0, 1}
  Blank = 0
  WidestWord = 2
  PixelsPerWord <- MCPixelsPerWord
  Modes = {4, 8, 16, 0}
  NumChunks = 2
  MallocFrames <- MCMallocFrames
  MaxDraws = 1
  MaxCluts = 3
  MaxModes = 2
  MaxChanges = 3
  Reverts = FALSE
INVARIANTS
  ClientMirrors
  ColoursBeforePixels
PROPERTIES
  FrameConverges
  ClutConverges

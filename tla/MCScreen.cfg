SPECIFICATION MCSpec
CONSTANTS
  Cards <- MCCards
  video_scr_x = 12
  video_scr_y = 2
  Patterns <- MCPatterns
  Byte <- MCByte
  MaxUpdates = 2
  Octets <- MCOctets
  Changes <- MCChanges
  LEN = 5
INVARIANTS
  TypeOK
  ReadsMapped
  RowsExpanded
  DirtyExact
  ChangeSeen

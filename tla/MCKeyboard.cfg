SPECIFICATION Spec
CONSTANTS
  ModifierBits = 4
  Keycodes <- MCKeycodes
  Chars <- MCChars
  KCHR_NTABLES = 4
  Layouts <- MCLayouts
  Keysyms <- MCKeysyms
  KeyModes = {"ARAW", "ASCII", "RAW"}
  MaxTyped = 2
  MaxChanges = 2
CHECK_DEADLOCK FALSE
INVARIANTS
  TypeOK
  TypedAsMeant
  NothingStuck

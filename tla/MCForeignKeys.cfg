SPECIFICATION Spec
CONSTANTS
  ModifierBits = 4
  Keycodes <- MCKeycodes
  Chars <- MCChars
  KCHR_NTABLES = 4
  Layouts <- OnlyUS
  Keysyms <- FewKeysyms
  KeyModes = {"ARAW"}
  MaxTyped = 2
  MaxChanges = 0
CHECK_DEADLOCK FALSE
INVARIANT TypedWhateverHeld

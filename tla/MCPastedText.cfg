SPECIFICATION Spec
CONSTANTS
  Scripts <- MCScripts
  SESS_RECV_BUFF_LEN = 13
  MaxMessages = 2
  Kinds = {"FBUpdateRequest", "KeyEvent", "PastedText"}
INVARIANT
  SrcAtMessages

SPECIFICATION Spec
CONSTANTS
  Scripts <- MCScripts
  SESS_RECV_BUFF_LEN = 13
  MaxMessages = 2
  Kinds = {"SetPixelFormat", "BadFormat", "Encodings0", "Encodings1", "Encodings2",
           "FBUpdateRequest", "KeyEvent", "PointerAtX", "ClientCutText", "Unknown"}
INVARIANTS
  TypeOK
  SrcAtMessages
  DispatchesWholeMessage
  HandledInOrder
  NothingWithheld
  Bookkeeping
PROPERTIES
  EveryMessageHandled
  ImplementsDecoder

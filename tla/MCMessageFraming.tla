-------------------------- MODULE MCMessageFraming --------------------------
(***************************************************************************)
(* Scripts for model checking MessageFraming: every sequence of at most    *)
(* MaxMessages messages of the given kinds.                                *)
(***************************************************************************)
EXTENDS MessageFraming, SequencesExt

CONSTANTS
  MaxMessages,  \* how many messages a client sends at most
  Kinds         \* the names of the message kinds it chooses from

Plain(t) == [type |-> t, word |-> 0, text |-> 0, good |-> TRUE, fill |-> "Unknown"]

\* SetEncodings with n encodings; a pointer whose x field is not zero;
\* a pixel format the daemon refuses; cut text that looks like key events.
KindOf(name) ==
  CASE name = "Encodings0"  -> Plain("SetEncodings")
    [] name = "Encodings1"  -> [Plain("SetEncodings") EXCEPT !.word = 1]
    [] name = "Encodings2"  -> [Plain("SetEncodings") EXCEPT !.word = 2]
    [] name = "PointerAtX"  -> [Plain("PointerEvent") EXCEPT !.word = 1]
    [] name = "BadFormat"   -> [Plain("SetPixelFormat") EXCEPT !.good = FALSE]
    [] name = "PastedText"  -> [Plain("ClientCutText") EXCEPT !.text = 3, !.fill = "KeyEvent"]
    [] OTHER                -> Plain(name)

StartOf(ms) ==
  FoldLeft(LAMBDA starts, m : Append(starts, Last(starts) + WireSize(m)), <<0>>, ms)

MCScripts ==
  {[msgs |-> ms, start |-> StartOf(ms)] :
     ms \in BoundedSeq({KindOf(k) : k \in Kinds}, MaxMessages)}
=============================================================================

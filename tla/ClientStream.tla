---------------------------- MODULE ClientStream ----------------------------
(***************************************************************************)
(* The byte stream a VNC client sends once the handshake is over, as       *)
(* app/vnc_types.h lays its messages out and as the RFB protocol frames    *)
(* them.  A byte is identified by its position in the stream (the first    *)
(* one has position 0); what a byte holds matters only where the daemon    *)
(* looks at it: the type byte of a message, the 16-bit word at offset 2 of *)
(* a message (numberOfEncodings, or whatever shares its place in the union *)
(* VNCClientMessages), and the pixel format of a SetPixelFormat.           *)
(***************************************************************************)
EXTENDS Integers, Sequences

\* sizeof of the struct that carries each message type (vnc_types.h:5-12, 57-121).
SizeOf == [SetPixelFormat  |-> 20,
           SetEncodings    |-> 4,
           FBUpdateRequest |-> 10,
           KeyEvent        |-> 8,
           PointerEvent    |-> 6,
           ClientCutText   |-> 8]

\* sizeof(VNCSetEncodingOne): the header followed by one encoding.
SizeOfEncodingOne == 8

\* The largest member of VNCClientMessages is VNCSetPixFormat.
MessageBytes == 20

KnownTypes == DOMAIN SizeOf

\* What a byte can be taken for when it is read as a message type.
ByteValues == KnownTypes \cup {"Unknown"}

(***************************************************************************)
(* A message: its type byte, the word at offset 2, the number of bytes of  *)
(* text after a ClientCutText header, whether the pixel format of a        *)
(* SetPixelFormat is one the daemon accepts, and what the bytes after the  *)
(* first one look like to someone who takes them for a type byte.          *)
(***************************************************************************)
Message == [type : ByteValues, word : Nat, text : Nat, good : BOOLEAN,
            fill : ByteValues]

\* The number of bytes a message occupies in the stream.
WireSize(m) ==
  CASE m.type = "SetEncodings"  -> SizeOf.SetEncodings + 4 * m.word
    [] m.type = "ClientCutText" -> SizeOf.ClientCutText + m.text
    [] m.type = "Unknown"       -> 1
    [] OTHER                    -> SizeOf[m.type]

(***************************************************************************)
(* A client's script: its messages, and for each of them (and for the end  *)
(* of the stream) the position it starts at.                               *)
(***************************************************************************)
IsScript(s) ==
  /\ s.msgs \in Seq(Message)
  /\ s.start \in [1 .. Len(s.msgs) + 1 -> Nat]
  /\ s.start[1] = 0
  /\ \A i \in 1 .. Len(s.msgs) : s.start[i + 1] = s.start[i] + WireSize(s.msgs[i])
  /\ \A i, j \in DOMAIN s.start : i < j => s.start[i] < s.start[j]

\* The length of the stream.
Total(s) == s.start[Len(s.msgs) + 1]

\* The message whose first byte has position p, or 0 when there is none.
StartingAt(s, p) ==
  IF \E i \in 1 .. Len(s.msgs) : s.start[i] = p
    THEN CHOOSE i \in 1 .. Len(s.msgs) : s.start[i] = p
    ELSE 0

\* The byte at position p, read as a message type.
TypeAt(s, p) ==
  IF StartingAt(s, p) # 0
    THEN s.msgs[StartingAt(s, p)].type
    ELSE s.msgs[CHOOSE i \in 1 .. Len(s.msgs) : s.start[i] <= p /\ p < s.start[i + 1]].fill

\* The word whose low byte has position p, when that is offset 3 of a message.
WordEndingAt(s, p) ==
  IF StartingAt(s, p - 3) # 0 THEN s.msgs[StartingAt(s, p - 3)].word ELSE 0

\* No ClientCutText of the script carries any text.
WithoutText(s) == \A i \in 1 .. Len(s.msgs) : s.msgs[i].text = 0
=============================================================================

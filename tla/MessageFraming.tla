--------------------------- MODULE MessageFraming ---------------------------
(***************************************************************************)
(* The daemon's message loop (app/session.c): vnc_readAndHandleMessages    *)
(* receives whatever the socket has, up to the size of recv_buf, and       *)
(* vnc_handleMessageFragments cuts it into messages.  Messages that lie    *)
(* whole in recv_buf are handled in place (the fast loop); everything else *)
(* is copied into messageInProgress bit by bit, over as many calls as it   *)
(* takes, and handled when it is complete (the slow loop).                 *)
(*                                                                         *)
(* recv_buf is not a variable: it always holds the bytes of the stream     *)
(* from src to rcvd, and len is their number.                              *)
(***************************************************************************)
EXTENDS ClientStream

CONSTANTS
  Scripts,             \* the scripts a client may follow
  SESS_RECV_BUFF_LEN   \* the size of recv_buf

ASSUME ScriptsAssumption == \A s \in Scripts : IsScript(s)

ASSUME RecvBuffAssumption == SESS_RECV_BUFF_LEN \in Nat \ {0}

VARIABLES
  script,             \* what the client sends; chosen once
  rcvd,               \* how many bytes recv has returned so far
  src,                \* the position of the byte src points at
  msg_dst,            \* the write offset within messageInProgress
  messageInProgress,  \* for each byte of the union, the position it was copied from
  numberOfEncodings,  \* messageInProgress.setEncoding.numberOfEncodings
  pc,                 \* where the session is
  handled             \* history: the messages given to their handlers, in order

vars == <<script, rcvd, src, msg_dst, messageInProgress, numberOfEncodings, pc, handled>>

-----------------------------------------------------------------------------

Slots == 0 .. MessageBytes - 1

len == rcvd - src

\* sess->messageInProgress.message
message == TypeAt(script, messageInProgress[0])

Smaller(a, b) == IF a <= b THEN a ELSE b

\* Mutant: vnc_evt_set_pixel_format accepts whatever it is told.
OutcomesAnyFormat(i) ==
  IF message \in {"ClientCutText", "SetPixelFormat"} THEN {TRUE} ELSE BOOLEAN

(***************************************************************************)
(* What a handler may do: TRUE is a return, FALSE a longjmp to the cleanup *)
(* of handle_session.  Pointer, key and update handlers fail when an ioctl *)
(* or a send does; a pixel format is refused for what it says; cut text    *)
(* has no effect at all.                                                   *)
(***************************************************************************)
Outcomes(i) ==
  CASE message = "ClientCutText"           -> {TRUE}
    [] message = "SetPixelFormat" /\ i # 0 -> {script.msgs[i].good}
    [] OTHER                               -> BOOLEAN

\* Mutant: the test of bytesRead is left out, so that a stale count is believed.
EncodingFragSizeStaleCount(bytesRead, n) ==
  IF n # 0 THEN SizeOfEncodingOne ELSE SizeOf.SetEncodings

\* Mutant: > for >=.
EncodingFragSizeAfterHeader(bytesRead, n) ==
  IF bytesRead > SizeOf.SetEncodings /\ n # 0 THEN SizeOfEncodingOne ELSE SizeOf.SetEncodings

\* vnc_msg_encodingfragsize
EncodingFragSize(bytesRead, n) ==
  IF bytesRead >= SizeOf.SetEncodings /\ n # 0
    THEN SizeOfEncodingOne
    ELSE SizeOf.SetEncodings

\* The switch that figures out the message length.
MsgSize ==
  IF message = "SetEncodings"
    THEN EncodingFragSize(msg_dst, numberOfEncodings)
    ELSE SizeOf[message]

\* Mutant: the test of bytesToCopy against len is left out.
BytesToCopyUnbounded == IF msg_dst < MsgSize THEN MsgSize - msg_dst ELSE 0

\* What the message lacks, or what there is of it.
BytesToCopy == IF msg_dst < MsgSize THEN Smaller(MsgSize - msg_dst, len) ELSE 0

\* Mutant: memcpy to the top of messageInProgress instead of to msg_dst.
CopiedToTop(j) == IF j < BytesToCopy THEN src + j ELSE messageInProgress[j]

\* Slot j of messageInProgress after memcpy(msg_dst, src, bytesToCopy).
Copied(j) ==
  IF msg_dst <= j /\ j < msg_dst + BytesToCopy
    THEN src + (j - msg_dst)
    ELSE messageInProgress[j]

\* Mutant: the header counts as an encoding.
EncodingsLeftEager == numberOfEncodings - 1

\* numberOfEncodings after vnc_evt_encoding_fragment.
EncodingsLeft ==
  IF msg_dst = SizeOfEncodingOne THEN numberOfEncodings - 1 ELSE numberOfEncodings

Init ==
  /\ script \in Scripts
  /\ rcvd = 0
  /\ src = 0
  /\ msg_dst = 0
  /\ messageInProgress = [j \in Slots |-> -1]
  /\ numberOfEncodings = 0
  /\ pc = "recv"
  /\ handled = <<>>

-----------------------------------------------------------------------------
\* Mutant: the fast loop is entered in the middle of a message.
RecvIntoFastLoop ==
  /\ pc = "recv"
  /\ \E n \in 1 .. Smaller(SESS_RECV_BUFF_LEN, Total(script) - rcvd) :
       rcvd' = rcvd + n
  /\ pc' = "fast"
  /\ UNCHANGED <<script, src, msg_dst, messageInProgress, numberOfEncodings, handled>>

(***************************************************************************)
(* recv returns between one byte and what recv_buf can hold.               *)
(***************************************************************************)
Recv ==
  /\ pc = "recv"
  /\ \E n \in 1 .. Smaller(SESS_RECV_BUFF_LEN, Total(script) - rcvd) :
       rcvd' = rcvd + n
  /\ pc' = IF msg_dst = 0 THEN "fast" ELSE "slow"
  /\ UNCHANGED <<script, src, msg_dst, messageInProgress, numberOfEncodings, handled>>

\* recv fails, or the client has hung up: recvw jumps to the cleanup.
RecvFail ==
  /\ pc = "recv"
  /\ pc' = "closed"
  /\ UNCHANGED <<script, rcvd, src, msg_dst, messageInProgress, numberOfEncodings, handled>>

\* A whole PointerEvent or FBUpdateRequest at src is handled in recv_buf.
FastMessage ==
  /\ pc = "fast"
  /\ \E t \in {"PointerEvent", "FBUpdateRequest"} :
       /\ len >= SizeOf[t]
       /\ TypeAt(script, src) = t
       /\ src' = src + SizeOf[t]
  /\ handled' = Append(handled, StartingAt(script, src))
  /\ pc' \in {"fast", "closed"}
  /\ UNCHANGED <<script, rcvd, msg_dst, messageInProgress, numberOfEncodings>>

\* Any other message, and any message that is not there whole, ends the fast loop.
FastExit ==
  /\ pc = "fast"
  /\ \A t \in {"PointerEvent", "FBUpdateRequest"} :
       ~(len >= SizeOf[t] /\ TypeAt(script, src) = t)
  /\ pc' = "slow"
  /\ UNCHANGED <<script, rcvd, src, msg_dst, messageInProgress, numberOfEncodings, handled>>

-----------------------------------------------------------------------------
\* while (len) ends: the call returns and the session receives again.
LoopEnd ==
  /\ pc = "slow"
  /\ len = 0
  /\ pc' = "recv"
  /\ UNCHANGED <<script, rcvd, src, msg_dst, messageInProgress, numberOfEncodings, handled>>

\* With nothing read yet, the next byte is the message type.
ReadType ==
  /\ pc = "slow"
  /\ len > 0
  /\ IF msg_dst = 0
       THEN /\ messageInProgress' = [messageInProgress EXCEPT ![0] = src]
            /\ src' = src + 1
            /\ msg_dst' = 1
       ELSE UNCHANGED <<messageInProgress, src, msg_dst>>
  /\ pc' = "copy"
  /\ UNCHANGED <<script, rcvd, numberOfEncodings, handled>>

\* session_err(sess, "Illegal message")
Illegal ==
  /\ pc = "copy"
  /\ message \notin KnownTypes
  /\ pc' = "closed"
  /\ UNCHANGED <<script, rcvd, src, msg_dst, messageInProgress, numberOfEncodings, handled>>

(***************************************************************************)
(* The bytes of the message are copied.  The word that numberOfEncodings   *)
(* overlays is at offsets 2 and 3 and counts as written when its low byte  *)
(* is.                                                                     *)
(***************************************************************************)
Copy ==
  /\ pc = "copy"
  /\ message \in KnownTypes
  /\ messageInProgress' = [j \in Slots |-> Copied(j)]
  /\ numberOfEncodings' =
       IF msg_dst <= 3 /\ 3 < msg_dst + BytesToCopy
         THEN WordEndingAt(script, src + (3 - msg_dst))
         ELSE numberOfEncodings
  /\ src' = src + BytesToCopy
  /\ msg_dst' = msg_dst + BytesToCopy
  /\ pc' = IF msg_dst + BytesToCopy = MsgSize THEN "dispatch" ELSE "slow"
  /\ UNCHANGED <<script, rcvd, handled>>

\* The message that begins where the one in progress was found.
InProgress == StartingAt(script, messageInProgress[0])

\* Mutant: msg_dst is not put back to the top.
DispatchWithoutReset ==
  /\ pc = "dispatch"
  /\ message # "SetEncodings"
  /\ handled' = Append(handled, InProgress)
  /\ \E returns \in Outcomes(InProgress) : pc' = IF returns THEN "slow" ELSE "closed"
  /\ UNCHANGED <<script, rcvd, src, msg_dst, messageInProgress, numberOfEncodings>>

\* A complete message of fixed size goes to its handler.
Dispatch ==
  /\ pc = "dispatch"
  /\ message # "SetEncodings"
  /\ handled' = Append(handled, InProgress)
  /\ \E returns \in Outcomes(InProgress) :
       IF returns
         THEN pc' = "slow" /\ msg_dst' = 0
         ELSE pc' = "closed" /\ UNCHANGED msg_dst
  /\ UNCHANGED <<script, rcvd, src, messageInProgress, numberOfEncodings>>

(***************************************************************************)
(* vnc_evt_encoding_fragment: the header of a SetEncodings, or one of its  *)
(* encodings, is complete.  The header stays in place while encodings are  *)
(* read over one another; the message is over when none is left.           *)
(***************************************************************************)
DispatchEncoding ==
  /\ pc = "dispatch"
  /\ message = "SetEncodings"
  /\ numberOfEncodings' = EncodingsLeft
  /\ IF EncodingsLeft # 0
       THEN msg_dst' = SizeOf.SetEncodings /\ UNCHANGED handled
       ELSE msg_dst' = 0 /\ handled' = Append(handled, InProgress)
  /\ pc' = "slow"
  /\ UNCHANGED <<script, rcvd, src, messageInProgress>>

\* The cleanup of handle_session ends the session.
Closed == pc = "closed" /\ UNCHANGED vars

-----------------------------------------------------------------------------

Parse ==
  \/ FastMessage
  \/ FastExit
  \/ LoopEnd
  \/ ReadType
  \/ Illegal
  \/ Copy
  \/ Dispatch
  \/ DispatchEncoding

Next ==
  \/ Recv
  \/ RecvFail
  \/ Parse
  \/ Closed

(***************************************************************************)
(* TCP delivers what the client has sent, and nothing in the parser waits  *)
(* for anything.  A connection need not fail.                              *)
(***************************************************************************)
Spec == Init /\ [][Next]_vars /\ WF_vars(Recv) /\ WF_vars(Parse)

-----------------------------------------------------------------------------
\* Every variable has its type; in particular msg_dst stays inside the union.
TypeOK ==
  /\ script \in Scripts
  /\ rcvd \in 0 .. Total(script)
  /\ src \in 0 .. rcvd
  /\ msg_dst \in 0 .. MessageBytes
  /\ messageInProgress \in [Slots -> Int]
  /\ numberOfEncodings \in Nat
  /\ pc \in {"recv", "fast", "slow", "copy", "dispatch", "closed"}
  /\ handled \in Seq(0 .. Len(script.msgs))

(***************************************************************************)
(* "Upon exit, either len = 0 and all data has been consumed, or len != 0  *)
(* and src will point to messages for further processing"                  *)
(* (session.c:218-220): whenever no message is in progress, src points at  *)
(* the first byte of the message after the ones handled so far, however    *)
(* the stream was cut up by recv.                                          *)
(***************************************************************************)
SrcAtMessages ==
  pc \in {"recv", "fast", "slow"} /\ msg_dst = 0
    => src = script.start[Len(handled) + 1]

(***************************************************************************)
(* "Bytes are copied from src to msg_dst until a full message is detected" *)
(* (session.c:246-249): what a handler of the slow loop finds in           *)
(* messageInProgress is one client message, its bytes in order and none    *)
(* missing, not a mixture of two or of a message and an older one.  A      *)
(* SetEncodings is looked at one encoding at a time: then the header and   *)
(* four consecutive bytes of its list are there.                           *)
(***************************************************************************)
DispatchesWholeMessage ==
  pc = "dispatch" =>
    /\ InProgress # 0
    /\ \A j \in 0 .. SizeOf[message] - 1 :
         messageInProgress[j] = messageInProgress[0] + j
    /\ msg_dst # SizeOf[message] =>
         /\ message = "SetEncodings"
         /\ msg_dst = SizeOfEncodingOne
         /\ \A j \in 4 .. 7 : messageInProgress[j] = src - SizeOfEncodingOne + j
         /\ src <= script.start[InProgress + 1]

(***************************************************************************)
(* Each message of the client is handled once, in the order sent           *)
(* (session.c:223-313, both loops together).                               *)
(***************************************************************************)
HandledInOrder ==
  /\ Len(handled) <= Len(script.msgs)
  /\ \A i \in 1 .. Len(handled) : handled[i] = i

(***************************************************************************)
(* The session never goes back to recv (session.c:205) while a message     *)
(* that has arrived completely is still unhandled: a client that waits for *)
(* the answer to it would wait for ever.                                   *)
(***************************************************************************)
NothingWithheld ==
  pc = "recv" =>
    \A i \in 1 .. Len(script.msgs) :
      script.start[i + 1] <= rcvd => i <= Len(handled)

-----------------------------------------------------------------------------
(***************************************************************************)
(* Where every byte of the message in progress is, as long as no text is   *)
(* pasted: what makes the properties above inductive.                      *)
(***************************************************************************)
current == Len(handled) + 1

\* The first bytes of the current message, up to the size of its struct.
ReadingStruct ==
  /\ src = script.start[current] + msg_dst
  /\ \A j \in 0 .. msg_dst - 1 : messageInProgress[j] = script.start[current] + j
  /\ IF message \in KnownTypes
       THEN /\ msg_dst <= SizeOf[message]
            /\ pc = "dispatch" <=> msg_dst = SizeOf[message]
            /\ pc = "dispatch" /\ message = "SetEncodings" =>
                 numberOfEncodings = script.msgs[current].word
       ELSE pc = "copy" /\ msg_dst = 1

\* One of the encodings of a SetEncodings whose header is there.
ReadingEncoding ==
  /\ message = "SetEncodings"
  /\ numberOfEncodings \in 1 .. script.msgs[current].word
  /\ msg_dst \in SizeOf.SetEncodings .. SizeOfEncodingOne
  /\ src = script.start[current] + 4 * (script.msgs[current].word - numberOfEncodings) + msg_dst
  /\ \A j \in 0 .. 3 : messageInProgress[j] = script.start[current] + j
  /\ \A j \in 4 .. msg_dst - 1 : messageInProgress[j] = src - msg_dst + j
  /\ pc = "dispatch" <=> msg_dst = SizeOfEncodingOne

(***************************************************************************)
(* The bookkeeping of vnc_handleMessageFragments (session.c:209-314): src, *)
(* msg_dst, messageInProgress and numberOfEncodings always agree on which  *)
(* byte of which message comes next, across any number of calls.           *)
(***************************************************************************)
Bookkeeping ==
  pc # "closed" =>
    /\ pc = "recv" => src = rcvd
    /\ pc = "fast" => msg_dst = 0
    /\ pc \in {"copy", "dispatch"} => msg_dst > 0
    /\ msg_dst = 0 => src = script.start[current]
    /\ msg_dst > 0 =>
         /\ current <= Len(script.msgs)
         /\ messageInProgress[0] = script.start[current]
         /\ ReadingStruct \/ ReadingEncoding

-----------------------------------------------------------------------------
(***************************************************************************)
(* A client that sends its messages and keeps reading gets all of them     *)
(* handled, unless the session ends: the while loop of session.c:255       *)
(* always comes to an end.                                                 *)
(***************************************************************************)
EveryMessageHandled ==
  <>(pc = "closed" \/ Len(handled) = Len(script.msgs))

\* What the loop promises, whatever buffers and copies it uses to keep it.
Decoder == INSTANCE MessageDecoder
  WITH arrived <- rcvd, done <- Len(handled), open <- (pc # "closed")

(***************************************************************************)
(* The message loop of session.c:200-314 implements the decoder that       *)
(* handles each message as soon as its last byte is there.                 *)
(***************************************************************************)
ImplementsDecoder == Decoder!Spec
=============================================================================

------------------------ MODULE MessageFramingProofs ------------------------
(***************************************************************************)
(* The safety of the message loop for every set of scripts and every size  *)
(* of recv_buf, as long as no cut text carries text.                       *)
(***************************************************************************)
EXTENDS MessageFraming, TLAPS

NothingPasted == \A s \in Scripts : WithoutText(s)

Inv == TypeOK /\ HandledInOrder /\ Bookkeeping

-----------------------------------------------------------------------------
\* Facts about the layout of a stream.

LEMMA Sizes ==
  /\ KnownTypes = {"SetPixelFormat", "SetEncodings", "FBUpdateRequest", "KeyEvent",
                   "PointerEvent", "ClientCutText"}
  /\ SizeOf.SetEncodings = 4
  /\ SizeOf["FBUpdateRequest"] = 10
  /\ SizeOf["PointerEvent"] = 6
  /\ \A t \in KnownTypes : SizeOf[t] \in 4 .. MessageBytes
BY DEF KnownTypes, SizeOf, MessageBytes

LEMMA Layout ==
  ASSUME NEW s, IsScript(s)
  PROVE  /\ Len(s.msgs) \in Nat
         /\ \A i \in 1 .. Len(s.msgs) : s.msgs[i] \in Message
         /\ DOMAIN s.start = 1 .. Len(s.msgs) + 1
         /\ \A i \in 1 .. Len(s.msgs) + 1 : s.start[i] \in Nat
         /\ s.start[1] = 0
<1>1. s.msgs \in Seq(Message) /\ s.start \in [1 .. Len(s.msgs) + 1 -> Nat] /\ s.start[1] = 0
  BY DEF IsScript
<1> HIDE DEF Message
<1>2. Len(s.msgs) \in Nat /\ \A i \in 1 .. Len(s.msgs) : s.msgs[i] \in Message
  BY <1>1
<1>3. QED BY <1>1, <1>2

LEMMA Starts ==
  ASSUME NEW s, IsScript(s), NEW i \in 1 .. Len(s.msgs)
  PROVE  /\ StartingAt(s, s.start[i]) = i
         /\ TypeAt(s, s.start[i]) = s.msgs[i].type
         /\ WordEndingAt(s, s.start[i] + 3) = s.msgs[i].word
<1>1. /\ Len(s.msgs) \in Nat
      /\ \A j \in 1 .. Len(s.msgs) : j \in DOMAIN s.start /\ s.start[j] \in Nat
  BY Layout
<1>2. \A j \in 1 .. Len(s.msgs) : s.start[j] = s.start[i] => j = i
  <2>1. SUFFICES ASSUME NEW j \in 1 .. Len(s.msgs), s.start[j] = s.start[i], j # i
                 PROVE  FALSE
    OBVIOUS
  <2>2. j < i \/ i < j
    BY <2>1, <1>1
  <2>3. s.start[j] < s.start[i] \/ s.start[i] < s.start[j]
    BY <2>2, <1>1 DEF IsScript
  <2>4. QED BY <2>1, <2>3, <1>1
<1>3. StartingAt(s, s.start[i]) = i
  BY <1>2 DEF StartingAt
<1>4. i # 0 /\ (s.start[i] + 3) - 3 = s.start[i]
  BY <1>1
<1>5. QED BY <1>3, <1>4 DEF TypeAt, WordEndingAt

LEMMA Ends ==
  ASSUME NEW s, IsScript(s), WithoutText(s), NEW i \in 1 .. Len(s.msgs)
  PROVE  /\ s.msgs[i].word \in Nat
         /\ s.start[i] \in Nat /\ s.start[i + 1] \in Nat
         /\ s.start[i + 1] <= Total(s)
         /\ s.msgs[i].type \in KnownTypes /\ s.msgs[i].type # "SetEncodings" =>
              s.start[i + 1] = s.start[i] + SizeOf[s.msgs[i].type]
         /\ s.msgs[i].type = "SetEncodings" =>
              s.start[i + 1] = s.start[i] + 4 + 4 * s.msgs[i].word
         /\ s.msgs[i].type \notin KnownTypes =>
              s.start[i + 1] = s.start[i] + 1
<1>1. s.msgs[i] \in Message /\ s.msgs[i].text = 0
  BY Layout DEF WithoutText
<1>2. s.msgs[i].word \in Nat /\ s.msgs[i].type \in ByteValues
  BY <1>1 DEF Message
<1>3. Len(s.msgs) \in Nat /\ i + 1 \in 1 .. Len(s.msgs) + 1
  BY Layout
<1>4. \A j \in 1 .. Len(s.msgs) + 1 : s.start[j] \in Nat /\ j \in DOMAIN s.start
  BY Layout
<1>5. s.start[i + 1] <= Total(s)
  <2>1. CASE i + 1 = Len(s.msgs) + 1
    BY <2>1, <1>3, <1>4 DEF Total
  <2>2. CASE i + 1 < Len(s.msgs) + 1
    BY <2>2, <1>3, <1>4 DEF Total, IsScript
  <2>3. QED BY <2>1, <2>2, <1>3
<1>6. s.start[i + 1] = s.start[i] + WireSize(s.msgs[i])
  BY DEF IsScript
<1>7. s.msgs[i].type \in KnownTypes /\ s.msgs[i].type # "SetEncodings" =>
        WireSize(s.msgs[i]) = SizeOf[s.msgs[i].type]
  BY <1>1, <1>2 DEF WireSize, ByteValues, KnownTypes, SizeOf
<1>8. s.msgs[i].type = "SetEncodings" => WireSize(s.msgs[i]) = 4 + 4 * s.msgs[i].word
  BY <1>1, <1>2 DEF WireSize, SizeOf
<1>9. s.msgs[i].type \notin KnownTypes => WireSize(s.msgs[i]) = 1
  BY <1>1, <1>2 DEF WireSize, ByteValues, KnownTypes, SizeOf
<1>10. QED
  <2>1. s.start[i] \in Nat /\ s.start[i + 1] \in Nat
    BY <1>3, <1>4
  <2>2. s.msgs[i].type = "SetEncodings" =>
              s.start[i + 1] = s.start[i] + 4 + 4 * s.msgs[i].word
    <3>1. \A a, w \in Nat : a + (4 + 4 * w) = a + 4 + 4 * w
      OBVIOUS
    <3>2. QED BY <1>2, <1>6, <1>8, <2>1, <3>1
  <2>3. QED BY <1>2, <1>5, <1>6, <1>7, <1>9, <2>1, <2>2

\* A byte that has arrived lies in some message.
LEMMA MoreToCome ==
  ASSUME NEW s, IsScript(s), NEW i \in 1 .. Len(s.msgs) + 1, s.start[i] < Total(s)
  PROVE  i \in 1 .. Len(s.msgs)
BY Layout DEF Total

-----------------------------------------------------------------------------
\* What the invariant says of one state.

LEMMA Positions ==
  ASSUME Inv, NothingPasted
  PROVE  /\ IsScript(script) /\ WithoutText(script)
         /\ Len(handled) \in Nat /\ Len(script.msgs) \in Nat
         /\ current \in 1 .. Len(script.msgs) + 1
         /\ script.start[current] \in Nat
         /\ Total(script) \in Nat
         /\ rcvd \in Nat /\ src \in Nat /\ src <= rcvd /\ rcvd <= Total(script)
         /\ msg_dst \in Nat /\ len \in Nat
<1>1. IsScript(script) /\ WithoutText(script)
  BY ScriptsAssumption DEF Inv, TypeOK, NothingPasted
<1>2. Len(handled) \in Nat
  BY DEF Inv, TypeOK
<1>3. Len(script.msgs) \in Nat /\ Total(script) \in Nat
  BY <1>1, Layout DEF Total
<1>4. current \in 1 .. Len(script.msgs) + 1
  BY <1>2, <1>3 DEF Inv, HandledInOrder, current
<1>5. script.start[current] \in Nat
  BY <1>1, <1>4, Layout
<1>6. rcvd \in Nat /\ src \in Nat /\ src <= rcvd /\ rcvd <= Total(script)
  BY <1>3 DEF Inv, TypeOK
<1>7. msg_dst \in Nat
  BY DEF Inv, TypeOK, MessageBytes
<1>8. QED BY <1>1, <1>2, <1>3, <1>4, <1>5, <1>6, <1>7 DEF len

LEMMA BetweenMessages ==
  ASSUME Inv, NothingPasted, pc # "closed", msg_dst = 0
  PROVE  /\ src = script.start[current]
         /\ len > 0 => /\ current \in 1 .. Len(script.msgs)
                       /\ StartingAt(script, src) = current
                       /\ TypeAt(script, src) = script.msgs[current].type
<1>1. src = script.start[current]
  BY DEF Inv, Bookkeeping
<1>2. SUFFICES ASSUME len > 0
               PROVE  /\ current \in 1 .. Len(script.msgs)
                      /\ StartingAt(script, src) = current
                      /\ TypeAt(script, src) = script.msgs[current].type
  BY <1>1
<1>3. script.start[current] < Total(script)
  BY <1>1, <1>2, Positions DEF len
<1>4. current \in 1 .. Len(script.msgs)
  BY <1>3, Positions, MoreToCome
<1>5. QED BY <1>1, <1>4, Positions, Starts

LEMMA WithinMessage ==
  ASSUME Inv, NothingPasted, pc # "closed", msg_dst > 0
  PROVE  /\ current \in 1 .. Len(script.msgs)
         /\ messageInProgress[0] = script.start[current]
         /\ message = script.msgs[current].type
         /\ InProgress = current
         /\ ReadingStruct \/ ReadingEncoding
<1>1. /\ current <= Len(script.msgs)
      /\ messageInProgress[0] = script.start[current]
      /\ ReadingStruct \/ ReadingEncoding
  BY DEF Inv, Bookkeeping
<1>2. current \in 1 .. Len(script.msgs)
  BY <1>1, Positions
<1>3. QED BY <1>1, <1>2, Positions, Starts DEF message, InProgress

\* Handling the current message keeps the order and moves on to the next.
LEMMA Handles ==
  ASSUME Inv, NothingPasted, current \in 1 .. Len(script.msgs),
         handled' = Append(handled, current), script' = script
  PROVE  /\ HandledInOrder'
         /\ handled' \in Seq(0 .. Len(script.msgs))
         /\ current' = current + 1
<1>1. Len(handled) \in Nat /\ Len(script.msgs) \in Nat /\ current = Len(handled) + 1
  BY Positions DEF current
<1>2. handled \in Seq(0 .. Len(script.msgs))
  BY DEF Inv, TypeOK
<1>3. current \in 0 .. Len(script.msgs)
  BY <1>1
<1>4. /\ handled' \in Seq(0 .. Len(script.msgs))
      /\ Len(handled') = Len(handled) + 1
      /\ \A i \in 1 .. Len(handled) : handled'[i] = handled[i]
      /\ handled'[current] = current
  BY <1>1, <1>2, <1>3
<1>5. Len(handled') <= Len(script'.msgs)
  BY <1>1, <1>4
<1>6. \A i \in 1 .. Len(handled') : handled'[i] = i
  BY <1>1, <1>4 DEF Inv, HandledInOrder
<1>7. QED BY <1>1, <1>4, <1>5, <1>6 DEF HandledInOrder, current

-----------------------------------------------------------------------------
\* The initial states, and one lemma per action.

LEMMA Start == Init => Inv
<1>1. SUFFICES ASSUME Init PROVE Inv
  OBVIOUS
<1>2. IsScript(script)
  BY <1>1, ScriptsAssumption DEF Init
<1>3. Len(script.msgs) \in Nat /\ Total(script) \in Nat /\ script.start[1] = 0
  BY <1>2, Layout DEF Total
<1>4. TypeOK
  BY <1>1, <1>3 DEF Init, TypeOK, Slots, MessageBytes
<1>5. HandledInOrder
  BY <1>1, <1>3 DEF Init, HandledInOrder
<1>6. Bookkeeping
  BY <1>1, <1>3 DEF Init, Bookkeeping, current
<1>7. QED BY <1>4, <1>5, <1>6 DEF Inv

\* Between two looks at recv_buf nothing moves.
LEMMA Paused ==
  ASSUME Inv, pc \in {"recv", "fast", "slow"}, pc' \in {"recv", "fast", "slow"},
         pc' = "recv" => src = rcvd', pc' = "fast" => msg_dst = 0,
         UNCHANGED <<script, src, msg_dst, messageInProgress, numberOfEncodings, handled>>
  PROVE  HandledInOrder' /\ Bookkeeping'
<1>1. HandledInOrder'
  BY DEF Inv, HandledInOrder
<1>2. current' = current /\ message' = message
  BY DEF current, message
<1>3. ASSUME msg_dst > 0, ReadingStruct PROVE ReadingStruct'
  BY <1>2, <1>3 DEF ReadingStruct
<1>4. ASSUME msg_dst > 0, ReadingEncoding PROVE ReadingEncoding'
  BY <1>2, <1>4 DEF ReadingEncoding
<1>5. Bookkeeping'
  BY <1>2, <1>3, <1>4 DEF Inv, Bookkeeping
<1>6. QED BY <1>1, <1>5

LEMMA RecvKeeps == Inv /\ NothingPasted /\ Recv => Inv'
<1>1. SUFFICES ASSUME Inv, NothingPasted, Recv PROVE Inv'
  OBVIOUS
<1>2. PICK n \in 1 .. Smaller(SESS_RECV_BUFF_LEN, Total(script) - rcvd) : rcvd' = rcvd + n
  BY <1>1 DEF Recv
<1>3. rcvd' \in 0 .. Total(script) /\ src <= rcvd'
  BY <1>1, <1>2, Positions, RecvBuffAssumption DEF Smaller
<1>4. TypeOK'
  BY <1>1, <1>3, Positions DEF Recv, Inv, TypeOK
<1>5. HandledInOrder' /\ Bookkeeping'
  BY <1>1, Paused DEF Recv
<1>6. QED BY <1>4, <1>5 DEF Inv

LEMMA FastMessageKeeps == Inv /\ NothingPasted /\ FastMessage => Inv'
<1>1. SUFFICES ASSUME Inv, NothingPasted, FastMessage PROVE Inv'
  OBVIOUS
<1>2. PICK t \in {"PointerEvent", "FBUpdateRequest"} :
        len >= SizeOf[t] /\ TypeAt(script, src) = t /\ src' = src + SizeOf[t]
  BY <1>1 DEF FastMessage
<1>3. t \in KnownTypes /\ t # "SetEncodings" /\ SizeOf[t] \in Nat /\ SizeOf[t] > 0
  BY Sizes DEF MessageBytes
<1>4. pc = "fast" /\ msg_dst = 0
  BY <1>1 DEF FastMessage, Inv, Bookkeeping
<1>5. /\ src = script.start[current]
      /\ current \in 1 .. Len(script.msgs)
      /\ StartingAt(script, src) = current
      /\ script.msgs[current].type = t
  BY <1>1, <1>2, <1>3, <1>4, BetweenMessages, Positions
<1>6. src' = script.start[current + 1]
  <2>1. IsScript(script) /\ WithoutText(script)
    BY <1>1, Positions
  <2>2. script.start[current + 1] = script.start[current] + SizeOf[t]
    BY <1>3, <1>5, <2>1, Ends
  <2>3. QED BY <1>2, <1>5, <2>2
<1>7. /\ handled' = Append(handled, current)
      /\ pc' \in {"fast", "closed"}
      /\ UNCHANGED <<script, rcvd, msg_dst, messageInProgress, numberOfEncodings>>
  BY <1>1, <1>5 DEF FastMessage
<1>8. HandledInOrder' /\ handled' \in Seq(0 .. Len(script.msgs)) /\ current' = current + 1
  BY <1>1, <1>5, <1>7, Handles
<1>9. src' \in 0 .. rcvd
  BY <1>1, <1>2, <1>3, Positions DEF len
<1>10. TypeOK'
  BY <1>1, <1>7, <1>8, <1>9 DEF Inv, TypeOK
<1>11. Bookkeeping'
  BY <1>4, <1>6, <1>7, <1>8 DEF Bookkeeping
<1>12. QED BY <1>8, <1>10, <1>11 DEF Inv

LEMMA PausesKeep == Inv /\ NothingPasted /\ (FastExit \/ LoopEnd) => Inv'
<1>1. SUFFICES ASSUME Inv, NothingPasted, FastExit \/ LoopEnd PROVE Inv'
  OBVIOUS
<1>2. /\ pc \in {"fast", "slow"} /\ pc' \in {"slow", "recv"}
      /\ UNCHANGED <<script, rcvd, src, msg_dst, messageInProgress, numberOfEncodings, handled>>
  BY <1>1 DEF FastExit, LoopEnd
<1>3. pc' = "recv" => src = rcvd'
  BY <1>1, <1>2, Positions DEF FastExit, LoopEnd, len
<1>4. TypeOK'
  BY <1>1, <1>2 DEF Inv, TypeOK
<1>5. HandledInOrder' /\ Bookkeeping'
  BY <1>1, <1>2, <1>3, Paused
<1>6. QED BY <1>4, <1>5 DEF Inv

LEMMA EndsKeep == Inv /\ NothingPasted /\ (RecvFail \/ Illegal) => Inv'
<1>1. SUFFICES ASSUME Inv, NothingPasted, RecvFail \/ Illegal PROVE Inv'
  OBVIOUS
<1>2. /\ pc' = "closed"
      /\ UNCHANGED <<script, rcvd, src, msg_dst, messageInProgress, numberOfEncodings, handled>>
  BY <1>1 DEF RecvFail, Illegal
<1>3. QED BY <1>1, <1>2 DEF Inv, TypeOK, HandledInOrder, Bookkeeping

LEMMA ReadTypeKeeps == Inv /\ NothingPasted /\ ReadType => Inv'
<1>1. SUFFICES ASSUME Inv, NothingPasted, ReadType PROVE Inv'
  OBVIOUS
<1>2. /\ pc = "slow" /\ pc' = "copy" /\ len > 0
      /\ UNCHANGED <<script, rcvd, numberOfEncodings, handled>>
  BY <1>1 DEF ReadType
<1>3. HandledInOrder' /\ current' = current
  BY <1>1, <1>2 DEF Inv, HandledInOrder, current
<1>4. CASE msg_dst = 0
  <2>1. /\ messageInProgress' = [messageInProgress EXCEPT ![0] = src]
        /\ src' = src + 1 /\ msg_dst' = 1
    BY <1>1, <1>4 DEF ReadType
  <2>2. /\ src = script.start[current]
        /\ current \in 1 .. Len(script.msgs)
        /\ TypeAt(script, src) = script.msgs[current].type
    BY <1>1, <1>2, <1>4, BetweenMessages
  <2>3. messageInProgress \in [Slots -> Int] /\ 0 \in Slots
    BY <1>1 DEF Inv, TypeOK, Slots, MessageBytes
  <2>4. messageInProgress' \in [Slots -> Int] /\ messageInProgress'[0] = src
    BY <1>1, <2>1, <2>3, Positions
  <2>5. src' \in 0 .. rcvd
    BY <1>1, <1>2, <2>1, Positions DEF len
  <2>6. TypeOK'
    BY <1>1, <1>2, <2>1, <2>4, <2>5 DEF Inv, TypeOK, MessageBytes
  <2>7. ReadingStruct'
    <3>1. src' = script'.start[current'] + msg_dst'
      BY <1>2, <1>3, <2>1, <2>2
    <3>2. \A j \in 0 .. msg_dst' - 1 : messageInProgress'[j] = script'.start[current'] + j
      BY <1>1, <1>2, <1>3, <2>1, <2>2, <2>4, Positions
    <3>3. message' \in KnownTypes => msg_dst' < SizeOf[message'] /\ SizeOf[message'] \in Nat
      BY <2>1, Sizes DEF MessageBytes
    <3>4. QED BY <1>2, <2>1, <3>1, <3>2, <3>3 DEF ReadingStruct
  <2>8. Bookkeeping'
    BY <1>1, <1>2, <1>3, <2>1, <2>2, <2>4, <2>7, Positions DEF Bookkeeping
  <2>9. QED BY <1>3, <2>6, <2>8 DEF Inv
<1>5. CASE msg_dst # 0
  <2>1. UNCHANGED <<messageInProgress, src, msg_dst>> /\ msg_dst > 0 /\ message' = message
    BY <1>1, <1>2, <1>5, Positions DEF ReadType, message
  <2>2. TypeOK'
    BY <1>1, <1>2, <2>1 DEF Inv, TypeOK
  <2>3. ASSUME ReadingStruct PROVE ReadingStruct'
    BY <1>2, <1>3, <2>1, <2>3 DEF ReadingStruct
  <2>4. ASSUME ReadingEncoding PROVE ReadingEncoding'
    BY <1>2, <1>3, <2>1, <2>4 DEF ReadingEncoding
  <2>5. Bookkeeping'
    BY <1>1, <1>2, <1>3, <2>1, <2>3, <2>4, WithinMessage DEF Bookkeeping
  <2>6. QED BY <1>3, <2>2, <2>5 DEF Inv
<1>6. QED BY <1>4, <1>5

LEMMA CopyKeeps == Inv /\ NothingPasted /\ Copy => Inv'
<1>1. SUFFICES ASSUME Inv, NothingPasted, Copy PROVE Inv'
  OBVIOUS
<1>0. /\ src \in Nat /\ rcvd \in Nat /\ msg_dst \in Nat /\ len \in Nat /\ src + len = rcvd
      /\ script.start[current] \in Nat /\ current \in Nat
      /\ messageInProgress \in [Slots -> Int] /\ numberOfEncodings \in Nat
      /\ SizeOf.SetEncodings = 4
  BY <1>1, Positions, Sizes DEF len, Inv, TypeOK
<1>2. /\ pc = "copy" /\ message \in KnownTypes /\ pc' \in {"dispatch", "slow"}
      /\ pc' = "dispatch" <=> msg_dst + BytesToCopy = MsgSize
      /\ src' = src + BytesToCopy
      /\ msg_dst' = msg_dst + BytesToCopy
      /\ UNCHANGED <<script, rcvd, handled>>
  BY <1>1 DEF Copy
<1>3. msg_dst > 0
  BY <1>1, <1>2 DEF Inv, Bookkeeping
<1>4. /\ current \in 1 .. Len(script.msgs)
      /\ messageInProgress[0] = script.start[current]
      /\ message = script.msgs[current].type
      /\ ReadingStruct \/ ReadingEncoding
  BY <1>1, <1>2, <1>3, WithinMessage
<1>5. HandledInOrder' /\ current' = current
  BY <1>1, <1>2 DEF Inv, HandledInOrder, current
<1>6. /\ msg_dst < MsgSize /\ MsgSize \in 4 .. MessageBytes
      /\ ReadingStruct => MsgSize = SizeOf[message]
      /\ ReadingEncoding => MsgSize = 8
  <2>1. CASE ReadingStruct
    BY <1>2, <1>3, <2>1, Sizes, <1>0
       DEF ReadingStruct, ReadingEncoding, MsgSize, EncodingFragSize, MessageBytes
  <2>2. CASE ReadingEncoding
    BY <1>2, <1>3, <2>2, Sizes, <1>0
       DEF ReadingStruct, ReadingEncoding, MsgSize, EncodingFragSize, MessageBytes,
           SizeOfEncodingOne
  <2>3. QED BY <1>4, <2>1, <2>2
<1>7. /\ BytesToCopy \in Nat /\ BytesToCopy <= len
      /\ msg_dst' \in Nat /\ msg_dst <= msg_dst' /\ msg_dst' <= MsgSize
      /\ pc' = "dispatch" <=> msg_dst' = MsgSize
  BY <1>0, <1>2, <1>6 DEF BytesToCopy, Smaller, MessageBytes
<1>8. /\ src' \in 0 .. rcvd
      /\ src' - msg_dst' = src - msg_dst
  BY <1>0, <1>2, <1>7 DEF len
<1>grows. msg_dst \in Nat /\ msg_dst' \in Nat /\ msg_dst <= msg_dst' /\ src' \in Nat
  BY <1>0, <1>7, <1>8
<1>9. messageInProgress \in [Slots -> Int] /\ messageInProgress' = [j \in Slots |-> Copied(j)]
  BY <1>1 DEF Inv, TypeOK, Copy
<1>10. messageInProgress' \in [Slots -> Int]
  BY <1>0, <1>9 DEF Copied, Slots, MessageBytes
<1>11. \A j \in 0 .. msg_dst - 1 : messageInProgress'[j] = messageInProgress[j]
  BY <1>0, <1>6, <1>9 DEF Copied, Slots, MessageBytes
<1>12. \A j \in Nat : msg_dst <= j /\ j < msg_dst' => messageInProgress'[j] = src + (j - msg_dst)
  BY <1>0, <1>2, <1>6, <1>7, <1>9 DEF Copied, Slots, MessageBytes
<1>13. message' = message
  BY <1>0, <1>2, <1>3, <1>11 DEF message
<1>14. ASSUME ReadingStruct PROVE numberOfEncodings' \in Nat /\ ReadingStruct'
  <2>1. src = script.start[current] + msg_dst
    BY <1>14 DEF ReadingStruct
  <2>2. msg_dst <= 3 => WordEndingAt(script, src + (3 - msg_dst)) = script.msgs[current].word
    <3>1. src + (3 - msg_dst) = script.start[current] + 3
      BY <1>0, <2>1
    <3>2. QED BY <1>1, <1>4, <3>1, Starts, Positions
  <2>3. numberOfEncodings' = IF msg_dst <= 3 /\ 3 < msg_dst'
                               THEN script.msgs[current].word ELSE numberOfEncodings
    BY <1>1, <1>2, <2>2 DEF Copy
  <2>4. numberOfEncodings' \in Nat
    BY <1>1, <1>4, <2>3, Ends, Positions DEF Inv, TypeOK
  <2>5. src' = script.start[current] + msg_dst'
    BY <1>0, <1>2, <2>1, <1>7
  <2>6. \A j \in 0 .. msg_dst' - 1 : messageInProgress'[j] = script.start[current] + j
    <3>1. SUFFICES ASSUME NEW j \in Nat, j < msg_dst'
                   PROVE  messageInProgress'[j] = script.start[current] + j
      BY <1>grows
    <3>2. CASE j < msg_dst
      <4>1. j \in 0 .. msg_dst - 1
        BY <1>grows, <3>1, <3>2
      <4>2. messageInProgress[j] = script.start[current] + j
        BY <1>14, <4>1 DEF ReadingStruct
      <4>3. QED BY <1>11, <4>1, <4>2
    <3>3. CASE msg_dst <= j
      <4>1. messageInProgress'[j] = src + (j - msg_dst)
        BY <1>12, <3>1, <3>3
      <4>2. QED BY <1>0, <2>1, <3>1, <4>1
    <3>4. QED BY <1>grows, <3>1, <3>2, <3>3
  <2>7. pc' = "dispatch" /\ message = "SetEncodings" => msg_dst <= 3 /\ 3 < msg_dst'
    BY <1>0, <1>2, <1>6, <1>7, <1>14, Sizes
  <2>8. pc' = "dispatch" /\ message = "SetEncodings" =>
          numberOfEncodings' = script.msgs[current].word
    BY <2>3, <2>7
  <2>9. ReadingStruct'
    BY <1>2, <1>5, <1>6, <1>7, <1>13, <1>14, <2>5, <2>6, <2>8 DEF ReadingStruct
  <2>10. QED BY <2>4, <2>9
<1>15. ASSUME ReadingEncoding PROVE numberOfEncodings' \in Nat /\ ReadingEncoding'
  <2>1. msg_dst > 3 /\ msg_dst' <= 8 /\ MsgSize = 8
    BY <1>0, <1>6, <1>7, <1>15, Sizes DEF ReadingEncoding, SizeOfEncodingOne
  <2>2. numberOfEncodings' = numberOfEncodings
    BY <1>0, <1>1, <2>1 DEF Copy
  <2>3. numberOfEncodings' \in Nat
    BY <1>1, <2>2 DEF Inv, TypeOK
  <2>4. src' = script.start[current]
                 + 4 * (script.msgs[current].word - numberOfEncodings) + msg_dst'
    <3>1. script.msgs[current].word \in Nat
      BY <1>1, <1>4, Ends, Positions
    <3>2. src = script.start[current]
                  + 4 * (script.msgs[current].word - numberOfEncodings) + msg_dst
      BY <1>15 DEF ReadingEncoding
    <3>3. \A a, w, n, m, b \in Nat : (a + 4 * (w - n) + m) + b = a + 4 * (w - n) + (m + b)
      OBVIOUS
    <3>4. QED BY <1>0, <1>2, <1>7, <3>1, <3>2, <3>3
  <2>5. \A j \in 0 .. 3 : messageInProgress'[j] = script.start[current] + j
    BY <1>0, <1>11, <1>15, <2>1 DEF ReadingEncoding
  <2>6. \A j \in 4 .. msg_dst' - 1 : messageInProgress'[j] = src' - msg_dst' + j
    <3> DEFINE top == msg_dst'
    <3>1. top \in Nat
      BY <1>grows
    <3> HIDE DEF top
    <3>2. \A j \in 4 .. top - 1 : j \in Nat /\ 4 <= j /\ j < top
      BY <3>1
    <3>3. ASSUME NEW j \in Nat, 4 <= j, j < msg_dst'
          PROVE  messageInProgress'[j] = src' - msg_dst' + j
      <4>1. CASE j < msg_dst
        <5>1. j \in 0 .. msg_dst - 1 /\ j \in 4 .. msg_dst - 1
          BY <1>grows, <3>3, <4>1
        <5>2. QED BY <1>8, <1>11, <1>15, <5>1 DEF ReadingEncoding
      <4>2. CASE msg_dst <= j
        <5>1. messageInProgress'[j] = src + (j - msg_dst)
          BY <1>12, <3>3, <4>2
        <5>2. messageInProgress'[j] = (src - msg_dst) + j
          BY <1>0, <3>3, <5>1
        <5>3. QED BY <1>8, <5>2
      <4>3. QED BY <1>grows, <3>3, <4>1, <4>2
    <3>4. \A j \in Nat : 4 <= j /\ j < top => messageInProgress'[j] = src' - msg_dst' + j
      BY <3>3 DEF top
    <3>5. QED BY <3>2, <3>4 DEF top
  <2>7. msg_dst' \in SizeOf.SetEncodings .. SizeOfEncodingOne
    BY <1>0, <1>7, <2>1, Sizes DEF SizeOfEncodingOne
  <2>8. ReadingEncoding'
    BY <1>2, <1>5, <1>7, <1>13, <1>15, <2>1, <2>2, <2>4, <2>5, <2>6, <2>7
       DEF ReadingEncoding, SizeOfEncodingOne
  <2>9. QED BY <2>3, <2>8
<1>16. numberOfEncodings' \in Nat /\ (ReadingStruct' \/ ReadingEncoding')
  BY <1>4, <1>14, <1>15
<1>17. TypeOK'
  <2>1. rcvd' \in 0 .. Total(script') /\ script' \in Scripts
    BY <1>1, <1>2 DEF Inv, TypeOK
  <2>2. src' \in 0 .. rcvd'
    BY <1>2, <1>8
  <2>3. msg_dst' \in 0 .. MessageBytes
    BY <1>6, <1>7 DEF MessageBytes
  <2>4. pc' \in {"recv", "fast", "slow", "copy", "dispatch", "closed"}
    BY <1>2
  <2>5. handled' \in Seq(0 .. Len(script'.msgs))
    BY <1>1, <1>2 DEF Inv, TypeOK
  <2>6. QED BY <1>10, <1>16, <2>1, <2>2, <2>3, <2>4, <2>5 DEF TypeOK
<1>18. messageInProgress'[0] = messageInProgress[0]
  BY <1>0, <1>3, <1>11
<1>19. Bookkeeping'
  BY <1>0, <1>2, <1>3, <1>4, <1>5, <1>7, <1>16, <1>18 DEF Bookkeeping
<1>20. QED BY <1>5, <1>17, <1>19 DEF Inv

LEMMA DispatchKeeps == Inv /\ NothingPasted /\ Dispatch => Inv'
<1>1. SUFFICES ASSUME Inv, NothingPasted, Dispatch PROVE Inv'
  OBVIOUS
<1>2. /\ pc = "dispatch" /\ message # "SetEncodings"
      /\ handled' = Append(handled, InProgress)
      /\ (pc' = "slow" /\ msg_dst' = 0) \/ (pc' = "closed" /\ UNCHANGED msg_dst)
      /\ UNCHANGED <<script, rcvd, src, messageInProgress, numberOfEncodings>>
  BY <1>1 DEF Dispatch
<1>3. msg_dst > 0
  BY <1>1, <1>2 DEF Inv, Bookkeeping
<1>4. /\ current \in 1 .. Len(script.msgs)
      /\ message = script.msgs[current].type
      /\ InProgress = current
      /\ ReadingStruct
  BY <1>1, <1>2, <1>3, WithinMessage DEF ReadingEncoding
<1>5. IsScript(script) /\ WithoutText(script)
  BY <1>1, Positions
<1>6. message \in KnownTypes /\ src = script.start[current] + SizeOf[message]
  BY <1>2, <1>4 DEF ReadingStruct
<1>7. src = script.start[current + 1]
  BY <1>2, <1>4, <1>5, <1>6, Ends
<1>8. HandledInOrder' /\ handled' \in Seq(0 .. Len(script.msgs)) /\ current' = current + 1
  BY <1>1, <1>2, <1>4, Handles
<1>9. TypeOK'
  <2>1. msg_dst' \in 0 .. MessageBytes /\ pc' \in {"slow", "closed"}
    <3>1. msg_dst \in 0 .. MessageBytes
      BY <1>1 DEF Inv, TypeOK
    <3>2. 0 \in 0 .. MessageBytes
      BY DEF MessageBytes
    <3>3. QED BY <1>2, <3>1, <3>2
  <2>2. QED BY <1>1, <1>2, <1>8, <2>1 DEF Inv, TypeOK
<1>10. Bookkeeping'
  BY <1>2, <1>7, <1>8 DEF Bookkeeping
<1>11. QED BY <1>8, <1>9, <1>10 DEF Inv

\* After the header of a SetEncodings or one of its encodings: what is left of the list,
\* and that src stands right after what is done.
LEMMA EncodingsRead ==
  ASSUME Inv, NothingPasted, pc = "dispatch", message = "SetEncodings"
  PROVE  /\ current \in 1 .. Len(script.msgs)
         /\ script.msgs[current].type = "SetEncodings"
         /\ InProgress = current
         /\ script.msgs[current].word \in Nat /\ script.start[current] \in Nat
         /\ EncodingsLeft \in 0 .. script.msgs[current].word
         /\ src = script.start[current] + 4 * (script.msgs[current].word - EncodingsLeft) + 4
         /\ \A j \in 0 .. 3 : messageInProgress[j] = script.start[current] + j
         /\ EncodingsLeft = 0 => src = script.start[current + 1]
<1>1. Inv /\ NothingPasted
  OBVIOUS
<1>2. pc = "dispatch" /\ message = "SetEncodings"
  OBVIOUS
<1>3. msg_dst > 0
  BY <1>1, <1>2 DEF Inv, Bookkeeping
<1>4. /\ current \in 1 .. Len(script.msgs)
      /\ messageInProgress[0] = script.start[current]
      /\ message = script.msgs[current].type
      /\ InProgress = current
      /\ ReadingStruct \/ ReadingEncoding
  BY <1>1, <1>2, <1>3, WithinMessage
<1>5. IsScript(script) /\ WithoutText(script)
  BY <1>1, Positions
<1>6. /\ script.msgs[current].word \in Nat /\ script.start[current] \in Nat
      /\ script.start[current + 1] = script.start[current] + 4 + 4 * script.msgs[current].word
  BY <1>2, <1>4, <1>5, Ends
<1>7. /\ EncodingsLeft \in 0 .. script.msgs[current].word
      /\ src = script.start[current] + 4 * (script.msgs[current].word - EncodingsLeft) + 4
      /\ \A j \in 0 .. 3 : messageInProgress[j] = script.start[current] + j
  <2>1. CASE ReadingStruct
    <3>1. msg_dst = 4 /\ src = script.start[current] + 4
          /\ numberOfEncodings = script.msgs[current].word
      BY <1>2, <2>1, Sizes DEF ReadingStruct
    <3>2. EncodingsLeft = script.msgs[current].word
      BY <3>1 DEF EncodingsLeft, SizeOfEncodingOne
    <3>3. \A j \in 0 .. 3 : messageInProgress[j] = script.start[current] + j
      BY <2>1, <3>1 DEF ReadingStruct
    <3>4. QED BY <1>6, <3>1, <3>2, <3>3
  <2>2. CASE ReadingEncoding
    <3>1. /\ msg_dst = 8
          /\ numberOfEncodings \in 1 .. script.msgs[current].word
          /\ src = script.start[current] + 4 * (script.msgs[current].word - numberOfEncodings) + 8
      BY <1>2, <2>2 DEF ReadingEncoding, SizeOfEncodingOne
    <3>2. EncodingsLeft = numberOfEncodings - 1
      BY <3>1 DEF EncodingsLeft, SizeOfEncodingOne
    <3>3. \A j \in 0 .. 3 : messageInProgress[j] = script.start[current] + j
      BY <2>2 DEF ReadingEncoding
    <3>4. \A a, w \in Nat : \A n \in 1 .. w : a + 4 * (w - n) + 8 = a + 4 * (w - (n - 1)) + 4
      OBVIOUS
    <3>5. QED BY <1>6, <3>1, <3>2, <3>3, <3>4
  <2>3. QED BY <1>4, <2>1, <2>2
<1>8. EncodingsLeft = 0 => src = script.start[current + 1]
  <2>1. \A a, w \in Nat : a + 4 * (w - 0) + 4 = a + 4 + 4 * w
    OBVIOUS
  <2>2. QED BY <1>6, <1>7, <2>1
<1>9. QED BY <1>2, <1>4, <1>6, <1>7, <1>8

LEMMA DispatchEncodingKeeps == Inv /\ NothingPasted /\ DispatchEncoding => Inv'
<1>1. SUFFICES ASSUME Inv, NothingPasted, DispatchEncoding PROVE Inv'
  OBVIOUS
<1>2. /\ pc = "dispatch" /\ message = "SetEncodings" /\ pc' = "slow"
      /\ numberOfEncodings' = EncodingsLeft
      /\ EncodingsLeft # 0 => msg_dst' = SizeOf.SetEncodings /\ UNCHANGED handled
      /\ EncodingsLeft = 0 => msg_dst' = 0 /\ handled' = Append(handled, InProgress)
      /\ UNCHANGED <<script, rcvd, src, messageInProgress>>
  BY <1>1 DEF DispatchEncoding
<1>4. /\ current \in 1 .. Len(script.msgs)
      /\ InProgress = current
      /\ script.msgs[current].word \in Nat /\ script.start[current] \in Nat
      /\ EncodingsLeft \in 0 .. script.msgs[current].word
      /\ src = script.start[current] + 4 * (script.msgs[current].word - EncodingsLeft) + 4
      /\ \A j \in 0 .. 3 : messageInProgress[j] = script.start[current] + j
      /\ EncodingsLeft = 0 => src = script.start[current + 1]
  BY <1>1, <1>2, EncodingsRead
<1>5. messageInProgress[0] = script.start[current]
  BY <1>4
<1>6. CASE EncodingsLeft = 0
  <2>1. src = script.start[current + 1]
    BY <1>4, <1>6
  <2>2. HandledInOrder' /\ handled' \in Seq(0 .. Len(script.msgs)) /\ current' = current + 1
    BY <1>1, <1>2, <1>4, <1>6, Handles
  <2>3. TypeOK'
    BY <1>1, <1>2, <1>6, <2>2 DEF Inv, TypeOK, MessageBytes
  <2>4. Bookkeeping'
    BY <1>2, <1>6, <2>1, <2>2 DEF Bookkeeping
  <2>5. QED BY <2>2, <2>3, <2>4 DEF Inv
<1>7. CASE EncodingsLeft # 0
  <2>1. msg_dst' = 4 /\ UNCHANGED handled
    BY <1>2, <1>7, Sizes
  <2>2. HandledInOrder' /\ current' = current /\ message' = message
    BY <1>1, <1>2, <2>1 DEF Inv, HandledInOrder, current, message
  <2>3. TypeOK'
    BY <1>1, <1>2, <1>4, <2>1 DEF Inv, TypeOK, MessageBytes
  <2>4. ReadingEncoding'
    <3>1. numberOfEncodings' \in 1 .. script.msgs[current].word
      BY <1>2, <1>4, <1>7
    <3>2. QED BY <1>2, <1>4, <2>1, <2>2, <3>1, Sizes DEF ReadingEncoding, SizeOfEncodingOne
  <2>5. Bookkeeping'
    BY <1>1, <1>2, <1>4, <1>5, <2>1, <2>2, <2>4, Positions DEF Bookkeeping
  <2>6. QED BY <2>2, <2>3, <2>5 DEF Inv
<1>8. QED BY <1>6, <1>7

-----------------------------------------------------------------------------

LEMMA StepKeeps == Inv /\ NothingPasted /\ [Next]_vars => Inv'
<1>1. SUFFICES ASSUME Inv, NothingPasted, [Next]_vars PROVE Inv'
  OBVIOUS
<1>2. CASE UNCHANGED vars
  <2>1. current' = current /\ message' = message
    BY <1>2 DEF vars, current, message
  <2>2. TypeOK' /\ HandledInOrder'
    BY <1>1, <1>2 DEF vars, Inv, TypeOK, HandledInOrder
  <2>3. (ReadingStruct => ReadingStruct') /\ (ReadingEncoding => ReadingEncoding')
    BY <1>2, <2>1 DEF vars, ReadingStruct, ReadingEncoding
  <2>4. Bookkeeping'
    BY <1>1, <1>2, <2>1, <2>3 DEF vars, Inv, Bookkeeping
  <2>5. QED BY <2>2, <2>4 DEF Inv
<1>3. QED
  BY <1>1, <1>2, RecvKeeps, FastMessageKeeps, PausesKeep, EndsKeep, ReadTypeKeeps, CopyKeeps,
     DispatchKeeps, DispatchEncodingKeeps DEF Next, Parse, Closed

(***************************************************************************)
(* Whatever the clients send, short of pasted text, and however recv cuts  *)
(* it up, the bookkeeping of the message loop (session.c:209-344) stays    *)
(* right: the invariant everything else follows from.                      *)
(***************************************************************************)
THEOREM Invariance ==
  ASSUME NothingPasted
  PROVE  Spec => [](TypeOK /\ HandledInOrder /\ Bookkeeping)
<1>1. Init => Inv
  BY Start
<1>2. Inv /\ [Next]_vars => Inv'
  BY StepKeeps
<1>3. QED BY <1>1, <1>2, PTL DEF Spec, Inv

LEMMA WholeMessage == Inv /\ NothingPasted => DispatchesWholeMessage
<1>1. SUFFICES ASSUME Inv, NothingPasted, pc = "dispatch"
               PROVE  /\ InProgress # 0
                      /\ \A j \in 0 .. SizeOf[message] - 1 :
                           messageInProgress[j] = messageInProgress[0] + j
                      /\ msg_dst # SizeOf[message] =>
                           /\ message = "SetEncodings"
                           /\ msg_dst = SizeOfEncodingOne
                           /\ \A j \in 4 .. 7 :
                                messageInProgress[j] = src - SizeOfEncodingOne + j
                           /\ src <= script.start[InProgress + 1]
  BY DEF DispatchesWholeMessage
<1>2. msg_dst > 0
  BY <1>1 DEF Inv, Bookkeeping
<1>3. /\ current \in 1 .. Len(script.msgs)
      /\ messageInProgress[0] = script.start[current]
      /\ message = script.msgs[current].type
      /\ InProgress = current
      /\ ReadingStruct \/ ReadingEncoding
  BY <1>1, <1>2, WithinMessage
<1>4. CASE ReadingStruct
  <2>1. msg_dst = SizeOf[message]
    BY <1>1, <1>4 DEF ReadingStruct
  <2>2. \A j \in 0 .. SizeOf[message] - 1 : messageInProgress[j] = script.start[current] + j
    BY <1>4, <2>1 DEF ReadingStruct
  <2>3. QED BY <1>3, <2>1, <2>2
<1>5. CASE ReadingEncoding
  <2>1. /\ message = "SetEncodings" /\ msg_dst = 8 /\ SizeOf[message] = 4
        /\ numberOfEncodings \in 1 .. script.msgs[current].word
        /\ src = script.start[current]
                    + 4 * (script.msgs[current].word - numberOfEncodings) + 8
    BY <1>1, <1>5, Sizes DEF ReadingEncoding, SizeOfEncodingOne
  <2>2. \A j \in 0 .. 3 : messageInProgress[j] = script.start[current] + j
    BY <1>5 DEF ReadingEncoding
  <2>3. \A j \in 4 .. 7 : messageInProgress[j] = src - 8 + j
    BY <1>5, <2>1 DEF ReadingEncoding
  <2>4. /\ script.msgs[current].word \in Nat /\ script.start[current] \in Nat
        /\ script.start[current + 1] = script.start[current] + 4 + 4 * script.msgs[current].word
    BY <1>1, <1>3, <2>1, Positions, Ends
  <2>5. src <= script.start[current + 1]
    <3>1. \A a, w \in Nat : \A n \in 1 .. w : a + 4 * (w - n) + 8 <= a + 4 + 4 * w
      OBVIOUS
    <3>2. QED BY <2>1, <2>4, <3>1
  <2>6. QED BY <1>3, <2>1, <2>2, <2>3, <2>5 DEF SizeOfEncodingOne
<1>6. QED BY <1>3, <1>4, <1>5

LEMMA NoneWithheld == Inv /\ NothingPasted => NothingWithheld
<1>1. SUFFICES ASSUME Inv, NothingPasted, pc = "recv",
                      NEW i \in 1 .. Len(script.msgs), script.start[i + 1] <= rcvd
               PROVE  i <= Len(handled)
  BY DEF NothingWithheld
<1>2. /\ IsScript(script) /\ WithoutText(script)
      /\ Len(handled) \in Nat /\ Len(script.msgs) \in Nat /\ current = Len(handled) + 1
      /\ src = rcvd /\ rcvd \in Nat /\ script.start[current] \in Nat /\ msg_dst \in Nat
  BY <1>1, Positions DEF Inv, Bookkeeping, current
<1>3. SUFFICES ASSUME current <= i
               PROVE  script.start[i + 1] > rcvd
  <2>1. script.start[i + 1] \in Nat
    BY <1>2, Layout
  <2>2. QED BY <1>1, <1>2, <2>1
<1>4. current \in 1 .. Len(script.msgs)
  BY <1>1, <1>2, <1>3
<1>5. script.start[current + 1] > rcvd
  <2>1. CASE msg_dst = 0
    <3>1. src = script.start[current]
      BY <1>1, <2>1 DEF Inv, Bookkeeping
    <3>2. script.start[current] < script.start[current + 1]
      BY <1>2, <1>4, Layout DEF IsScript
    <3>3. QED BY <1>2, <3>1, <3>2
  <2>2. CASE msg_dst > 0
    <3>1. message = script.msgs[current].type /\ (ReadingStruct \/ ReadingEncoding)
      BY <1>1, <2>2, WithinMessage
    <3>2. /\ script.msgs[current].word \in Nat /\ script.start[current + 1] \in Nat
          /\ message # "SetEncodings" /\ message \in KnownTypes =>
               script.start[current + 1] = script.start[current] + SizeOf[message]
          /\ message = "SetEncodings" => script.start[current + 1] =
               script.start[current] + 4 + 4 * script.msgs[current].word
      BY <1>2, <1>4, <3>1, Ends
    <3>3. CASE ReadingStruct
      <4>1. /\ message \in KnownTypes
            /\ msg_dst <= SizeOf[message] /\ msg_dst # SizeOf[message]
            /\ src = script.start[current] + msg_dst
        BY <1>1, <3>3 DEF ReadingStruct
      <4>2. SizeOf[message] \in 4 .. MessageBytes
        BY <4>1, Sizes
      <4>3. SizeOf[message] \in Nat
        BY <4>2 DEF MessageBytes
      <4>4. message = "SetEncodings" => SizeOf[message] = 4
        BY Sizes
      <4>5. CASE message = "SetEncodings"
        <5>1. src < script.start[current] + 4
          BY <1>2, <4>1, <4>3, <4>4, <4>5
        <5>2. \A a, w \in Nat : a + 4 <= a + 4 + 4 * w
          OBVIOUS
        <5>3. script.start[current] + 4 <= script.start[current + 1]
          BY <1>2, <3>2, <4>5, <5>2
        <5>4. QED BY <1>2, <3>2, <5>1, <5>3
      <4>6. CASE message # "SetEncodings"
        BY <1>2, <3>2, <4>1, <4>3, <4>6
      <4>7. QED BY <4>5, <4>6
    <3>4. CASE ReadingEncoding
      <4>1. /\ message = "SetEncodings" /\ msg_dst < 8
            /\ numberOfEncodings \in 1 .. script.msgs[current].word
            /\ src = script.start[current]
                        + 4 * (script.msgs[current].word - numberOfEncodings) + msg_dst
        BY <1>1, <1>2, <3>4, Sizes DEF ReadingEncoding, SizeOfEncodingOne
      <4>2. \A a, w, m \in Nat : \A n \in 1 .. w :
              m < 8 => a + 4 + 4 * w > a + 4 * (w - n) + m
        OBVIOUS
      <4>3. script.start[current] + 4 + 4 * script.msgs[current].word > src
        <5>1. script.start[current] + 4 + 4 * script.msgs[current].word
                > script.start[current] + 4 * (script.msgs[current].word - numberOfEncodings) + msg_dst
          BY <1>2, <3>2, <4>1, <4>2
        <5>2. QED BY <4>1, <5>1
      <4>4. QED BY <1>2, <3>2, <4>1, <4>3
    <3>5. QED BY <3>1, <3>3, <3>4
  <2>3. QED BY <1>2, <2>1, <2>2
<1>6. script.start[current + 1] <= script.start[i + 1]
  <2>1. /\ i + 1 \in DOMAIN script.start /\ current + 1 \in DOMAIN script.start
        /\ script.start[i + 1] \in Nat /\ script.start[current + 1] \in Nat
    BY <1>1, <1>2, <1>4, Layout
  <2>2. CASE current = i
    BY <2>1, <2>2
  <2>3. CASE current < i
    <3>1. current + 1 < i + 1
      BY <1>1, <1>2, <2>3
    <3>2. script.start[current + 1] < script.start[i + 1]
      BY <1>2, <2>1, <3>1 DEF IsScript
    <3>3. QED BY <2>1, <3>2
  <2>4. QED BY <1>1, <1>2, <1>3, <2>2, <2>3
<1>7. QED
  <2>1. i + 1 \in 1 .. Len(script.msgs) + 1 /\ current + 1 \in 1 .. Len(script.msgs) + 1
    BY <1>1, <1>2, <1>4
  <2>2. script.start[i + 1] \in Nat /\ script.start[current + 1] \in Nat
    BY <1>2, <2>1, Layout
  <2>3. QED BY <1>2, <1>5, <1>6, <2>2

(***************************************************************************)
(* Until text is pasted, src is at the start of a message whenever none is *)
(* in progress ("src will point to messages for further processing",       *)
(* session.c:218-220).                                                     *)
(***************************************************************************)
THEOREM AlwaysAtMessages ==
  ASSUME NothingPasted
  PROVE  Spec => []SrcAtMessages
<1>1. Bookkeeping => SrcAtMessages
  BY DEF Bookkeeping, SrcAtMessages, current
<1>2. QED BY <1>1, Invariance, PTL

(***************************************************************************)
(* What the slow loop dispatches (session.c:296-312) is one whole message, *)
(* or the header and one encoding of a SetEncodings.                       *)
(***************************************************************************)
THEOREM AlwaysWholeMessage ==
  ASSUME NothingPasted
  PROVE  Spec => []DispatchesWholeMessage
<1>1. TypeOK /\ HandledInOrder /\ Bookkeeping => DispatchesWholeMessage
  BY WholeMessage DEF Inv
<1>2. QED BY <1>1, Invariance, PTL

(***************************************************************************)
(* The daemon never waits in recv (session.c:205) with a complete message  *)
(* unhandled.                                                              *)
(***************************************************************************)
THEOREM AlwaysNothingWithheld ==
  ASSUME NothingPasted
  PROVE  Spec => []NothingWithheld
<1>1. TypeOK /\ HandledInOrder /\ Bookkeeping => NothingWithheld
  BY NoneWithheld DEF Inv
<1>2. QED BY <1>1, Invariance, PTL

(***************************************************************************)
(* Every variable has its type: however the stream is cut up, msg_dst      *)
(* never leaves the union messageInProgress (session.c:264-272), and src   *)
(* never passes what recv_buf holds.                                       *)
(***************************************************************************)
THEOREM TypeCorrect ==
  ASSUME NothingPasted
  PROVE  Spec => []TypeOK
<1>1. QED BY Invariance, PTL

(***************************************************************************)
(* Both loops together (session.c:223-313) handle each message once, in    *)
(* the order the client sent them.                                         *)
(***************************************************************************)
THEOREM AlwaysInOrder ==
  ASSUME NothingPasted
  PROVE  Spec => []HandledInOrder
<1>1. QED BY Invariance, PTL

-----------------------------------------------------------------------------
\* The message loop implements the decoder: each step is one of the decoder's, or none.

USE DEF Decoder!dvars

\* The decoder's next message is the current one.
LEMMA DecodersNext ==
  ASSUME Inv, NothingPasted, current \in 1 .. Len(script.msgs)
  PROVE  /\ Decoder!MoreToCome
         /\ Decoder!Upcoming = script.msgs[current]
         /\ Decoder!Complete <=> /\ script.msgs[current].type \in KnownTypes
                                 /\ script.start[current + 1] <= rcvd
         /\ Decoder!Unknown <=> /\ script.msgs[current].type \notin KnownTypes
                                /\ script.start[current] < rcvd
<1>1. Len(handled) \in Nat /\ Len(script.msgs) \in Nat
  BY Positions
<1>2. Len(handled) + 1 = current /\ Len(handled) + 2 = current + 1
  BY <1>1 DEF current
<1>3. Decoder!MoreToCome
  BY <1>1, <1>2 DEF Decoder!MoreToCome
<1>4. Decoder!Upcoming = script.msgs[current]
  BY <1>2 DEF Decoder!Upcoming
<1>5. QED BY <1>2, <1>3, <1>4 DEF Decoder!Complete, Decoder!Unknown, Decoder!KnownTypes, KnownTypes,
     Decoder!SizeOf, SizeOf

\* While the session waits in recv, the decoder has nothing to handle either.
LEMMA DecoderWaits ==
  ASSUME Inv, NothingPasted, pc = "recv"
  PROVE  ~Decoder!Complete /\ ~Decoder!Unknown
<1>1. /\ IsScript(script)
      /\ Len(handled) \in Nat /\ Len(script.msgs) \in Nat /\ current = Len(handled) + 1
      /\ current \in 1 .. Len(script.msgs) + 1
      /\ src = rcvd /\ rcvd \in Nat /\ script.start[current] \in Nat /\ msg_dst \in Nat
  BY Positions DEF Inv, Bookkeeping, current
<1>2. CASE current \notin 1 .. Len(script.msgs)
  <2>1. ~Decoder!MoreToCome
    BY <1>1, <1>2 DEF Decoder!MoreToCome
  <2>2. QED BY <2>1 DEF Decoder!Complete, Decoder!Unknown
<1>3. CASE current \in 1 .. Len(script.msgs)
  <2>1. ~(script.start[current + 1] <= rcvd)
    <3>1. NothingWithheld
      BY NoneWithheld
    <3>2. QED BY <1>1, <1>3, <3>1 DEF NothingWithheld
  <2>2. script.msgs[current].type \notin KnownTypes => script.start[current] = rcvd
    <3>1. CASE msg_dst = 0
      BY <1>1, <3>1, BetweenMessages
    <3>2. CASE msg_dst > 0
      <4>1. message = script.msgs[current].type /\ (ReadingStruct \/ ReadingEncoding)
        BY <3>2, WithinMessage
      <4>2. message \in KnownTypes
        BY <4>1, Sizes DEF ReadingStruct, ReadingEncoding
      <4>3. QED BY <4>1, <4>2
    <3>3. QED BY <1>1, <3>1, <3>2
  <2>3. QED BY <1>1, <1>3, <2>1, <2>2, DecodersNext
<1>4. QED BY <1>2, <1>3

\* Handling the current message is the decoder's handling of its next one.
LEMMA DecoderHandles ==
  ASSUME Inv, NothingPasted, pc # "closed", current \in 1 .. Len(script.msgs),
         script.msgs[current].type \in KnownTypes, script.start[current + 1] <= rcvd,
         handled' = Append(handled, current),
         (pc' # "closed") \in Decoder!MayGoOn(script.msgs[current]),
         UNCHANGED <<script, rcvd>>
  PROVE  Decoder!HandleNext
<1>1. Decoder!Complete /\ Decoder!Upcoming = script.msgs[current]
  BY DecodersNext
<1>2. Len(handled') = Len(handled) + 1
  <2>1. handled \in Seq(0 .. Len(script.msgs)) /\ current \in 0 .. Len(script.msgs)
    BY Positions DEF Inv, TypeOK
  <2>2. QED BY <2>1
<1>3. QED BY <1>1, <1>2 DEF Decoder!HandleNext

LEMMA RecvImplements == Inv /\ NothingPasted /\ Recv => Decoder!Arrive
<1>1. SUFFICES ASSUME Inv, NothingPasted, Recv PROVE Decoder!Arrive
  OBVIOUS
<1>2. PICK n \in 1 .. Smaller(SESS_RECV_BUFF_LEN, Total(script) - rcvd) : rcvd' = rcvd + n
  BY <1>1 DEF Recv
<1>3. rcvd' \in rcvd + 1 .. Total(script)
  BY <1>1, <1>2, Positions, RecvBuffAssumption DEF Smaller
<1>4. pc = "recv" /\ pc' \in {"fast", "slow"} /\ UNCHANGED <<script, handled>>
  BY <1>1 DEF Recv
<1>5. Decoder!Total(script) = Total(script)
  BY DEF Decoder!Total, Total
<1>6. QED BY <1>1, <1>3, <1>4, <1>5, DecoderWaits DEF Decoder!Arrive

LEMMA RecvFailImplements == Inv /\ NothingPasted /\ RecvFail => Decoder!HangUp
BY DecoderWaits DEF RecvFail, Decoder!HangUp

LEMMA IllegalImplements == Inv /\ NothingPasted /\ Illegal => Decoder!Reject
<1>1. SUFFICES ASSUME Inv, NothingPasted, Illegal PROVE Decoder!Reject
  OBVIOUS
<1>2. /\ pc = "copy" /\ pc' = "closed" /\ message \notin KnownTypes
      /\ UNCHANGED <<script, rcvd, handled>>
  BY <1>1 DEF Illegal
<1>3. msg_dst > 0
  BY <1>1, <1>2 DEF Inv, Bookkeeping
<1>4. /\ current \in 1 .. Len(script.msgs)
      /\ message = script.msgs[current].type
      /\ ReadingStruct \/ ReadingEncoding
  BY <1>1, <1>2, <1>3, WithinMessage
<1>5. ReadingStruct
  BY <1>2, <1>4, Sizes DEF ReadingEncoding
<1>6. script.start[current] < rcvd
  BY <1>1, <1>2, <1>5, Positions DEF ReadingStruct
<1>7. Decoder!Unknown
  BY <1>1, <1>2, <1>4, <1>6, DecodersNext
<1>8. QED BY <1>2, <1>7 DEF Decoder!Reject

LEMMA FastMessageImplements == Inv /\ NothingPasted /\ FastMessage => Decoder!HandleNext
<1>1. SUFFICES ASSUME Inv, NothingPasted, FastMessage PROVE Decoder!HandleNext
  OBVIOUS
<1>2. PICK t \in {"PointerEvent", "FBUpdateRequest"} :
        len >= SizeOf[t] /\ TypeAt(script, src) = t /\ src' = src + SizeOf[t]
  BY <1>1 DEF FastMessage
<1>3. t \in KnownTypes /\ t # "SetEncodings" /\ SizeOf[t] \in Nat /\ SizeOf[t] > 0
  BY Sizes DEF MessageBytes
<1>4. pc = "fast" /\ msg_dst = 0 /\ UNCHANGED <<script, rcvd>>
  BY <1>1 DEF FastMessage, Inv, Bookkeeping
<1>5. /\ src = script.start[current]
      /\ current \in 1 .. Len(script.msgs)
      /\ StartingAt(script, src) = current
      /\ script.msgs[current].type = t
  BY <1>1, <1>2, <1>3, <1>4, BetweenMessages, Positions
<1>6. script.start[current + 1] <= rcvd
  <2>1. IsScript(script) /\ WithoutText(script)
    BY <1>1, Positions
  <2>2. script.start[current + 1] = script.start[current] + SizeOf[t]
    BY <1>3, <1>5, <2>1, Ends
  <2>3. QED BY <1>1, <1>2, <1>3, <1>5, <2>2, Positions DEF len
<1>7. (pc' # "closed") \in Decoder!MayGoOn(script.msgs[current])
  BY <1>2, <1>5 DEF Decoder!MayGoOn
<1>8. handled' = Append(handled, current)
  BY <1>1, <1>5 DEF FastMessage
<1>9. QED BY <1>1, <1>3, <1>4, <1>5, <1>6, <1>7, <1>8, DecoderHandles

LEMMA DispatchImplements == Inv /\ NothingPasted /\ Dispatch => Decoder!HandleNext
<1>1. SUFFICES ASSUME Inv, NothingPasted, Dispatch PROVE Decoder!HandleNext
  OBVIOUS
<1>2. /\ pc = "dispatch" /\ message # "SetEncodings"
      /\ handled' = Append(handled, InProgress)
      /\ UNCHANGED <<script, rcvd>>
  BY <1>1 DEF Dispatch
<1>3. msg_dst > 0
  BY <1>1, <1>2 DEF Inv, Bookkeeping
<1>4. /\ current \in 1 .. Len(script.msgs)
      /\ message = script.msgs[current].type
      /\ InProgress = current
      /\ ReadingStruct
  BY <1>1, <1>2, <1>3, WithinMessage DEF ReadingEncoding
<1>5. IsScript(script) /\ WithoutText(script)
  BY <1>1, Positions
<1>6. message \in KnownTypes /\ src = script.start[current] + SizeOf[message]
  BY <1>2, <1>4 DEF ReadingStruct
<1>7. script.start[current + 1] <= rcvd
  BY <1>1, <1>2, <1>4, <1>5, <1>6, Ends, Positions
<1>8. PICK returns \in Outcomes(current) : pc' = IF returns THEN "slow" ELSE "closed"
  BY <1>1, <1>4 DEF Dispatch
<1>9. script.msgs[current].good \in BOOLEAN
  <2>1. script.msgs[current] \in Message
    BY <1>4, <1>5, Layout
  <2>2. QED BY <2>1 DEF Message
<1>10. (pc' # "closed") = returns
  <2>1. returns \in BOOLEAN
    BY <1>8, <1>9 DEF Outcomes
  <2>2. QED BY <1>8, <2>1
<1>11. (pc' # "closed") \in Decoder!MayGoOn(script.msgs[current])
  <2>1. current # 0
    BY <1>4
  <2>2. CASE message = "SetPixelFormat"
    <3>1. returns = script.msgs[current].good
      BY <1>8, <2>1, <2>2 DEF Outcomes
    <3>2. Decoder!MayGoOn(script.msgs[current]) = {script.msgs[current].good}
      BY <1>4, <2>2 DEF Decoder!MayGoOn
    <3>3. QED BY <1>10, <3>1, <3>2
  <2>3. CASE message = "ClientCutText"
    <3>1. returns = TRUE
      BY <1>8, <2>3 DEF Outcomes
    <3>2. Decoder!MayGoOn(script.msgs[current]) = {TRUE}
      BY <1>4, <2>3 DEF Decoder!MayGoOn
    <3>3. QED BY <1>10, <3>1, <3>2
  <2>4. CASE message \notin {"SetPixelFormat", "ClientCutText"}
    <3>1. Decoder!MayGoOn(script.msgs[current]) = BOOLEAN
      BY <1>2, <1>4, <2>4 DEF Decoder!MayGoOn
    <3>2. QED BY <3>1, Zenon
  <2>5. QED BY <2>2, <2>3, <2>4
<1>12. QED BY <1>1, <1>2, <1>4, <1>6, <1>7, <1>11, DecoderHandles

LEMMA DispatchEncodingImplements ==
  Inv /\ NothingPasted /\ DispatchEncoding => Decoder!HandleNext \/ UNCHANGED Decoder!dvars
<1>1. SUFFICES ASSUME Inv, NothingPasted, DispatchEncoding
               PROVE  Decoder!HandleNext \/ UNCHANGED Decoder!dvars
  OBVIOUS
<1>2. /\ pc = "dispatch" /\ message = "SetEncodings" /\ pc' = "slow"
      /\ EncodingsLeft # 0 => UNCHANGED handled
      /\ EncodingsLeft = 0 => handled' = Append(handled, InProgress)
      /\ UNCHANGED <<script, rcvd>>
  BY <1>1 DEF DispatchEncoding
<1>3. CASE EncodingsLeft # 0
  BY <1>2, <1>3
<1>4. CASE EncodingsLeft = 0
  <2>1. /\ current \in 1 .. Len(script.msgs)
        /\ script.msgs[current].type = "SetEncodings"
        /\ InProgress = current
        /\ src = script.start[current + 1]
    BY <1>1, <1>2, <1>4, EncodingsRead
  <2>2. script.start[current + 1] <= rcvd
    BY <1>1, <2>1, Positions
  <2>3. (pc' # "closed") \in Decoder!MayGoOn(script.msgs[current])
    BY <1>2, <2>1 DEF Decoder!MayGoOn
  <2>4. QED BY <1>1, <1>2, <1>4, <2>1, <2>2, <2>3, Sizes, DecoderHandles
<1>5. QED BY <1>3, <1>4

LEMMA StepImplements == Inv /\ NothingPasted /\ [Next]_vars => [Decoder!Next]_Decoder!dvars
<1>1. SUFFICES ASSUME Inv, NothingPasted, [Next]_vars
               PROVE  Decoder!Next \/ UNCHANGED Decoder!dvars
  OBVIOUS
<1>2. CASE FastExit \/ LoopEnd \/ ReadType \/ Copy
  BY <1>2 DEF FastExit, LoopEnd, ReadType, Copy
<1>3. CASE UNCHANGED vars \/ Closed
  BY <1>3 DEF vars, Closed
<1>4. CASE Recv \/ RecvFail \/ Illegal \/ FastMessage \/ Dispatch
  BY <1>1, <1>4, RecvImplements, RecvFailImplements, IllegalImplements, FastMessageImplements,
     DispatchImplements DEF Decoder!Next
<1>5. CASE DispatchEncoding
  BY <1>1, <1>5, DispatchEncodingImplements DEF Decoder!Next
<1>6. QED BY <1>1, <1>2, <1>3, <1>4, <1>5 DEF Next, Parse

(***************************************************************************)
(* The safety of ImplementsDecoder: whatever the buffers and copies of     *)
(* session.c:200-314 do, seen from outside the loop only ever takes in     *)
(* bytes when no message is complete, handles the next message, all of it  *)
(* there, and ends the session for one of the decoder's reasons.           *)
(***************************************************************************)
THEOREM Implements ==
  ASSUME NothingPasted
  PROVE  Spec => Decoder!SafetySpec
<1>1. Init => Decoder!Init
  BY DEF Init, Decoder!Init
<1>2. Inv /\ [Next]_vars => [Decoder!Next]_Decoder!dvars
  BY StepImplements
<1>3. Spec => []Inv
  BY Invariance DEF Inv
<1>4. QED BY <1>1, <1>2, <1>3, PTL DEF Spec, Decoder!SafetySpec
=============================================================================

---------------------------- MODULE MouseProofs ----------------------------
(***************************************************************************)
(* The safety of pointer events (vnc_evt_pointer, fb_move_mouse_to and     *)
(* fb_ui_mouse) for every screen, every movement of the real mouse, and    *)
(* however often it interrupts and the devices change hands.               *)
(***************************************************************************)
EXTENDS Mouse, TLAPS

\* Which of the two ways the event in hand takes.
Way ==
  /\ pc \in {"temp", "raw", "read", "button", "post"} => env = "mac" /\ ui_devices
  /\ pc \in {"move", "call"} => ~ui_devices /\ env = IF mode THEN "receiver" ELSE "nobody"

\* Unless the real button has come between, the last event posted and MBSTATE agree, and
\* when they do not, an event is about to be posted.
Clicks ==
  ~raced =>
    /\ ~doubled
    /\ pc # "post" => lastPosted = MBSTATE
    /\ pc = "button" => oldBtn = MBSTATE
    /\ pc = "post" => MBSTATE = newBtn /\ lastPosted # newBtn

\* What an event has done so far, as long as nothing has interrupted it.
Untouched ==
  ~touched =>
    /\ pc = "button" => oldBtn = MBSTATE
    /\ pc = "post" => MBSTATE = newBtn

\* As long as no movement has been lost, the receiver's pointer is where the driver has
\* it, and the driver is about to move it to where the client has its own.
Movement ==
  ~lost =>
    /\ pointer = mouse_x
    /\ pc = "call" => dx = newPosition.x - mouse_x

\* The inductive invariant.
Inv ==
  /\ TypeOK /\ Way /\ Clicks /\ Untouched /\ Movement
  /\ ClicksAlternate /\ ButtonFollows /\ PointerFollows

-----------------------------------------------------------------------------
\* The invariant holds before the first event.
LEMMA Start == Init => Inv
<1> SUFFICES ASSUME Init PROVE Inv
  OBVIOUS
<1> USE DEF Init
<1>1. 0 \in 0 .. MaxReal /\ 0 \in 0 .. MaxSwitches /\ 0 \in XS
  BY MouseAssumption
<1>2. newPosition \in [x : XS, button : BOOLEAN]
  BY <1>1
<1>3. TypeOK
  <2>1. /\ ui_devices \in BOOLEAN /\ mode \in BOOLEAN /\ CRSRNEW \in BOOLEAN
        /\ mouse_button \in BOOLEAN /\ pressed \in BOOLEAN /\ touched \in BOOLEAN
        /\ raced \in BOOLEAN /\ doubled \in BOOLEAN /\ lost \in BOOLEAN
    OBVIOUS
  <2>2. /\ MTEMP \in Int /\ RAWMOUSE \in Int /\ cursor \in Int
        /\ mouse_x \in Int /\ pointer \in Int /\ dx \in Int
    OBVIOUS
  <2>3. real \in 0 .. MaxReal /\ switches \in 0 .. MaxSwitches
    BY <1>1
  <2>4. QED BY <1>2, <2>1, <2>2, <2>3 DEF TypeOK
<1>4. Way /\ Clicks /\ Untouched /\ Movement
  BY DEF Way, Clicks, Untouched, Movement
<1>5. ClicksAlternate /\ ButtonFollows /\ PointerFollows
  BY DEF ClicksAlternate, ButtonFollows, PointerFollows
<1>6. QED BY <1>3, <1>4, <1>5 DEF Inv

\* An event arrives, and takes the one way or the other.
LEMMA PointerStep ==
  ASSUME Inv, NEW x \in XS, NEW btnMask, Pointer(x, btnMask)
  PROVE  Inv'
<1>1. TypeOK
  BY DEF Inv
<1>2. /\ pc = "idle" /\ newPosition' = [x |-> x, button |-> Button(btnMask)] /\ touched' = FALSE
      /\ IF ui_devices
           THEN pc' = "temp" /\ env' = "mac"
           ELSE pc' = "move" /\ env' = IF mode THEN "receiver" ELSE "nobody"
      /\ UNCHANGED <<ui_devices, mode, mac, kernel, real, switches>>
  BY DEF Pointer
<1>3. newPosition' \in [x : XS, button : BOOLEAN]
  BY <1>2 DEF Button
<1>4. TypeOK'
  <2>1. pc' \in {"temp", "move"} /\ env' \in {"mac", "receiver", "nobody"}
    BY <1>2
  <2>2. UNCHANGED <<ui_devices, mode, oldBtn, MTEMP, RAWMOUSE, CRSRNEW, MBSTATE, cursor,
                    lastPosted, raced, doubled, mouse_x, mouse_button, dx, pointer,
                    pressed, lost, real, switches>>
    BY <1>2 DEF mac, kernel
  <2>3. touched' \in BOOLEAN
    BY <1>2
  <2>4. QED BY <1>1, <1>3, <2>1, <2>2, <2>3 DEF TypeOK
<1>5. Way'
  BY <1>2 DEF Way
<1>6. Clicks'
  BY <1>2 DEF Inv, Clicks, mac
<1>7. Untouched' /\ Movement'
  BY <1>2 DEF Inv, Untouched, Movement, mac, kernel
<1>8. ClicksAlternate' /\ ButtonFollows' /\ PointerFollows'
  BY <1>2 DEF Inv, ClicksAlternate, ButtonFollows, PointerFollows, mac
<1>9. QED BY <1>4, <1>5, <1>6, <1>7, <1>8 DEF Inv

\* The position is poked; the button has not been looked at.
LEMMA PokeStep == Inv /\ (PokeTemp \/ PokeRaw) => Inv'
<1> SUFFICES ASSUME Inv, PokeTemp \/ PokeRaw PROVE Inv'
  OBVIOUS
<1>1. TypeOK
  BY DEF Inv
<1>2. /\ pc \in {"temp", "raw"} /\ pc' \in {"raw", "read"}
      /\ UNCHANGED <<newPosition, ui_devices, mode, oldBtn, MBSTATE, cursor, lastPosted,
                     raced, doubled, kernel, env, touched, real, switches>>
  BY DEF PokeTemp, PokeRaw
<1>3. newPosition.x \in Int
  <2>1. newPosition.x \in XS
    BY <1>1 DEF TypeOK
  <2>2. XS \subseteq Int
    BY MouseAssumption
  <2>3. QED BY <2>1, <2>2
<1>4. MTEMP' \in Int /\ RAWMOUSE' \in Int
  BY <1>1, <1>3 DEF TypeOK, PokeTemp, PokeRaw, RawPoked
<1>5. CRSRNEW' \in BOOLEAN
  BY <1>1 DEF TypeOK, PokeTemp, PokeRaw
<1>6. TypeOK'
  BY <1>1, <1>2, <1>4, <1>5 DEF TypeOK, kernel
<1>7. Way'
  BY <1>2 DEF Inv, Way
<1>8. Clicks' /\ Untouched' /\ Movement'
  BY <1>2 DEF Inv, Clicks, Untouched, Movement, kernel
<1>9. ClicksAlternate' /\ ButtonFollows' /\ PointerFollows'
  BY <1>2 DEF Inv, ClicksAlternate, ButtonFollows, PointerFollows
<1>10. QED BY <1>6, <1>7, <1>8, <1>9 DEF Inv

\* What the button was is remembered.
LEMMA ReadButtonStep == Inv /\ ReadButton => Inv'
<1> SUFFICES ASSUME Inv, ReadButton PROVE Inv'
  OBVIOUS
<1>1. TypeOK
  BY DEF Inv
<1>2. /\ pc = "read" /\ pc' = "button" /\ oldBtn' = MBSTATE
      /\ UNCHANGED <<newPosition, ui_devices, mode, MTEMP, RAWMOUSE, CRSRNEW, MBSTATE, cursor,
                     lastPosted, raced, doubled, kernel, env, touched, real, switches>>
  BY DEF ReadButton, ButtonNow
<1>3. TypeOK'
  BY <1>1, <1>2 DEF TypeOK, kernel
<1>4. Way'
  BY <1>2 DEF Inv, Way
<1>5. Clicks' /\ Untouched' /\ Movement'
  BY <1>2 DEF Inv, Clicks, Untouched, Movement, kernel
<1>6. ClicksAlternate' /\ ButtonFollows' /\ PointerFollows'
  BY <1>2 DEF Inv, ClicksAlternate, ButtonFollows, PointerFollows
<1>7. QED BY <1>3, <1>4, <1>5, <1>6 DEF Inv

\* The button is set if it is to change, and only then is an event still to be posted.
LEMMA SetButtonStep == Inv /\ SetButton => Inv'
<1> SUFFICES ASSUME Inv, SetButton PROVE Inv'
  OBVIOUS
<1>1. TypeOK /\ newBtn \in {"up", "down"}
  BY DEF Inv, newBtn
<1>2. /\ pc = "button" /\ oldBtn' = "up"
      /\ IF oldBtn # newBtn
           THEN MBSTATE' = newBtn /\ pc' = "post"
           ELSE pc' = "idle" /\ UNCHANGED MBSTATE
      /\ UNCHANGED <<newPosition, ui_devices, mode, MTEMP, RAWMOUSE, CRSRNEW, cursor,
                     lastPosted, raced, doubled, kernel, env, touched, real, switches>>
  BY DEF SetButton, ButtonChanges
<1>3. pc' \in {"post", "idle"} /\ MBSTATE' \in {"up", "down"} /\ newBtn' = newBtn
  BY <1>1, <1>2 DEF TypeOK, newBtn
<1>4. TypeOK'
  BY <1>1, <1>2, <1>3 DEF TypeOK, kernel
<1>5. Way'
  BY <1>2, <1>3 DEF Inv, Way
<1>6. Clicks'
  BY <1>2, <1>3 DEF Inv, Clicks
<1>7. Untouched' /\ Movement'
  BY <1>2, <1>3 DEF Inv, Untouched, Movement, kernel
<1>8. ClicksAlternate'
  BY <1>2 DEF Inv, ClicksAlternate
<1>9. ButtonFollows' /\ PointerFollows'
  <2>1. env = "mac"
    BY <1>2 DEF Inv, Way
  <2>2. pc' = "idle" /\ ~touched => MBSTATE' = newBtn
    BY <1>2 DEF Inv, Untouched
  <2>3. ButtonFollows'
    BY <1>2, <1>3, <2>1, <2>2 DEF ButtonFollows
  <2>4. ~lost => pointer = mouse_x
    BY DEF Inv, Movement
  <2>5. PointerFollows'
    BY <1>2, <2>1, <2>4 DEF PointerFollows, kernel
  <2>6. QED BY <2>3, <2>5
<1>10. QED BY <1>4, <1>5, <1>6, <1>7, <1>8, <1>9 DEF Inv

\* The event posted is the opposite of the one before.
LEMMA PostEventStep == Inv /\ PostEvent => Inv'
<1> SUFFICES ASSUME Inv, PostEvent PROVE Inv'
  OBVIOUS
<1>1. TypeOK /\ newBtn \in {"up", "down"}
  BY DEF Inv, newBtn
<1>2. /\ pc = "post" /\ pc' = "idle"
      /\ lastPosted' = newBtn /\ doubled' = (doubled \/ lastPosted = newBtn)
      /\ UNCHANGED <<newPosition, ui_devices, mode, oldBtn, MTEMP, RAWMOUSE, CRSRNEW, MBSTATE,
                     cursor, raced, kernel, env, touched, real, switches>>
  BY DEF PostEvent, Posted, ButtonEvent, newBtn
<1>3. newBtn' = newBtn /\ doubled' \in BOOLEAN
  BY <1>2 DEF newBtn
<1>4. TypeOK'
  BY <1>1, <1>2, <1>3 DEF TypeOK, kernel
<1>5. Way'
  BY <1>2 DEF Inv, Way
<1>6. Clicks' /\ ClicksAlternate'
  BY <1>2, <1>3 DEF Inv, Clicks, ClicksAlternate
<1>7. Untouched' /\ Movement'
  BY <1>2 DEF Inv, Untouched, Movement, kernel
<1>8. ButtonFollows' /\ PointerFollows'
  <2>1. env = "mac"
    BY <1>2 DEF Inv, Way
  <2>2. ~touched => MBSTATE = newBtn
    BY <1>2 DEF Inv, Untouched
  <2>3. ButtonFollows'
    BY <1>2, <1>3, <2>1, <2>2 DEF ButtonFollows
  <2>4. ~lost => pointer = mouse_x
    BY DEF Inv, Movement
  <2>5. PointerFollows'
    BY <1>2, <2>1, <2>4 DEF PointerFollows, kernel
  <2>6. QED BY <2>3, <2>5
<1>9. QED BY <1>4, <1>5, <1>6, <1>7, <1>8 DEF Inv

\* How far to move is worked out from where the driver has the pointer.
LEMMA MoveStep == Inv /\ Move => Inv'
<1> SUFFICES ASSUME Inv, Move PROVE Inv'
  OBVIOUS
<1>1. TypeOK
  BY DEF Inv
<1>2. /\ pc = "move" /\ pc' = "call" /\ dx' = newPosition.x - mouse_x
      /\ UNCHANGED <<newPosition, ui_devices, mode, mac, mouse_x, mouse_button, pointer,
                     pressed, lost, env, touched, real, switches>>
  BY DEF Move, LastX
<1>3. dx' \in Int
  BY <1>1, <1>2, MouseAssumption DEF TypeOK
<1>4. TypeOK'
  BY <1>1, <1>2, <1>3 DEF TypeOK, mac
<1>5. Way'
  BY <1>2 DEF Inv, Way
<1>6. Clicks' /\ Untouched'
  BY <1>2 DEF Inv, Clicks, Untouched, mac
<1>7. Movement'
  BY <1>2 DEF Inv, Movement
<1>8. ClicksAlternate' /\ ButtonFollows' /\ PointerFollows'
  BY <1>2 DEF Inv, ClicksAlternate, ButtonFollows, PointerFollows, mac
<1>9. QED BY <1>4, <1>5, <1>6, <1>7, <1>8 DEF Inv

\* The movement reaches the receiver as it was, or is lost.
LEMMA CallStep == Inv /\ Call => Inv'
<1> SUFFICES ASSUME Inv, Call PROVE Inv'
  OBVIOUS
<1>1. TypeOK
  BY DEF Inv
<1>2. /\ pc = "call" /\ pc' = "idle" /\ dx' = 0
      /\ mouse_x' = newPosition.x /\ mouse_button' = newPosition.button
      /\ IF mode
           THEN pointer' = pointer + SixBits(dx) /\ pressed' = newPosition.button
           ELSE UNCHANGED <<pointer, pressed>>
      /\ lost' = (lost \/ dx # IF mode THEN SixBits(dx) ELSE 0)
      /\ UNCHANGED <<newPosition, ui_devices, mode, mac, env, touched, real, switches>>
  BY DEF Call
<1>3. newPosition.x \in Int /\ newPosition.button \in BOOLEAN /\ lost' \in BOOLEAN
  BY <1>1, <1>2, MouseAssumption DEF TypeOK
<1>4. pointer' \in Int
  BY <1>1, <1>2 DEF TypeOK, SixBits
<1>5. pressed' \in BOOLEAN
  BY <1>1, <1>2, <1>3 DEF TypeOK
<1>6. TypeOK'
  BY <1>1, <1>2, <1>3, <1>4, <1>5 DEF TypeOK, mac
<1>7. Way'
  BY <1>2 DEF Way
<1>8. Clicks' /\ Untouched'
  BY <1>2 DEF Inv, Clicks, Untouched, mac
<1>9. ~lost' => pointer' = mouse_x' /\ (env = "receiver" => pointer' = newPosition.x)
  <2>1. SUFFICES ASSUME ~lost' PROVE pointer' = newPosition.x
    BY <1>2
  <2>2. pointer = mouse_x /\ dx = newPosition.x - mouse_x
    BY <1>2, <2>1 DEF Inv, Movement
  <2>3. dx = IF mode THEN SixBits(dx) ELSE 0
    BY <1>2, <2>1
  <2>4. pointer \in Int /\ mouse_x \in Int /\ newPosition.x \in Int /\ dx \in Int
    BY <1>1, <1>3 DEF TypeOK
  <2>5. CASE mode
    BY <1>2, <2>2, <2>3, <2>4, <2>5
  <2>6. CASE ~mode
    BY <1>2, <2>2, <2>3, <2>4, <2>6
  <2>7. QED BY <2>5, <2>6
<1>10. Movement' /\ PointerFollows'
  BY <1>2, <1>9 DEF Movement, PointerFollows
<1>11. ClicksAlternate'
  BY <1>2 DEF Inv, ClicksAlternate, mac
<1>12. ButtonFollows'
  <2>1. env # "mac" /\ (env = "receiver" => mode)
    BY <1>2 DEF Inv, Way
  <2>2. QED BY <1>2, <2>1 DEF ButtonFollows
<1>13. QED BY <1>6, <1>7, <1>8, <1>10, <1>11, <1>12 DEF Inv

\* The Mac's cursor task runs.
LEMMA CursorTaskStep == Inv /\ CursorTask => Inv'
<1> SUFFICES ASSUME Inv, CursorTask PROVE Inv'
  OBVIOUS
<1>1. TypeOK
  BY DEF Inv
<1>2. /\ CRSRNEW' = FALSE /\ touched' = (touched \/ pc = "raw")
      /\ UNCHANGED <<pc, newPosition, ui_devices, mode, oldBtn, MBSTATE, lastPosted, raced,
                     doubled, kernel, env, real, switches>>
  BY DEF CursorTask
<1>3. cursor' \in Int /\ MTEMP' \in Int /\ RAWMOUSE' \in Int
  BY <1>1 DEF CursorTask, TypeOK
<1>4. touched' \in BOOLEAN /\ (~touched' => ~touched) /\ CRSRNEW' \in BOOLEAN
  BY <1>2
<1>5. TypeOK'
  BY <1>1, <1>2, <1>3, <1>4 DEF TypeOK, kernel
<1>6. Way' /\ Clicks' /\ Movement'
  BY <1>2 DEF Inv, Way, Clicks, Movement, newBtn, kernel
<1>7. Untouched'
  BY <1>2, <1>4 DEF Inv, Untouched, newBtn
<1>8. ClicksAlternate' /\ ButtonFollows' /\ PointerFollows'
  BY <1>2, <1>4 DEF Inv, ClicksAlternate, ButtonFollows, PointerFollows, newBtn, kernel
<1>9. QED BY <1>5, <1>6, <1>7, <1>8 DEF Inv

\* Somebody moves the real mouse.
LEMMA RealMoveStep ==
  ASSUME Inv, NEW d \in RealMoves, RealMove(d)
  PROVE  Inv'
<1>1. TypeOK
  BY DEF Inv
<1>2. /\ touched' = TRUE /\ real < MaxReal /\ real' = real + 1
      /\ IF ui_devices
           THEN /\ MTEMP' = MTEMP + d /\ CRSRNEW' = TRUE
                /\ UNCHANGED <<mouse_x, pointer, lost>>
           ELSE /\ mouse_x' = mouse_x + d /\ pointer' = pointer + d
                /\ lost' = (lost \/ pc = "call")
                /\ UNCHANGED <<MTEMP, CRSRNEW>>
      /\ UNCHANGED <<pc, newPosition, ui_devices, mode, oldBtn, RAWMOUSE, MBSTATE, cursor,
                     lastPosted, raced, doubled, dx, mouse_button, pressed, env, switches>>
  BY DEF RealMove, ByHand
<1>3. d \in Int
  BY MouseAssumption
<1>4. MTEMP' \in Int /\ mouse_x' \in Int /\ pointer' \in Int
  BY <1>1, <1>2, <1>3 DEF TypeOK
<1>5. CRSRNEW' \in BOOLEAN /\ lost' \in BOOLEAN
  BY <1>1, <1>2 DEF TypeOK
<1>6. real' \in 0 .. MaxReal
  BY <1>1, <1>2, MouseAssumption DEF TypeOK
<1>7. TypeOK'
  BY <1>1, <1>2, <1>4, <1>5, <1>6 DEF TypeOK
<1>8. Way' /\ Clicks' /\ Untouched'
  BY <1>2 DEF Inv, Way, Clicks, Untouched, newBtn
<1>9. Movement'
  <2>1. pc = "call" => ~ui_devices
    BY DEF Inv, Way
  <2>2. QED BY <1>2, <2>1 DEF Inv, Movement
<1>10. ClicksAlternate' /\ ButtonFollows'
  BY <1>2 DEF Inv, ClicksAlternate, ButtonFollows
<1>11. PointerFollows'
  BY <1>2, <1>9 DEF PointerFollows, Movement
<1>12. QED BY <1>7, <1>8, <1>9, <1>10, <1>11 DEF Inv

\* Somebody uses the button of the real mouse.
LEMMA RealButtonStep == Inv /\ RealButton => Inv'
<1> SUFFICES ASSUME Inv, RealButton PROVE Inv'
  OBVIOUS
<1>1. TypeOK
  BY DEF Inv
<1>2. /\ touched' = TRUE /\ real < MaxReal /\ real' = real + 1
      /\ MBSTATE' = Other(MBSTATE)
      /\ lastPosted' = Other(MBSTATE) /\ doubled' = (doubled \/ lastPosted = Other(MBSTATE))
      /\ raced' = (raced \/ pc \in {"button", "post"})
      /\ UNCHANGED <<pc, newPosition, ui_devices, mode, oldBtn, MTEMP, RAWMOUSE, CRSRNEW,
                     cursor, kernel, env, switches>>
  BY DEF RealButton, ByHand, Posted
<1>3. Other(MBSTATE) \in {"up", "down"} /\ Other(MBSTATE) # MBSTATE
  BY <1>1 DEF TypeOK, Other
<1>4. doubled' \in BOOLEAN /\ raced' \in BOOLEAN
  BY <1>2
<1>5. real' \in 0 .. MaxReal
  BY <1>1, <1>2, MouseAssumption DEF TypeOK
<1>6. TypeOK'
  BY <1>1, <1>2, <1>3, <1>4, <1>5 DEF TypeOK, kernel
<1>7. Way' /\ Untouched' /\ Movement'
  BY <1>2 DEF Inv, Way, Untouched, Movement, kernel
<1>8. Clicks' /\ ClicksAlternate'
  BY <1>2, <1>3 DEF Inv, Clicks, ClicksAlternate
<1>9. ButtonFollows' /\ PointerFollows'
  BY <1>2 DEF Inv, ButtonFollows, PointerFollows, kernel
<1>10. QED BY <1>6, <1>7, <1>8, <1>9 DEF Inv

\* The devices, or the movements of the mouse, change hands between two events.
LEMMA SwitchStep == Inv /\ (SwitchDevices \/ SwitchMode) => Inv'
<1> SUFFICES ASSUME Inv, SwitchDevices \/ SwitchMode PROVE Inv'
  OBVIOUS
<1>1. TypeOK
  BY DEF Inv
<1>2. /\ pc = "idle" /\ switches < MaxSwitches /\ switches' = switches + 1
      /\ UNCHANGED <<pc, newPosition, mac, kernel, env, touched, real>>
  BY DEF SwitchDevices, SwitchMode, Switching
<1>3. ui_devices' \in BOOLEAN /\ mode' \in BOOLEAN
  BY <1>1 DEF TypeOK, SwitchDevices, SwitchMode
<1>4. switches' \in 0 .. MaxSwitches
  BY <1>1, <1>2, MouseAssumption DEF TypeOK
<1>5. TypeOK'
  BY <1>1, <1>2, <1>3, <1>4 DEF TypeOK, mac, kernel
<1>6. Way' /\ Clicks' /\ Untouched' /\ Movement'
  BY <1>2 DEF Inv, Way, Clicks, Untouched, Movement, newBtn, mac, kernel
<1>7. ClicksAlternate' /\ ButtonFollows' /\ PointerFollows'
  BY <1>2 DEF Inv, ClicksAlternate, ButtonFollows, PointerFollows, newBtn, mac, kernel
<1>8. QED BY <1>5, <1>6, <1>7 DEF Inv

\* A step that changes nothing.
LEMMA Stutter == Inv /\ UNCHANGED vars => Inv'
<1> SUFFICES ASSUME Inv, UNCHANGED vars PROVE Inv'
  OBVIOUS
<1> USE DEF vars, mac, kernel
<1>1. TypeOK'
  BY DEF Inv, TypeOK
<1>2. Way' /\ Clicks' /\ Untouched' /\ Movement'
  BY DEF Inv, Way, Clicks, Untouched, Movement, newBtn
<1>3. ClicksAlternate' /\ ButtonFollows' /\ PointerFollows'
  BY DEF Inv, ClicksAlternate, ButtonFollows, PointerFollows, newBtn
<1>4. QED BY <1>1, <1>2, <1>3 DEF Inv

(***************************************************************************)
(* Every state satisfies Inv: every step of fb_move_mouse_to and           *)
(* fb_ui_mouse preserves it, and so does whatever interrupts them.         *)
(***************************************************************************)
THEOREM Invariance == Spec => []Inv
<1>1. Init => Inv
  BY Start
<1>2. Inv /\ [Next]_vars => Inv'
  BY PointerStep, PokeStep, ReadButtonStep, SetButtonStep, PostEventStep, MoveStep, CallStep,
     CursorTaskStep, RealMoveStep, RealButtonStep, SwitchStep, Stutter DEF Next, fb_ui_mouse
<1>3. QED BY <1>1, <1>2, PTL DEF Spec

(***************************************************************************)
(* Every variable keeps its type; what fb_ui_mouse pokes into MBSTATE is   *)
(* up or down.                                                             *)
(***************************************************************************)
THEOREM TypeCorrect == Spec => []TypeOK
<1>1. Inv => TypeOK
  BY DEF Inv
<1>2. QED BY <1>1, Invariance, PTL

(***************************************************************************)
(* The Mac's programs see presses and releases in turns, unless the real   *)
(* button interrupts fb_ui_mouse between its reading of MBSTATE and its    *)
(* posting.                                                                *)
(***************************************************************************)
THEOREM Alternating == Spec => []ClicksAlternate
<1>1. Inv => ClicksAlternate
  BY DEF Inv
<1>2. QED BY <1>1, Invariance, PTL

(***************************************************************************)
(* Whoever got the last event, the Mac environment or the receiver of the  *)
(* movements, has the client's button, whatever came before.               *)
(***************************************************************************)
THEOREM ButtonRight == Spec => []ButtonFollows
<1>1. Inv => ButtonFollows
  BY DEF Inv
<1>2. QED BY <1>1, Invariance, PTL

(***************************************************************************)
(* As long as no movement is lost, the receiver's pointer is where the     *)
(* driver remembers it (mouse_x), and after an event where the client has  *)
(* its own.                                                                *)
(***************************************************************************)
THEOREM PointerRight == Spec => []PointerFollows
<1>1. Inv => PointerFollows
  BY DEF Inv
<1>2. QED BY <1>1, Invariance, PTL

====

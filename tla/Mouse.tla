------------------------------- MODULE Mouse -------------------------------
(***************************************************************************)
(* A pointer event on its way to the Mac: vnc_evt_pointer (app/session.c)  *)
(* and fb_move_mouse_to with what it calls (kernel/src/fb.c).  When the    *)
(* Mac environment has the input devices, the driver pokes its low-memory  *)
(* globals; else it plays the part of the mouse for whoever receives its   *)
(* movements.  A real mouse and the Mac's cursor task interrupt it at any  *)
(* point; a system call is not preempted, so nobody else does.             *)
(*                                                                         *)
(* Only x is modelled: y is handled the same way next to it.               *)
(***************************************************************************)
EXTENDS Integers

CONSTANTS
  XS,         \* the positions on the screen a client moves to
  RealMoves,  \* how far the real mouse moves at a time
  MaxReal,    \* how many things the real mouse does (a bound)
  MaxSwitches \* how often the devices or the mouse mode are switched (a bound)

ASSUME MouseAssumption ==
  /\ XS \subseteq Nat /\ 0 \in XS
  /\ RealMoves \subseteq 1 .. 31
  /\ {MaxReal, MaxSwitches} \subseteq Nat

VARIABLES
  pc,            \* where fb_move_mouse_to is
  newPosition,   \* the event in hand, or the last one: struct fb_mouse
  ui_devices,    \* whether the Mac environment has the devices
  oldBtn,        \* as in fb_ui_mouse ("up" when out of use)
  MTEMP, RAWMOUSE, CRSRNEW, MBSTATE,  \* the Mac's low-memory globals
  cursor,        \* where the Mac shows its cursor
  lastPosted,    \* the last event in the Mac's event queue
  mode,          \* whether somebody receives the movements of the mouse
  dx,            \* as in fb_move_mouse_to
  mouse_x, mouse_button,
  pointer, pressed,   \* what the receiver makes of the movements
  \* What happened, for the properties:
  env,           \* who got the last event: the Mac environment, the receiver, nobody
  touched,       \* the last event was interrupted, or the real mouse used since
  raced,         \* an interrupt once came between oldBtn and the posting
  doubled,       \* two presses or two releases were posted in a row
  lost,          \* a movement did not reach the receiver as it was
  real, switches \* how often the others did something

mac == <<oldBtn, MTEMP, RAWMOUSE, CRSRNEW, MBSTATE, cursor, lastPosted, raced, doubled>>
kernel == <<dx, mouse_x, mouse_button, pointer, pressed, lost>>
vars == <<pc, newPosition, ui_devices, mode, mac, kernel, env, touched, real, switches>>

-----------------------------------------------------------------------------

Init ==
  /\ pc = "idle"
  /\ newPosition = [x |-> 0, button |-> FALSE]
  /\ ui_devices \in BOOLEAN
  /\ oldBtn = "up" /\ MBSTATE = "up" /\ lastPosted = "up"
  /\ MTEMP = 0 /\ RAWMOUSE = 0 /\ cursor = 0 /\ CRSRNEW = FALSE
  /\ mode \in BOOLEAN
  /\ dx = 0
  /\ mouse_x = 0 /\ mouse_button = FALSE
  /\ pointer = 0 /\ pressed = FALSE
  /\ env = "nobody" /\ touched = FALSE /\ raced = FALSE /\ doubled = FALSE
  /\ lost = FALSE /\ real = 0 /\ switches = 0

-----------------------------------------------------------------------------
\* Whichever button is pressed, and a turn of the wheel too, is the button.
Button(btnMask) == btnMask # {}

\* vnc_evt_pointer, and fb_move_mouse_to up to the one or the other way.
Pointer(x, btnMask) ==
  /\ pc = "idle"
  /\ newPosition' = [x |-> x, button |-> Button(btnMask)]
  /\ touched' = FALSE
  /\ IF ui_devices
       THEN pc' = "temp" /\ env' = "mac"
       ELSE pc' = "move" /\ env' = IF mode THEN "receiver" ELSE "nobody"
  /\ UNCHANGED <<ui_devices, mode, mac, kernel, real, switches>>

-----------------------------------------------------------------------------
\* fb_ui_mouse: the position, twice, and the cursor to be drawn.
PokeTemp ==
  /\ pc = "temp"
  /\ MTEMP' = newPosition.x
  /\ pc' = "raw"
  /\ UNCHANGED <<newPosition, ui_devices, mode, oldBtn, RAWMOUSE, CRSRNEW, MBSTATE, cursor,
                 lastPosted, raced, doubled, kernel, env, touched, real, switches>>

\* Mutant: RAWMOUSE is left to the cursor task.
RawLeft == RAWMOUSE

RawPoked == newPosition.x

\* Applications hardly ever uncouple the cursor: CRSRCOUPLE is set.
PokeRaw ==
  /\ pc = "raw"
  /\ RAWMOUSE' = RawPoked
  /\ CRSRNEW' = TRUE
  /\ pc' = "read"
  /\ UNCHANGED <<newPosition, ui_devices, mode, oldBtn, MTEMP, MBSTATE, cursor, lastPosted,
                 raced, doubled, kernel, env, touched, real, switches>>

\* Mutant: the button is compared with what the driver last heard of it.
ButtonHeard == IF mouse_button THEN "down" ELSE "up"

ButtonNow == MBSTATE

ReadButton ==
  /\ pc = "read"
  /\ oldBtn' = ButtonNow
  /\ pc' = "button"
  /\ UNCHANGED <<newPosition, ui_devices, mode, MTEMP, RAWMOUSE, CRSRNEW, MBSTATE, cursor,
                 lastPosted, raced, doubled, kernel, env, touched, real, switches>>

newBtn == IF newPosition.button THEN "down" ELSE "up"

\* Mutant: each event with a button is posted.
AnyEvent == TRUE

ButtonChanges == oldBtn # newBtn

SetButton ==
  /\ pc = "button"
  /\ IF ButtonChanges
       THEN MBSTATE' = newBtn /\ pc' = "post"
       ELSE pc' = "idle" /\ UNCHANGED MBSTATE
  /\ oldBtn' = "up"
  /\ UNCHANGED <<newPosition, ui_devices, mode, MTEMP, RAWMOUSE, CRSRNEW, cursor,
                 lastPosted, raced, doubled, kernel, env, touched, real, switches>>

Posted(what) == lastPosted' = what /\ doubled' = (doubled \/ lastPosted = what)

\* Mutant: what follows mouseDown and mouseUp in events.h is posted for a release.
NextEvent == IF newPosition.button THEN "down" ELSE "key"

\* mouseDown or mouseUp
ButtonEvent == IF newPosition.button THEN "down" ELSE "up"

\* UI_postevent(0, active, mouseDown or mouseUp, 0)
PostEvent ==
  /\ pc = "post"
  /\ Posted(ButtonEvent)
  /\ pc' = "idle"
  /\ UNCHANGED <<newPosition, ui_devices, mode, oldBtn, MTEMP, RAWMOUSE, CRSRNEW, MBSTATE,
                 cursor, raced, kernel, env, touched, real, switches>>

-----------------------------------------------------------------------------
\* Mutant: the driver remembers no position.
FromNowhere == 0

LastX == mouse_x

\* How the receiver reads six bits: as a number in two's complement.
SixBits(n) == IF n % 64 < 32 THEN n % 64 ELSE (n % 64) - 64

\* fb_move_mouse_to: the mode and the callback, and how far to move.
Move ==
  /\ pc = "move"
  /\ dx' = newPosition.x - LastX
  /\ pc' = "call"
  /\ UNCHANGED <<newPosition, ui_devices, mode, mac, mouse_x, mouse_button, pointer, pressed,
                 lost, env, touched, real, switches>>

\* The position is remembered; where somebody receives the mouse, the word is made
\* and handed to the callback, which reads it.
Call ==
  /\ pc = "call"
  /\ mouse_x' = newPosition.x
  /\ mouse_button' = newPosition.button
  /\ IF mode
       THEN pointer' = pointer + SixBits(dx) /\ pressed' = newPosition.button
       ELSE UNCHANGED <<pointer, pressed>>
  /\ lost' = (lost \/ dx # IF mode THEN SixBits(dx) ELSE 0)
  /\ dx' = 0
  /\ pc' = "idle"
  /\ UNCHANGED <<newPosition, ui_devices, mode, mac, env, touched, real, switches>>

-----------------------------------------------------------------------------
\* The Mac's cursor task.  A difference between MTEMP and RAWMOUSE is a movement
\* of the mouse, which it speeds up.
CursorTask ==
  /\ CRSRNEW
  /\ LET to == MTEMP + (MTEMP - RAWMOUSE)
     IN cursor' = to /\ MTEMP' = to /\ RAWMOUSE' = to
  /\ CRSRNEW' = FALSE
  /\ touched' = (touched \/ pc = "raw")
  /\ UNCHANGED <<pc, newPosition, ui_devices, mode, oldBtn, MBSTATE, lastPosted, raced,
                 doubled, kernel, env, real, switches>>

ByHand == real < MaxReal /\ real' = real + 1 /\ touched' = TRUE

\* Somebody moves the Mac's own mouse ...
RealMove(d) ==
  /\ ByHand
  /\ IF ui_devices
       THEN /\ MTEMP' = MTEMP + d /\ CRSRNEW' = TRUE
            /\ UNCHANGED <<mouse_x, pointer, lost>>
       ELSE /\ mode
            /\ mouse_x' = mouse_x + d /\ pointer' = pointer + d
            /\ lost' = (lost \/ pc = "call")
            /\ UNCHANGED <<MTEMP, CRSRNEW>>
  /\ UNCHANGED <<pc, newPosition, ui_devices, mode, oldBtn, RAWMOUSE, MBSTATE, cursor,
                 lastPosted, raced, doubled, dx, mouse_button, pressed, env, switches>>

Other(b) == IF b = "up" THEN "down" ELSE "up"

\* ... or its button.
RealButton ==
  /\ ByHand
  /\ ui_devices
  /\ MBSTATE' = Other(MBSTATE)
  /\ Posted(Other(MBSTATE))
  /\ raced' = (raced \/ pc \in {"button", "post"})
  /\ UNCHANGED <<pc, newPosition, ui_devices, mode, oldBtn, MTEMP, RAWMOUSE, CRSRNEW, cursor,
                 kernel, env, switches>>

Switching == pc = "idle" /\ switches < MaxSwitches /\ switches' = switches + 1

\* The Mac environment takes the devices or gives them back.
SwitchDevices ==
  /\ Switching
  /\ ui_devices' = ~ui_devices
  /\ UNCHANGED <<pc, newPosition, mode, mac, kernel, env, touched, real>>

\* A program, the X server for instance, begins or ends to receive the mouse.
SwitchMode ==
  /\ Switching
  /\ mode' = ~mode
  /\ UNCHANGED <<pc, newPosition, ui_devices, mac, kernel, env, touched, real>>

-----------------------------------------------------------------------------

fb_ui_mouse == PokeTemp \/ PokeRaw \/ ReadButton \/ SetButton \/ PostEvent

Next ==
  \/ \E x \in XS, btnMask \in {{}, {"left"}, {"wheel up"}} : Pointer(x, btnMask)
  \/ fb_ui_mouse
  \/ Move
  \/ Call
  \/ CursorTask
  \/ \E d \in RealMoves : RealMove(d)
  \/ RealButton
  \/ SwitchDevices
  \/ SwitchMode

\* A system call comes to its end, and the cursor task runs at each vertical retrace.
Spec ==
  /\ Init /\ [][Next]_vars
  /\ WF_vars(fb_ui_mouse \/ Move \/ Call)
  /\ WF_vars(CursorTask)

-----------------------------------------------------------------------------
\* Every variable has its type; a button is up or down.
TypeOK ==
  /\ pc \in {"idle", "temp", "raw", "read", "button", "post", "move", "call"}
  /\ newPosition \in [x : XS, button : BOOLEAN]
  /\ ui_devices \in BOOLEAN /\ mode \in BOOLEAN /\ CRSRNEW \in BOOLEAN
  /\ mouse_button \in BOOLEAN /\ pressed \in BOOLEAN /\ touched \in BOOLEAN
  /\ raced \in BOOLEAN /\ doubled \in BOOLEAN /\ lost \in BOOLEAN
  /\ oldBtn \in {"up", "down"} /\ MBSTATE \in {"up", "down"} /\ lastPosted \in {"up", "down"}
  /\ MTEMP \in Int /\ RAWMOUSE \in Int /\ cursor \in Int
  /\ mouse_x \in Int /\ pointer \in Int /\ dx \in Int
  /\ env \in {"nobody", "mac", "receiver"}
  /\ real \in 0 .. MaxReal /\ switches \in 0 .. MaxSwitches

(***************************************************************************)
(* The Mac's programs see presses and releases in turns, however events of *)
(* a client and of the real mouse mix and the devices go to and fro,       *)
(* unless the real button interrupts fb_ui_mouse where it has read MBSTATE *)
(* and not yet posted (fb.c:267-284).                                      *)
(***************************************************************************)
ClicksAlternate == doubled => raced

(***************************************************************************)
(* Who got the last event has the client's button, whatever the button was *)
(* in an earlier session, by the real mouse, or with the devices elsewhere *)
(* (the test of MBSTATE, fb.c:275, and bit 15 of the word, fb.c:317).      *)
(***************************************************************************)
ButtonFollows ==
  pc = "idle" /\ ~touched =>
    /\ env = "mac" => MBSTATE = newBtn
    /\ env = "receiver" => pressed = newPosition.button

(***************************************************************************)
(* The receiver's pointer and the driver's idea of it drift apart only     *)
(* through movements that six bits or a mode of 0 keep from the receiver,  *)
(* or that the real mouse makes between the reading of mouse_x and its     *)
(* setting (fb.c:309-323): in particular not while the Mac environment has *)
(* the devices and mouse_x stays behind.                                   *)
(***************************************************************************)
PointerFollows ==
  pc = "idle" /\ ~lost =>
    /\ pointer = mouse_x
    /\ env = "receiver" /\ ~touched => pointer = newPosition.x

(***************************************************************************)
(* "This means we get proper absolute mouse positioning in the mac         *)
(* environment" (fb.c:248-251): the cursor comes to where the client has   *)
(* its own, unless something interrupts or follows the event.              *)
(***************************************************************************)
CursorFollows ==
  pc = "idle" /\ env = "mac" ~>
    \/ cursor = newPosition.x
    \/ touched
    \/ pc # "idle"
=============================================================================

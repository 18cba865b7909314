------------------------------ MODULE Keyboard ------------------------------
(***************************************************************************)
(* The keyboard of a session: the key events of the client, what           *)
(* vnc_evt_key makes of them, and the Mac that receives the codes one      *)
(* ioctl at a time, in a keyboard mode that programs on the Mac may change *)
(* between any two ioctls.                                                 *)
(*                                                                         *)
(* A keysym is <<"key", code>>, a special key with its ADB code, or        *)
(* <<"char", mr>>, with the MacRoman character keysym_to_macroman gives.   *)
(***************************************************************************)
EXTENDS Kchr

CONSTANTS
  Layouts,     \* the layouts the Mac may use
  Keysyms,     \* the keys of the client
  KeyModes,    \* the modes programs on the Mac put the keyboard in
  MaxTyped,    \* bound: characters typed
  MaxChanges   \* bound: changes of mode or layout, and sessions

VARIABLES
  layout,      \* the layout of the Mac
  mode,        \* the mode of the Mac's keyboard
  macDown,     \* the keys the Mac believes to be down
  pending,     \* the dead key the Mac has seen, 0 if none
  typed,       \* the characters the Mac's programs got
  kchr,        \* sess.kchr
  codes,       \* what the handler of the last event has still to send
  held,        \* the keys the client holds down
  meant,       \* the characters the client's user typed
  changes,     \* how many changes there were
  disturbed,   \* a change came while keys were down, or went unnoticed
  careful      \* the user has typed with care so far

mac == <<layout, mode, macDown, pending, typed>>
vars == <<mac, kchr, codes, held, meant, changes, disturbed, careful>>

COMMAND == 55
SHIFT == 56
LOCK == 57
OPTION == 58
CTRL == 59
RETURN == 36

ModifierKeys == {COMMAND, SHIFT, LOCK, OPTION, CTRL}

ASSUME KeyboardAssumption ==
  /\ Layouts # {}
  /\ \A k \in Layouts : IsLayout(k) /\ \A key \in ModifierKeys : Silent(k, key)
  /\ Keysyms \subseteq {"key"} \X (0 .. 127) \cup {"char"} \X Chars
  /\ KeyModes # {} /\ KeyModes \subseteq {"ARAW", "ASCII", "RAW"}
  /\ MaxTyped \in Nat /\ MaxChanges \in Nat

-----------------------------------------------------------------------------
(***************************************************************************)
(* From a keysym to keycodes.                                              *)
(***************************************************************************)
keysym_special_to_keypresses(s) == IF s[1] = "key" THEN <<s[2]>> ELSE <<>>

\* The special keys have no MacRoman character.
keysym_to_macroman(s) == IF s[1] = "char" THEN s[2] ELSE 0

HasModifier(modifiers, key) == (modifiers \div 2 ^ (key - COMMAND)) % 2 = 1

IfNeeded(vk, key) == IF HasModifier(vk.modifiers, key) THEN <<key>> ELSE <<>>

vkey_to_keypresses(vk) ==
  IF vk.valid
    THEN IfNeeded(vk, COMMAND) \o IfNeeded(vk, SHIFT) \o IfNeeded(vk, LOCK)
           \o IfNeeded(vk, OPTION) \o IfNeeded(vk, CTRL) \o <<vk.keycode>>
    ELSE <<>>

do_key_down(kp) == kp

do_key_up(kp) == [i \in DOMAIN kp |-> Reverse(kp)[i] + 128]

\* The codes of a key event in ARAW mode: special keys as they are, characters
\* by the keys of the layout; return is released at once.
PressCodes(s) ==
  LET kp  == keysym_special_to_keypresses(s)
      kc  == kchr_keys_for_char(kchr, keysym_to_macroman(s))
      fst == vkey_to_keypresses(kc.fst)
      snd == vkey_to_keypresses(kc.snd)
  IN  CASE kp # <<>> -> do_key_down(kp)
        [] kp = <<>> /\ kc.snd.valid -> do_key_down(fst) \o do_key_up(fst) \o do_key_down(snd)
        [] kp = <<>> /\ ~kc.snd.valid /\ kc.fst.keycode = RETURN ->
             do_key_down(fst) \o do_key_up(fst)
        [] OTHER -> do_key_down(fst)

\* Mutant: a key that was pressed with modifiers is released without them.
ReleaseCodes_key_only(s) ==
  LET kc == kchr_keys_for_char(kchr, keysym_to_macroman(s))
  IN  IF keysym_special_to_keypresses(s) # <<>>
        THEN do_key_up(keysym_special_to_keypresses(s))
        ELSE IF kc.fst.valid THEN <<kc.fst.keycode + 128>> ELSE <<>>

ReleaseCodes(s) ==
  LET kp  == keysym_special_to_keypresses(s)
      kc  == kchr_keys_for_char(kchr, keysym_to_macroman(s))
  IN  CASE kp # <<>> -> do_key_up(kp)
        [] kp = <<>> /\ kc.snd.valid -> do_key_up(vkey_to_keypresses(kc.snd))
        [] kp = <<>> /\ ~kc.snd.valid /\ kc.fst.keycode = RETURN -> <<>>
        [] OTHER -> do_key_up(vkey_to_keypresses(kc.fst))

vnc_evt_key_araw(s, down) ==
  [kind |-> "scancodes", todo |-> IF down THEN PressCodes(s) ELSE ReleaseCodes(s)]

\* Mutant: characters beyond ASCII are sent too.
vnc_evt_key_ascii_all(s, down) ==
  [kind |-> "characters", todo |-> IF down THEN <<keysym_to_macroman(s)>> ELSE <<>>]

vnc_evt_key_ascii(s, down) ==
  [kind |-> "characters",
   todo |-> IF down /\ keysym_to_macroman(s) <= 127 THEN <<keysym_to_macroman(s)>> ELSE <<>>]

kb_mode == mode

\* The handler asks for the mode once, then the codes go out one by one.  RAW
\* stands for every mode the daemon does not support, ASCII also for MAC.
vnc_evt_key(s, down) ==
  CASE kb_mode = "ARAW" -> vnc_evt_key_araw(s, down)
    [] kb_mode = "ASCII" -> vnc_evt_key_ascii(s, down)
    [] OTHER -> [kind |-> "none", todo |-> <<>>]

Idle == codes.todo = <<>>

-----------------------------------------------------------------------------
(***************************************************************************)
(* The client, on which keys may overlap, repeat and come in any order.    *)
(* With care is how one types with one finger on a keyboard labelled like  *)
(* the Mac's: one character at a time, no character that takes two keys is *)
(* repeated, the modifiers held are among those the Mac's key needs, and   *)
(* of the special keys only those that give no character are pressed.      *)
(***************************************************************************)
HeldChars == {s \in held : s[1] = "char"}

Required(c) ==
  IF Places(layout, c) = {} THEN {}
  ELSE {key \in ModifierKeys : HasModifier(FirstTo(layout, FirstPlace(layout, c)[1]), key)}

WithCare(s) ==
  /\ s[1] = "key" => Silent(layout, s[2])
  /\ s[1] = "char" =>
       /\ HeldChars \subseteq {s}
       /\ s \notin held \/ Places(layout, s[2]) # {}
       /\ \A key \in ModifierKeys : <<"key", key>> \in held => key \in Required(s[2])

\* What the user means to type: every character that the layout, or ASCII, has.
MacTypes(k, c) == c # 0 /\ (Places(k, c) # {} \/ Ways(k, c) # {})

Meant(s) ==
  IF /\ s[1] = "char"
     /\ \/ mode = "ARAW" /\ MacTypes(layout, s[2])
        \/ mode = "ASCII" /\ s[2] \in 1 .. 127
    THEN <<s[2]>> ELSE <<>>

Unnoticed == kchr # kchr_load(layout)

KeyDown(s) ==
  /\ Idle
  /\ Len(meant) < MaxTyped /\ Len(typed) < MaxTyped
  /\ codes' = vnc_evt_key(s, TRUE)
  /\ held' = held \cup {s}
  /\ meant' = meant \o Meant(s)
  /\ disturbed' = (disturbed \/ Unnoticed)
  /\ careful' = (careful /\ WithCare(s))
  /\ UNCHANGED <<mac, kchr, changes>>

KeyUp(s) ==
  /\ Idle /\ s \in held
  /\ codes' = vnc_evt_key(s, FALSE)
  /\ held' = held \ {s}
  /\ UNCHANGED <<mac, kchr, meant, changes, disturbed, careful>>

-----------------------------------------------------------------------------
(***************************************************************************)
(* do_key: one FB_KB_KCHR ioctl.  The driver calls whoever receives the    *)
(* keyboard at that moment.                                                *)
(***************************************************************************)
MacModifiers(down) ==
  LET bit(key, value) == IF key \in down THEN value ELSE 0
  IN  (bit(COMMAND, 1) + bit(SHIFT, 2) + bit(LOCK, 4) + bit(OPTION, 8) + bit(CTRL, 16))
        % 2 ^ ModifierBits

\* In ARAW mode the receiver keeps track of the keys and reads the layout.
fb_kb_kchr_araw(code) ==
  LET t == Translate(layout, pending, MacModifiers(macDown), code)
  IN  IF code < 128
        THEN /\ macDown' = macDown \cup {code}
             /\ pending' = t.pending
             /\ typed' = typed \o t.out
        ELSE /\ macDown' = macDown \ {code - 128}
             /\ UNCHANGED <<pending, typed>>

\* In ASCII mode the receiver takes the code for a character; NUL, which the handler
\* sends for keys without one, counts for nothing.
fb_kb_kchr_ascii(code) ==
  /\ typed' = IF code = 0 THEN typed ELSE Append(typed, code)
  /\ UNCHANGED <<macDown, pending>>

fb_kb_kchr(code) ==
  CASE kb_mode = "ARAW" -> fb_kb_kchr_araw(code)
    [] kb_mode = "ASCII" -> fb_kb_kchr_ascii(code)
    [] OTHER -> UNCHANGED <<macDown, pending, typed>>

do_key ==
  /\ ~Idle
  /\ codes' = [codes EXCEPT !.todo = Tail(@)]
  /\ fb_kb_kchr(Head(codes.todo))
  /\ UNCHANGED <<layout, mode, kchr, held, meant, changes, disturbed, careful>>

-----------------------------------------------------------------------------
(***************************************************************************)
(* The Mac changes under the session, and sessions follow each other.      *)
(***************************************************************************)
Quiet == Idle /\ held = {}

SetMode(m) ==
  /\ changes < MaxChanges
  /\ m # mode
  /\ mode' = m
  /\ changes' = changes + 1
  /\ disturbed' = (disturbed \/ ~Quiet)
  /\ UNCHANGED <<layout, macDown, pending, typed, kchr, codes, held, meant, careful>>

\* A dead key of one layout means nothing in another.
SetLayout(k) ==
  /\ changes < MaxChanges
  /\ k # layout
  /\ layout' = k
  /\ pending' = 0
  /\ changes' = changes + 1
  /\ disturbed' = (disturbed \/ ~Quiet)
  /\ UNCHANGED <<mode, macDown, typed, kchr, codes, held, meant, careful>>

\* The client leaves, with whatever keys down, and the next session loads the
\* layout; nothing tells the Mac that keys were let go.
NewSession ==
  /\ changes < MaxChanges
  /\ Idle
  /\ kchr' = kchr_load(layout)
  /\ held' = {}
  /\ changes' = changes + 1
  /\ disturbed' = (disturbed \/ ~Quiet)
  /\ UNCHANGED <<mac, codes, meant, careful>>

Init ==
  /\ layout \in Layouts /\ mode \in KeyModes
  /\ kchr = kchr_load(layout)
  /\ macDown = {} /\ pending = 0 /\ held = {}
  /\ typed = <<>> /\ meant = <<>>
  /\ codes = [kind |-> "none", todo |-> <<>>]
  /\ changes = 0 /\ disturbed = FALSE /\ careful = TRUE

Next ==
  \/ \E s \in Keysyms : KeyDown(s) \/ KeyUp(s)
  \/ do_key
  \/ \E m \in KeyModes : SetMode(m)
  \/ \E k \in Layouts : SetLayout(k)
  \/ NewSession

Spec == Init /\ [][Next]_vars

-----------------------------------------------------------------------------
(***************************************************************************)
(* TypeOK: every code do_key sends fits a byte, the Mac holds keys of the  *)
(* keyboard, and what vnc_evt_key_ascii sends is ASCII.                    *)
(***************************************************************************)
TypeOK ==
  /\ layout \in Layouts /\ mode \in KeyModes
  /\ macDown \subseteq 0 .. 127
  /\ held \subseteq Keysyms
  /\ typed \in Seq(0 .. 255) /\ meant \in Seq(Chars \ {0})
  /\ codes \in [kind : {"scancodes", "characters", "none"}, todo : Seq(0 .. 255)]
  /\ codes.kind = "characters" => codes.todo \in Seq(0 .. 127)
  /\ changes \in 0 .. MaxChanges /\ disturbed \in BOOLEAN /\ careful \in BOOLEAN

(***************************************************************************)
(* TypedAsMeant: as long as the user types with care and nothing changes   *)
(* under his fingers, the programs on the Mac get the characters he typed, *)
(* in their order, whether a character takes one key, a key with modifiers *)
(* or a dead key and another one.                                          *)
(***************************************************************************)
TypedAsMeant == Idle /\ careful /\ ~disturbed => typed = meant

(***************************************************************************)
(* TypedWhateverHeld: the same however the user types.  The keys of a      *)
(* character are meant to stand for it ("run it backwards through the      *)
(* keyboard mapping", keyboard_mess.c:16-18), whatever else is down.       *)
(***************************************************************************)
TypedWhateverHeld == Idle /\ ~disturbed => typed = meant

(***************************************************************************)
(* NothingStuck: when the client holds no key, the Mac believes none to be *)
(* down, whatever keys overlapped, in which order they were let go, and    *)
(* however many keys each of them stood for.                               *)
(***************************************************************************)
NothingStuck == Quiet /\ ~disturbed => macDown = {}
=============================================================================

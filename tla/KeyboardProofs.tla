--------------------------- MODULE KeyboardProofs ---------------------------
(***************************************************************************)
(* The safety of typing (vnc_evt_key, its handlers and do_key) for every   *)
(* set of layouts and keysyms, whatever keys overlap and whatever happens  *)
(* to the Mac between two codes.                                           *)
(***************************************************************************)
EXTENDS Keyboard, KchrProofs

\* The keys that letting go of s will release, and those of all keysyms held.
Kept(s) == {k \in 0 .. 127 : \E i \in DOMAIN ReleaseCodes(s) : ReleaseCodes(s)[i] = k + 128}

AllKept == UNION {Kept(s) : s \in held}

\* Every key that is pressed in what is to be sent is released there later, or kept.
Settled(todo, kept) ==
  \A i \in DOMAIN todo :
    todo[i] < 128 => \/ todo[i] \in kept
                     \/ \E j \in DOMAIN todo : i < j /\ todo[j] = todo[i] + 128

\* Every key that is down is to be released, or kept.
Covered(todo, down, kept) ==
  \A k \in down : k \in kept \/ \E j \in DOMAIN todo : todo[j] = k + 128

Released ==
  ~disturbed =>
    IF mode = "ARAW"
      THEN Settled(codes.todo, AllKept) /\ Covered(codes.todo, macDown, AllKept)
      ELSE macDown = {}

\* The session has the table of some layout.
Loaded == \E k \in Layouts : kchr = kchr_load(k)

\* The dead key the Mac remembers is one of its layout.
Remembered == pending \in {0} \cup DOMAIN layout.deads

\* The inductive invariant.
Inv == TypeOK /\ Loaded /\ Remembered /\ Released

-----------------------------------------------------------------------------
(***************************************************************************)
(* The codes of a key event.                                               *)
(***************************************************************************)
Keys == 0 .. 127
Releases == 128 .. 255
Codes == 0 .. 255

\* Presses and releases are told apart by 128.
LEMMA Ranges ==
  /\ \A x : x \in Keys <=> x \in Nat /\ x < 128
  /\ \A x : x \in Releases <=> x \in Nat /\ 128 <= x /\ x < 256
  /\ \A x : x \in Codes <=> x \in Nat /\ x < 256
  /\ Keys \subseteq Codes /\ Releases \subseteq Codes
BY DEF Keys, Releases, Codes

\* A sequence of a set has its elements there.
LEMMA Elements ==
  ASSUME NEW S, NEW s \in Seq(S)
  PROVE  Len(s) \in Nat /\ DOMAIN s = 1 .. Len(s) /\ \A i \in DOMAIN s : s[i] \in S
OBVIOUS

\* It is also one of every larger set.
LEMMA Wider ==
  ASSUME NEW S, NEW T, S \subseteq T, NEW s \in Seq(S)
  PROVE  s \in Seq(T)
<1>1. /\ Len(s) \in Nat /\ s = [i \in 1 .. Len(s) |-> s[i]]
      /\ \A i \in 1 .. Len(s) : s[i] \in T
  OBVIOUS
<1> QED BY <1>1

\* The keys of a press are numbers of keys.
LEMMA Pressed ==
  ASSUME NEW vk, vk.keycode \in Keys
  PROVE  vkey_to_keypresses(vk) \in Seq(Keys)
<1>1. {COMMAND, SHIFT, LOCK, OPTION, CTRL} \subseteq Keys
  BY DEF COMMAND, SHIFT, LOCK, OPTION, CTRL, Keys
<1> HIDE DEF Keys
<1>2. \A key \in Keys : <<key>> \in Seq(Keys) /\ <<>> \in Seq(Keys)
  OBVIOUS
<1>3. \A key \in Keys : IfNeeded(vk, key) \in Seq(Keys)
  BY <1>2, Zenon DEF IfNeeded
<1>4. /\ IfNeeded(vk, COMMAND) \in Seq(Keys) /\ IfNeeded(vk, SHIFT) \in Seq(Keys)
      /\ IfNeeded(vk, LOCK) \in Seq(Keys) /\ IfNeeded(vk, OPTION) \in Seq(Keys)
      /\ IfNeeded(vk, CTRL) \in Seq(Keys) /\ <<vk.keycode>> \in Seq(Keys) /\ <<>> \in Seq(Keys)
  BY <1>1, <1>2, <1>3
<1>5. \A s, t \in Seq(Keys) : s \o t \in Seq(Keys)
  OBVIOUS
<1>6. IfNeeded(vk, COMMAND) \o IfNeeded(vk, SHIFT) \o IfNeeded(vk, LOCK)
           \o IfNeeded(vk, OPTION) \o IfNeeded(vk, CTRL) \o <<vk.keycode>> \in Seq(Keys)
  BY <1>4, <1>5, Zenon
<1> QED BY <1>4, <1>6, Zenon DEF vkey_to_keypresses

\* Letting go of the keys of a press releases just those keys.
LEMMA LetGo ==
  ASSUME NEW kp \in Seq(Keys)
  PROVE  /\ do_key_up(kp) \in Seq(Releases)
         /\ \A i \in DOMAIN kp : \E j \in DOMAIN do_key_up(kp) : do_key_up(kp)[j] = kp[i] + 128
<1> DEFINE up == do_key_up(kp)
<1>1. Len(kp) \in Nat /\ DOMAIN kp = 1 .. Len(kp)
  OBVIOUS
<1>2. up = [i \in 1 .. Len(kp) |-> Reverse(kp)[i] + 128]
  BY <1>1 DEF do_key_up
<1>3. \A i \in 1 .. Len(kp) : Reverse(kp)[i] = kp[(Len(kp) - i) + 1]
  BY DEF Reverse
<1> HIDE DEF up
<1>4. \A i \in 1 .. Len(kp) : up[i] = kp[(Len(kp) - i) + 1] + 128
  BY <1>2, <1>3
<1>5. \A i \in 1 .. Len(kp) : (Len(kp) - i) + 1 \in 1 .. Len(kp)
  BY <1>1
<1>6. \A i \in 1 .. Len(kp) : kp[i] \in Nat /\ kp[i] < 128
  BY <1>1, Elements, Ranges
<1>7. ASSUME NEW i \in 1 .. Len(kp) PROVE up[i] \in Releases
  <2>1. PICK l \in 1 .. Len(kp) : l = (Len(kp) - i) + 1
    BY <1>5
  <2>2. up[i] = kp[l] + 128 /\ kp[l] \in Nat /\ kp[l] < 128
    BY <1>4, <1>6, <2>1
  <2>3. up[i] \in Nat /\ 128 <= up[i] /\ up[i] < 256
    BY <2>2
  <2> QED BY <2>3, Ranges
<1>8. up \in Seq(Releases) /\ DOMAIN up = 1 .. Len(kp)
  BY <1>1, <1>2, <1>7
<1>9. ASSUME NEW i \in 1 .. Len(kp) PROVE \E j \in 1 .. Len(kp) : up[j] = kp[i] + 128
  <2> DEFINE j == (Len(kp) - i) + 1
  <2>1. j \in 1 .. Len(kp) /\ (Len(kp) - j) + 1 = i
    BY <1>1
  <2> HIDE DEF j
  <2>2. up[j] = kp[i] + 128
    BY <1>4, <2>1
  <2> QED BY <2>1, <2>2
<1> QED BY <1>1, <1>8, <1>9 DEF up

-----------------------------------------------------------------------------
\* Whatever is kept, codes that only release are settled, ...
LEMMA OnlyReleases ==
  ASSUME NEW todo \in Seq(Releases), NEW kept
  PROVE  Settled(todo, kept)
<1>1. \A i \in DOMAIN todo : todo[i] \in Nat /\ 128 <= todo[i]
  BY Elements, Ranges
<1> QED BY <1>1 DEF Settled

\* ... so is a press whose keys are kept, ...
LEMMA OnlyKept ==
  ASSUME NEW kp \in Seq(Keys), NEW kept, \A i \in DOMAIN kp : kp[i] \in kept
  PROVE  Settled(kp, kept)
BY DEF Settled

\* ... and what is put together of codes that are settled.
LEMMA BothSettled ==
  ASSUME NEW s \in Seq(Codes), NEW t \in Seq(Codes), NEW kept,
         Settled(s, kept), Settled(t, kept)
  PROVE  Settled(s \o t, kept)
<1> DEFINE u == s \o t
           S == 0 .. 255
<1>1. /\ Len(s) \in Nat /\ Len(t) \in Nat /\ DOMAIN s = 1 .. Len(s) /\ DOMAIN t = 1 .. Len(t)
      /\ DOMAIN u = 1 .. Len(s) + Len(t)
      /\ \A i \in 1 .. Len(s) : u[i] = s[i]
      /\ \A i \in 1 .. Len(t) : u[Len(s) + i] = t[i]
      /\ \A i \in 1 .. Len(s) + Len(t) : i \in 1 .. Len(s) \/ i - Len(s) \in 1 .. Len(t)
  OBVIOUS
<1> HIDE DEF u
<1>2. ASSUME NEW i \in DOMAIN u, u[i] < 128
      PROVE  u[i] \in kept \/ \E j \in DOMAIN u : i < j /\ u[j] = u[i] + 128
  <2>1. CASE i \in 1 .. Len(s)
    <3>1. u[i] = s[i]
      BY <1>1, <2>1
    <3>2. s[i] \in kept \/ \E j \in DOMAIN s : i < j /\ s[j] = s[i] + 128
      BY <1>1, <1>2, <2>1, <3>1 DEF Settled
    <3>3. ASSUME NEW j \in DOMAIN s PROVE j \in DOMAIN u /\ u[j] = s[j]
      BY <1>1
    <3> QED BY <3>1, <3>2, <3>3
  <2>2. CASE i \notin 1 .. Len(s)
    <3> DEFINE h == i - Len(s)
    <3>1. h \in 1 .. Len(t) /\ u[i] = t[h] /\ i = Len(s) + h
      BY <1>1, <2>2
    <3>2. t[h] \in kept \/ \E j \in DOMAIN t : h < j /\ t[j] = t[h] + 128
      BY <1>1, <1>2, <3>1 DEF Settled
    <3>3. ASSUME NEW j \in DOMAIN t, h < j
          PROVE  Len(s) + j \in DOMAIN u /\ u[Len(s) + j] = t[j] /\ i < Len(s) + j
      BY <1>1, <3>1, <3>3
    <3> QED BY <3>1, <3>2, <3>3
  <2> QED BY <2>1, <2>2
<1> QED BY <1>2 DEF Settled, u

\* A press that is let go at once is settled.
LEMMA AtOnce ==
  ASSUME NEW kp \in Seq(Keys), NEW kept
  PROVE  Settled(kp \o do_key_up(kp), kept) /\ kp \o do_key_up(kp) \in Seq(Codes)
<1> DEFINE up == do_key_up(kp)
           u  == kp \o up
<1>1. up \in Seq(Releases)
  BY LetGo
<1>2. \A i \in DOMAIN kp : \E j \in DOMAIN up : up[j] = kp[i] + 128
  BY LetGo
<1> HIDE DEF up
<1>3. /\ Len(kp) \in Nat /\ Len(up) \in Nat /\ DOMAIN kp = 1 .. Len(kp) /\ DOMAIN up = 1 .. Len(up)
      /\ DOMAIN u = 1 .. Len(kp) + Len(up)
      /\ \A i \in 1 .. Len(kp) : u[i] = kp[i]
      /\ \A i \in 1 .. Len(up) : u[Len(kp) + i] = up[i]
      /\ \A i \in 1 .. Len(kp) + Len(up) : i \in 1 .. Len(kp) \/ i - Len(kp) \in 1 .. Len(up)
  BY <1>1
<1>4. /\ \A i \in DOMAIN kp : kp[i] \in Nat
      /\ \A i \in DOMAIN up : up[i] \in Nat /\ 128 <= up[i]
  BY <1>1, Elements, Ranges
<1>5. kp \in Seq(Codes) /\ up \in Seq(Codes)
  BY <1>1, Wider, Ranges
<1>6. u \in Seq(Codes)
  BY <1>5
<1> HIDE DEF u
<1>7. ASSUME NEW i \in DOMAIN u, u[i] < 128
      PROVE  \E j \in DOMAIN u : i < j /\ u[j] = u[i] + 128
  <2>1. i \in 1 .. Len(kp)
    <3>1. SUFFICES ASSUME i \notin 1 .. Len(kp) PROVE FALSE
      OBVIOUS
    <3> DEFINE h == i - Len(kp)
    <3>2. h \in 1 .. Len(up) /\ u[i] = up[h]
      BY <1>3, <3>1
    <3> HIDE DEF h
    <3>3. u[i] \in Nat /\ 128 <= u[i]
      BY <1>3, <1>4, <3>2
    <3> QED BY <1>7, <3>3
  <2>2. PICK j \in DOMAIN up : up[j] = kp[i] + 128
    BY <1>2, <1>3, <2>1
  <2>3. Len(kp) + j \in DOMAIN u /\ i < Len(kp) + j /\ u[Len(kp) + j] = u[i] + 128
    BY <1>3, <2>1, <2>2
  <2> QED BY <2>3
<1>8. Settled(u, kept)
  BY <1>7 DEF Settled
<1> QED BY <1>6, <1>8 DEF u, up

-----------------------------------------------------------------------------
\* A keysym stands for one key, or for a character.
LEMMA KeysymIs ==
  ASSUME NEW s \in Keysyms
  PROVE  /\ s[1] \in {"key", "char"}
         /\ s[1] = "key" => s[2] \in Keys
         /\ s[1] = "char" => s[2] \in Chars
         /\ keysym_to_macroman(s) \in Chars
<1>1. Keysyms \subseteq ({"key"} \X Keys) \cup ({"char"} \X Chars)
  BY KeyboardAssumption DEF Keys
<1> HIDE DEF Keys
<1>2. s \in {"key"} \X Keys \/ s \in {"char"} \X Chars
  BY <1>1
<1>3. /\ s[1] \in {"key", "char"} /\ (s[1] = "key" => s[2] \in Keys)
      /\ s[1] = "char" => s[2] \in Chars
  BY <1>2
<1>4. 0 \in Chars
  <2>1. PICK k \in Layouts : IsLayout(k)
    BY KeyboardAssumption
  <2> QED BY <2>1, Zero
<1> QED BY <1>3, <1>4 DEF keysym_to_macroman

\* The keys of a keysym, those of its one or two presses included.
LEMMA KeysOf ==
  ASSUME Loaded, NEW s \in Keysyms
  PROVE  LET kc == kchr_keys_for_char(kchr, keysym_to_macroman(s))
         IN  /\ keysym_special_to_keypresses(s) \in Seq(Keys)
             /\ vkey_to_keypresses(kc.fst) \in Seq(Keys)
             /\ vkey_to_keypresses(kc.snd) \in Seq(Keys)
<1>1. PICK k \in Layouts : kchr = kchr_load(k)
  BY DEF Loaded
<1> DEFINE kc == kchr_keys_for_char(kchr, keysym_to_macroman(s))
<1>2. IsLayout(k) /\ keysym_to_macroman(s) \in Chars
  BY KeyboardAssumption, KeysymIs
<1>3. kc.fst.keycode \in Keys /\ kc.snd.keycode \in Keys
  BY <1>1, <1>2, KeysThere DEF Keys
<1> HIDE DEF kc
<1>4. vkey_to_keypresses(kc.fst) \in Seq(Keys) /\ vkey_to_keypresses(kc.snd) \in Seq(Keys)
  BY <1>3, Pressed
<1>5. keysym_special_to_keypresses(s) \in Seq(Keys)
  <2> HIDE DEF Keys
  <2>1. CASE s[1] = "key"
    <3>1. <<s[2]>> \in Seq(Keys)
      BY <2>1, KeysymIs
    <3> QED BY <2>1, <3>1 DEF keysym_special_to_keypresses
  <2>2. CASE s[1] # "key"
    <3>1. <<>> \in Seq(Keys)
      OBVIOUS
    <3> QED BY <2>2, <3>1 DEF keysym_special_to_keypresses
  <2> QED BY <2>1, <2>2
<1> QED BY <1>4, <1>5 DEF kc

\* Letting go sends only releases.
LEMMA ReleaseReleases ==
  ASSUME Loaded, NEW s \in Keysyms
  PROVE  ReleaseCodes(s) \in Seq(Releases)
<1> DEFINE kp == keysym_special_to_keypresses(s)
           kc == kchr_keys_for_char(kchr, keysym_to_macroman(s))
           fst == vkey_to_keypresses(kc.fst)
           snd == vkey_to_keypresses(kc.snd)
<1>1. kp \in Seq(Keys) /\ fst \in Seq(Keys) /\ snd \in Seq(Keys)
  BY KeysOf
<1>2. <<>> \in Seq(Releases)
  OBVIOUS
<1>3. /\ do_key_up(kp) \in Seq(Releases) /\ do_key_up(fst) \in Seq(Releases)
      /\ do_key_up(snd) \in Seq(Releases)
  BY <1>1, LetGo
<1>4. \/ ReleaseCodes(s) = do_key_up(kp) \/ ReleaseCodes(s) = do_key_up(snd)
      \/ ReleaseCodes(s) = <<>> \/ ReleaseCodes(s) = do_key_up(fst)
  BY Zenon DEF ReleaseCodes
<1> QED BY <1>2, <1>3, <1>4, Zenon

\* The keys of a release are kept until then.
LEMMA KeptUntil ==
  ASSUME NEW s, NEW kp \in Seq(Keys), ReleaseCodes(s) = do_key_up(kp)
  PROVE  \A i \in DOMAIN kp : kp[i] \in Kept(s)
<1> TAKE i \in DOMAIN kp
<1>1. kp[i] \in Keys
  BY Elements
<1>2. \E j \in DOMAIN ReleaseCodes(s) : ReleaseCodes(s)[j] = kp[i] + 128
  BY LetGo
<1> QED BY <1>1, <1>2 DEF Kept, Keys

\* Whatever key a press sends it releases again, unless letting go will.
LEMMA PressSettled ==
  ASSUME Loaded, NEW s \in Keysyms, NEW kept, Kept(s) \subseteq kept
  PROVE  PressCodes(s) \in Seq(Codes) /\ Settled(PressCodes(s), kept)
<1> DEFINE kp == keysym_special_to_keypresses(s)
           kc == kchr_keys_for_char(kchr, keysym_to_macroman(s))
           fst == vkey_to_keypresses(kc.fst)
           snd == vkey_to_keypresses(kc.snd)
<1>1. kp \in Seq(Keys) /\ fst \in Seq(Keys) /\ snd \in Seq(Keys)
  BY KeysOf
<1>2. kp \in Seq(Codes) /\ fst \in Seq(Codes) /\ snd \in Seq(Codes)
  BY <1>1, Wider, Ranges
<1>3. Settled(fst \o do_key_up(fst), kept) /\ fst \o do_key_up(fst) \in Seq(Codes)
  BY <1>1, AtOnce
<1>4. CASE kp # <<>>
  <2>1. PressCodes(s) = kp /\ ReleaseCodes(s) = do_key_up(kp)
    BY <1>4, Zenon DEF PressCodes, ReleaseCodes, do_key_down
  <2>2. \A i \in DOMAIN kp : kp[i] \in kept
    BY <1>1, <2>1, KeptUntil
  <2> QED BY <1>1, <1>2, <2>1, <2>2, OnlyKept
<1>5. CASE kp = <<>> /\ kc.snd.valid
  <2>1. PressCodes(s) = fst \o do_key_up(fst) \o snd /\ ReleaseCodes(s) = do_key_up(snd)
    BY <1>5, Zenon DEF PressCodes, ReleaseCodes, do_key_down
  <2>2. \A i \in DOMAIN snd : snd[i] \in kept
    BY <1>1, <2>1, KeptUntil
  <2>3. Settled(snd, kept)
    BY <1>1, <2>2, OnlyKept
  <2>4. Settled((fst \o do_key_up(fst)) \o snd, kept)
    BY <1>2, <1>3, <2>3, BothSettled
  <2>5. (fst \o do_key_up(fst)) \o snd \in Seq(Codes)
    BY <1>2, <1>3
  <2> QED BY <2>1, <2>4, <2>5, Zenon
<1>6. CASE kp = <<>> /\ ~kc.snd.valid /\ kc.fst.keycode = RETURN
  <2>1. PressCodes(s) = fst \o do_key_up(fst)
    BY <1>6, Zenon DEF PressCodes, do_key_down
  <2> QED BY <1>3, <2>1
<1>7. CASE kp = <<>> /\ ~kc.snd.valid /\ kc.fst.keycode # RETURN
  <2>1. PressCodes(s) = fst /\ ReleaseCodes(s) = do_key_up(fst)
    BY <1>7, Zenon DEF PressCodes, ReleaseCodes, do_key_down
  <2>2. \A i \in DOMAIN fst : fst[i] \in kept
    BY <1>1, <2>1, KeptUntil
  <2> QED BY <1>1, <1>2, <2>1, <2>2, OnlyKept
<1> QED BY <1>4, <1>5, <1>6, <1>7

\* The handlers answer an event with codes of one kind, characters only in ASCII.
LEMMA Answer ==
  ASSUME Loaded, NEW s \in Keysyms, NEW down \in BOOLEAN
  PROVE  /\ vnc_evt_key(s, down)
              \in [kind : {"scancodes", "characters", "none"}, todo : Seq(Codes)]
         /\ vnc_evt_key(s, down).kind = "characters" => vnc_evt_key(s, down).todo \in Seq(Keys)
<1>1. PressCodes(s) \in Seq(Codes)
  BY PressSettled
<1>2. ReleaseCodes(s) \in Seq(Codes)
  BY ReleaseReleases, Wider, Ranges
<1>3. CASE kb_mode = "ARAW"
  <2>1. vnc_evt_key(s, down)
          = [kind |-> "scancodes", todo |-> IF down THEN PressCodes(s) ELSE ReleaseCodes(s)]
    BY <1>3, Zenon DEF vnc_evt_key, vnc_evt_key_araw
  <2> QED BY <1>1, <1>2, <2>1
<1>4. CASE kb_mode = "ASCII"
  <2> DEFINE c == keysym_to_macroman(s)
             todo == IF down /\ c <= 127 THEN <<c>> ELSE <<>>
  <2>1. vnc_evt_key(s, down) = [kind |-> "characters", todo |-> todo]
    BY <1>4, Zenon DEF vnc_evt_key, vnc_evt_key_ascii
  <2>2. c \in Chars
    BY KeysymIs
  <2>3. c \in Nat
    BY <2>2, CharNumbers
  <2>4. c <= 127 => c \in Keys
    BY <2>3, Ranges
  <2> HIDE DEF c
  <2>5. todo \in Seq(Keys)
    <3>1. CASE down /\ c <= 127
      BY <3>1, <2>4
    <3>2. CASE ~(down /\ c <= 127)
      BY <3>2
    <3> QED BY <3>1, <3>2
  <2>6. todo \in Seq(Codes)
    BY <2>5, Wider, Ranges
  <2> HIDE DEF todo
  <2> QED BY <2>1, <2>5, <2>6
<1>5. CASE kb_mode \notin {"ARAW", "ASCII"}
  <2>1. vnc_evt_key(s, down) = [kind |-> "none", todo |-> <<>>]
    BY <1>5, Zenon DEF vnc_evt_key
  <2> QED BY <2>1
<1> QED BY <1>3, <1>4, <1>5

\* What the user means to type are characters.
LEMMA MeantChars ==
  ASSUME NEW s \in Keysyms
  PROVE  Meant(s) \in Seq(Chars \ {0})
<1>1. s[1] = "char" => s[2] \in Chars
  BY KeysymIs
<1>2. CASE Meant(s) = <<>>
  BY <1>2
<1>3. CASE Meant(s) # <<>>
  <2>1. /\ s[1] = "char" /\ Meant(s) = <<s[2]>>
        /\ MacTypes(layout, s[2]) \/ s[2] \in 1 .. 127
    BY <1>3 DEF Meant
  <2>2. s[2] # 0
    BY <2>1 DEF MacTypes
  <2> QED BY <1>1, <2>1, <2>2
<1> QED BY <1>2, <1>3

-----------------------------------------------------------------------------
(***************************************************************************)
(* The actions.                                                            *)
(***************************************************************************)
\* The bounds are numbers.
LEMMA Bounds == MaxChanges \in Nat /\ 0 \in 0 .. MaxChanges
<1>1. MaxChanges \in Nat
  BY KeyboardAssumption, Zenon
<1> QED BY <1>1

\* When nothing is to be sent, keys are down only for keysyms held.
LEMMA AtRest ==
  ASSUME Idle, NEW down, NEW kept, Covered(codes.todo, down, kept)
  PROVE  down \subseteq kept
<1>1. DOMAIN codes.todo = {}
  BY DEF Idle
<1> QED BY <1>1 DEF Covered

\* The invariant holds before the first event.
LEMMA Start == Init => Inv
<1> SUFFICES ASSUME Init PROVE Inv
  OBVIOUS
<1> USE DEF Init
<1>1. TypeOK
  <2>1. layout \in Layouts /\ mode \in KeyModes /\ macDown \subseteq 0 .. 127 /\ held \subseteq Keysyms
    OBVIOUS
  <2>2. typed \in Seq(0 .. 255) /\ meant \in Seq(Chars \ {0})
    OBVIOUS
  <2>3. /\ codes \in [kind : {"scancodes", "characters", "none"}, todo : Seq(0 .. 255)]
        /\ codes.kind # "characters"
    OBVIOUS
  <2>4. changes \in 0 .. MaxChanges /\ disturbed \in BOOLEAN /\ careful \in BOOLEAN
    BY Bounds
  <2> QED BY <2>1, <2>2, <2>3, <2>4 DEF TypeOK
<1>2. Loaded /\ Remembered
  BY DEF Loaded, Remembered
<1>3. Released
  <2>1. DOMAIN codes.todo = {} /\ macDown = {}
    OBVIOUS
  <2> QED BY <2>1 DEF Released, Settled, Covered
<1> QED BY <1>1, <1>2, <1>3 DEF Inv

\* What is kept depends on the session's table only.
LEMMA KeptSame ==
  ASSUME UNCHANGED kchr, NEW s
  PROVE  Kept(s)' = Kept(s)
<1>1. ReleaseCodes(s)' = ReleaseCodes(s)
  BY DEF ReleaseCodes
<1> QED BY <1>1 DEF Kept

\* An event of a key going down keeps the invariant: what it sends is settled.
LEMMA KeyDownStep == ASSUME Inv, NEW s \in Keysyms, KeyDown(s) PROVE Inv'
<1> USE DEF Inv
<1>1. /\ codes' = vnc_evt_key(s, TRUE) /\ held' = held \cup {s} /\ meant' = meant \o Meant(s)
      /\ disturbed' = (disturbed \/ Unnoticed) /\ careful' = (careful /\ WithCare(s))
      /\ UNCHANGED <<mac, kchr, changes>> /\ Idle
  BY DEF KeyDown
<1>2. UNCHANGED <<layout, mode, macDown, pending, typed>>
  BY <1>1 DEF mac
<1>3. TypeOK'
  <2>1. /\ codes' \in [kind : {"scancodes", "characters", "none"}, todo : Seq(0 .. 255)]
        /\ codes'.kind = "characters" => codes'.todo \in Seq(0 .. 127)
    <3>1. /\ vnc_evt_key(s, TRUE)
               \in [kind : {"scancodes", "characters", "none"}, todo : Seq(Codes)]
          /\ vnc_evt_key(s, TRUE).kind = "characters" => vnc_evt_key(s, TRUE).todo \in Seq(Keys)
      BY Answer
    <3> QED BY <1>1, <3>1, Zenon DEF Codes, Keys
  <2>2. held' \subseteq Keysyms
    BY <1>1 DEF TypeOK
  <2>3. meant' \in Seq(Chars \ {0})
    BY <1>1, MeantChars DEF TypeOK
  <2>4. disturbed' \in BOOLEAN /\ careful' \in BOOLEAN
    BY <1>1
  <2> QED BY <1>1, <1>2, <2>1, <2>2, <2>3, <2>4 DEF TypeOK
<1>4. Loaded' /\ Remembered'
  BY <1>1, <1>2 DEF Loaded, Remembered
<1>5. Released'
  <2> SUFFICES ASSUME ~disturbed'
               PROVE  IF mode' = "ARAW"
                        THEN /\ Settled(codes'.todo, AllKept')
                             /\ Covered(codes'.todo, macDown', AllKept')
                        ELSE macDown' = {}
    BY DEF Released, Settled, Covered
  <2>1. ~disturbed
    BY <1>1
  <2>2. CASE mode = "ARAW"
    <3>1. codes'.todo = PressCodes(s)
      BY <1>1, <2>2 DEF vnc_evt_key, vnc_evt_key_araw, kb_mode
    <3>2. AllKept' = AllKept \cup Kept(s)
      BY <1>1, KeptSame DEF AllKept
    <3>3. Settled(codes'.todo, AllKept')
      BY <3>1, <3>2, PressSettled
    <3>4. macDown \subseteq AllKept
      BY <1>1, <2>1, <2>2, AtRest DEF Released
    <3>5. Covered(codes'.todo, macDown', AllKept')
      BY <1>2, <3>2, <3>4 DEF Covered
    <3> QED BY <1>2, <2>2, <3>3, <3>5
  <2>3. CASE mode # "ARAW"
    BY <1>2, <2>1, <2>3 DEF Released
  <2> QED BY <2>2, <2>3
<1> QED BY <1>3, <1>4, <1>5

\* One of a key going up does: what was kept for it goes out.
LEMMA KeyUpStep == ASSUME Inv, NEW s \in Keysyms, KeyUp(s) PROVE Inv'
<1> USE DEF Inv
<1>1. /\ codes' = vnc_evt_key(s, FALSE) /\ held' = held \ {s} /\ Idle
      /\ UNCHANGED <<mac, kchr, meant, changes, disturbed, careful>>
  BY DEF KeyUp
<1>2. UNCHANGED <<layout, mode, macDown, pending, typed>>
  BY <1>1 DEF mac
<1>3. TypeOK'
  <2>1. /\ codes' \in [kind : {"scancodes", "characters", "none"}, todo : Seq(0 .. 255)]
        /\ codes'.kind = "characters" => codes'.todo \in Seq(0 .. 127)
    <3>1. /\ vnc_evt_key(s, FALSE)
               \in [kind : {"scancodes", "characters", "none"}, todo : Seq(Codes)]
          /\ vnc_evt_key(s, FALSE).kind = "characters" => vnc_evt_key(s, FALSE).todo \in Seq(Keys)
      BY Answer
    <3> QED BY <1>1, <3>1, Zenon DEF Codes, Keys
  <2>2. held' \subseteq Keysyms
    BY <1>1 DEF TypeOK
  <2> QED BY <1>1, <1>2, <2>1, <2>2 DEF TypeOK
<1>4. Loaded' /\ Remembered'
  BY <1>1, <1>2 DEF Loaded, Remembered
<1>5. Released'
  <2> SUFFICES ASSUME ~disturbed'
               PROVE  IF mode' = "ARAW"
                        THEN /\ Settled(codes'.todo, AllKept')
                             /\ Covered(codes'.todo, macDown', AllKept')
                        ELSE macDown' = {}
    BY DEF Released, Settled, Covered
  <2>1. ~disturbed
    BY <1>1
  <2>2. CASE mode = "ARAW"
    <3>1. codes'.todo = ReleaseCodes(s)
      BY <1>1, <2>2 DEF vnc_evt_key, vnc_evt_key_araw, kb_mode
    <3>2. AllKept \subseteq AllKept' \cup Kept(s)
      BY <1>1, KeptSame DEF AllKept
    <3>3. Settled(codes'.todo, AllKept')
      BY <3>1, ReleaseReleases, OnlyReleases
    <3>4. macDown \subseteq AllKept
      BY <1>1, <2>1, <2>2, AtRest DEF Released
    <3>5. \A k \in Kept(s) : \E j \in DOMAIN codes'.todo : codes'.todo[j] = k + 128
      BY <3>1 DEF Kept
    <3>6. Covered(codes'.todo, macDown', AllKept')
      BY <1>2, <3>2, <3>4, <3>5 DEF Covered
    <3> QED BY <1>2, <2>2, <3>3, <3>6
  <2>3. CASE mode # "ARAW"
    BY <1>2, <2>1, <2>3 DEF Released
  <2> QED BY <2>2, <2>3
<1> QED BY <1>3, <1>4, <1>5

\* When the client holds no key, none is down and none to be sent.
LEMMA QuietNow ==
  ASSUME Inv, Quiet, ~disturbed
  PROVE  macDown = {} /\ codes.todo = <<>>
<1>1. AllKept = {} /\ Idle
  BY DEF AllKept, Quiet
<1>2. codes.todo = <<>>
  BY <1>1 DEF Idle
<1>3. macDown = {}
  BY <1>1, AtRest DEF Inv, Released
<1> QED BY <1>2, <1>3

\* When no key is down and none to be sent, there is nothing to release.
LEMMA NothingDown ==
  ASSUME macDown' = {}, codes'.todo = <<>>
  PROVE  Released'
<1>1. DOMAIN codes'.todo = {}
  OBVIOUS
<1> QED BY <1>1 DEF Released, Settled, Covered

\* A change of mode keeps the invariant.
LEMMA SetModeStep == ASSUME Inv, NEW m \in KeyModes, SetMode(m) PROVE Inv'
<1> USE DEF Inv
<1>1. /\ changes < MaxChanges /\ mode' = m /\ changes' = changes + 1
      /\ disturbed' = (disturbed \/ ~Quiet)
      /\ UNCHANGED <<layout, macDown, pending, typed, kchr, codes, held, meant, careful>>
  BY DEF SetMode
<1>2. TypeOK'
  <2>1. changes' \in 0 .. MaxChanges
    BY <1>1, Bounds DEF TypeOK
  <2>2. disturbed' \in BOOLEAN
    BY <1>1
  <2> QED BY <1>1, <2>1, <2>2 DEF TypeOK
<1>3. Loaded' /\ Remembered'
  BY <1>1 DEF Loaded, Remembered
<1>4. Released'
  <2>1. CASE disturbed'
    BY <2>1 DEF Released
  <2>2. CASE ~disturbed'
    BY <1>1, <2>2, QuietNow, NothingDown
  <2> QED BY <2>1, <2>2
<1> QED BY <1>2, <1>3, <1>4

\* A change of layout does: the session keeps the table it has.
LEMMA SetLayoutStep == ASSUME Inv, NEW k \in Layouts, SetLayout(k) PROVE Inv'
<1> USE DEF Inv
<1>1. /\ changes < MaxChanges /\ layout' = k /\ pending' = 0 /\ changes' = changes + 1
      /\ disturbed' = (disturbed \/ ~Quiet)
      /\ UNCHANGED <<mode, macDown, typed, kchr, codes, held, meant, careful>>
  BY DEF SetLayout
<1>2. TypeOK'
  <2>1. changes' \in 0 .. MaxChanges
    BY <1>1, Bounds DEF TypeOK
  <2>2. disturbed' \in BOOLEAN
    BY <1>1
  <2> QED BY <1>1, <2>1, <2>2 DEF TypeOK
<1>3. Loaded' /\ Remembered'
  BY <1>1 DEF Loaded, Remembered
<1>4. Released'
  <2>1. CASE disturbed'
    BY <2>1 DEF Released
  <2>2. CASE ~disturbed'
    BY <1>1, <2>2, QuietNow, NothingDown
  <2> QED BY <2>1, <2>2
<1> QED BY <1>2, <1>3, <1>4

\* The next session does: what the last one kept down counts as a disturbance.
LEMMA NewSessionStep == ASSUME Inv, NewSession PROVE Inv'
<1> USE DEF Inv
<1>1. /\ changes < MaxChanges /\ kchr' = kchr_load(layout) /\ held' = {} /\ changes' = changes + 1
      /\ disturbed' = (disturbed \/ ~Quiet)
      /\ UNCHANGED <<mac, codes, meant, careful>>
  BY DEF NewSession
<1>2. UNCHANGED <<layout, mode, macDown, pending, typed>>
  BY <1>1 DEF mac
<1>3. TypeOK'
  <2>1. changes' \in 0 .. MaxChanges
    BY <1>1, Bounds DEF TypeOK
  <2>2. disturbed' \in BOOLEAN /\ held' \subseteq Keysyms
    BY <1>1
  <2> QED BY <1>1, <1>2, <2>1, <2>2 DEF TypeOK
<1>4. Loaded' /\ Remembered'
  BY <1>1, <1>2 DEF Loaded, Remembered, TypeOK
<1>5. Released'
  <2>1. CASE disturbed'
    BY <2>1 DEF Released
  <2>2. CASE ~disturbed'
    BY <1>1, <1>2, <2>2, QuietNow, NothingDown
  <2> QED BY <2>1, <2>2
<1> QED BY <1>3, <1>4, <1>5

-----------------------------------------------------------------------------
(***************************************************************************)
(* do_key, and what the Mac makes of a code.                               *)
(***************************************************************************)
\* The Mac's modifiers are a combination its layout has a table for.
LEMMA ModifiersThere == ASSUME NEW down PROVE MacModifiers(down) \in Modifiers
<1> DEFINE bit(key, value) == IF key \in down THEN value ELSE 0
           n == bit(COMMAND, 1) + bit(SHIFT, 2) + bit(LOCK, 4) + bit(OPTION, 8) + bit(CTRL, 16)
<1>1. n \in Nat
  OBVIOUS
<1>2. MacModifiers(down) = n % 2 ^ ModifierBits
  BY DEF MacModifiers
<1> HIDE DEF n
<1>3. n % 2 ^ ModifierBits \in 0 .. 2 ^ ModifierBits - 1
  <2> DEFINE p == 2 ^ ModifierBits
  <2>1. p \in Nat \ {0}
    BY Powers
  <2> HIDE DEF p
  <2>2. n % p \in 0 .. p - 1
    BY <1>1, <2>1
  <2> QED BY <2>2 DEF p
<1> QED BY <1>2, <1>3 DEF Modifiers

\* The Mac makes characters of keys, and remembers dead keys of its layout.
LEMMA Understood ==
  ASSUME NEW k, IsLayout(k), NEW p \in {0} \cup DOMAIN k.deads, NEW m \in Modifiers, NEW key
  PROVE  /\ Translate(k, p, m, key).out \in Seq(Codes)
         /\ Translate(k, p, m, key).pending \in {0} \cup DOMAIN k.deads
<1> DEFINE table == k.tableOf[m]
           c     == k.tables[table][key]
           hits  == {s \in Range(k.deads[p].subs) : s.comp = c}
           t     == Translate(k, p, m, key)
<1>1. CASE key \notin Keycodes
  <2>1. t = [pending |-> p, out |-> <<>>]
    BY <1>1, Zenon DEF Translate
  <2> QED BY <2>1
<1>2. CASE key \in Keycodes /\ c = 0
  <2>1. CASE DeadAt(k, table, key) = {}
    <3>1. t = [pending |-> p, out |-> <<>>]
      BY <1>2, <2>1, Zenon DEF Translate
    <3> QED BY <3>1
  <2>2. CASE DeadAt(k, table, key) # {}
    <3>1. t = [pending |-> Min(DeadAt(k, table, key)), out |-> <<>>]
      BY <1>2, <2>2, Zenon DEF Translate
    <3>2. PICK i \in DeadAt(k, table, key) : TRUE
      BY <2>2
    <3>3. i \in DOMAIN k.deads /\ k.deads[i].table = table /\ k.deads[i].keycode = key
      BY DEF DeadAt
    <3>4. DeadAt(k, table, key) = {i} /\ i \in Nat
      BY <3>3, DeadKey
    <3>5. Min({i}) = i
      BY <3>4, Least
    <3> QED BY <3>1, <3>3, <3>4, <3>5
  <2> QED BY <2>1, <2>2
<1>3. ASSUME key \in Keycodes PROVE <<c>> \in Seq(Codes)
  <2>1. c \in Chars
    BY <1>3 DEF IsLayout
  <2>2. c \in Codes
    BY <2>1, CharNumbers, Ranges
  <2> QED BY <2>2
<1>4. CASE key \in Keycodes /\ c # 0 /\ p = 0
  <2>1. t = [pending |-> 0, out |-> <<c>>]
    BY <1>4, Zenon DEF Translate
  <2>2. <<c>> \in Seq(Codes)
    BY <1>3, <1>4
  <2> HIDE DEF c
  <2> QED BY <2>1, <2>2
<1>5. CASE key \in Keycodes /\ c # 0 /\ p # 0
  <2>1. CASE hits = {}
    <3>1. t = [pending |-> 0, out |-> <<c>>]
      BY <1>5, <2>1, Zenon DEF Translate
    <3> QED BY <1>3, <1>5, <3>1
  <2>2. CASE hits # {}
    <3> DEFINE s == CHOOSE x \in hits : TRUE
    <3>1. t = [pending |-> 0, out |-> <<s.sub>>]
      BY <1>5, <2>2, Zenon DEF Translate
    <3>2. s \in hits
      BY <2>2
    <3>3. PICK j \in DOMAIN k.deads[p].subs : s = k.deads[p].subs[j]
      BY <3>2 DEF Range
    <3>4. p \in DOMAIN k.deads
      BY <1>5
    <3> HIDE DEF s
    <3>5. s.sub \in Chars
      BY <3>3, <3>4, DeadKey
    <3>6. s.sub \in Codes
      BY <3>5, CharNumbers, Ranges
    <3> QED BY <3>1, <3>6
  <2> QED BY <2>1, <2>2
<1> HIDE DEF c
<1> QED BY <1>1, <1>2, <1>4, <1>5

\* The rest of what is to be sent, when its first code is gone.
LEMMA Rest ==
  ASSUME NEW S, NEW q \in Seq(S), q # <<>>
  PROVE  /\ Tail(q) \in Seq(S) /\ Head(q) = q[1] /\ q[1] \in S
         /\ 1 \in DOMAIN q /\ DOMAIN q = 1 .. Len(q) /\ Len(q) \in Nat
         /\ DOMAIN Tail(q) = 1 .. Len(q) - 1
         /\ \A i \in DOMAIN Tail(q) : Tail(q)[i] = q[i + 1]
OBVIOUS

\* A press goes out: its key is down now, and its release is still to come or kept.
LEMMA AfterPress ==
  ASSUME NEW q \in Seq(Codes), q # <<>>, NEW down, down \subseteq Keys, NEW kept,
         Settled(q, kept), Covered(q, down, kept), Head(q) < 128
  PROVE  Settled(Tail(q), kept) /\ Covered(Tail(q), down \cup {Head(q)}, kept)
<1>1. /\ Tail(q) \in Seq(Codes) /\ Head(q) = q[1] /\ 1 \in DOMAIN q
      /\ DOMAIN q = 1 .. Len(q) /\ Len(q) \in Nat /\ DOMAIN Tail(q) = 1 .. Len(q) - 1
      /\ \A i \in DOMAIN Tail(q) : Tail(q)[i] = q[i + 1]
  BY Rest
<1>2. \A j \in DOMAIN q : 1 < j => j - 1 \in DOMAIN Tail(q) /\ Tail(q)[j - 1] = q[j]
  BY <1>1
<1>3. Settled(Tail(q), kept)
  <2> SUFFICES ASSUME NEW i \in DOMAIN Tail(q), Tail(q)[i] < 128
               PROVE  \/ Tail(q)[i] \in kept
                      \/ \E j \in DOMAIN Tail(q) : i < j /\ Tail(q)[j] = Tail(q)[i] + 128
    BY DEF Settled
  <2>1. i + 1 \in DOMAIN q /\ Tail(q)[i] = q[i + 1] /\ i \in Nat
    BY <1>1
  <2>2. q[i + 1] \in kept \/ \E j \in DOMAIN q : i + 1 < j /\ q[j] = q[i + 1] + 128
    BY <2>1 DEF Settled
  <2>3. ASSUME NEW j \in DOMAIN q, i + 1 < j
        PROVE  j - 1 \in DOMAIN Tail(q) /\ i < j - 1 /\ Tail(q)[j - 1] = q[j]
    BY <1>1, <1>2, <2>1, <2>3
  <2> QED BY <2>1, <2>2, <2>3
<1>4. q[1] \in kept \/ \E j \in DOMAIN q : 1 < j /\ q[j] = q[1] + 128
  BY <1>1 DEF Settled
<1>5. \A k \in down : k \in kept \/ \E j \in DOMAIN q : q[j] = k + 128
  BY DEF Covered
<1>6. \A k \in down \cup {q[1]} : k \in Nat
  <2>1. (\A k \in down : k \in Nat) /\ q[1] \in Nat
    BY <1>1, Rest, Ranges
  <2> QED BY <2>1
<1>7. ASSUME NEW k \in down \cup {q[1]}
      PROVE  k \in kept \/ \E j \in DOMAIN Tail(q) : Tail(q)[j] = k + 128
  <2>1. CASE k = q[1]
    BY <1>2, <1>4, <2>1
  <2>2. CASE k \in down
    <3>1. \A j \in DOMAIN q : q[j] = k + 128 => 1 < j
      BY <1>1, <1>6
    <3> QED BY <1>2, <1>5, <2>2, <3>1
  <2> QED BY <2>1, <2>2
<1> QED BY <1>1, <1>3, <1>7 DEF Covered

\* A release goes out: its key is no longer down.
LEMMA AfterRelease ==
  ASSUME NEW q \in Seq(Codes), q # <<>>, NEW down, down \subseteq Keys, NEW kept,
         Settled(q, kept), Covered(q, down, kept), ~(Head(q) < 128)
  PROVE  Settled(Tail(q), kept) /\ Covered(Tail(q), down \ {Head(q) - 128}, kept)
<1>1. /\ Tail(q) \in Seq(Codes) /\ Head(q) = q[1] /\ 1 \in DOMAIN q
      /\ DOMAIN q = 1 .. Len(q) /\ Len(q) \in Nat /\ DOMAIN Tail(q) = 1 .. Len(q) - 1
      /\ \A i \in DOMAIN Tail(q) : Tail(q)[i] = q[i + 1]
  BY Rest
<1>2. \A j \in DOMAIN q : 1 < j => j - 1 \in DOMAIN Tail(q) /\ Tail(q)[j - 1] = q[j]
  BY <1>1
<1>3. Settled(Tail(q), kept)
  <2> SUFFICES ASSUME NEW i \in DOMAIN Tail(q), Tail(q)[i] < 128
               PROVE  \/ Tail(q)[i] \in kept
                      \/ \E j \in DOMAIN Tail(q) : i < j /\ Tail(q)[j] = Tail(q)[i] + 128
    BY DEF Settled
  <2>1. i + 1 \in DOMAIN q /\ Tail(q)[i] = q[i + 1] /\ i \in Nat
    BY <1>1
  <2>2. q[i + 1] \in kept \/ \E j \in DOMAIN q : i + 1 < j /\ q[j] = q[i + 1] + 128
    BY <2>1 DEF Settled
  <2>3. ASSUME NEW j \in DOMAIN q, i + 1 < j
        PROVE  j - 1 \in DOMAIN Tail(q) /\ i < j - 1 /\ Tail(q)[j - 1] = q[j]
    BY <1>1, <1>2, <2>1, <2>3
  <2> QED BY <2>1, <2>2, <2>3
<1>4. \A k \in down : k \in kept \/ \E j \in DOMAIN q : q[j] = k + 128
  BY DEF Covered
<1>5. (\A k \in down : k \in Nat) /\ q[1] \in Nat
  BY <1>1, Rest, Ranges
<1>6. ASSUME NEW k \in down \ {q[1] - 128}
      PROVE  k \in kept \/ \E j \in DOMAIN Tail(q) : Tail(q)[j] = k + 128
  <2>1. k \in Nat /\ q[1] # k + 128
    BY <1>5
  <2>2. \A j \in DOMAIN q : q[j] = k + 128 => 1 < j
    BY <1>1, <2>1
  <2> QED BY <1>2, <1>4, <2>2
<1> QED BY <1>1, <1>3, <1>6 DEF Covered

\* Each ioctl of do_key keeps the invariant.
LEMMA DoKeyStep == ASSUME Inv, do_key PROVE Inv'
<1> USE DEF Inv
<1> DEFINE q == codes.todo
           c == Head(q)
           t == Translate(layout, pending, MacModifiers(macDown), c)
<1>1. /\ q # <<>> /\ codes' = [codes EXCEPT !.todo = Tail(@)] /\ fb_kb_kchr(c)
      /\ UNCHANGED <<layout, mode, kchr, held, meant, changes, disturbed, careful>>
  BY DEF do_key, Idle
<1>2. /\ codes.todo \in Seq(Codes) /\ codes \in [kind : {"scancodes", "characters", "none"}, todo : Seq(Codes)]
      /\ macDown \subseteq Keys /\ typed \in Seq(Codes)
  BY DEF TypeOK, Codes, Keys
<1>3. codes'.kind = codes.kind /\ codes'.todo = Tail(q)
  BY <1>1, <1>2
<1>4. c \in Codes /\ Tail(q) \in Seq(Codes)
  BY <1>1, <1>2, Rest
<1>5. t.out \in Seq(Codes) /\ t.pending \in {0} \cup DOMAIN layout.deads
  BY ModifiersThere, Understood, KeyboardAssumption DEF Remembered, TypeOK
<1> HIDE DEF t
<1>6. macDown' \subseteq Keys /\ typed' \in Seq(Codes) /\ pending' \in {0} \cup DOMAIN layout.deads
  <2>1. CASE mode = "ARAW" /\ c < 128
    <3>1. macDown' = macDown \cup {c} /\ pending' = t.pending /\ typed' = typed \o t.out
      BY <1>1, <2>1 DEF fb_kb_kchr, fb_kb_kchr_araw, kb_mode, t
    <3>2. c \in Keys
      BY <1>4, <2>1, Ranges
    <3> QED BY <1>2, <1>5, <3>1, <3>2
  <2>2. CASE mode = "ARAW" /\ ~(c < 128)
    <3>1. macDown' = macDown \ {c - 128} /\ UNCHANGED <<pending, typed>>
      BY <1>1, <2>2 DEF fb_kb_kchr, fb_kb_kchr_araw, kb_mode
    <3> QED BY <1>2, <3>1 DEF Remembered
  <2>3. CASE mode = "ASCII"
    <3>1. /\ typed' = IF c = 0 THEN typed ELSE Append(typed, c)
          /\ UNCHANGED <<macDown, pending>>
      BY <1>1, <2>3 DEF fb_kb_kchr, fb_kb_kchr_ascii, kb_mode
    <3>2. Append(typed, c) \in Seq(Codes)
      BY <1>2, <1>4
    <3> QED BY <1>2, <3>1, <3>2 DEF Remembered
  <2>4. CASE mode \notin {"ARAW", "ASCII"}
    <3>1. UNCHANGED <<macDown, pending, typed>>
      BY <1>1, <2>4 DEF fb_kb_kchr, kb_mode
    <3> QED BY <1>2, <3>1 DEF Remembered
  <2> QED BY <2>1, <2>2, <2>3, <2>4
<1>7. TypeOK'
  <2>1. codes' \in [kind : {"scancodes", "characters", "none"}, todo : Seq(0 .. 255)]
    <3>1. codes' \in [kind : {"scancodes", "characters", "none"}, todo : Seq(Codes)]
      BY <1>1, <1>2, <1>4
    <3> QED BY <3>1, Zenon DEF Codes
  <2>2. codes'.kind = "characters" => codes'.todo \in Seq(0 .. 127)
    <3>1. codes.kind = "characters" => q \in Seq(Keys)
      BY DEF TypeOK, Keys
    <3>2. codes.kind = "characters" => Tail(q) \in Seq(Keys)
      BY <1>1, <3>1, Rest
    <3> QED BY <1>3, <3>2, Zenon DEF Keys
  <2>3. macDown' \subseteq 0 .. 127 /\ typed' \in Seq(0 .. 255)
    BY <1>6, Zenon DEF Keys, Codes
  <2> QED BY <1>1, <2>1, <2>2, <2>3 DEF TypeOK
<1>8. Loaded' /\ Remembered'
  BY <1>1, <1>6 DEF Loaded, Remembered
<1>9. Released'
  <2> SUFFICES ASSUME ~disturbed'
               PROVE  IF mode' = "ARAW"
                        THEN /\ Settled(codes'.todo, AllKept')
                             /\ Covered(codes'.todo, macDown', AllKept')
                        ELSE macDown' = {}
    BY DEF Released, Settled, Covered
  <2>1. ~disturbed /\ mode' = mode
    BY <1>1
  <2>2. AllKept' = AllKept
    BY <1>1, KeptSame DEF AllKept
  <2>3. CASE mode = "ARAW"
    <3>1. Settled(q, AllKept) /\ Covered(q, macDown, AllKept)
      BY <2>1, <2>3 DEF Released
    <3>2. CASE c < 128
      <4>1. macDown' = macDown \cup {c}
        BY <1>1, <2>3, <3>2 DEF fb_kb_kchr, fb_kb_kchr_araw, kb_mode
      <4>2. Settled(Tail(q), AllKept) /\ Covered(Tail(q), macDown \cup {c}, AllKept)
        BY <1>1, <1>2, <3>1, <3>2, AfterPress
      <4> QED BY <1>3, <2>1, <2>2, <2>3, <4>1, <4>2
    <3>3. CASE ~(c < 128)
      <4>1. macDown' = macDown \ {c - 128}
        BY <1>1, <2>3, <3>3 DEF fb_kb_kchr, fb_kb_kchr_araw, kb_mode
      <4>2. Settled(Tail(q), AllKept) /\ Covered(Tail(q), macDown \ {c - 128}, AllKept)
        BY <1>1, <1>2, <3>1, <3>3, AfterRelease
      <4> QED BY <1>3, <2>1, <2>2, <2>3, <4>1, <4>2
    <3> QED BY <3>2, <3>3
  <2>4. CASE mode # "ARAW"
    <3>1. macDown' = macDown
      BY <1>1, <2>4 DEF fb_kb_kchr, fb_kb_kchr_ascii, kb_mode
    <3> QED BY <2>1, <2>4, <3>1 DEF Released
  <2> QED BY <2>3, <2>4
<1> QED BY <1>7, <1>8, <1>9

-----------------------------------------------------------------------------
\* Every step keeps the invariant.
LEMMA NextStep == Inv /\ [Next]_vars => Inv'
<1> SUFFICES ASSUME Inv, [Next]_vars PROVE Inv'
  OBVIOUS
<1>1. ASSUME NEW s \in Keysyms, KeyDown(s) PROVE Inv'
  BY <1>1, KeyDownStep
<1>2. ASSUME NEW s \in Keysyms, KeyUp(s) PROVE Inv'
  BY <1>2, KeyUpStep
<1>3. CASE do_key
  BY <1>3, DoKeyStep
<1>4. ASSUME NEW m \in KeyModes, SetMode(m) PROVE Inv'
  BY <1>4, SetModeStep
<1>5. ASSUME NEW k \in Layouts, SetLayout(k) PROVE Inv'
  BY <1>5, SetLayoutStep
<1>6. CASE NewSession
  BY <1>6, NewSessionStep
<1>7. CASE UNCHANGED vars
  <2>1. /\ UNCHANGED <<layout, mode, macDown, pending, typed>>
        /\ UNCHANGED <<kchr, codes, held, meant, changes, disturbed, careful>>
    BY <1>7 DEF vars, mac
  <2>2. TypeOK' /\ Loaded' /\ Remembered'
    BY <2>1 DEF Inv, TypeOK, Loaded, Remembered
  <2>3. AllKept' = AllKept
    BY <2>1, KeptSame DEF AllKept
  <2>4. Released'
    BY <2>1, <2>3 DEF Inv, Released, Settled, Covered
  <2> QED BY <2>2, <2>4 DEF Inv
<1> QED BY <1>1, <1>2, <1>3, <1>4, <1>5, <1>6, <1>7 DEF Next

(***************************************************************************)
(* Invariance: the inductive invariant holds at all times, whatever keys   *)
(* the client's user presses and however the Mac changes between two       *)
(* codes.                                                                  *)
(***************************************************************************)
THEOREM Invariance == Spec => []Inv
<1> QED BY Start, NextStep, PTL DEF Spec

(***************************************************************************)
(* TypeCorrect: every code that do_key sends is a byte, a character that   *)
(* vnc_evt_key_ascii sends is ASCII, and the Mac's programs get            *)
(* characters.                                                             *)
(***************************************************************************)
THEOREM TypeCorrect == Spec => []TypeOK
<1>1. Inv => TypeOK
  BY DEF Inv
<1> QED BY <1>1, Invariance, PTL

(***************************************************************************)
(* NeverStuck: when the client holds no key, the Mac believes none to be   *)
(* down, however many keys each character took and in whatever order they  *)
(* overlapped.                                                             *)
(***************************************************************************)
THEOREM NeverStuck == Spec => []NothingStuck
<1>1. Inv => NothingStuck
  BY QuietNow DEF NothingStuck
<1> QED BY <1>1, Invariance, PTL

-----------------------------------------------------------------------------
(***************************************************************************)
(* What is typed.  The codes still to be sent have to give the programs    *)
(* just the characters they do not have yet, with the modifiers and the    *)
(* dead key that will be down when each code arrives.                      *)
(***************************************************************************)
\* The modifiers that are down when code i arrives, if those of down are now.
DownAt(todo, down, i) ==
  {M \in ModifierKeys :
     \/ M \in down /\ \A j \in DOMAIN todo : j < i => todo[j] # M + 128
     \/ \E j \in DOMAIN todo :
          /\ j < i /\ todo[j] = M
          /\ \A l \in DOMAIN todo : j < l /\ l < i => todo[l] # M + 128}

\* A code that presses a key that is not a modifier.
Stroke(todo, i) == todo[i] < 128 /\ todo[i] \notin ModifierKeys

\* What a Mac with layout k makes of code i, with the dead key p.
Seen(k, todo, down, p, i) == Translate(k, p, MacModifiers(DownAt(todo, down, i)), todo[i])

\* The codes give nothing, one result or two, the first of them a dead key; got is what the
\* programs have, want what they are to have.
NoStroke(todo, p, got, want) ==
  /\ \A i \in DOMAIN todo : ~Stroke(todo, i)
  /\ p = 0 /\ got = want

OneStroke(k, todo, down, p, got, want) ==
  \E i \in DOMAIN todo :
    /\ \A j \in DOMAIN todo : Stroke(todo, j) <=> j = i
    /\ Seen(k, todo, down, p, i).pending = 0
    /\ got \o Seen(k, todo, down, p, i).out = want

TwoStrokes(k, todo, down, p, got, want) ==
  \E i, j \in DOMAIN todo :
    /\ i < j
    /\ \A l \in DOMAIN todo : Stroke(todo, l) <=> l \in {i, j}
    /\ Seen(k, todo, down, p, i).out = <<>>
    /\ Seen(k, todo, down, Seen(k, todo, down, p, i).pending, j).pending = 0
    /\ got \o Seen(k, todo, down, Seen(k, todo, down, p, i).pending, j).out = want

Coming(k, todo, down, p, got, want) ==
  \/ NoStroke(todo, p, got, want)
  \/ OneStroke(k, todo, down, p, got, want)
  \/ TwoStrokes(k, todo, down, p, got, want)

\* As long as the user types with care and nothing changes under his fingers, what he
\* means is what the programs have got and what the codes to be sent will give them.
ToCome ==
  careful /\ ~disturbed =>
    IF mode = "ARAW"
      THEN Coming(layout, codes.todo, macDown, pending, typed, meant)
      ELSE /\ pending = 0
           /\ \/ codes.todo = <<>> /\ typed = meant
              \/ /\ mode = "ASCII"
                 /\ \E c \in Keys : /\ codes.todo = <<c>>
                                    /\ typed \o (IF c = 0 THEN <<>> ELSE <<c>>) = meant

\* The modifiers are keys of the keyboard.
LEMMA ModifierKeysAre ==
  /\ ModifierKeys \subseteq Keys
  /\ \A M \in ModifierKeys : M \in Nat /\ M < 128
BY DEF ModifierKeys, Keys, COMMAND, SHIFT, LOCK, OPTION, CTRL

\* Only modifiers count for the Mac's modifiers.
LEMMA OnlyModifiers ==
  ASSUME NEW d, NEW e, \A M \in ModifierKeys : M \in d <=> M \in e
  PROVE  MacModifiers(d) = MacModifiers(e)
<1>1. /\ COMMAND \in d <=> COMMAND \in e
      /\ SHIFT \in d <=> SHIFT \in e
      /\ LOCK \in d <=> LOCK \in e
      /\ OPTION \in d <=> OPTION \in e
      /\ CTRL \in d <=> CTRL \in e
  BY DEF ModifierKeys
<1> QED BY <1>1 DEF MacModifiers

\* When a code has gone out, what was expected of the others still is.
LEMMA Shifted ==
  ASSUME NEW q \in Seq(Codes), q # <<>>, NEW down, down \subseteq Keys, NEW after,
         after = IF Head(q) < 128 THEN down \cup {Head(q)} ELSE down \ {Head(q) - 128}
  PROVE  \A i \in DOMAIN Tail(q) : /\ DownAt(Tail(q), after, i) = DownAt(q, down, i + 1)
                                   /\ Stroke(Tail(q), i) <=> Stroke(q, i + 1)
<1> SUFFICES ASSUME NEW i \in DOMAIN Tail(q)
             PROVE  /\ DownAt(Tail(q), after, i) = DownAt(q, down, i + 1)
                    /\ Stroke(Tail(q), i) <=> Stroke(q, i + 1)
  OBVIOUS
<1> DEFINE r == Tail(q)
           n == Len(q)
<1>1. /\ Head(q) = q[1] /\ n \in Nat \ {0} /\ DOMAIN q = 1 .. n /\ DOMAIN r = 1 .. n - 1
      /\ \A j \in 1 .. n - 1 : r[j] = q[j + 1]
      /\ \A j \in 1 .. n : q[j] \in Nat
  BY Rest, Elements, Ranges
<1>2. i \in 1 .. n - 1
  BY <1>1
<1> HIDE DEF r, n
<1>3. \A j \in 1 .. n - 1 : j + 1 \in 1 .. n /\ j + 1 > 1
  BY <1>1
<1>4. \A j \in 1 .. n : j = 1 \/ (j - 1 \in 1 .. n - 1 /\ r[j - 1] = q[j])
  BY <1>1
<1>5. ASSUME NEW M \in ModifierKeys
      PROVE  M \in DownAt(r, after, i) <=> M \in DownAt(q, down, i + 1)
  <2>1. M \in Nat /\ M < 128
    BY ModifierKeysAre
  <2>2. M \in after <=> (M \in down /\ q[1] # M + 128) \/ q[1] = M
    <3>1. q[1] \in Nat
      BY <1>1
    <3>2. CASE q[1] < 128
      <4>1. after = down \cup {q[1]} /\ q[1] # M + 128
        BY <1>1, <2>1, <3>1, <3>2
      <4> QED BY <4>1
    <3>3. CASE ~(q[1] < 128)
      <4>1. after = down \ {q[1] - 128} /\ q[1] # M
        BY <1>1, <2>1, <3>1, <3>3
      <4>2. M = q[1] - 128 <=> q[1] = M + 128
        BY <2>1, <3>1
      <4> QED BY <4>1, <4>2
    <3> QED BY <3>2, <3>3
  <2>3. ASSUME NEW a \in 1 .. n - 1
        PROVE  (\A l \in 1 .. n - 1 : a < l /\ l < i => r[l] # M + 128)
                 <=> (\A l \in 1 .. n : a + 1 < l /\ l < i + 1 => q[l] # M + 128)
    <3>1. ASSUME \A l \in 1 .. n - 1 : a < l /\ l < i => r[l] # M + 128,
                 NEW l \in 1 .. n, a + 1 < l, l < i + 1
          PROVE  q[l] # M + 128
      <4>1. l - 1 \in 1 .. n - 1 /\ a < l - 1 /\ l - 1 < i /\ r[l - 1] = q[l]
        BY <1>1, <1>2, <1>4, <3>1
      <4> QED BY <3>1, <4>1
    <3>2. ASSUME \A l \in 1 .. n : a + 1 < l /\ l < i + 1 => q[l] # M + 128,
                 NEW l \in 1 .. n - 1, a < l, l < i
          PROVE  r[l] # M + 128
      <4>1. l + 1 \in 1 .. n /\ a + 1 < l + 1 /\ l + 1 < i + 1 /\ r[l] = q[l + 1]
        BY <1>1, <1>2, <3>2
      <4> QED BY <3>2, <4>1
    <3> QED BY <3>1, <3>2
  <2>4. (\A l \in 1 .. n - 1 : l < i => r[l] # M + 128)
          <=> (\A l \in 1 .. n : 1 < l /\ l < i + 1 => q[l] # M + 128)
    <3>1. ASSUME \A l \in 1 .. n - 1 : l < i => r[l] # M + 128,
                 NEW l \in 1 .. n, 1 < l, l < i + 1
          PROVE  q[l] # M + 128
      <4>1. l - 1 \in 1 .. n - 1 /\ l - 1 < i /\ r[l - 1] = q[l]
        BY <1>1, <1>2, <1>4, <3>1
      <4> QED BY <3>1, <4>1
    <3>2. ASSUME \A l \in 1 .. n : 1 < l /\ l < i + 1 => q[l] # M + 128,
                 NEW l \in 1 .. n - 1, l < i
          PROVE  r[l] # M + 128
      <4>1. l + 1 \in 1 .. n /\ 1 < l + 1 /\ l + 1 < i + 1 /\ r[l] = q[l + 1]
        BY <1>1, <1>2, <3>2
      <4> QED BY <3>2, <4>1
    <3> QED BY <3>1, <3>2
  <2> DEFINE Later == \A l \in 1 .. n : 1 < l /\ l < i + 1 => q[l] # M + 128
             Pressed1(a) == /\ a < i /\ r[a] = M
                            /\ \A l \in 1 .. n - 1 : a < l /\ l < i => r[l] # M + 128
             Pressed2(a) == /\ a < i + 1 /\ q[a] = M
                            /\ \A l \in 1 .. n : a < l /\ l < i + 1 => q[l] # M + 128
  <2>5. M \in DownAt(r, after, i) <=> (M \in after /\ Later) \/ \E a \in 1 .. n - 1 : Pressed1(a)
    <3>1. M \in DownAt(r, after, i)
            <=> \/ M \in after /\ \A l \in 1 .. n - 1 : l < i => r[l] # M + 128
                \/ \E a \in 1 .. n - 1 : Pressed1(a)
      BY <1>1, ZenonT(30) DEF DownAt
    <3> HIDE DEF Pressed1
    <3> QED BY <2>4, <3>1
  <2>6. M \in DownAt(q, down, i + 1)
          <=> \/ M \in down /\ \A l \in 1 .. n : l < i + 1 => q[l] # M + 128
              \/ \E a \in 1 .. n : Pressed2(a)
    BY <1>1, ZenonT(30) DEF DownAt
  <2>7. (\A l \in 1 .. n : l < i + 1 => q[l] # M + 128) <=> q[1] # M + 128 /\ Later
    BY <1>1, <1>2, SMTT(30)
  <2>8. \A a \in 1 .. n - 1 : Pressed1(a) <=> Pressed2(a + 1)
    <3> TAKE a \in 1 .. n - 1
    <3>1. r[a] = q[a + 1] /\ (a < i <=> a + 1 < i + 1)
      BY <1>1, <1>2
    <3> QED BY <2>3, <3>1
  <2>9. Pressed2(1) <=> q[1] = M /\ Later
    BY <1>1, <1>2
  <2> HIDE DEF Pressed1, Pressed2, Later
  <2>10. (\E a \in 1 .. n : Pressed2(a)) <=> (q[1] = M /\ Later) \/ \E a \in 1 .. n - 1 : Pressed1(a)
    <3>1. ASSUME NEW a \in 1 .. n, Pressed2(a), a # 1 PROVE \E b \in 1 .. n - 1 : Pressed1(b)
      <4>1. PICK b \in 1 .. n - 1 : a = b + 1
        BY <1>1, <3>1
      <4> QED BY <2>8, <3>1, <4>1
    <3>2. 1 \in 1 .. n
      BY <1>1
    <3> QED BY <1>3, <2>8, <2>9, <3>1, <3>2
  <2> QED BY <2>2, <2>5, <2>6, <2>7, <2>10
<1>6. DownAt(r, after, i) \subseteq ModifierKeys /\ DownAt(q, down, i + 1) \subseteq ModifierKeys
  BY DEF DownAt
<1>7. DownAt(r, after, i) = DownAt(q, down, i + 1)
  BY <1>5, <1>6
<1>8. Stroke(r, i) <=> Stroke(q, i + 1)
  BY <1>1, <1>2 DEF Stroke
<1> QED BY <1>7, <1>8 DEF r

\* A key that is silent gives nothing and leaves a dead key alone.
LEMMA SilentGives ==
  ASSUME NEW k, IsLayout(k), NEW key, Silent(k, key), NEW m \in Modifiers, NEW p
  PROVE  Translate(k, p, m, key) = [pending |-> p, out |-> <<>>]
<1> DEFINE t == k.tableOf[m]
<1>1. t \in TablesOf(k)
  BY DEF IsLayout
<1>2. key \in Keycodes => k.tables[t][key] = 0 /\ DeadAt(k, t, key) = {}
  BY <1>1 DEF Silent
<1>3. CASE key \notin Keycodes
  BY <1>3, Zenon DEF Translate
<1>4. CASE key \in Keycodes
  BY <1>2, <1>4, Zenon DEF Translate
<1> QED BY <1>3, <1>4

\* One code goes out: what it gives has come.
LEMMA OneLess ==
  ASSUME NEW k, IsLayout(k), \A key \in ModifierKeys : Silent(k, key),
         NEW q \in Seq(Codes), q # <<>>, NEW down, down \subseteq Keys,
         NEW p, NEW got \in Seq(Codes), NEW want, Coming(k, q, down, p, got, want),
         NEW t, t = Translate(k, p, MacModifiers(down), Head(q))
  PROVE  /\ Head(q) < 128 =>
              Coming(k, Tail(q), down \cup {Head(q)}, t.pending, got \o t.out, want)
         /\ ~(Head(q) < 128) => Coming(k, Tail(q), down \ {Head(q) - 128}, p, got, want)
<1> DEFINE r == Tail(q)
           n == Len(q)
           after == IF Head(q) < 128 THEN down \cup {Head(q)} ELSE down \ {Head(q) - 128}
<1>1. /\ Head(q) = q[1] /\ n \in Nat \ {0} /\ DOMAIN q = 1 .. n /\ DOMAIN r = 1 .. n - 1
      /\ q[1] \in Nat
  BY Rest, Elements, Ranges
<1>2. \A i \in 1 .. n - 1 : /\ DownAt(r, after, i) = DownAt(q, down, i + 1)
                            /\ Stroke(r, i) <=> Stroke(q, i + 1)
                            /\ r[i] = q[i + 1]
  <2> HIDE DEF after
  <2>1. after = IF Head(q) < 128 THEN down \cup {Head(q)} ELSE down \ {Head(q) - 128}
    BY DEF after
  <2>2. \A i \in DOMAIN Tail(q) : /\ DownAt(Tail(q), after, i) = DownAt(q, down, i + 1)
                                  /\ Stroke(Tail(q), i) <=> Stroke(q, i + 1)
    BY <2>1, Shifted, ZenonT(30)
  <2>3. \A i \in DOMAIN Tail(q) : Tail(q)[i] = q[i + 1]
    BY Rest
  <2> QED BY <1>1, <2>2, <2>3
<1> HIDE DEF r, n, after
<1>3. \A i \in 1 .. n - 1 : \A x : Seen(k, r, after, x, i) = Seen(k, q, down, x, i + 1)
  BY <1>2 DEF Seen
<1>4. \A i \in 1 .. n : i # 1 => i - 1 \in 1 .. n - 1 /\ (i - 1) + 1 = i
  BY <1>1
<1>5. \A i \in 1 .. n - 1 : i + 1 \in 1 .. n /\ i + 1 # 1
  BY <1>1
<1>6. ASSUME ~Stroke(q, 1) PROVE Coming(k, r, after, p, got, want)
  <2>1. CASE NoStroke(q, p, got, want)
    <3>1. \A i \in 1 .. n - 1 : ~Stroke(r, i)
      BY <1>1, <1>2, <1>5, <2>1 DEF NoStroke
    <3> QED BY <1>1, <2>1, <3>1 DEF NoStroke, Coming
  <2>2. CASE OneStroke(k, q, down, p, got, want)
    <3>1. PICK i \in 1 .. n :
            /\ \A j \in 1 .. n : Stroke(q, j) <=> j = i
            /\ Seen(k, q, down, p, i).pending = 0
            /\ got \o Seen(k, q, down, p, i).out = want
      BY <1>1, <2>2 DEF OneStroke
    <3>2. i # 1
      BY <1>1, <1>6, <3>1
    <3>3. i - 1 \in 1 .. n - 1 /\ Seen(k, r, after, p, i - 1) = Seen(k, q, down, p, i)
      BY <1>3, <1>4, <3>2
    <3>4. \A j \in 1 .. n - 1 : Stroke(r, j) <=> j = i - 1
      <4> TAKE j \in 1 .. n - 1
      <4>1. Stroke(r, j) <=> j + 1 = i
        BY <1>2, <1>5, <3>1
      <4> QED BY <4>1
    <3>5. OneStroke(k, r, after, p, got, want)
      BY <1>1, <3>1, <3>3, <3>4 DEF OneStroke
    <3> QED BY <3>5 DEF Coming
  <2>3. CASE TwoStrokes(k, q, down, p, got, want)
    <3>1. PICK i \in 1 .. n, j \in 1 .. n :
            /\ i < j
            /\ \A l \in 1 .. n : Stroke(q, l) <=> l \in {i, j}
            /\ Seen(k, q, down, p, i).out = <<>>
            /\ Seen(k, q, down, Seen(k, q, down, p, i).pending, j).pending = 0
            /\ got \o Seen(k, q, down, Seen(k, q, down, p, i).pending, j).out = want
      BY <1>1, <2>3, Zenon DEF TwoStrokes
    <3>2. i # 1 /\ j # 1
      BY <1>1, <1>6, <3>1
    <3>3. /\ i - 1 \in 1 .. n - 1 /\ j - 1 \in 1 .. n - 1 /\ i - 1 < j - 1
          /\ \A x : Seen(k, r, after, x, i - 1) = Seen(k, q, down, x, i)
          /\ \A x : Seen(k, r, after, x, j - 1) = Seen(k, q, down, x, j)
      BY <1>3, <1>4, <3>1, <3>2
    <3>4. \A l \in 1 .. n - 1 : Stroke(r, l) <=> l \in {i - 1, j - 1}
      <4> TAKE l \in 1 .. n - 1
      <4>1. Stroke(r, l) <=> l + 1 \in {i, j}
        BY <1>2, <1>5, <3>1
      <4> QED BY <4>1
    <3>5. TwoStrokes(k, r, after, p, got, want)
      BY <1>1, <3>1, <3>3, <3>4, ZenonT(30) DEF TwoStrokes
    <3> QED BY <3>5 DEF Coming
  <2> QED BY <2>1, <2>2, <2>3 DEF Coming
<1>7. ASSUME Stroke(q, 1) PROVE Coming(k, r, after, t.pending, got \o t.out, want)
  <2>1. Seen(k, q, down, p, 1) = t
    <3>1. \A M \in ModifierKeys : M \in DownAt(q, down, 1) <=> M \in down
      BY <1>1 DEF DownAt
    <3>2. MacModifiers(DownAt(q, down, 1)) = MacModifiers(down)
      BY <3>1, OnlyModifiers
    <3> QED BY <1>1, <3>2 DEF Seen
  <2>2. 1 \in 1 .. n
    BY <1>1
  <2>3. ~NoStroke(q, p, got, want)
    BY <1>1, <1>7, <2>2 DEF NoStroke
  <2>4. CASE OneStroke(k, q, down, p, got, want)
    <3>1. PICK i \in 1 .. n :
            /\ \A j \in 1 .. n : Stroke(q, j) <=> j = i
            /\ Seen(k, q, down, p, i).pending = 0
            /\ got \o Seen(k, q, down, p, i).out = want
      BY <1>1, <2>4 DEF OneStroke
    <3>2. i = 1
      BY <1>7, <2>2, <3>1
    <3>3. \A j \in 1 .. n - 1 : ~Stroke(r, j)
      BY <1>2, <1>5, <3>1, <3>2
    <3>4. NoStroke(r, t.pending, got \o t.out, want)
      BY <1>1, <2>1, <3>1, <3>2, <3>3 DEF NoStroke
    <3> QED BY <3>4 DEF Coming
  <2>5. CASE TwoStrokes(k, q, down, p, got, want)
    <3>1. PICK i \in 1 .. n, j \in 1 .. n :
            /\ i < j
            /\ \A l \in 1 .. n : Stroke(q, l) <=> l \in {i, j}
            /\ Seen(k, q, down, p, i).out = <<>>
            /\ Seen(k, q, down, Seen(k, q, down, p, i).pending, j).pending = 0
            /\ got \o Seen(k, q, down, Seen(k, q, down, p, i).pending, j).out = want
      BY <1>1, <2>5, Zenon DEF TwoStrokes
    <3>2. i = 1 /\ j # 1
      <4>1. 1 \in {i, j}
        BY <1>7, <2>2, <3>1
      <4> QED BY <3>1, <4>1
    <3>3. /\ j - 1 \in 1 .. n - 1
          /\ \A x : Seen(k, r, after, x, j - 1) = Seen(k, q, down, x, j)
      BY <1>3, <1>4, <3>2
    <3>4. \A l \in 1 .. n - 1 : Stroke(r, l) <=> l = j - 1
      <4> TAKE l \in 1 .. n - 1
      <4>1. Stroke(r, l) <=> l + 1 \in {i, j}
        BY <1>2, <1>5, <3>1
      <4> QED BY <3>2, <4>1
    <3>5. t.out = <<>> /\ Seen(k, q, down, t.pending, j).pending = 0
          /\ got \o Seen(k, q, down, t.pending, j).out = want
      BY <2>1, <3>1, <3>2
    <3>6. got \o t.out = got
      BY <3>5
    <3>7. OneStroke(k, r, after, t.pending, got \o t.out, want)
      BY <1>1, <3>3, <3>4, <3>5, <3>6, Zenon DEF OneStroke
    <3> QED BY <3>7 DEF Coming
  <2> QED BY <2>3, <2>4, <2>5 DEF Coming
<1>8. ASSUME q[1] < 128 PROVE Coming(k, r, down \cup {Head(q)}, t.pending, got \o t.out, want)
  <2>1. after = down \cup {Head(q)}
    BY <1>1, <1>8 DEF after
  <2>2. CASE Stroke(q, 1)
    BY <1>7, <2>1, <2>2
  <2>3. CASE ~Stroke(q, 1)
    <3>1. q[1] \in ModifierKeys
      BY <1>8, <2>3 DEF Stroke
    <3>2. t = [pending |-> p, out |-> <<>>]
      BY <1>1, <3>1, SilentGives, ModifiersThere
    <3>3. t.pending = p /\ got \o t.out = got
      BY <3>2
    <3> QED BY <1>6, <2>1, <2>3, <3>3
  <2> QED BY <2>2, <2>3
<1>9. ASSUME ~(q[1] < 128) PROVE Coming(k, r, down \ {Head(q) - 128}, p, got, want)
  <2>1. after = down \ {Head(q) - 128} /\ ~Stroke(q, 1)
    BY <1>1, <1>9 DEF after, Stroke
  <2> QED BY <1>6, <2>1
<1> QED BY <1>1, <1>8, <1>9 DEF r

-----------------------------------------------------------------------------
(***************************************************************************)
(* Where the codes of a press are, and what they give.                     *)
(***************************************************************************)
\* Pressing the keys of a combination of modifiers gives that combination.
LEMMA Combination ==
  ASSUME NEW m \in Modifiers, m < 32, NEW down,
         \A key \in ModifierKeys : key \in down <=> HasModifier(m, key)
  PROVE  MacModifiers(down) = m
<1> DEFINE p == 2 ^ ModifierBits
           bit(key, value) == IF key \in down THEN value ELSE 0
<1>1. m \in 0 .. 31 /\ m < p /\ p \in Nat \ {0}
  BY Powers DEF Modifiers
<1>2. 2^0 = 1 /\ 2^1 = 2 /\ 2^2 = 4 /\ 2^3 = 8 /\ 2^4 = 16
  OBVIOUS
<1> HIDE DEF p
<1>3. /\ HasModifier(m, COMMAND) <=> m % 2 = 1
      /\ HasModifier(m, SHIFT) <=> (m \div 2) % 2 = 1
      /\ HasModifier(m, LOCK) <=> (m \div 4) % 2 = 1
      /\ HasModifier(m, OPTION) <=> (m \div 8) % 2 = 1
      /\ HasModifier(m, CTRL) <=> (m \div 16) % 2 = 1
  BY <1>1, <1>2 DEF HasModifier, COMMAND, SHIFT, LOCK, OPTION, CTRL
<1>4. /\ bit(COMMAND, 1) = m % 2
      /\ bit(SHIFT, 2) = 2 * ((m \div 2) % 2)
      /\ bit(LOCK, 4) = 4 * ((m \div 4) % 2)
      /\ bit(OPTION, 8) = 8 * ((m \div 8) % 2)
      /\ bit(CTRL, 16) = 16 * ((m \div 16) % 2)
  <2>1. {COMMAND, SHIFT, LOCK, OPTION, CTRL} = ModifierKeys
    BY DEF ModifierKeys
  <2>2. /\ COMMAND \in down <=> m % 2 = 1
        /\ SHIFT \in down <=> (m \div 2) % 2 = 1
        /\ LOCK \in down <=> (m \div 4) % 2 = 1
        /\ OPTION \in down <=> (m \div 8) % 2 = 1
        /\ CTRL \in down <=> (m \div 16) % 2 = 1
    BY <1>3, <2>1
  <2>3. \A n \in Nat : n % 2 \in {0, 1}
    OBVIOUS
  <2>4. m % 2 \in {0, 1} /\ (m \div 2) % 2 \in {0, 1} /\ (m \div 4) % 2 \in {0, 1}
        /\ (m \div 8) % 2 \in {0, 1} /\ (m \div 16) % 2 \in {0, 1}
    BY <1>1
  <2> QED BY <2>2, <2>4
<1>5. bit(COMMAND, 1) + bit(SHIFT, 2) + bit(LOCK, 4) + bit(OPTION, 8) + bit(CTRL, 16) = m
  BY <1>1, <1>4
<1>6. m % p = m
  BY <1>1
<1> QED BY <1>5, <1>6 DEF MacModifiers, p

\* Every code that lets go is of a key that was pressed.
LEMMA LetGoOnly ==
  ASSUME NEW kp \in Seq(Keys)
  PROVE  /\ DOMAIN do_key_up(kp) = DOMAIN kp
         /\ \A j \in DOMAIN kp : \E i \in DOMAIN kp : do_key_up(kp)[j] = kp[i] + 128
<1>1. Len(kp) \in Nat /\ DOMAIN kp = 1 .. Len(kp)
  OBVIOUS
<1>2. do_key_up(kp) = [i \in 1 .. Len(kp) |-> Reverse(kp)[i] + 128]
  BY <1>1 DEF do_key_up
<1>3. \A i \in 1 .. Len(kp) : Reverse(kp)[i] = kp[(Len(kp) - i) + 1]
  BY DEF Reverse
<1>4. \A i \in 1 .. Len(kp) : do_key_up(kp)[i] = kp[(Len(kp) - i) + 1] + 128
  BY <1>2, <1>3
<1>5. \A i \in 1 .. Len(kp) : (Len(kp) - i) + 1 \in 1 .. Len(kp)
  BY <1>1
<1>6. DOMAIN do_key_up(kp) = 1 .. Len(kp)
  BY <1>2
<1> QED BY <1>1, <1>4, <1>5, <1>6

\* Where the elements of two sequences put together are, ...
LEMMA Joined ==
  ASSUME NEW S, NEW s \in Seq(S), NEW t \in Seq(S)
  PROVE  /\ s \o t \in Seq(S) /\ Len(s \o t) = Len(s) + Len(t)
         /\ DOMAIN (s \o t) = 1 .. Len(s) + Len(t)
         /\ \A i \in 1 .. Len(s) : (s \o t)[i] = s[i]
         /\ \A i \in 1 .. Len(t) : (s \o t)[Len(s) + i] = t[i]
         /\ \A i \in 1 .. Len(s) + Len(t) :
              i \in 1 .. Len(s) \/ \E j \in 1 .. Len(t) : i = Len(s) + j
<1>1. Len(s) \in Nat /\ Len(t) \in Nat
  OBVIOUS
<1>2. /\ s \o t \in Seq(S) /\ Len(s \o t) = Len(s) + Len(t)
      /\ DOMAIN (s \o t) = 1 .. Len(s) + Len(t)
      /\ \A i \in 1 .. Len(s) : (s \o t)[i] = s[i]
      /\ \A i \in 1 .. Len(t) : (s \o t)[Len(s) + i] = t[i]
  OBVIOUS
<1>3. ASSUME NEW i \in 1 .. Len(s) + Len(t), i \notin 1 .. Len(s)
      PROVE  \E j \in 1 .. Len(t) : i = Len(s) + j
  <2>1. i - Len(s) \in 1 .. Len(t) /\ i = Len(s) + (i - Len(s))
    BY <1>1, <1>3
  <2> QED BY <2>1
<1> QED BY <1>2, <1>3

\* the same of sequences of codes, ...
LEMMA JoinedCodes ==
  \A s, t \in Seq(Codes) :
    /\ s \o t \in Seq(Codes) /\ Len(s \o t) = Len(s) + Len(t)
    /\ DOMAIN (s \o t) = 1 .. Len(s) + Len(t)
    /\ \A i \in 1 .. Len(s) : (s \o t)[i] = s[i]
    /\ \A i \in 1 .. Len(t) : (s \o t)[Len(s) + i] = t[i]
OBVIOUS

\* ... and which they are.
LEMMA JoinedRange ==
  ASSUME NEW S, NEW s \in Seq(S), NEW t \in Seq(S)
  PROVE  Range(s \o t) = Range(s) \cup Range(t)
<1> DEFINE u == s \o t
<1>1. /\ DOMAIN u = 1 .. Len(s) + Len(t) /\ DOMAIN s = 1 .. Len(s) /\ DOMAIN t = 1 .. Len(t)
      /\ Len(s) \in Nat /\ Len(t) \in Nat
      /\ \A i \in 1 .. Len(s) : u[i] = s[i]
      /\ \A i \in 1 .. Len(t) : u[Len(s) + i] = t[i]
      /\ \A i \in 1 .. Len(s) + Len(t) :
           i \in 1 .. Len(s) \/ \E j \in 1 .. Len(t) : i = Len(s) + j
  BY Joined
<1> HIDE DEF u
<1>2. \A i \in 1 .. Len(s) : i \in 1 .. Len(s) + Len(t)
  BY <1>1
<1>3. \A i \in 1 .. Len(t) : Len(s) + i \in 1 .. Len(s) + Len(t)
  BY <1>1
<1>4. Range(u) \subseteq Range(s) \cup Range(t)
  <2> SUFFICES ASSUME NEW i \in 1 .. Len(s) + Len(t) PROVE u[i] \in Range(s) \cup Range(t)
    BY <1>1 DEF Range
  <2>1. CASE i \in 1 .. Len(s)
    BY <1>1, <2>1 DEF Range
  <2>2. CASE \E j \in 1 .. Len(t) : i = Len(s) + j
    BY <1>1, <2>2 DEF Range
  <2> QED BY <1>1, <2>1, <2>2
<1>5. Range(s) \subseteq Range(u)
  BY <1>1, <1>2 DEF Range
<1>6. Range(t) \subseteq Range(u)
  BY <1>1, <1>3 DEF Range
<1> QED BY <1>4, <1>5, <1>6 DEF u

\* A press is the modifiers it needs and a key.
LEMMA PressIs ==
  ASSUME NEW vk, vk.valid, vk.keycode \in Keys
  PROVE  \E f \in Seq(ModifierKeys) :
           /\ vkey_to_keypresses(vk) = f \o <<vk.keycode>>
           /\ \A M \in ModifierKeys : M \in Range(f) <=> HasModifier(vk.modifiers, M)
<1> DEFINE N(key) == IfNeeded(vk, key)
           R(key) == IF HasModifier(vk.modifiers, key) THEN {key} ELSE {}
<1>1. \A key \in ModifierKeys : N(key) \in Seq(ModifierKeys) /\ Range(N(key)) = R(key)
  <2> TAKE key \in ModifierKeys
  <2>1. CASE HasModifier(vk.modifiers, key)
    <3>1. N(key) = <<key>> /\ R(key) = {key}
      BY <2>1 DEF IfNeeded
    <3>2. Range(<<key>>) = {key} /\ <<key>> \in Seq(ModifierKeys)
      BY DEF Range
    <3> QED BY <3>1, <3>2
  <2>2. CASE ~HasModifier(vk.modifiers, key)
    <3>1. N(key) = <<>> /\ R(key) = {}
      BY <2>2 DEF IfNeeded
    <3>2. Range(<<>>) = {} /\ <<>> \in Seq(ModifierKeys)
      BY DEF Range
    <3> QED BY <3>1, <3>2
  <2> QED BY <2>1, <2>2
<1> HIDE DEF N
<1>2. {COMMAND, SHIFT, LOCK, OPTION, CTRL} = ModifierKeys
  BY DEF ModifierKeys
<1> DEFINE f2 == N(COMMAND) \o N(SHIFT)
           f3 == f2 \o N(LOCK)
           f4 == f3 \o N(OPTION)
           f5 == f4 \o N(CTRL)
<1>3. f2 \in Seq(ModifierKeys) /\ Range(f2) = R(COMMAND) \cup R(SHIFT)
  BY <1>1, <1>2, Joined, JoinedRange
<1> HIDE DEF f2
<1>4. f3 \in Seq(ModifierKeys) /\ Range(f3) = Range(f2) \cup R(LOCK)
  BY <1>1, <1>2, <1>3, Joined, JoinedRange
<1> HIDE DEF f3
<1>5. f4 \in Seq(ModifierKeys) /\ Range(f4) = Range(f3) \cup R(OPTION)
  BY <1>1, <1>2, <1>4, Joined, JoinedRange
<1> HIDE DEF f4
<1>6. f5 \in Seq(ModifierKeys) /\ Range(f5) = Range(f4) \cup R(CTRL)
  BY <1>1, <1>2, <1>5, Joined, JoinedRange
<1> HIDE DEF f5
<1>7. \A M \in ModifierKeys : M \in Range(f5) <=> HasModifier(vk.modifiers, M)
  <2>1. Range(f5) = R(COMMAND) \cup R(SHIFT) \cup R(LOCK) \cup R(OPTION) \cup R(CTRL)
    BY <1>3, <1>4, <1>5, <1>6
  <2>2. \A M \in ModifierKeys : R(M) \subseteq Range(f5)
    BY <1>2, <2>1
  <2>3. \A M \in Range(f5) : HasModifier(vk.modifiers, M)
    BY <2>1
  <2> QED BY <2>2, <2>3
<1>8. vkey_to_keypresses(vk) = f5 \o <<vk.keycode>>
  BY Zenon DEF vkey_to_keypresses, N, f2, f3, f4, f5
<1> QED BY <1>6, <1>7, <1>8


\* A number below 128 is no release.
LEMMA Apart == ASSUME NEW x \in Nat, x < 128, NEW y \in Nat PROVE x # y + 128 /\ ~(128 <= x)
OBVIOUS

\* The codes start with n modifiers, those of f, and a key; r others follow.
Begins(todo, f, key, n, r) ==
  /\ n \in Nat /\ r \in Nat /\ DOMAIN f = 1 .. n
  /\ DOMAIN todo = 1 .. (n + 1) + r
  /\ \A i \in 1 .. n : todo[i] = f[i] /\ f[i] \in ModifierKeys
  /\ todo[n + 1] = key

\* A press with other codes after it begins so.
LEMMA Positions ==
  ASSUME NEW f \in Seq(ModifierKeys), NEW key \in Keys, NEW rest \in Seq(Codes)
  PROVE  /\ Begins((f \o <<key>>) \o rest, f, key, Len(f), Len(rest))
         /\ \A i \in 1 .. Len(rest) : ((f \o <<key>>) \o rest)[(Len(f) + 1) + i] = rest[i]
<1>1. ModifierKeys \subseteq Codes /\ Keys \subseteq Codes
  BY ModifierKeysAre, Ranges
<1>2. /\ f \in Seq(Codes) /\ <<key>> \in Seq(Codes) /\ Len(f) \in Nat /\ Len(rest) \in Nat
      /\ DOMAIN f = 1 .. Len(f) /\ \A i \in 1 .. Len(f) : f[i] \in ModifierKeys
  BY <1>1
<1>3. PICK g : g = f \o <<key>>
  OBVIOUS
<1>4. /\ g \in Seq(Codes) /\ Len(g) = Len(f) + 1
      /\ \A i \in 1 .. Len(f) : g[i] = f[i]
      /\ g[Len(f) + 1] = key
  BY <1>2, <1>3
<1>5. /\ DOMAIN (g \o rest) = 1 .. Len(g) + Len(rest)
      /\ \A i \in 1 .. Len(g) : (g \o rest)[i] = g[i]
      /\ \A i \in 1 .. Len(rest) : (g \o rest)[Len(g) + i] = rest[i]
  BY <1>4, JoinedCodes, Zenon
<1>6. (\A i \in 1 .. Len(f) : i \in 1 .. Len(f) + 1) /\ Len(f) + 1 \in 1 .. Len(f) + 1
  BY <1>2
<1>7. \A i \in 1 .. Len(f) : (g \o rest)[i] = f[i]
  BY <1>4, <1>5, <1>6, Zenon
<1>8. (g \o rest)[Len(f) + 1] = key
  BY <1>4, <1>5, <1>6, Zenon
<1>9. Begins(g \o rest, f, key, Len(f), Len(rest))
  BY <1>2, <1>4, <1>5, <1>7, <1>8, Zenon DEF Begins
<1>10. \A i \in 1 .. Len(rest) : (g \o rest)[(Len(f) + 1) + i] = rest[i]
  BY <1>4, <1>5, Zenon
<1> QED BY <1>3, <1>9, <1>10, Zenon

\* Where they are.
LEMMA Parts ==
  ASSUME NEW todo, NEW f, NEW key, NEW n, NEW r, Begins(todo, f, key, n, r)
  PROVE  /\ \A i \in DOMAIN todo : i \in 1 .. n \/ i = n + 1 \/ \E l \in 1 .. r : i = (n + 1) + l
         /\ n + 1 \in DOMAIN todo /\ \A i \in 1 .. n : i \in DOMAIN todo /\ i < n + 1
         /\ \A i \in 1 .. r : (n + 1) + i \in DOMAIN todo /\ (n + 1) + i > n + 1
         /\ \A i \in DOMAIN todo : i < n + 1 => i \in 1 .. n
         /\ \A M : M \in Range(f) <=> \E i \in 1 .. n : todo[i] = M
         /\ Range(f) \subseteq ModifierKeys
         /\ \A i \in 1 .. n : todo[i] \in ModifierKeys /\ ~Stroke(todo, i)
<1>1. /\ n \in Nat /\ r \in Nat /\ DOMAIN f = 1 .. n
      /\ DOMAIN todo = 1 .. (n + 1) + r
      /\ \A i \in 1 .. n : todo[i] = f[i] /\ f[i] \in ModifierKeys
  BY DEF Begins
<1>2. \A i \in 1 .. (n + 1) + r : i \in 1 .. n \/ i = n + 1 \/ \E l \in 1 .. r : i = (n + 1) + l
  <2> SUFFICES ASSUME NEW i \in 1 .. (n + 1) + r, i \notin 1 .. n, i # n + 1
               PROVE  \E l \in 1 .. r : i = (n + 1) + l
    OBVIOUS
  <2>1. i - (n + 1) \in 1 .. r /\ i = (n + 1) + (i - (n + 1))
    BY <1>1
  <2> QED BY <2>1
<1>3. n + 1 \in DOMAIN todo /\ \A i \in 1 .. n : i \in DOMAIN todo /\ i < n + 1
  BY <1>1
<1>4. \A i \in 1 .. r : (n + 1) + i \in DOMAIN todo /\ (n + 1) + i > n + 1
  BY <1>1
<1>5. \A i \in DOMAIN todo : i < n + 1 => i \in 1 .. n
  BY <1>1
<1>6. \A M : M \in Range(f) <=> \E i \in 1 .. n : todo[i] = M
  BY <1>1 DEF Range
<1>7. Range(f) \subseteq ModifierKeys
  BY <1>1 DEF Range
<1>8. \A i \in 1 .. n : todo[i] \in ModifierKeys /\ ~Stroke(todo, i)
  BY <1>1 DEF Stroke
<1> QED BY <1>1, <1>2, <1>3, <1>4, <1>5, <1>6, <1>7, <1>8

\* When the key comes, the modifiers before it are down.
LEMMA Reached ==
  ASSUME NEW todo, NEW f, NEW key, NEW n, NEW r, Begins(todo, f, key, n, r), NEW down
  PROVE  DownAt(todo, down, n + 1) = (down \cap ModifierKeys) \cup Range(f)
<1>1. /\ \A i \in 1 .. n : i \in DOMAIN todo /\ i < n + 1
      /\ \A i \in DOMAIN todo : i < n + 1 => i \in 1 .. n
      /\ \A M : M \in Range(f) <=> \E i \in 1 .. n : todo[i] = M
      /\ Range(f) \subseteq ModifierKeys
      /\ \A i \in 1 .. n : todo[i] \in ModifierKeys
  BY Parts
<1>2. \A M \in ModifierKeys : \A i \in 1 .. n : todo[i] # M + 128
  BY <1>1, Apart, ModifierKeysAre
<1>3. ASSUME NEW M \in ModifierKeys
      PROVE  M \in DownAt(todo, down, n + 1) <=> M \in down \/ M \in Range(f)
  BY <1>1, <1>2 DEF DownAt
<1>4. DownAt(todo, down, n + 1) \subseteq ModifierKeys
  BY DEF DownAt
<1> QED BY <1>1, <1>3, <1>4

\* Nothing comes of codes that press no other key than modifiers.
LEMMA NoneComing ==
  ASSUME NEW k, NEW todo, \A i \in DOMAIN todo : ~Stroke(todo, i), NEW down, NEW got
  PROVE  Coming(k, todo, down, 0, got, got)
BY DEF Coming, NoStroke

\* One key is pressed with its modifiers: what comes is what it gives with them.
LEMMA PlainComing ==
  ASSUME NEW k, NEW todo, NEW f, NEW key \in Keys \ ModifierKeys, NEW n, NEW r,
         Begins(todo, f, key, n, r),
         \A i \in 1 .. r : todo[(n + 1) + i] \in Releases,
         NEW down, down \cap ModifierKeys \subseteq Range(f),
         NEW m \in Modifiers, m < 32, \A M \in ModifierKeys : M \in Range(f) <=> HasModifier(m, M),
         NEW t, t = Translate(k, 0, m, key), t.pending = 0,
         NEW got, NEW want, got \o t.out = want
  PROVE  Coming(k, todo, down, 0, got, want)
<1>0. todo[n + 1] = key /\ n \in Nat
  BY DEF Begins
<1>1a. /\ \A i \in DOMAIN todo : i \in 1 .. n \/ i = n + 1 \/ \E l \in 1 .. r : i = (n + 1) + l
      /\ n + 1 \in DOMAIN todo /\ \A i \in 1 .. n : i \in DOMAIN todo /\ i < n + 1
  BY Parts
<1>1b. \A i \in 1 .. r : (n + 1) + i \in DOMAIN todo /\ (n + 1) + i > n + 1
  BY Parts
<1>1. /\ Range(f) \subseteq ModifierKeys
      /\ \A i \in 1 .. n : ~Stroke(todo, i)
  BY Parts
<1>2. DownAt(todo, down, n + 1) = (down \cap ModifierKeys) \cup Range(f)
  BY Reached
<1>3. \A i \in 1 .. n : i # n + 1
  BY <1>0, <1>1a, <1>1b, <1>1
<1>4. \A l \in 1 .. r : ~Stroke(todo, (n + 1) + l) /\ (n + 1) + l # n + 1
  <2> TAKE l \in 1 .. r
  <2>1. todo[(n + 1) + l] \in Nat /\ 128 <= todo[(n + 1) + l]
    BY Ranges
  <2>2. (n + 1) + l # n + 1
    BY <1>0, <1>1a, <1>1b, <1>1
  <2> QED BY <2>1, <2>2, Apart DEF Stroke
<1>5. Stroke(todo, n + 1)
  <2>1. key \in Nat /\ key < 128 /\ key \notin ModifierKeys
    BY Ranges
  <2> QED BY <1>0, <1>1a, <1>1b, <1>1, <2>1 DEF Stroke
<1>6. \A i \in DOMAIN todo : Stroke(todo, i) <=> i = n + 1
  BY <1>0, <1>1a, <1>1b, <1>1, <1>3, <1>4, <1>5
<1>7. MacModifiers(DownAt(todo, down, n + 1)) = m
  <2>1. \A M \in ModifierKeys : M \in DownAt(todo, down, n + 1) <=> HasModifier(m, M)
    BY <1>0, <1>1a, <1>1b, <1>1, <1>2
  <2> QED BY <2>1, Combination
<1>8. Seen(k, todo, down, 0, n + 1) = t
  BY <1>0, <1>1a, <1>1b, <1>1, <1>7 DEF Seen
<1>9. OneStroke(k, todo, down, 0, got, want)
  BY <1>0, <1>1a, <1>1b, <1>1, <1>6, <1>8 DEF OneStroke
<1> QED BY <1>9 DEF Coming

\* The codes of a character that takes two keys: n modifiers and the dead key d, u codes that
\* release them, l modifiers and the key e.
Pair(todo, f, d, n, u, g, e, l) ==
  /\ Begins(todo, f, d, n, u + (l + 1))
  /\ u \in Nat /\ l \in Nat /\ DOMAIN g = 1 .. l
  /\ \A i \in 1 .. u : todo[(n + 1) + i] \in Releases
  /\ \A i \in 1 .. n : \E j \in 1 .. u : todo[(n + 1) + j] = todo[i] + 128
  /\ \A i \in 1 .. l : todo[((n + 1) + u) + i] = g[i] /\ g[i] \in ModifierKeys
  /\ todo[((n + 1) + u) + (l + 1)] = e

\* Where they are.
LEMMA PairParts ==
  ASSUME NEW todo, NEW f, NEW d, NEW n, NEW u, NEW g, NEW e, NEW l, Pair(todo, f, d, n, u, g, e, l),
         NEW a, a = (n + 1) + u
  PROVE  /\ \A i \in DOMAIN todo : \/ i \in 1 .. n \/ i = n + 1
                                   \/ \E j \in 1 .. u : i = (n + 1) + j
                                   \/ \E j \in 1 .. l : i = a + j
                                   \/ i = a + (l + 1)
         /\ n + 1 \in DOMAIN todo /\ a + (l + 1) \in DOMAIN todo /\ n + 1 < a + (l + 1)
         /\ \A j \in 1 .. u : /\ (n + 1) + j \in DOMAIN todo /\ (n + 1) + j < a + (l + 1)
                              /\ \A i \in 1 .. n : i < (n + 1) + j
                              /\ \A i \in 1 .. l : (n + 1) + j < a + i
                              /\ (n + 1) + j # n + 1
         /\ \A j \in 1 .. l : a + j \in DOMAIN todo /\ a + j < a + (l + 1) /\ n + 1 < a + j
         /\ \A i \in 1 .. n : i < n + 1 /\ i < a + (l + 1) /\ \A j \in 1 .. l : i < a + j
<1>1. /\ n \in Nat /\ u \in Nat /\ l \in Nat /\ a \in Nat
      /\ DOMAIN todo = 1 .. (n + 1) + (u + (l + 1))
  <2>1. n \in Nat /\ u \in Nat /\ l \in Nat /\ DOMAIN todo = 1 .. (n + 1) + (u + (l + 1))
    BY DEF Pair, Begins
  <2> QED BY <2>1
<1>2. DOMAIN todo = 1 .. a + (l + 1)
  BY <1>1
<1>3. \A i \in 1 .. a + (l + 1) : \/ i \in 1 .. n \/ i = n + 1
                                  \/ \E j \in 1 .. u : i = (n + 1) + j
                                  \/ \E j \in 1 .. l : i = a + j
                                  \/ i = a + (l + 1)
  <2> SUFFICES ASSUME NEW i \in 1 .. a + (l + 1), i \notin 1 .. n, i # n + 1, i # a + (l + 1)
               PROVE  (\E j \in 1 .. u : i = (n + 1) + j) \/ (\E j \in 1 .. l : i = a + j)
    OBVIOUS
  <2>1. CASE i <= a
    <3>1. i - (n + 1) \in 1 .. u /\ i = (n + 1) + (i - (n + 1))
      BY <1>1, <2>1
    <3> QED BY <3>1
  <2>2. CASE ~(i <= a)
    <3>1. i - a \in 1 .. l /\ i = a + (i - a)
      BY <1>1, <2>2
    <3> QED BY <3>1
  <2> QED BY <2>1, <2>2
<1>4. n + 1 \in DOMAIN todo /\ a + (l + 1) \in DOMAIN todo /\ n + 1 < a + (l + 1)
  BY <1>1, <1>2
<1>5. ASSUME NEW j \in 1 .. u
      PROVE  /\ (n + 1) + j \in DOMAIN todo /\ (n + 1) + j < a + (l + 1)
             /\ \A i \in 1 .. n : i < (n + 1) + j
             /\ \A i \in 1 .. l : (n + 1) + j < a + i
             /\ (n + 1) + j # n + 1
  BY <1>1, <1>2
<1>6. ASSUME NEW j \in 1 .. l
      PROVE  a + j \in DOMAIN todo /\ a + j < a + (l + 1) /\ n + 1 < a + j
  BY <1>1, <1>2
<1>7. ASSUME NEW i \in 1 .. n
      PROVE  i < n + 1 /\ i < a + (l + 1) /\ \A j \in 1 .. l : i < a + j
  BY <1>1
<1> QED BY <1>2, <1>3, <1>4, <1>5, <1>6, <1>7

\* When the second key comes, only its own modifiers are down.
LEMMA ReachedSecond ==
  ASSUME NEW todo, NEW f, NEW d \in Keys \ ModifierKeys, NEW n, NEW u, NEW g, NEW e, NEW l,
         Pair(todo, f, d, n, u, g, e, l),
         NEW a, a = (n + 1) + u, NEW down, down \cap ModifierKeys = {}
  PROVE  DownAt(todo, down, a + (l + 1)) = Range(g)
<1> DEFINE z == a + (l + 1)
<1>0. /\ \A i \in 1 .. u : todo[(n + 1) + i] \in Releases
      /\ \A i \in 1 .. n : \E j \in 1 .. u : todo[(n + 1) + j] = todo[i] + 128
      /\ \A i \in 1 .. l : todo[a + i] = g[i] /\ g[i] \in ModifierKeys
      /\ DOMAIN g = 1 .. l /\ todo[n + 1] = d
  BY DEF Pair, Begins
<1>1. /\ \A i \in DOMAIN todo : \/ i \in 1 .. n \/ i = n + 1
                                \/ \E j \in 1 .. u : i = (n + 1) + j
                                \/ \E j \in 1 .. l : i = a + j
                                \/ i = z
      /\ z \in DOMAIN todo
  BY PairParts
<1>2. /\ \A j \in 1 .. u : /\ (n + 1) + j \in DOMAIN todo /\ (n + 1) + j < z
                           /\ \A i \in 1 .. n : i < (n + 1) + j
                           /\ \A i \in 1 .. l : (n + 1) + j < a + i
      /\ \A j \in 1 .. l : a + j \in DOMAIN todo /\ a + j < z /\ n + 1 < a + j
      /\ \A i \in 1 .. n : \A j \in 1 .. l : i < a + j
  BY PairParts
<1>3. \A i \in 1 .. l : a + i \in Int /\ \A j \in 1 .. l : a + i < a + j => a + j \in Int
  <2>1. a \in Int
    BY DEF Pair, Begins
  <2> QED BY <2>1
<1>4. z \in Int /\ ~(z < z)
  <2>1. a \in Int /\ l \in Int
    BY DEF Pair, Begins
  <2> QED BY <2>1
<1> HIDE DEF z
<1>5. Range(g) \subseteq ModifierKeys
  BY <1>0 DEF Range
<1>6. ASSUME NEW M \in Range(g) PROVE M \in DownAt(todo, down, z)
  <2>1. PICK i \in 1 .. l : g[i] = M
    BY <1>0 DEF Range
  <2>2. a + i \in DOMAIN todo /\ a + i < z /\ todo[a + i] = M
    BY <1>0, <1>2, <2>1
  <2>3. ASSUME NEW j \in DOMAIN todo, a + i < j, j < z PROVE todo[j] # M + 128
    <3>1. PICK h \in 1 .. l : j = a + h
      <4>1. j \notin 1 .. n
        <5>1. j \in 1 .. n => j < a + i
          BY <1>2, <2>1
        <5>2. j \in Int /\ a + i \in Int
          BY <1>3, <2>1 DEF Pair, Begins
        <5> QED BY <2>3, <5>1, <5>2
      <4>2. j # n + 1
        <5>1. n + 1 < a + i
          BY <1>2, <2>1
        <5>2. n + 1 \in Int /\ a + i \in Int
          BY <1>3, <2>1 DEF Pair, Begins
        <5> QED BY <2>3, <5>1, <5>2
      <4>3. ASSUME NEW h \in 1 .. u PROVE j # (n + 1) + h
        <5>1. (n + 1) + h < a + i
          BY <1>2, <2>1
        <5>2. (n + 1) + h \in Int /\ a + i \in Int
          BY <1>3, <2>1 DEF Pair, Begins
        <5> QED BY <2>3, <5>1, <5>2
      <4>4. j # z
        BY <1>4, <2>3
      <4> QED BY <1>1, <4>1, <4>2, <4>3, <4>4
    <3>2. todo[j] \in ModifierKeys
      BY <1>0, <3>1
    <3> QED BY <1>5, <3>2, Apart, ModifierKeysAre
  <2> QED BY <1>5, <2>2, <2>3 DEF DownAt
<1>7. ASSUME NEW M \in DownAt(todo, down, z) PROVE M \in Range(g)
  <2>1. M \in ModifierKeys /\ M \notin down
    BY DEF DownAt
  <2>2. PICK j \in DOMAIN todo : /\ j < z /\ todo[j] = M
                                 /\ \A h \in DOMAIN todo : j < h /\ h < z => todo[h] # M + 128
    BY <2>1 DEF DownAt
  <2>3. j \notin 1 .. n
    <3> SUFFICES ASSUME j \in 1 .. n PROVE FALSE
      OBVIOUS
    <3>1. PICK h \in 1 .. u : todo[(n + 1) + h] = M + 128
      BY <1>0, <2>2
    <3>2. (n + 1) + h \in DOMAIN todo /\ j < (n + 1) + h /\ (n + 1) + h < z
      BY <1>2
    <3> QED BY <2>2, <3>1, <3>2
  <2>4. j # n + 1
    BY <1>0, <2>1, <2>2
  <2>5. ASSUME NEW h \in 1 .. u PROVE j # (n + 1) + h
    <3>1. todo[(n + 1) + h] \in Nat /\ 128 <= todo[(n + 1) + h]
      BY <1>0, Ranges
    <3>2. M \in Nat /\ M < 128
      BY <2>1, ModifierKeysAre
    <3> QED BY <2>2, <3>1, <3>2, Apart
  <2>6. j # z
    BY <1>4, <2>2
  <2>7. PICK h \in 1 .. l : j = a + h
    BY <1>1, <2>3, <2>4, <2>5, <2>6
  <2> QED BY <1>0, <2>2, <2>7 DEF Range
<1> QED BY <1>6, <1>7 DEF z

\* A dead key is pressed and let go and another pressed: what comes is what they give.
LEMMA PairComing ==
  ASSUME NEW k, NEW todo, NEW f, NEW d \in Keys \ ModifierKeys, NEW n, NEW u,
         NEW g, NEW e \in Keys \ ModifierKeys, NEW l, Pair(todo, f, d, n, u, g, e, l),
         NEW down, down \cap ModifierKeys = {},
         NEW m1 \in Modifiers, m1 < 32, \A M \in ModifierKeys : M \in Range(f) <=> HasModifier(m1, M),
         NEW m2 \in Modifiers, m2 < 32, \A M \in ModifierKeys : M \in Range(g) <=> HasModifier(m2, M),
         NEW t1, t1 = Translate(k, 0, m1, d), t1.out = <<>>,
         NEW t2, t2 = Translate(k, t1.pending, m2, e), t2.pending = 0,
         NEW got, NEW want, got \o t2.out = want
  PROVE  Coming(k, todo, down, 0, got, want)
<1>1. PICK a : a = (n + 1) + u
  OBVIOUS
<1>2. PICK z : z = a + (l + 1)
  OBVIOUS
<1>3. /\ \A i \in 1 .. u : todo[(n + 1) + i] \in Releases
      /\ \A i \in 1 .. l : todo[a + i] \in ModifierKeys
      /\ todo[n + 1] = d /\ todo[z] = e
  BY <1>1, <1>2 DEF Pair, Begins
<1>4. /\ \A i \in DOMAIN todo : \/ i \in 1 .. n \/ i = n + 1
                                \/ \E j \in 1 .. u : i = (n + 1) + j
                                \/ \E j \in 1 .. l : i = a + j
                                \/ i = z
      /\ n + 1 \in DOMAIN todo /\ z \in DOMAIN todo /\ n + 1 < z
  BY <1>1, <1>2, PairParts
<1>5. Begins(todo, f, d, n, u + (l + 1))
  BY DEF Pair
<1>6. \A i \in 1 .. n : ~Stroke(todo, i)
  BY <1>5, Parts
<1>7. \A j \in 1 .. u : ~Stroke(todo, (n + 1) + j)
  <2> TAKE j \in 1 .. u
  <2>1. todo[(n + 1) + j] \in Nat /\ 128 <= todo[(n + 1) + j]
    BY <1>3, Ranges
  <2> QED BY <2>1, Apart DEF Stroke
<1>8. \A j \in 1 .. l : ~Stroke(todo, a + j)
  BY <1>3 DEF Stroke
<1>9. Stroke(todo, n + 1) /\ Stroke(todo, z)
  <2>1. d \in Nat /\ d < 128 /\ e \in Nat /\ e < 128
    BY Ranges
  <2> QED BY <1>3, <2>1 DEF Stroke
<1>10. \A i \in DOMAIN todo : Stroke(todo, i) <=> i \in {n + 1, z}
  BY <1>4, <1>6, <1>7, <1>8, <1>9
<1>11. MacModifiers(DownAt(todo, down, n + 1)) = m1
  <2>1. DownAt(todo, down, n + 1) = (down \cap ModifierKeys) \cup Range(f)
    BY <1>5, Reached
  <2>2. \A M \in ModifierKeys : M \in DownAt(todo, down, n + 1) <=> HasModifier(m1, M)
    BY <2>1
  <2> QED BY <2>2, Combination
<1>12. MacModifiers(DownAt(todo, down, z)) = m2
  <2>1. DownAt(todo, down, z) = Range(g)
    BY <1>1, <1>2, ReachedSecond
  <2>2. \A M \in ModifierKeys : M \in DownAt(todo, down, z) <=> HasModifier(m2, M)
    BY <2>1
  <2> QED BY <2>2, Combination
<1>13. Seen(k, todo, down, 0, n + 1) = t1
  BY <1>3, <1>11 DEF Seen
<1>14. Seen(k, todo, down, t1.pending, z) = t2
  BY <1>3, <1>12 DEF Seen
<1>15. TwoStrokes(k, todo, down, 0, got, want)
  BY <1>4, <1>10, <1>13, <1>14, Zenon DEF TwoStrokes
<1> QED BY <1>15 DEF Coming

\* Letting go sends as many codes as were pressed, one for each.
LEMMA LetGoAll ==
  ASSUME NEW kp \in Seq(Keys)
  PROVE  /\ do_key_up(kp) \in Seq(Codes) /\ Len(do_key_up(kp)) = Len(kp)
         /\ \A i \in 1 .. Len(kp) : do_key_up(kp)[i] \in Releases
         /\ \A i \in 1 .. Len(kp) : \E j \in 1 .. Len(kp) : do_key_up(kp)[j] = kp[i] + 128
<1>1. do_key_up(kp) \in Seq(Releases)
  BY LetGo
<1>2. DOMAIN do_key_up(kp) = DOMAIN kp /\ DOMAIN kp = 1 .. Len(kp)
  BY LetGoOnly
<1>3. Len(do_key_up(kp)) = Len(kp)
  BY <1>1, <1>2
<1>4. do_key_up(kp) \in Seq(Codes)
  BY <1>1, Wider, Ranges
<1>5. \A i \in 1 .. Len(kp) : do_key_up(kp)[i] \in Releases
  BY <1>1, <1>2
<1>6. \A i \in 1 .. Len(kp) : \E j \in 1 .. Len(kp) : do_key_up(kp)[j] = kp[i] + 128
  <2> TAKE i \in 1 .. Len(kp)
  <2>1. i \in DOMAIN kp
    BY <1>2
  <2>2. \E j \in DOMAIN do_key_up(kp) : do_key_up(kp)[j] = kp[i] + 128
    BY <2>1, LetGo
  <2>3. DOMAIN do_key_up(kp) = 1 .. Len(kp)
    BY <1>2
  <2> QED BY <2>2, <2>3, Zenon
<1> QED BY <1>3, <1>4, <1>5, <1>6

\* What is sent for a character that takes two keys.
LEMMA PairIs ==
  ASSUME NEW f \in Seq(ModifierKeys), NEW d \in Keys, NEW g \in Seq(ModifierKeys), NEW e \in Keys,
         NEW fst, fst = f \o <<d>>, NEW snd, snd = g \o <<e>>
  PROVE  Pair((fst \o do_key_up(fst)) \o snd, f, d, Len(f), Len(f) + 1, g, e, Len(g))
<1>1. ModifierKeys \subseteq Keys /\ Keys \subseteq Codes
  BY ModifierKeysAre, Ranges
<1>2. /\ Len(f) \in Nat /\ Len(g) \in Nat /\ DOMAIN f = 1 .. Len(f) /\ DOMAIN g = 1 .. Len(g)
      /\ \A i \in 1 .. Len(f) : f[i] \in ModifierKeys
      /\ \A i \in 1 .. Len(g) : g[i] \in ModifierKeys
      /\ f \in Seq(Keys) /\ g \in Seq(Keys) /\ <<d>> \in Seq(Keys) /\ <<e>> \in Seq(Keys)
  BY <1>1
<1>3. /\ fst \in Seq(Keys) /\ Len(fst) = Len(f) + 1 /\ fst[Len(f) + 1] = d
      /\ \A i \in 1 .. Len(f) : fst[i] = f[i]
  BY <1>2
<1>4. /\ snd \in Seq(Keys) /\ Len(snd) = Len(g) + 1 /\ snd[Len(g) + 1] = e
      /\ \A i \in 1 .. Len(g) : snd[i] = g[i]
  BY <1>2
<1>5. PICK up : up = do_key_up(fst)
  OBVIOUS
<1>6. /\ up \in Seq(Codes) /\ Len(up) = Len(fst)
      /\ \A i \in 1 .. Len(fst) : up[i] \in Releases
      /\ \A i \in 1 .. Len(fst) : \E j \in 1 .. Len(fst) : up[j] = fst[i] + 128
  BY <1>3, <1>5, LetGoAll, ZenonT(30)
<1>7. fst \in Seq(Codes) /\ snd \in Seq(Codes)
  BY <1>1, <1>3, <1>4, Wider, Zenon
<1>8. ASSUME NEW n \in Nat, n = Len(f), NEW l \in Nat, l = Len(g),
             NEW p, p = fst \o up, NEW todo, todo = p \o snd
      PROVE  Pair(todo, f, d, n, n + 1, g, e, l)
  <2>1. /\ Len(fst) = n + 1 /\ Len(up) = n + 1 /\ Len(snd) = l + 1
    BY <1>3, <1>4, <1>6, <1>8
  <2>2. /\ p \in Seq(Codes) /\ Len(p) = Len(fst) + Len(up)
        /\ \A i \in 1 .. Len(fst) : p[i] = fst[i]
        /\ \A i \in 1 .. Len(up) : p[Len(fst) + i] = up[i]
    <3>1. /\ fst \o up \in Seq(Codes) /\ Len(fst \o up) = Len(fst) + Len(up)
          /\ \A i \in 1 .. Len(fst) : (fst \o up)[i] = fst[i]
          /\ \A i \in 1 .. Len(up) : (fst \o up)[Len(fst) + i] = up[i]
      <4>1. fst \in Seq(Codes) /\ up \in Seq(Codes)
        BY <1>6, <1>7
      <4> QED BY <4>1, JoinedCodes, Zenon
    <3> QED BY <1>8, <3>1, Zenon
  <2>3. /\ DOMAIN todo = 1 .. Len(p) + Len(snd)
        /\ \A i \in 1 .. Len(p) : todo[i] = p[i]
        /\ \A i \in 1 .. Len(snd) : todo[Len(p) + i] = snd[i]
    <3>1. /\ DOMAIN (p \o snd) = 1 .. Len(p) + Len(snd)
          /\ \A i \in 1 .. Len(p) : (p \o snd)[i] = p[i]
          /\ \A i \in 1 .. Len(snd) : (p \o snd)[Len(p) + i] = snd[i]
      <4>1. p \in Seq(Codes) /\ snd \in Seq(Codes)
        BY <1>7, <2>2
      <4> QED BY <4>1, JoinedCodes, Zenon
    <3> QED BY <1>8, <3>1, Zenon
  <2>4. /\ \A i \in 1 .. n + 1 : i \in 1 .. (n + 1) + (n + 1) /\ (n + 1) + i \in 1 .. (n + 1) + (n + 1)
        /\ n + 1 \in 1 .. n + 1 /\ l + 1 \in 1 .. l + 1
        /\ \A i \in 1 .. n : i \in 1 .. n + 1
        /\ \A i \in 1 .. l : i \in 1 .. l + 1
        /\ (n + 1) + (n + 1) + (l + 1) = (n + 1) + ((n + 1) + (l + 1))
    BY <1>8
  <2>5. /\ \A i \in 1 .. n + 1 : todo[i] = fst[i] /\ todo[(n + 1) + i] = up[i]
        /\ \A i \in 1 .. l + 1 : todo[((n + 1) + (n + 1)) + i] = snd[i]
        /\ DOMAIN todo = 1 .. (n + 1) + ((n + 1) + (l + 1))
    BY <2>1, <2>2, <2>3, <2>4, ZenonT(30)
  <2>6. (n + 1) + (l + 1) \in Nat /\ n + 1 \in Nat
    BY <1>8
  <2>7. Begins(todo, f, d, n, (n + 1) + (l + 1))
    <3>1. \A i \in 1 .. n : todo[i] = f[i] /\ f[i] \in ModifierKeys
      BY <1>2, <1>3, <1>8, <2>4, <2>5, ZenonT(30)
    <3>2. todo[n + 1] = d
      BY <1>3, <1>8, <2>4, <2>5, Zenon
    <3> QED BY <1>2, <1>8, <2>5, <2>6, <3>1, <3>2, Zenon DEF Begins
  <2>8. \A i \in 1 .. n + 1 : todo[(n + 1) + i] \in Releases
    BY <1>6, <2>1, <2>5, Zenon
  <2>9. \A i \in 1 .. n : \E j \in 1 .. n + 1 : todo[(n + 1) + j] = todo[i] + 128
    <3> TAKE i \in 1 .. n
    <3>1. PICK j \in 1 .. n + 1 : up[j] = fst[i] + 128
      BY <1>6, <2>1, <2>4, ZenonT(30)
    <3>2. todo[(n + 1) + j] = up[j] /\ todo[i] = fst[i]
      BY <2>4, <2>5, Zenon
    <3> QED BY <3>1, <3>2, Zenon
  <2>10. \A i \in 1 .. l : todo[((n + 1) + (n + 1)) + i] = g[i] /\ g[i] \in ModifierKeys
    BY <1>2, <1>4, <1>8, <2>4, <2>5, ZenonT(30)
  <2>11. todo[((n + 1) + (n + 1)) + (l + 1)] = e
    BY <1>4, <1>8, <2>4, <2>5, Zenon
  <2> QED BY <1>2, <1>8, <2>6, <2>7, <2>8, <2>9, <2>10, <2>11, Zenon DEF Pair
<1> QED BY <1>2, <1>5, <1>8, Zenon

-----------------------------------------------------------------------------
(***************************************************************************)
(* What comes of the codes of a key event is what the user meant by it.    *)
(***************************************************************************)
\* What letting go releases is what was pressed.
LEMMA KeptOnly ==
  ASSUME NEW s, NEW kp \in Seq(Keys), ReleaseCodes(s) = do_key_up(kp)
  PROVE  Kept(s) \subseteq Range(kp)
<1> SUFFICES ASSUME NEW x \in Kept(s) PROVE x \in Range(kp)
  OBVIOUS
<1>1. PICK j \in DOMAIN do_key_up(kp) : do_key_up(kp)[j] = x + 128
  BY DEF Kept
<1>2. PICK i \in DOMAIN kp : do_key_up(kp)[j] = kp[i] + 128
  BY <1>1, LetGoOnly
<1>3. x \in Nat /\ kp[i] \in Nat
  <2>1. x \in Keys /\ kp[i] \in Keys
    BY Elements DEF Kept, Keys
  <2> QED BY <2>1, Ranges
<1>4. kp[i] = x
  BY <1>1, <1>2, <1>3
<1> QED BY <1>4 DEF Range

\* A special key keeps itself down.
LEMMA KeyKept ==
  ASSUME NEW h \in Keysyms, h[1] = "key"
  PROVE  Kept(h) \subseteq {h[2]} /\ h = <<"key", h[2]>>
<1>1. h[2] \in Keys
  BY KeysymIs
<1>2. ReleaseCodes(h) = do_key_up(<<h[2]>>) /\ <<h[2]>> \in Seq(Keys)
  <2>1. keysym_special_to_keypresses(h) = <<h[2]>>
    BY DEF keysym_special_to_keypresses
  <2>2. <<h[2]>> # <<>> /\ <<h[2]>> \in Seq(Keys)
    BY <1>1
  <2> QED BY <2>1, <2>2, Zenon DEF ReleaseCodes
<1>3. Kept(h) \subseteq Range(<<h[2]>>)
  BY <1>2, KeptOnly
<1>4. Range(<<h[2]>>) = {h[2]}
  BY DEF Range
<1>5. h = <<"key", h[2]>>
  <2>1. h \in ({"key"} \X (0 .. 127)) \cup ({"char"} \X Chars)
    BY KeyboardAssumption
  <2> QED BY <2>1
<1> QED BY <1>3, <1>4, <1>5

\* Of the modifiers, those are down that the character needs, or that it keeps down itself.
LEMMA HeldModifiers ==
  ASSUME TypeOK, Released, Idle, ~disturbed, mode = "ARAW",
         NEW s \in Keysyms, s[1] = "char", WithCare(s)
  PROVE  /\ macDown \cap ModifierKeys \subseteq Required(s[2]) \cup Kept(s)
         /\ s \notin held => macDown \cap ModifierKeys \subseteq Required(s[2])
<1>1. macDown \subseteq AllKept
  BY AtRest DEF Released
<1>2. /\ HeldChars \subseteq {s}
      /\ \A key \in ModifierKeys : <<"key", key>> \in held => key \in Required(s[2])
  BY DEF WithCare
<1>3. held \subseteq Keysyms
  BY DEF TypeOK
<1>4. ASSUME NEW M \in macDown \cap ModifierKeys
      PROVE  M \in Required(s[2]) \/ (M \in Kept(s) /\ s \in held)
  <2>1. PICK h \in held : M \in Kept(h)
    BY <1>1 DEF AllKept
  <2>2. CASE h[1] = "key"
    <3>1. M = h[2] /\ h = <<"key", h[2]>>
      BY <1>3, <2>1, <2>2, KeyKept
    <3> QED BY <1>2, <3>1
  <2>3. CASE h[1] = "char"
    <3>1. h \in HeldChars
      BY <2>3 DEF HeldChars
    <3> QED BY <1>2, <2>1, <3>1
  <2>4. h[1] \in {"key", "char"}
    BY <1>3, KeysymIs
  <2> QED BY <2>2, <2>3, <2>4
<1> QED BY <1>4

\* A press of the modifiers f, which are those of m, and of the key that has the first place.
PlainAs(s, f, key, m) ==
  /\ \/ PressCodes(s) = f \o <<key>>
     \/ PressCodes(s) = (f \o <<key>>) \o do_key_up(f \o <<key>>)
  /\ m < 32 /\ \A M \in ModifierKeys : M \in Range(f) <=> HasModifier(m, M)
  /\ Required(s[2]) = Range(f)
  /\ Kept(s) \subseteq Range(f) \cup {key}
  /\ layout.tableOf[m] = FirstPlace(layout, s[2])[1] /\ key = FirstPlace(layout, s[2])[2]

\* A character that has a place takes one key, with the modifiers it requires.
LEMMA PlainPress ==
  ASSUME layout \in Layouts, kchr = kchr_load(layout),
         NEW s \in Keysyms, s[1] = "char", Places(layout, s[2]) # {}
  PROVE  \E f \in Seq(ModifierKeys) : \E key \in Keycodes : \E m \in Modifiers :
           PlainAs(s, f, key, m)
<1> PICK k \in Layouts : k = layout
  OBVIOUS
<1> PICK c : c = s[2]
  OBVIOUS
<1>0. IsLayout(k) /\ c \in Chars
  BY KeyboardAssumption, KeysymIs
<1>1. keysym_special_to_keypresses(s) = <<>> /\ keysym_to_macroman(s) = c
  BY DEF keysym_special_to_keypresses, keysym_to_macroman
<1>2. PICK kc : kc = kchr_keys_for_char(kchr, c)
  OBVIOUS
<1>3. PICK p : p = FirstPlace(k, c)
  OBVIOUS
<1>4. /\ kc.fst.valid /\ ~kc.snd.valid
      /\ p[1] \in TablesOf(k) /\ kc.fst.keycode \in Keycodes
      /\ kc.fst.modifiers = kchr_load(k).modifiers[p[1]] /\ kc.fst.keycode = p[2]
  BY <1>0, <1>2, <1>3, PlainGives
<1>5. kc.fst.keycode \in Keys
  BY <1>4, KeyNumbers DEF Keys
<1>6. PICK f \in Seq(ModifierKeys) :
        /\ vkey_to_keypresses(kc.fst) = f \o <<kc.fst.keycode>>
        /\ \A M \in ModifierKeys : M \in Range(f) <=> HasModifier(kc.fst.modifiers, M)
  BY <1>4, <1>5, PressIs
<1>7. PICK m : m = kc.fst.modifiers
  OBVIOUS
<1>8. PICK key : key = kc.fst.keycode
  OBVIOUS
<1>9. m = FirstTo(k, p[1]) /\ m \in Modifiers /\ k.tableOf[m] = p[1] /\ m < 32
  BY <1>0, <1>4, <1>7, TableReached
<1>10. PressCodes(s) = f \o <<key>> \/ PressCodes(s) = (f \o <<key>>) \o do_key_up(f \o <<key>>)
  <2>1. \/ PressCodes(s) = vkey_to_keypresses(kc.fst)
        \/ PressCodes(s) = vkey_to_keypresses(kc.fst) \o do_key_up(vkey_to_keypresses(kc.fst))
    BY <1>1, <1>2, <1>4, Zenon DEF PressCodes, do_key_down
  <2> QED BY <1>6, <1>8, <2>1, Zenon
<1>11. Range(f) \subseteq ModifierKeys
  BY DEF Range
<1>12. Required(c) = Range(f)
  <2>1. Required(c) = {M \in ModifierKeys : HasModifier(m, M)}
    BY <1>3, <1>9, Zenon DEF Required
  <2> QED BY <1>6, <1>7, <1>11, <2>1
<1>13. Kept(s) \subseteq Range(f) \cup {key}
  <2>1. f \o <<key>> \in Seq(Keys) /\ Range(f \o <<key>>) = Range(f) \cup {key}
    <3>1. f \in Seq(Keys) /\ <<key>> \in Seq(Keys)
      BY <1>5, <1>8, Wider, ModifierKeysAre
    <3>2. Range(<<key>>) = {key}
      BY DEF Range
    <3>3. f \o <<key>> \in Seq(Keys)
      BY <3>1
    <3>4. Range(f \o <<key>>) = Range(f) \cup Range(<<key>>)
      BY <3>1, JoinedRange, ZenonT(30)
    <3> QED BY <3>2, <3>3, <3>4
  <2>2. ReleaseCodes(s) = <<>> \/ ReleaseCodes(s) = do_key_up(f \o <<key>>)
    <3>1. ReleaseCodes(s) = <<>> \/ ReleaseCodes(s) = do_key_up(vkey_to_keypresses(kc.fst))
      BY <1>1, <1>2, <1>4, Zenon DEF ReleaseCodes
    <3> QED BY <1>6, <1>8, <3>1, Zenon
  <2>3. CASE ReleaseCodes(s) = <<>>
    <3>1. DOMAIN ReleaseCodes(s) = {}
      BY <2>3
    <3> QED BY <3>1 DEF Kept
  <2>4. CASE ReleaseCodes(s) = do_key_up(f \o <<key>>)
    BY <2>1, <2>4, KeptOnly
  <2> QED BY <2>2, <2>3, <2>4
<1>14. \A M \in ModifierKeys : M \in Range(f) <=> HasModifier(m, M)
  BY <1>6, <1>7
<1>15. key \in Keycodes /\ key = FirstPlace(k, c)[2] /\ k.tableOf[m] = FirstPlace(k, c)[1]
  BY <1>3, <1>4, <1>8, <1>9
<1>16. PlainAs(s, f, key, m)
  BY <1>9, <1>10, <1>12, <1>13, <1>14, <1>15, Zenon DEF PlainAs
<1> QED BY <1>9, <1>15, <1>16, Zenon

\* The layout is one, and its modifier keys give nothing.
LEMMA LayoutIs ==
  ASSUME NEW k \in Layouts
  PROVE  IsLayout(k) /\ \A M \in ModifierKeys : Silent(k, M)
BY KeyboardAssumption

\* A character that has a place is what comes of its codes.
LEMMA PlainCharComing ==
  ASSUME NEW k \in Layouts, k = layout, kchr = kchr_load(k), mode = "ARAW",
         NEW s \in Keysyms, s[1] = "char", NEW c, c = s[2], Places(k, c) # {},
         NEW down, down \cap ModifierKeys \subseteq Required(c) \cup Kept(s), NEW got \in Seq(Codes)
  PROVE  Coming(k, PressCodes(s), down, 0, got, got \o Meant(s))
<1>0. IsLayout(k) /\ (\A M \in ModifierKeys : Silent(k, M)) /\ c \in Chars
  BY LayoutIs, KeysymIs
<1>1a. PICK f \in Seq(ModifierKeys), key \in Keycodes, m \in Modifiers : PlainAs(s, f, key, m)
  <2>1. layout \in Layouts /\ kchr = kchr_load(layout) /\ Places(layout, s[2]) # {}
    OBVIOUS
  <2> QED BY <2>1, PlainPress
<1>1. /\ \/ PressCodes(s) = f \o <<key>>
         \/ PressCodes(s) = (f \o <<key>>) \o do_key_up(f \o <<key>>)
      /\ m < 32 /\ \A M \in ModifierKeys : M \in Range(f) <=> HasModifier(m, M)
      /\ Required(c) = Range(f)
      /\ Kept(s) \subseteq Range(f) \cup {key}
      /\ k.tableOf[m] = FirstPlace(k, c)[1] /\ key = FirstPlace(k, c)[2]
  BY <1>1a, Zenon DEF PlainAs
<1>2. key \in Keys
  BY KeyNumbers DEF Keys
<1>3. f \o <<key>> \in Seq(Keys) /\ f \o <<key>> \in Seq(Codes)
  <2>1. f \in Seq(Keys) /\ <<key>> \in Seq(Keys)
    BY <1>2, Wider, ModifierKeysAre
  <2>2. f \o <<key>> \in Seq(Keys)
    BY <2>1
  <2> QED BY <2>2, Wider, Ranges
<1>4. PICK rest \in Seq(Releases) : PressCodes(s) = (f \o <<key>>) \o rest
  <2>1. CASE PressCodes(s) = f \o <<key>>
    <3>1. (f \o <<key>>) \o <<>> = f \o <<key>>
      BY <1>3
    <3>2. <<>> \in Seq(Releases)
      OBVIOUS
    <3> QED BY <2>1, <3>1, <3>2
  <2>2. CASE PressCodes(s) = (f \o <<key>>) \o do_key_up(f \o <<key>>)
    BY <1>3, <2>2, LetGo
  <2> QED BY <1>1, <2>1, <2>2
<1>5. PICK todo : todo = PressCodes(s)
  OBVIOUS
<1>6. PICK n, r : /\ Begins(todo, f, key, n, r)
                  /\ \A i \in 1 .. r : todo[(n + 1) + i] \in Releases
  <2>1. rest \in Seq(Codes)
    BY Wider, Ranges
  <2>2. /\ Begins(todo, f, key, Len(f), Len(rest))
        /\ \A i \in 1 .. Len(rest) : todo[(Len(f) + 1) + i] = rest[i]
    <3>1. /\ Begins((f \o <<key>>) \o rest, f, key, Len(f), Len(rest))
          /\ \A i \in 1 .. Len(rest) : ((f \o <<key>>) \o rest)[(Len(f) + 1) + i] = rest[i]
      BY <1>2, <2>1, Positions, Zenon
    <3>2. todo = (f \o <<key>>) \o rest
      BY <1>4, <1>5, Zenon
    <3> QED BY <3>1, <3>2, Zenon
  <2>3. \A i \in 1 .. Len(rest) : rest[i] \in Releases
    BY Elements
  <2> QED BY <2>2, <2>3, Zenon
<1>7. PICK t : t = Translate(k, 0, m, key)
  OBVIOUS
<1>8. k.tables[k.tableOf[m]][key] = c /\ k.tableOf[m] \in TablesOf(k)
  BY <1>0, <1>1, FirstPlaceFound
<1>9. Meant(s) = IF c = 0 THEN <<>> ELSE <<c>>
  <2>1. MacTypes(layout, c) <=> c # 0
    BY DEF MacTypes
  <2> QED BY <2>1, Zenon DEF Meant
<1>10. got \o <<>> = got
  OBVIOUS
<1>11. CASE key \in ModifierKeys
  <2>1. c = 0
    BY <1>0, <1>8, <1>11 DEF Silent
  <2>2. \A i \in DOMAIN todo : ~Stroke(todo, i)
    <3>1. \A i \in DOMAIN todo : i \in 1 .. n \/ i = n + 1 \/ \E l \in 1 .. r : i = (n + 1) + l
      BY <1>6, Parts
    <3>2. \A i \in 1 .. n : ~Stroke(todo, i)
      BY <1>6, Parts
    <3>3. ~Stroke(todo, n + 1)
      BY <1>6, <1>11 DEF Begins, Stroke
    <3>4. \A l \in 1 .. r : ~Stroke(todo, (n + 1) + l)
      <4> TAKE l \in 1 .. r
      <4>1. todo[(n + 1) + l] \in Nat /\ 128 <= todo[(n + 1) + l]
        BY <1>6, Ranges
      <4> QED BY <4>1, Apart DEF Stroke
    <3> QED BY <3>1, <3>2, <3>3, <3>4
  <2>3. Coming(k, todo, down, 0, got, got)
    BY <2>2, NoneComing
  <2>4. got \o Meant(s) = got
    BY <1>9, <1>10, <2>1
  <2> QED BY <1>5, <2>3, <2>4
<1>12. CASE key \notin ModifierKeys
  <2>1. t.pending = 0 /\ got \o t.out = got \o Meant(s)
    <3>1. CASE c = 0
      <4>1. DeadAt(k, k.tableOf[m], key) = {}
        BY <1>0, <1>1, <3>1 DEF IsLayout
      <4>2. t = [pending |-> 0, out |-> <<>>]
        BY <1>7, <1>8, <3>1, <4>1, Zenon DEF Translate
      <4> QED BY <1>9, <3>1, <4>2
    <3>2. CASE c # 0
      <4>1. t = [pending |-> 0, out |-> <<c>>]
        BY <1>7, <1>8, <3>2, Zenon DEF Translate
      <4>2. t.pending = 0 /\ t.out = <<c>>
        BY <4>1
      <4> QED BY <1>9, <3>2, <4>2, Zenon
    <3> QED BY <3>1, <3>2
  <2>2. down \cap ModifierKeys \subseteq Range(f)
    BY <1>1, <1>12
  <2>3. key \in Keys \ ModifierKeys
    BY <1>2, <1>12
  <2>4. Coming(k, todo, down, 0, got, got \o Meant(s))
    BY <1>1, <1>6, <1>7, <2>1, <2>2, <2>3, PlainComing, Zenon
  <2> QED BY <1>5, <2>4
<1> QED BY <1>11, <1>12

\* A character that takes a dead key and another is what comes of its codes.
LEMMA PairCharComing ==
  ASSUME NEW k \in Layouts, k = layout, kchr = kchr_load(k), mode = "ARAW",
         NEW s \in Keysyms, s[1] = "char", NEW c, c = s[2], Places(k, c) = {}, Ways(k, c) # {},
         NEW down, down \cap ModifierKeys = {}, NEW got \in Seq(Codes)
  PROVE  Coming(k, PressCodes(s), down, 0, got, got \o Meant(s))
<1>0. IsLayout(k) /\ (\A M \in ModifierKeys : Silent(k, M)) /\ c \in Chars
  BY LayoutIs, KeysymIs
<1>1. keysym_special_to_keypresses(s) = <<>> /\ keysym_to_macroman(s) = c
  BY DEF keysym_special_to_keypresses, keysym_to_macroman
<1>2. PICK kc : kc = kchr_keys_for_char(kchr_load(k), c)
  OBVIOUS
<1>3. kc.fst.valid /\ kc.snd.valid
  BY <1>0, <1>2, DeadGives
<1>1a. PICK i \in DOMAIN k.deads : \E j \in DOMAIN k.deads[i].subs : \E t \in TablesOf(k) :
        /\ kc.fst.modifiers = kchr_load(k).modifiers[k.deads[i].table]
        /\ kc.fst.keycode = k.deads[i].keycode
        /\ kc.snd.modifiers = kchr_load(k).modifiers[t]
        /\ kc.snd.keycode \in Keycodes
        /\ k.tables[t][kc.snd.keycode] = k.deads[i].subs[j].comp
        /\ k.deads[i].subs[j].sub = c
  BY <1>0, <1>2, DeadGives
<1>4. PICK j \in DOMAIN k.deads[i].subs, t \in TablesOf(k) :
        /\ kc.fst.modifiers = kchr_load(k).modifiers[k.deads[i].table]
        /\ kc.fst.keycode = k.deads[i].keycode
        /\ kc.snd.modifiers = kchr_load(k).modifiers[t]
        /\ kc.snd.keycode \in Keycodes
        /\ k.tables[t][kc.snd.keycode] = k.deads[i].subs[j].comp
        /\ k.deads[i].subs[j].sub = c
  BY <1>1a
<1>5. PICK d : d = kc.fst.keycode
  OBVIOUS
<1>6. PICK e : e = kc.snd.keycode
  OBVIOUS
<1>7. /\ k.deads[i].table \in TablesOf(k) /\ d \in Keycodes
      /\ k.tables[k.deads[i].table][d] = 0
      /\ DeadAt(k, k.deads[i].table, d) = {i}
      /\ k.deads[i].subs[j].comp # 0
  BY <1>0, <1>4, <1>5, DeadKey, ZenonT(30)
<1>8. d \in Keys \ ModifierKeys /\ e \in Keys \ ModifierKeys
  <2>1. d \in Keys /\ e \in Keys
    BY <1>4, <1>6, <1>7, KeyNumbers DEF Keys
  <2>2. d \notin ModifierKeys
    BY <1>0, <1>7 DEF Silent
  <2>3. e \notin ModifierKeys
    BY <1>0, <1>4, <1>6, <1>7 DEF Silent
  <2> QED BY <2>1, <2>2, <2>3
<1>9. PICK m1 : m1 = kc.fst.modifiers
  OBVIOUS
<1>10. PICK m2 : m2 = kc.snd.modifiers
  OBVIOUS
<1>11. m1 \in Modifiers /\ m1 < 32 /\ m2 \in Modifiers /\ m2 < 32
  <2>1. m1 \in Modifiers /\ m1 < 32
    BY <1>0, <1>4, <1>7, <1>9, TableReached
  <2>2. m2 \in Modifiers /\ m2 < 32
    BY <1>0, <1>4, <1>10, TableReached
  <2> QED BY <2>1, <2>2
<1>12. PICK f \in Seq(ModifierKeys) :
         /\ vkey_to_keypresses(kc.fst) = f \o <<d>>
         /\ \A M \in ModifierKeys : M \in Range(f) <=> HasModifier(m1, M)
  BY <1>3, <1>5, <1>8, <1>9, PressIs
<1>13. PICK g \in Seq(ModifierKeys) :
         /\ vkey_to_keypresses(kc.snd) = g \o <<e>>
         /\ \A M \in ModifierKeys : M \in Range(g) <=> HasModifier(m2, M)
  BY <1>3, <1>6, <1>8, <1>10, PressIs
<1>14. PICK todo : todo = PressCodes(s)
  OBVIOUS
<1>15. Pair(todo, f, d, Len(f), Len(f) + 1, g, e, Len(g))
  <2>1. PressCodes(s) = (vkey_to_keypresses(kc.fst) \o do_key_up(vkey_to_keypresses(kc.fst)))
                          \o vkey_to_keypresses(kc.snd)
    BY <1>1, <1>2, <1>3, Zenon DEF PressCodes, do_key_down
  <2>2. PICK fst : fst = f \o <<d>>
    OBVIOUS
  <2>3. PICK snd : snd = g \o <<e>>
    OBVIOUS
  <2>4. todo = (fst \o do_key_up(fst)) \o snd
    BY <1>12, <1>13, <1>14, <2>1, <2>2, <2>3, Zenon
  <2>5. Pair((fst \o do_key_up(fst)) \o snd, f, d, Len(f), Len(f) + 1, g, e, Len(g))
    BY <1>8, <2>2, <2>3, PairIs
  <2> QED BY <2>4, <2>5, Zenon
<1>16. PICK t1 : t1 = Translate(k, 0, m1, d)
  OBVIOUS
<1>17. PICK t2 : t2 = Translate(k, t1.pending, m2, e)
  OBVIOUS
<1>18. c \in Chars \ {0}
  BY <1>0 DEF IsLayout
<1>19. t1.out = <<>> /\ t2 = [pending |-> 0, out |-> <<c>>]
  <2>1. /\ Translate(k, 0, kc.fst.modifiers, kc.fst.keycode).out = <<>>
        /\ Translate(k, Translate(k, 0, kc.fst.modifiers, kc.fst.keycode).pending,
                     kc.snd.modifiers, kc.snd.keycode) = [pending |-> 0, out |-> <<c>>]
    BY <1>0, <1>2, <1>3, <1>18, Reversal
  <2> QED BY <1>5, <1>6, <1>9, <1>10, <1>16, <1>17, <2>1, Zenon
<1>20. t2.pending = 0 /\ t2.out = <<c>>
  BY <1>19
<1>21. Meant(s) = <<c>>
  <2>1. MacTypes(layout, c)
    BY <1>0 DEF MacTypes, IsLayout
  <2> QED BY <2>1, Zenon DEF Meant
<1>22. got \o t2.out = got \o Meant(s)
  BY <1>20, <1>21, Zenon
<1>23. Coming(k, todo, down, 0, got, got \o Meant(s))
  BY <1>8, <1>11, <1>12, <1>13, <1>15, <1>16, <1>17, <1>19, <1>20, <1>22, PairComing, ZenonT(30)
<1> QED BY <1>14, <1>23

\* Of a character the layout does not have nothing comes.
LEMMA NoCharComing ==
  ASSUME NEW k \in Layouts, k = layout, kchr = kchr_load(k), mode = "ARAW",
         NEW s \in Keysyms, s[1] = "char", NEW c, c = s[2], Places(k, c) = {}, Ways(k, c) = {},
         NEW down, NEW got \in Seq(Codes)
  PROVE  Coming(k, PressCodes(s), down, 0, got, got \o Meant(s))
<1>0. IsLayout(k) /\ c \in Chars
  BY LayoutIs, KeysymIs
<1>1. keysym_special_to_keypresses(s) = <<>> /\ keysym_to_macroman(s) = c
  BY DEF keysym_special_to_keypresses, keysym_to_macroman
<1>2. PICK kc : kc = kchr_keys_for_char(kchr_load(k), c)
  OBVIOUS
<1>3. kc.fst = NoKeypress /\ kc.snd = NoKeypress
  BY <1>0, <1>2, NoPress
<1>4. ~kc.fst.valid /\ ~kc.snd.valid /\ kc.fst.keycode # RETURN
  BY <1>3 DEF NoKeypress, RETURN
<1>5. PressCodes(s) = vkey_to_keypresses(kc.fst)
  BY <1>1, <1>2, <1>4, Zenon DEF PressCodes, do_key_down
<1>6. PressCodes(s) = <<>>
  BY <1>4, <1>5, Zenon DEF vkey_to_keypresses
<1>7. \A i \in DOMAIN PressCodes(s) : ~Stroke(PressCodes(s), i)
  BY <1>6
<1>8. Meant(s) = <<>>
  <2>1. ~MacTypes(layout, c)
    BY DEF MacTypes
  <2>2. "ARAW" # "ASCII"
    OBVIOUS
  <2> QED BY <2>1, <2>2, Zenon DEF Meant
<1>9. got \o Meant(s) = got
  BY <1>8
<1> QED BY <1>7, <1>9, NoneComing

\* Nothing comes of a special key, except that it is down.
LEMMA KeyComing ==
  ASSUME NEW k \in Layouts, k = layout, NEW s \in Keysyms, s[1] = "key", Silent(k, s[2]),
         NEW down, NEW got \in Seq(Codes)
  PROVE  Coming(k, PressCodes(s), down, 0, got, got \o Meant(s))
<1>0. IsLayout(k) /\ s[2] \in Keys
  BY LayoutIs, KeysymIs
<1>1. PressCodes(s) = <<s[2]>>
  <2>1. keysym_special_to_keypresses(s) = <<s[2]>> /\ <<s[2]>> # <<>>
    BY DEF keysym_special_to_keypresses
  <2> QED BY <2>1, Zenon DEF PressCodes, do_key_down
<1>2. Meant(s) = <<>>
  BY DEF Meant
<1>3. got \o Meant(s) = got /\ got \o <<>> = got
  BY <1>2
<1>4. PICK todo : todo = <<s[2]>>
  OBVIOUS
<1>5. DOMAIN todo = {1} /\ todo[1] = s[2]
  BY <1>4
<1>6. CASE s[2] \in ModifierKeys
  <2>1. \A i \in DOMAIN todo : ~Stroke(todo, i)
    BY <1>5, <1>6 DEF Stroke
  <2> QED BY <1>1, <1>3, <1>4, <2>1, NoneComing
<1>7. CASE s[2] \notin ModifierKeys
  <2>1. \A i \in DOMAIN todo : Stroke(todo, i) <=> i = 1
    <3>1. s[2] < 128
      BY <1>0, Ranges
    <3> QED BY <1>5, <1>7, <3>1 DEF Stroke
  <2>2. Seen(k, todo, down, 0, 1) = [pending |-> 0, out |-> <<>>]
    BY <1>0, <1>5, ModifiersThere, SilentGives DEF Seen
  <2>3. Seen(k, todo, down, 0, 1).pending = 0 /\ got \o Seen(k, todo, down, 0, 1).out = got
    BY <1>3, <2>2
  <2>4. OneStroke(k, todo, down, 0, got, got)
    BY <1>5, <2>1, <2>3 DEF OneStroke
  <2> QED BY <1>1, <1>3, <1>4, <2>4 DEF Coming
<1> QED BY <1>6, <1>7

-----------------------------------------------------------------------------
(***************************************************************************)
(* The actions.                                                            *)
(***************************************************************************)
\* At rest, what the user meant has come.
LEMMA AllCome ==
  ASSUME ToCome, Idle, careful, ~disturbed
  PROVE  pending = 0 /\ typed = meant
<1>1. codes.todo = <<>> /\ DOMAIN codes.todo = {}
  BY DEF Idle
<1>2. CASE mode = "ARAW"
  <2>1. Coming(layout, codes.todo, macDown, pending, typed, meant)
    BY <1>2 DEF ToCome
  <2>2. NoStroke(codes.todo, pending, typed, meant)
    BY <1>1, <2>1 DEF Coming, OneStroke, TwoStrokes
  <2> QED BY <2>2 DEF NoStroke
<1>3. CASE mode # "ARAW"
  <2>1. pending = 0
    BY <1>3 DEF ToCome
  <2>2. \A c : codes.todo # <<c>>
    BY <1>1
  <2> QED BY <1>3, <2>1, <2>2 DEF ToCome
<1> QED BY <1>2, <1>3

\* When nothing is left to send and all has come, nothing is to come.
LEMMA NothingToCome ==
  ASSUME codes'.todo = <<>>, careful' /\ ~disturbed' => pending' = 0 /\ typed' = meant'
  PROVE  ToCome'
<1> SUFFICES ASSUME careful', ~disturbed'
             PROVE  IF mode' = "ARAW"
                      THEN Coming(layout', codes'.todo, macDown', pending', typed', meant')
                      ELSE pending' = 0 /\ codes'.todo = <<>> /\ typed' = meant'
  BY DEF ToCome
<1>1. \A i \in DOMAIN codes'.todo : ~Stroke(codes'.todo, i)
  OBVIOUS
<1>2. Coming(layout', codes'.todo, macDown', 0, typed', typed')
  BY <1>1, NoneComing
<1> QED BY <1>2

\* Nothing is to come before the first event.
LEMMA StartToCome == Init => ToCome
<1> SUFFICES ASSUME Init PROVE ToCome
  OBVIOUS
<1>1. pending = 0 /\ typed = meant /\ codes.todo = <<>>
  BY DEF Init
<1>2. \A i \in DOMAIN codes.todo : ~Stroke(codes.todo, i)
  BY <1>1
<1>3. Coming(layout, codes.todo, macDown, 0, typed, typed)
  BY <1>2, NoneComing
<1> QED BY <1>1, <1>3 DEF ToCome

\* What the codes of a key event give is what the user meant by it.
LEMMA KeyDownToCome == ASSUME Inv, ToCome, NEW s \in Keysyms, KeyDown(s) PROVE ToCome'
<1>1. /\ codes' = vnc_evt_key(s, TRUE) /\ meant' = meant \o Meant(s)
      /\ disturbed' = (disturbed \/ Unnoticed) /\ careful' = (careful /\ WithCare(s))
      /\ UNCHANGED <<layout, mode, macDown, pending, typed>> /\ Idle
  BY DEF KeyDown, mac
<1> SUFFICES ASSUME careful', ~disturbed'
             PROVE  IF mode' = "ARAW"
                      THEN Coming(layout', codes'.todo, macDown', pending', typed', meant')
                      ELSE /\ pending' = 0
                           /\ \/ codes'.todo = <<>> /\ typed' = meant'
                              \/ /\ mode' = "ASCII"
                                 /\ \E c \in Keys :
                                      /\ codes'.todo = <<c>>
                                      /\ typed' \o (IF c = 0 THEN <<>> ELSE <<c>>) = meant'
  BY DEF ToCome
<1>2. /\ careful /\ ~disturbed /\ WithCare(s) /\ kchr = kchr_load(layout)
  BY <1>1 DEF Unnoticed
<1>3. pending = 0 /\ typed = meant
  BY <1>1, <1>2, AllCome
<1>4. meant' = typed \o Meant(s) /\ typed \in Seq(Codes) /\ typed \o <<>> = typed
  BY <1>1, <1>3 DEF Inv, TypeOK, Codes
<1>5. layout \in Layouts /\ TypeOK /\ Released
  BY DEF Inv, TypeOK
<1>6. CASE mode = "ARAW"
  <2>1. codes'.todo = PressCodes(s)
    BY <1>1, <1>6 DEF vnc_evt_key, vnc_evt_key_araw, kb_mode
  <2>2. Coming(layout, PressCodes(s), macDown, 0, typed, typed \o Meant(s))
    <3>1. CASE s[1] = "key"
      <4>1. Silent(layout, s[2])
        BY <1>2, <3>1 DEF WithCare
      <4> QED BY <1>4, <1>5, <3>1, <4>1, KeyComing
    <3>2. CASE s[1] = "char"
      <4>0. /\ macDown \cap ModifierKeys \subseteq Required(s[2]) \cup Kept(s)
            /\ s \notin held => macDown \cap ModifierKeys \subseteq Required(s[2])
        BY <1>1, <1>2, <1>5, <1>6, <3>2, HeldModifiers
      <4>1. CASE Places(layout, s[2]) # {}
        BY <1>2, <1>4, <1>5, <1>6, <3>2, <4>0, <4>1, PlainCharComing
      <4>2. CASE Places(layout, s[2]) = {} /\ Ways(layout, s[2]) # {}
        <5>1. s \notin held /\ Required(s[2]) = {}
          BY <1>2, <3>2, <4>2 DEF WithCare, Required
        <5>2. macDown \cap ModifierKeys = {}
          BY <4>0, <5>1
        <5> QED BY <1>2, <1>4, <1>5, <1>6, <3>2, <4>2, <5>2, PairCharComing
      <4>3. CASE Places(layout, s[2]) = {} /\ Ways(layout, s[2]) = {}
        BY <1>2, <1>4, <1>5, <1>6, <3>2, <4>3, NoCharComing
      <4> QED BY <4>1, <4>2, <4>3
    <3>3. s[1] \in {"key", "char"}
      BY KeysymIs
    <3> QED BY <3>1, <3>2, <3>3
  <2> QED BY <1>1, <1>3, <1>4, <1>6, <2>1, <2>2
<1>7. CASE mode = "ASCII"
  <2> DEFINE c == keysym_to_macroman(s)
  <2>1. codes'.todo = IF c <= 127 THEN <<c>> ELSE <<>>
    BY <1>1, <1>7 DEF vnc_evt_key, vnc_evt_key_ascii, kb_mode
  <2>2. c \in Nat /\ (s[1] = "char" => c = s[2]) /\ (s[1] # "char" => c = 0)
    BY KeysymIs, CharNumbers DEF keysym_to_macroman
  <2>3. Meant(s) = IF c \in 1 .. 127 THEN <<c>> ELSE <<>>
    <3>1. (s[1] = "char" /\ s[2] \in 1 .. 127) <=> c \in 1 .. 127
      BY <2>2
    <3>2. mode # "ARAW"
      BY <1>7
    <3> QED BY <1>7, <2>2, <3>1, <3>2 DEF Meant
  <2> HIDE DEF c
  <2>4. CASE c <= 127
    <3>1. c \in Keys
      BY <2>2, <2>4, Ranges
    <3>2. Meant(s) = IF c = 0 THEN <<>> ELSE <<c>>
      BY <2>2, <2>3, <2>4
    <3>3. typed \o (IF c = 0 THEN <<>> ELSE <<c>>) = meant'
      BY <1>4, <3>2
    <3>4. codes'.todo = <<c>>
      BY <2>1, <2>4
    <3> QED BY <1>1, <1>3, <1>7, <3>1, <3>3, <3>4
  <2>5. CASE ~(c <= 127)
    <3>1. Meant(s) = <<>> /\ codes'.todo = <<>>
      BY <2>1, <2>2, <2>3, <2>5
    <3> QED BY <1>1, <1>3, <1>4, <1>7, <3>1
  <2> QED BY <2>4, <2>5
<1>8. CASE mode \notin {"ARAW", "ASCII"}
  <2>1. codes'.todo = <<>>
    BY <1>1, <1>8 DEF vnc_evt_key, kb_mode
  <2>2. Meant(s) = <<>>
    BY <1>8 DEF Meant
  <2> QED BY <1>1, <1>3, <1>4, <1>8, <2>1, <2>2
<1> QED BY <1>6, <1>7, <1>8

\* Letting go gives nothing.
LEMMA KeyUpToCome == ASSUME Inv, ToCome, NEW s \in Keysyms, KeyUp(s) PROVE ToCome'
<1>1. /\ codes' = vnc_evt_key(s, FALSE)
      /\ UNCHANGED <<layout, mode, macDown, pending, typed, meant, disturbed, careful>> /\ Idle
  BY DEF KeyUp, mac
<1>2. Loaded
  BY DEF Inv
<1>3. CASE mode = "ARAW"
  <2> SUFFICES ASSUME careful', ~disturbed'
               PROVE  Coming(layout', codes'.todo, macDown', pending', typed', meant')
    BY <1>1, <1>3 DEF ToCome
  <2>1. pending = 0 /\ typed = meant
    BY <1>1, AllCome
  <2>2. codes'.todo = ReleaseCodes(s)
    BY <1>1, <1>3 DEF vnc_evt_key, vnc_evt_key_araw, kb_mode
  <2>3. \A i \in DOMAIN codes'.todo : codes'.todo[i] \in Nat /\ 128 <= codes'.todo[i]
    BY <1>2, <2>2, ReleaseReleases, Elements, Ranges
  <2>4. \A i \in DOMAIN codes'.todo : ~Stroke(codes'.todo, i)
    BY <2>3, Apart DEF Stroke
  <2> QED BY <1>1, <2>1, <2>4, NoneComing
<1>4. CASE mode # "ARAW"
  <2>1. codes'.todo = <<>>
    BY <1>1, <1>4 DEF vnc_evt_key, vnc_evt_key_ascii, kb_mode
  <2> QED BY <1>1, <2>1, AllCome, NothingToCome
<1> QED BY <1>3, <1>4

\* What a code gives has come when it is out.
LEMMA DoKeyToCome == ASSUME Inv, ToCome, do_key PROVE ToCome'
<1>1. /\ codes.todo # <<>> /\ codes' = [codes EXCEPT !.todo = Tail(@)]
      /\ fb_kb_kchr(Head(codes.todo))
      /\ UNCHANGED <<layout, mode, meant, disturbed, careful>>
  BY DEF do_key, Idle
<1>2. /\ codes.todo \in Seq(Codes) /\ macDown \subseteq Keys /\ typed \in Seq(Codes)
      /\ layout \in Layouts /\ DOMAIN codes = {"kind", "todo"}
  BY DEF Inv, TypeOK, Codes, Keys
<1>3. codes'.todo = Tail(codes.todo)
  BY <1>1, <1>2
<1> SUFFICES ASSUME careful', ~disturbed'
             PROVE  IF mode' = "ARAW"
                      THEN Coming(layout', codes'.todo, macDown', pending', typed', meant')
                      ELSE pending' = 0 /\ codes'.todo = <<>> /\ typed' = meant'
  BY DEF ToCome
<1>4. careful /\ ~disturbed
  BY <1>1
<1>5. CASE mode = "ARAW"
  <2>1. PICK t : t = Translate(layout, pending, MacModifiers(macDown), Head(codes.todo))
    OBVIOUS
  <2>2. Coming(layout, codes.todo, macDown, pending, typed, meant)
    BY <1>4, <1>5 DEF ToCome
  <2>3. IsLayout(layout) /\ \A key \in ModifierKeys : Silent(layout, key)
    BY <1>2, LayoutIs
  <2>4. /\ Head(codes.todo) < 128 =>
             Coming(layout, Tail(codes.todo), macDown \cup {Head(codes.todo)}, t.pending,
                    typed \o t.out, meant)
        /\ ~(Head(codes.todo) < 128) =>
             Coming(layout, Tail(codes.todo), macDown \ {Head(codes.todo) - 128}, pending,
                    typed, meant)
    BY <1>1, <1>2, <2>1, <2>2, <2>3, OneLess
  <2>5. CASE Head(codes.todo) < 128
    <3>1. /\ macDown' = macDown \cup {Head(codes.todo)}
          /\ pending' = t.pending /\ typed' = typed \o t.out
      BY <1>1, <1>5, <2>1, <2>5 DEF fb_kb_kchr, fb_kb_kchr_araw, kb_mode
    <3> QED BY <1>1, <1>3, <1>5, <2>4, <2>5, <3>1, Zenon
  <2>6. CASE ~(Head(codes.todo) < 128)
    <3>1. macDown' = macDown \ {Head(codes.todo) - 128} /\ UNCHANGED <<pending, typed>>
      BY <1>1, <1>5, <2>6 DEF fb_kb_kchr, fb_kb_kchr_araw, kb_mode
    <3>2. pending' = pending /\ typed' = typed
      BY <3>1
    <3> QED BY <1>1, <1>3, <1>5, <2>4, <2>6, <3>1, <3>2, Zenon
  <2> QED BY <2>5, <2>6
<1>6. CASE mode # "ARAW"
  <2>1. pending = 0 /\ mode = "ASCII"
    BY <1>1, <1>4, <1>6 DEF ToCome
  <2>2. PICK c \in Keys : /\ codes.todo = <<c>>
                          /\ typed \o (IF c = 0 THEN <<>> ELSE <<c>>) = meant
    BY <1>1, <1>4, <1>6 DEF ToCome
  <2>3. /\ typed' = IF Head(codes.todo) = 0 THEN typed ELSE Append(typed, Head(codes.todo))
        /\ pending' = pending
    BY <1>1, <2>1 DEF fb_kb_kchr, fb_kb_kchr_ascii, kb_mode
  <2>4. Head(codes.todo) = c /\ Tail(codes.todo) = <<>>
    BY <2>2
  <2>5. c \in Codes /\ typed \o <<>> = typed /\ typed \o <<c>> = Append(typed, c)
    BY <1>2, Ranges
  <2>6. typed' = meant
    BY <2>2, <2>3, <2>4, <2>5
  <2> QED BY <1>1, <1>3, <1>6, <2>1, <2>3, <2>4, <2>6
<1> QED BY <1>1, <1>5, <1>6

\* Every step keeps what is to come.
LEMMA NextToCome == Inv /\ ToCome /\ [Next]_vars => ToCome'
<1> SUFFICES ASSUME Inv, ToCome, [Next]_vars PROVE ToCome'
  OBVIOUS
<1>0. Quiet /\ ~disturbed => codes.todo = <<>> /\ Idle
  BY DEF Quiet, Idle
<1>1. ASSUME NEW s \in Keysyms, KeyDown(s) PROVE ToCome'
  BY <1>1, KeyDownToCome
<1>2. ASSUME NEW s \in Keysyms, KeyUp(s) PROVE ToCome'
  BY <1>2, KeyUpToCome
<1>3. CASE do_key
  BY <1>3, DoKeyToCome
<1>4. ASSUME NEW m \in KeyModes, SetMode(m) PROVE ToCome'
  <2>1. /\ disturbed' = (disturbed \/ ~Quiet)
        /\ UNCHANGED <<pending, typed, codes, meant, careful>>
    BY <1>4 DEF SetMode
  <2>2. CASE disturbed'
    BY <2>2 DEF ToCome
  <2>3. CASE ~disturbed'
    BY <1>0, <2>1, <2>3, AllCome, NothingToCome
  <2> QED BY <2>2, <2>3
<1>5. ASSUME NEW k \in Layouts, SetLayout(k) PROVE ToCome'
  <2>1. /\ disturbed' = (disturbed \/ ~Quiet) /\ pending' = 0
        /\ UNCHANGED <<typed, codes, meant, careful>>
    BY <1>5 DEF SetLayout
  <2>2. CASE disturbed'
    BY <2>2 DEF ToCome
  <2>3. CASE ~disturbed'
    BY <1>0, <2>1, <2>3, AllCome, NothingToCome
  <2> QED BY <2>2, <2>3
<1>6. CASE NewSession
  <2>1. /\ disturbed' = (disturbed \/ ~Quiet)
        /\ UNCHANGED <<pending, typed, codes, meant, careful>>
    BY <1>6 DEF NewSession, mac
  <2>2. CASE disturbed'
    BY <2>2 DEF ToCome
  <2>3. CASE ~disturbed'
    BY <1>0, <2>1, <2>3, AllCome, NothingToCome
  <2> QED BY <2>2, <2>3
<1>7. CASE UNCHANGED vars
  BY <1>7 DEF vars, mac, ToCome
<1> QED BY <1>1, <1>2, <1>3, <1>4, <1>5, <1>6, <1>7 DEF Next

(***************************************************************************)
(* TypedRight: whoever types with care, one character at a time, on a      *)
(* keyboard whose layout and mode stay put under his fingers, has the      *)
(* programs on the Mac get what he typed, also across changes in between   *)
(* and new sessions: kchr.c's reversal, vnc_evt_key's codes and the Mac's  *)
(* reading of them together lose, double and change no character.          *)
(***************************************************************************)
THEOREM TypedRight == Spec => []TypedAsMeant
<1>1. Init => Inv /\ ToCome
  BY Start, StartToCome
<1>2. (Inv /\ ToCome) /\ [Next]_vars => (Inv /\ ToCome)'
  BY NextStep, NextToCome
<1>3. Inv /\ ToCome => TypedAsMeant
  BY AllCome DEF TypedAsMeant
<1> QED BY <1>1, <1>2, <1>3, PTL DEF Spec
=============================================================================

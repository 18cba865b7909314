----------------------------- MODULE MCKeyboard -----------------------------
(***************************************************************************)
(* Small layouts in the likeness of the US and the French one: letters     *)
(* with and without shift, a dead key on option (US) or without modifiers  *)
(* (French), return on every table, and a key that produces nothing.       *)
(***************************************************************************)
EXTENDS Keyboard

\* Keys: 0 and 14 letters, 10 nothing, 36 return, 49 nothing (US) or dead
\* (French), and Shift.  Characters: 13 return, 97 a, 65 A, 101 e, 69 E, 171 acute,
\* 142 e acute, 131 E acute.
MCKeycodes == {0, 10, 14, 36, 49, SHIFT}
MCChars == {0, 13, 65, 69, 97, 101, 131, 142, 171}

Table(a, e) == (0 :> a) @@ (10 :> 0) @@ (14 :> e) @@ (36 :> 13) @@ (49 :> 0) @@ (SHIFT :> 0)

\* Which table a combination of modifiers leads to: 0, shift 1, option 2.
TableOf(m) ==
  CASE HasModifier(m, OPTION) -> 2
    [] ~HasModifier(m, OPTION) /\ HasModifier(m, SHIFT) -> 1
    [] OTHER -> 0

Sub(comp, sub) == [comp |-> comp, sub |-> sub]

US ==
  [tableOf |-> [m \in Modifiers |-> TableOf(m)],
   tables  |-> (0 :> Table(97, 101)) @@ (1 :> Table(65, 69)) @@ (2 :> Table(171, 0)),
   deads   |-> <<[table |-> 2, keycode |-> 14, subs |-> <<Sub(101, 142), Sub(69, 131)>>]>>]

\* Here the acute is a dead key of the first table, and the letters are swapped.
French ==
  [tableOf |-> [m \in Modifiers |-> IF TableOf(m) = 2 THEN 0 ELSE TableOf(m)],
   tables  |-> (0 :> Table(101, 97)) @@ (1 :> Table(69, 65)),
   deads   |-> <<[table |-> 0, keycode |-> 49, subs |-> <<Sub(101, 142), Sub(69, 131)>>]>>]

MCLayouts == {US, French}
OnlyUS == {US}

Char(c) == <<"char", c>>
Key(k) == <<"key", k>>

\* Return, a letter with and one without shift, one that takes a dead key, one
\* that only some layouts have, a keysym without a character, and Shift.
MCKeysyms == {Char(13), Char(65), Char(101), Char(131), Char(171), Char(0), Key(SHIFT)}
FewKeysyms == {Char(65), Char(97), Key(SHIFT)}
=============================================================================

-------------------------------- MODULE Kchr --------------------------------
(***************************************************************************)
(* A keyboard layout (a KCHR resource) and its reversal by app/kchr.c: the *)
(* resource says which character a key with some modifiers produces, the   *)
(* daemon needs the keys that produce a given character.                   *)
(*                                                                         *)
(* A layout k has                                                          *)
(*   k.tableOf  for each combination of modifiers, the number of a table   *)
(*   k.tables   each table: for each key, a character                      *)
(*   k.deads    a sequence of dead keys, each with its table and keycode,  *)
(*              and subs, a sequence of completing characters (comp) and   *)
(*              what they become (sub)                                     *)
(***************************************************************************)
EXTENDS Integers, SequencesExt

CONSTANTS
  ModifierBits,  \* the table of modifiers has 2^ModifierBits entries (0x80)
  Keycodes,      \* the keys a table has entries for (0 .. 0x7f)
  Chars,         \* the characters (0 .. 255)
  KCHR_NTABLES   \* how many tables kchr_state has room for

ASSUME KchrAssumption ==
  /\ ModifierBits \in 1 .. 7
  /\ Keycodes \subseteq 0 .. 127 /\ Chars \subseteq 0 .. 255
  /\ KCHR_NTABLES \in 1 .. 255

Modifiers == 0 .. 2 ^ ModifierBits - 1

TablesOf(k) == DOMAIN k.tables

-----------------------------------------------------------------------------
(***************************************************************************)
(* What kchr_load makes of a layout.                                       *)
(***************************************************************************)

\* For each table, the first combination of modifiers that leads to it.  The
\* loop gives up at the first table number that is out of range.
kchr_build_table_table(k) ==
  LET looked == {m \in Modifiers : \A n \in 0 .. m : k.tableOf[n] < KCHR_NTABLES}
  IN  [t \in 0 .. KCHR_NTABLES - 1 |->
         IF \E m \in looked : k.tableOf[m] = t
           THEN Min({m \in looked : k.tableOf[m] = t})
           ELSE 255]

\* The places of a character, and the first of them in the order of the loops.
Places(k, c) == {p \in TablesOf(k) \X Keycodes : k.tables[p[1]][p[2]] = c}

FirstPlace(k, c) ==
  CHOOSE p \in Places(k, c) :
    \A q \in Places(k, c) : p[1] < q[1] \/ (p[1] = q[1] /\ p[2] <= q[2])

\* An entry of a table that memset has cleared and nothing has set.
NoEntry == [valid |-> FALSE, table |-> 0, keycode |-> 0]

NoDead == [valid |-> FALSE, table |-> 0, deadkey |-> 0, comp_char |-> 0]

kchr_build_char_table(k) ==
  [c \in Chars |->
     IF Places(k, c) = {} THEN NoEntry
     ELSE [valid |-> TRUE, table |-> FirstPlace(k, c)[1], keycode |-> FirstPlace(k, c)[2]]]

\* The dead keys and completors that make a character, and the first of them.
Ways(k, c) ==
  {w \in {<<i, j>> : i \in DOMAIN k.deads, j \in UNION {DOMAIN d.subs : d \in Range(k.deads)}} :
     w[2] \in DOMAIN k.deads[w[1]].subs /\ k.deads[w[1]].subs[w[2]].sub = c}

FirstWay(k, c) ==
  CHOOSE w \in Ways(k, c) :
    \A v \in Ways(k, c) : w[1] < v[1] \/ (w[1] = v[1] /\ w[2] <= v[2])

kchr_build_dead_table(k) ==
  [c \in Chars |->
     IF Ways(k, c) = {} THEN NoDead
     ELSE LET d == k.deads[FirstWay(k, c)[1]]
          IN  [valid |-> TRUE, table |-> d.table, deadkey |-> d.keycode,
               comp_char |-> d.subs[FirstWay(k, c)[2]].comp]]

kchr_load(k) ==
  [modifiers |-> kchr_build_table_table(k),
   entries   |-> kchr_build_char_table(k),
   deads     |-> kchr_build_dead_table(k)]

-----------------------------------------------------------------------------
(***************************************************************************)
(* The keys for a character.                                               *)
(***************************************************************************)
NoKeypress == [valid |-> FALSE, modifiers |-> 0, keycode |-> 0]

Keypress(state, table, keycode) ==
  [valid |-> TRUE, modifiers |-> state.modifiers[table], keycode |-> keycode]

\* Mutant: the second key is pressed with the modifiers of the dead key.
kchr_keys_for_char_dead_modifiers(state, c) ==
  LET e == state.entries[c]
      d == state.deads[c]
      s == state.entries[d.comp_char]
  IN  CASE e.valid -> [fst |-> Keypress(state, e.table, e.keycode), snd |-> NoKeypress]
        [] ~e.valid /\ d.valid -> [fst |-> Keypress(state, d.table, d.deadkey),
                                   snd |-> Keypress(state, d.table, s.keycode)]
        [] OTHER -> [fst |-> NoKeypress, snd |-> NoKeypress]

kchr_keys_for_char(state, c) ==
  LET e == state.entries[c]
      d == state.deads[c]
      s == state.entries[d.comp_char]
  IN  CASE e.valid -> [fst |-> Keypress(state, e.table, e.keycode), snd |-> NoKeypress]
        [] ~e.valid /\ d.valid -> [fst |-> Keypress(state, d.table, d.deadkey),
                                   snd |-> Keypress(state, s.table, s.keycode)]
        [] OTHER -> [fst |-> NoKeypress, snd |-> NoKeypress]

-----------------------------------------------------------------------------
(***************************************************************************)
(* What the Mac makes of a key: the forward reading of a layout.  pending  *)
(* is the dead key pressed before, 0 if none was.  Character 0 is none; a  *)
(* dead key is one that has a place of its own there.                      *)
(***************************************************************************)
DeadAt(k, table, key) ==
  {i \in DOMAIN k.deads : k.deads[i].table = table /\ k.deads[i].keycode = key}

Translate(k, pending, modifiers, key) ==
  LET table == k.tableOf[modifiers]
      c     == k.tables[table][key]
      hits  == {s \in Range(k.deads[pending].subs) : s.comp = c}
  IN  CASE key \notin Keycodes -> [pending |-> pending, out |-> <<>>]
        [] key \in Keycodes /\ c = 0 ->
             [pending |-> IF DeadAt(k, table, key) = {} THEN pending
                          ELSE Min(DeadAt(k, table, key)),
              out |-> <<>>]
        [] key \in Keycodes /\ c # 0 /\ pending = 0 -> [pending |-> 0, out |-> <<c>>]
        [] OTHER -> [pending |-> 0,
                     out |-> IF hits = {} THEN <<c>> ELSE <<(CHOOSE s \in hits : TRUE).sub>>]

\* The first combination of modifiers that leads to a table.
FirstTo(k, t) == Min({m \in Modifiers : k.tableOf[m] = t})

\* A key that does nothing in any table.
Silent(k, key) ==
  key \in Keycodes => \A t \in TablesOf(k) : k.tables[t][key] = 0 /\ DeadAt(k, t, key) = {}

(***************************************************************************)
(* Layouts as Macs have them: every table can be reached with the five     *)
(* modifiers that have codes of their own, dead keys have character 0 and  *)
(* are told apart by their place, their completors are characters of some  *)
(* key, and the first place of character 0, where keysyms without a        *)
(* character end up, is a key that does nothing.                           *)
(***************************************************************************)
IsLayout(k) ==
  /\ k.tableOf \in [Modifiers -> TablesOf(k)]
  /\ \E n \in 0 .. KCHR_NTABLES - 1 : TablesOf(k) = 0 .. n
  /\ k.tables \in [TablesOf(k) -> [Keycodes -> Chars]]
  /\ \A t \in TablesOf(k) : \E m \in Modifiers : m < 32 /\ k.tableOf[m] = t
  /\ k.deads \in Seq([table : TablesOf(k), keycode : Keycodes,
                       subs : Seq([comp : Chars, sub : Chars])])
  /\ \A i \in DOMAIN k.deads :
       LET d == k.deads[i]
       IN  /\ k.tables[d.table][d.keycode] = 0
           /\ DeadAt(k, d.table, d.keycode) = {i}
           /\ \A j \in DOMAIN d.subs :
                d.subs[j].comp # 0 /\ d.subs[j].sub # 0
                /\ Places(k, d.subs[j].comp) # {}
           /\ \A j, l \in DOMAIN d.subs : d.subs[j].comp = d.subs[l].comp => j = l
  /\ Places(k, 0) # {} /\ DeadAt(k, FirstPlace(k, 0)[1], FirstPlace(k, 0)[2]) = {}
=============================================================================

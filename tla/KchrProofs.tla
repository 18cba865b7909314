----------------------------- MODULE KchrProofs -----------------------------
(***************************************************************************)
(* The reversal of a keyboard layout, for every layout.                    *)
(***************************************************************************)
EXTENDS Kchr, WellFoundedInduction, TLAPS

\* A set of numbers that is not empty has a least one.
LEMMA Least ==
  ASSUME NEW S, S \subseteq Nat, S # {}
  PROVE  Min(S) \in S /\ \A x \in S : Min(S) <= x
<1> DEFINE R == {p \in Nat \X Nat : p[1] < p[2]}
<1>1. IsWellFoundedOn(R, Nat)
  BY NatLessThanWellFounded DEF OpToRel
<1>2. \A x, y \in Nat : x < y => <<x, y>> \in R
  OBVIOUS
<1> HIDE DEF R
<1>3. PICK x \in S : \A y \in S : <<y, x>> \notin R
  BY <1>1, WFMin
<1>4. \A y \in S : ~(y < x)
  BY <1>2, <1>3
<1>5. \A y \in S : x <= y
  BY <1>4, SMT
<1> QED
  BY <1>5 DEF Min

\* So two nested loops over numbers meet a first pair.
LEMMA FirstPair ==
  ASSUME NEW S, S \subseteq Nat \X Nat, S # {}
  PROVE  \E p \in S : \A q \in S : p[1] < q[1] \/ (p[1] = q[1] /\ p[2] <= q[2])
<1> DEFINE A == {p[1] : p \in S}
           B(a) == {b \in Nat : <<a, b>> \in S}
<1>1. \A p \in S : p[1] \in Nat /\ p[2] \in Nat /\ p = <<p[1], p[2]>>
  OBVIOUS
<1>2. A \subseteq Nat /\ A # {}
  BY <1>1
<1>3. PICK a \in A : \A x \in A : a <= x
  BY <1>2, Least
<1>4. B(a) \subseteq Nat /\ B(a) # {}
  BY <1>1
<1>5. PICK b \in B(a) : \A x \in B(a) : b <= x
  BY <1>4, Least
<1>6. <<a, b>> \in S /\ a \in Nat /\ b \in Nat
  BY <1>2
<1>7. ASSUME NEW q \in S PROVE a < q[1] \/ (a = q[1] /\ b <= q[2])
  <2>1. q[1] \in Nat /\ a <= q[1]
    BY <1>1, <1>3
  <2>2. a = q[1] => q[2] \in B(a)
    BY <1>1
  <2>3. a = q[1] => b <= q[2]
    BY <2>2, <1>5
  <2> QED BY <2>1, <2>3, <1>6
<1>8. <<a, b>>[1] = a /\ <<a, b>>[2] = b
  OBVIOUS
<1> HIDE DEF A, B
<1>9. \A q \in S : <<a, b>>[1] < q[1] \/ (<<a, b>>[1] = q[1] /\ <<a, b>>[2] <= q[2])
  BY <1>7, <1>8
<1> QED BY <1>6, <1>9

\* The loops of kchr_build_char_table find a character that has a place, ...
LEMMA FirstPlaceFound ==
  ASSUME NEW k, IsLayout(k), NEW c, Places(k, c) # {}
  PROVE  /\ FirstPlace(k, c) \in TablesOf(k) \X Keycodes
         /\ k.tables[FirstPlace(k, c)[1]][FirstPlace(k, c)[2]] = c
<1>1. TablesOf(k) \subseteq Nat /\ Keycodes \subseteq Nat
  BY KchrAssumption DEF IsLayout
<1>2. Places(k, c) \subseteq Nat \X Nat
  BY <1>1 DEF Places
<1>3. \E p \in Places(k, c) :
        \A q \in Places(k, c) : p[1] < q[1] \/ (p[1] = q[1] /\ p[2] <= q[2])
  BY <1>2, FirstPair
<1>4. FirstPlace(k, c) \in Places(k, c)
  BY <1>3 DEF FirstPlace
<1> QED BY <1>4 DEF Places

\* ... and those of kchr_build_dead_table one that has dead keys and completors.
LEMMA FirstWayFound ==
  ASSUME NEW k, IsLayout(k), NEW c, Ways(k, c) # {}
  PROVE  /\ FirstWay(k, c)[1] \in DOMAIN k.deads
         /\ FirstWay(k, c)[2] \in DOMAIN k.deads[FirstWay(k, c)[1]].subs
         /\ k.deads[FirstWay(k, c)[1]].subs[FirstWay(k, c)[2]].sub = c
<1> DEFINE D == [table : TablesOf(k), keycode : Keycodes, subs : Seq([comp : Chars, sub : Chars])]
<1>1. k.deads \in Seq(D)
  BY DEF IsLayout
<1> HIDE DEF D
<1>2. DOMAIN k.deads \subseteq Nat /\ \A i \in DOMAIN k.deads : k.deads[i] \in D
  BY <1>1
<1>3. \A i \in DOMAIN k.deads : DOMAIN k.deads[i].subs \subseteq Nat
  <2> TAKE i \in DOMAIN k.deads
  <2>1. k.deads[i].subs \in Seq([comp : Chars, sub : Chars])
    BY <1>2 DEF D
  <2> QED BY <2>1
<1>4. ASSUME NEW w \in Ways(k, c)
      PROVE  /\ w \in Nat \X Nat
             /\ w[1] \in DOMAIN k.deads
             /\ w[2] \in DOMAIN k.deads[w[1]].subs
             /\ k.deads[w[1]].subs[w[2]].sub = c
  <2>1. PICK i \in DOMAIN k.deads, j \in UNION {DOMAIN d.subs : d \in Range(k.deads)} : w = <<i, j>>
    BY DEF Ways
  <2>2. w[1] = i /\ w[2] = j
    BY <2>1
  <2>3. w[2] \in DOMAIN k.deads[w[1]].subs /\ k.deads[w[1]].subs[w[2]].sub = c
    BY DEF Ways
  <2>4. i \in Nat /\ j \in Nat
    BY <2>2, <2>3, <1>2, <1>3
  <2> QED BY <2>1, <2>2, <2>3, <2>4
<1>5. Ways(k, c) \subseteq Nat \X Nat
  BY <1>4
<1>6. \E w \in Ways(k, c) :
        \A v \in Ways(k, c) : w[1] < v[1] \/ (w[1] = v[1] /\ w[2] <= v[2])
  BY <1>5, FirstPair
<1>7. FirstWay(k, c) \in Ways(k, c)
  BY <1>6 DEF FirstWay
<1> QED BY <1>7, <1>4

-----------------------------------------------------------------------------
\* Keys and characters are small numbers.
LEMMA KeyNumbers == \A key \in Keycodes : key \in 0 .. 127
  BY KchrAssumption

LEMMA CharNumbers == \A c \in Chars : c \in Nat /\ c < 256
  BY KchrAssumption

\* The table of modifiers has entries.
LEMMA Powers == 2 ^ ModifierBits \in Nat \ {0}
<1>1. ModifierBits \in {1, 2, 3, 4, 5, 6, 7}
  BY KchrAssumption
<1>2. CASE ModifierBits = 1
  <2>1. 2 ^ 1 = 2
    OBVIOUS
  <2> QED BY <2>1, <1>2
<1>3. CASE ModifierBits = 2
  <2>1. 2 ^ 2 = 4
    OBVIOUS
  <2> QED BY <2>1, <1>3
<1>4. CASE ModifierBits = 3
  <2>1. 2 ^ 3 = 8
    OBVIOUS
  <2> QED BY <2>1, <1>4
<1>5. CASE ModifierBits = 4
  <2>1. 2 ^ 4 = 16
    OBVIOUS
  <2> QED BY <2>1, <1>5
<1>6. CASE ModifierBits = 5
  <2>1. 2 ^ 5 = 32
    OBVIOUS
  <2> QED BY <2>1, <1>6
<1>7. CASE ModifierBits = 6
  <2>1. 2 ^ 6 = 64
    OBVIOUS
  <2> QED BY <2>1, <1>7
<1>8. CASE ModifierBits = 7
  <2>1. 2 ^ 7 = 128
    OBVIOUS
  <2> QED BY <2>1, <1>8
<1> QED BY <1>1, <1>2, <1>3, <1>4, <1>5, <1>6, <1>7, <1>8

\* What kchr_load knows of a table is the first combination of modifiers that leads to it,
\* one of the five modifiers that have codes of their own.
LEMMA TableReached ==
  ASSUME NEW k, IsLayout(k), NEW t \in TablesOf(k)
  PROVE  LET m == kchr_load(k).modifiers[t]
         IN  /\ m = FirstTo(k, t)
             /\ m \in Modifiers /\ k.tableOf[m] = t /\ m < 32
<1> DEFINE M == {m \in Modifiers : k.tableOf[m] = t}
<1>1. Modifiers \subseteq Nat
  BY Powers DEF Modifiers
<1>2. t \in 0 .. KCHR_NTABLES - 1 /\ \A m \in Modifiers : k.tableOf[m] < KCHR_NTABLES
  BY KchrAssumption DEF IsLayout
<1>3. \A m \in Modifiers : \A n \in 0 .. m : n \in Modifiers
  BY Powers DEF Modifiers
<1>4. {m \in Modifiers : \A n \in 0 .. m : k.tableOf[n] < KCHR_NTABLES} = Modifiers
  BY <1>2, <1>3
<1>5. PICK w \in M : w < 32
  BY DEF IsLayout
<1>6. Min(M) \in M /\ Min(M) <= w
  BY <1>1, <1>5, Least
<1>7. kchr_build_table_table(k)[t] = Min(M)
  BY <1>2, <1>4, <1>5 DEF kchr_build_table_table
<1>8. kchr_load(k).modifiers[t] = Min(M)
  BY <1>7 DEF kchr_load
<1>9. Min(M) < 32 /\ Min(M) \in Modifiers /\ k.tableOf[Min(M)] = t
  <2>1. Min(M) \in Modifiers /\ k.tableOf[Min(M)] = t /\ w \in Modifiers
    BY <1>6
  <2>2. Min(M) \in Nat /\ w \in Nat
    BY <1>1, <2>1
  <2> HIDE DEF M
  <2> QED BY <1>5, <1>6, <2>1, <2>2
<1> HIDE DEF M
<1>10. LET m == kchr_load(k).modifiers[t]
       IN  m = Min(M) /\ m \in Modifiers /\ k.tableOf[m] = t /\ m < 32
  BY <1>8, <1>9
<1> QED BY <1>10 DEF M, FirstTo

\* What kchr_load knows of a character.
LEMMA EntryRight ==
  ASSUME NEW k, IsLayout(k), NEW c \in Chars
  PROVE  LET e == kchr_load(k).entries[c]
         IN  /\ e.valid <=> Places(k, c) # {}
             /\ e.keycode \in 0 .. 127
             /\ e.valid => /\ e.table \in TablesOf(k) /\ e.keycode \in Keycodes
                           /\ k.tables[e.table][e.keycode] = c
<1> DEFINE e == kchr_load(k).entries[c]
<1>1. e = IF Places(k, c) = {} THEN NoEntry
          ELSE [valid |-> TRUE, table |-> FirstPlace(k, c)[1], keycode |-> FirstPlace(k, c)[2]]
  BY DEF kchr_load, kchr_build_char_table
<1> HIDE DEF e
<1>2. CASE Places(k, c) = {}
  BY <1>1, <1>2 DEF NoEntry, e
<1>3. CASE Places(k, c) # {}
  <2> DEFINE p == FirstPlace(k, c)
  <2>1. p[1] \in TablesOf(k) /\ p[2] \in Keycodes /\ k.tables[p[1]][p[2]] = c
    BY <1>3, FirstPlaceFound
  <2>2. e.valid = TRUE
    BY <1>1, <1>3
  <2>3. e.table = p[1] /\ e.keycode = p[2]
    BY <1>1, <1>3
  <2> HIDE DEF p
  <2>4. e.valid <=> Places(k, c) # {}
    BY <1>3, <2>2
  <2>5. e.keycode \in 0 .. 127
    BY <2>1, <2>3, KeyNumbers
  <2>6. /\ e.table \in TablesOf(k) /\ e.keycode \in Keycodes
        /\ k.tables[e.table][e.keycode] = c
    BY <2>1, <2>3
  <2> QED BY <2>4, <2>5, <2>6 DEF e
<1> QED BY <1>2, <1>3 DEF e

\* What it knows of the dead keys that make a character.
LEMMA DeadRight ==
  ASSUME NEW k, IsLayout(k), NEW c \in Chars
  PROVE  LET d == kchr_load(k).deads[c]
         IN  /\ d.valid <=> Ways(k, c) # {}
             /\ d.valid =>
                  \E i \in DOMAIN k.deads : \E j \in DOMAIN k.deads[i].subs :
                    /\ d.table = k.deads[i].table /\ d.deadkey = k.deads[i].keycode
                    /\ d.comp_char = k.deads[i].subs[j].comp
                    /\ k.deads[i].subs[j].sub = c
<1> DEFINE d == kchr_load(k).deads[c]
<1>1. d = IF Ways(k, c) = {} THEN NoDead
          ELSE LET f == k.deads[FirstWay(k, c)[1]]
               IN  [valid |-> TRUE, table |-> f.table, deadkey |-> f.keycode,
                    comp_char |-> f.subs[FirstWay(k, c)[2]].comp]
  BY DEF kchr_load, kchr_build_dead_table
<1> HIDE DEF d
<1>2. CASE Ways(k, c) = {}
  BY <1>1, <1>2 DEF NoDead, d
<1>3. CASE Ways(k, c) # {}
  <2> DEFINE i == FirstWay(k, c)[1]
             j == FirstWay(k, c)[2]
  <2>1. i \in DOMAIN k.deads /\ j \in DOMAIN k.deads[i].subs /\ k.deads[i].subs[j].sub = c
    BY <1>3, FirstWayFound
  <2>2. /\ d.valid = TRUE /\ d.table = k.deads[i].table /\ d.deadkey = k.deads[i].keycode
        /\ d.comp_char = k.deads[i].subs[j].comp
    BY <1>1, <1>3
  <2> HIDE DEF i, j
  <2> QED BY <2>1, <2>2, <1>3 DEF d
<1> QED BY <1>2, <1>3

\* A dead key of a layout and one of its completors.
LEMMA DeadKey ==
  ASSUME NEW k, IsLayout(k), NEW i \in DOMAIN k.deads
  PROVE  /\ k.deads[i].table \in TablesOf(k) /\ k.deads[i].keycode \in Keycodes
         /\ k.tables[k.deads[i].table][k.deads[i].keycode] = 0
         /\ DeadAt(k, k.deads[i].table, k.deads[i].keycode) = {i}
         /\ i \in Nat \ {0}
         /\ \A j \in DOMAIN k.deads[i].subs :
              /\ k.deads[i].subs[j].comp \in Chars \ {0} /\ k.deads[i].subs[j].sub \in Chars \ {0}
              /\ Places(k, k.deads[i].subs[j].comp) # {}
         /\ \A j, l \in DOMAIN k.deads[i].subs :
              k.deads[i].subs[j].comp = k.deads[i].subs[l].comp => j = l
<1> DEFINE S == [comp : Chars, sub : Chars]
           D == [table : TablesOf(k), keycode : Keycodes, subs : Seq(S)]
<1>1. k.deads \in Seq(D)
  BY DEF IsLayout
<1> HIDE DEF D
<1>2. k.deads[i] \in D /\ i \in Nat \ {0}
  BY <1>1
<1>3. k.deads[i].subs \in Seq(S)
  BY <1>2 DEF D
<1> HIDE DEF S
<1>4. \A j \in DOMAIN k.deads[i].subs : k.deads[i].subs[j] \in S
  BY <1>3
<1>5. \A j \in DOMAIN k.deads[i].subs :
        k.deads[i].subs[j].comp \in Chars /\ k.deads[i].subs[j].sub \in Chars
  BY <1>4 DEF S
<1>6. k.deads[i].table \in TablesOf(k) /\ k.deads[i].keycode \in Keycodes
  BY <1>2 DEF D
<1>7. /\ k.tables[k.deads[i].table][k.deads[i].keycode] = 0
      /\ DeadAt(k, k.deads[i].table, k.deads[i].keycode) = {i}
      /\ \A j \in DOMAIN k.deads[i].subs :
              k.deads[i].subs[j].comp # 0 /\ k.deads[i].subs[j].sub # 0
              /\ Places(k, k.deads[i].subs[j].comp) # {}
      /\ \A j, l \in DOMAIN k.deads[i].subs :
              k.deads[i].subs[j].comp = k.deads[i].subs[l].comp => j = l
  BY DEF IsLayout
<1> QED BY <1>2, <1>5, <1>6, <1>7

\* NUL is a character: the one that does nothing.
LEMMA Zero == ASSUME NEW k, IsLayout(k) PROVE 0 \in Chars
<1>1. PICK p \in TablesOf(k) \X Keycodes : k.tables[p[1]][p[2]] = 0
  BY DEF IsLayout, Places
<1>2. p[1] \in TablesOf(k) /\ p[2] \in Keycodes /\ k.tables \in [TablesOf(k) -> [Keycodes -> Chars]]
  BY DEF IsLayout
<1> QED BY <1>1, <1>2

-----------------------------------------------------------------------------
\* A key with modifiers that lead to its table gives its character.
LEMMA PlainKey ==
  ASSUME NEW k, IsLayout(k), NEW t \in TablesOf(k), NEW key \in Keycodes, NEW c \in Chars \ {0},
         k.tables[t][key] = c
  PROVE  Translate(k, 0, kchr_load(k).modifiers[t], key) = [pending |-> 0, out |-> <<c>>]
<1>1. k.tableOf[kchr_load(k).modifiers[t]] = t
  BY TableReached
<1> QED BY <1>1, Zenon DEF Translate

\* A dead key is only remembered.
LEMMA DeadPressed ==
  ASSUME NEW k, IsLayout(k), NEW i \in DOMAIN k.deads
  PROVE  Translate(k, 0, kchr_load(k).modifiers[k.deads[i].table], k.deads[i].keycode)
           = [pending |-> i, out |-> <<>>]
<1> DEFINE t == k.deads[i].table
           key == k.deads[i].keycode
<1>1. /\ t \in TablesOf(k) /\ key \in Keycodes /\ k.tables[t][key] = 0
      /\ DeadAt(k, t, key) = {i} /\ i \in Nat
  BY DeadKey
<1>2. k.tableOf[kchr_load(k).modifiers[t]] = t
  BY <1>1, TableReached
<1>3. Min({i}) = i
  BY <1>1, Least
<1> HIDE DEF t, key
<1>4. Translate(k, 0, kchr_load(k).modifiers[t], key) = [pending |-> i, out |-> <<>>]
  BY <1>1, <1>2, <1>3, Zenon DEF Translate
<1> QED BY <1>4 DEF t, key

\* The key of a completor turns it into another character.
LEMMA Completed ==
  ASSUME NEW k, IsLayout(k), NEW i \in DOMAIN k.deads, NEW j \in DOMAIN k.deads[i].subs,
         NEW t \in TablesOf(k), NEW key \in Keycodes, k.tables[t][key] = k.deads[i].subs[j].comp
  PROVE  Translate(k, i, kchr_load(k).modifiers[t], key)
           = [pending |-> 0, out |-> <<k.deads[i].subs[j].sub>>]
<1> DEFINE c == k.deads[i].subs[j].comp
           hits == {s \in Range(k.deads[i].subs) : s.comp = c}
<1>1. /\ c # 0 /\ i # 0
      /\ \A l \in DOMAIN k.deads[i].subs : k.deads[i].subs[l].comp = c => l = j
  BY DeadKey
<1>2. hits = {k.deads[i].subs[j]}
  BY <1>1, Zenon DEF Range
<1>3. (CHOOSE s \in hits : TRUE) = k.deads[i].subs[j] /\ hits # {}
  BY <1>2
<1>4. k.tableOf[kchr_load(k).modifiers[t]] = t
  BY TableReached
<1>5. k.tables[t][key] = c
  OBVIOUS
<1> QED BY <1>1, <1>3, <1>4, <1>5, Zenon DEF Translate

-----------------------------------------------------------------------------
\* The three cases of kchr_keys_for_char.
LEMMA OnePress ==
  ASSUME NEW k, IsLayout(k), NEW c \in Chars, Places(k, c) # {}
  PROVE  LET e  == kchr_load(k).entries[c]
             kc == kchr_keys_for_char(kchr_load(k), c)
         IN  kc.fst = Keypress(kchr_load(k), e.table, e.keycode) /\ kc.snd = NoKeypress
<1> DEFINE e  == kchr_load(k).entries[c]
           kc == kchr_keys_for_char(kchr_load(k), c)
<1>1. e.valid
  BY EntryRight
<1>2. kc = [fst |-> Keypress(kchr_load(k), e.table, e.keycode), snd |-> NoKeypress]
  BY <1>1, Zenon DEF kchr_keys_for_char
<1> HIDE DEF kc
<1>3. kc.fst = Keypress(kchr_load(k), e.table, e.keycode) /\ kc.snd = NoKeypress
  BY <1>2
<1> QED BY <1>3 DEF kc

LEMMA TwoPresses ==
  ASSUME NEW k, IsLayout(k), NEW c \in Chars, Places(k, c) = {}, Ways(k, c) # {}
  PROVE  LET d  == kchr_load(k).deads[c]
             s  == kchr_load(k).entries[d.comp_char]
             kc == kchr_keys_for_char(kchr_load(k), c)
         IN  /\ kc.fst = Keypress(kchr_load(k), d.table, d.deadkey)
             /\ kc.snd = Keypress(kchr_load(k), s.table, s.keycode)
<1> DEFINE d  == kchr_load(k).deads[c]
           s  == kchr_load(k).entries[d.comp_char]
           kc == kchr_keys_for_char(kchr_load(k), c)
<1>1. ~kchr_load(k).entries[c].valid
  BY EntryRight
<1>2. d.valid
  BY DeadRight
<1>3. kc = [fst |-> Keypress(kchr_load(k), d.table, d.deadkey),
            snd |-> Keypress(kchr_load(k), s.table, s.keycode)]
  BY <1>1, <1>2, Zenon DEF kchr_keys_for_char
<1> HIDE DEF kc, d, s
<1>4. /\ kc.fst = Keypress(kchr_load(k), d.table, d.deadkey)
      /\ kc.snd = Keypress(kchr_load(k), s.table, s.keycode)
  BY <1>3
<1> QED BY <1>4 DEF kc, d, s

LEMMA NoPress ==
  ASSUME NEW k, IsLayout(k), NEW c \in Chars, Places(k, c) = {}, Ways(k, c) = {}
  PROVE  LET kc == kchr_keys_for_char(kchr_load(k), c)
         IN  kc.fst = NoKeypress /\ kc.snd = NoKeypress
<1> DEFINE kc == kchr_keys_for_char(kchr_load(k), c)
<1>1. ~kchr_load(k).entries[c].valid
  BY EntryRight
<1>2. ~kchr_load(k).deads[c].valid
  BY DeadRight
<1>3. kc = [fst |-> NoKeypress, snd |-> NoKeypress]
  BY <1>1, <1>2, Zenon DEF kchr_keys_for_char
<1> HIDE DEF kc
<1>4. kc.fst = NoKeypress /\ kc.snd = NoKeypress
  BY <1>3
<1> QED BY <1>4 DEF kc

\* The keys for a character are keys of the keyboard.
LEMMA KeysThere ==
  ASSUME NEW k, IsLayout(k), NEW c \in Chars
  PROVE  LET kc == kchr_keys_for_char(kchr_load(k), c)
         IN  kc.fst.keycode \in 0 .. 127 /\ kc.snd.keycode \in 0 .. 127
<1> DEFINE kc == kchr_keys_for_char(kchr_load(k), c)
           e == kchr_load(k).entries[c]
           d == kchr_load(k).deads[c]
           s == kchr_load(k).entries[d.comp_char]
<1> HIDE DEF kc, e, d, s
<1>1. NoKeypress.keycode \in 0 .. 127
  BY DEF NoKeypress
<1>2. CASE Places(k, c) # {}
  <2>1. kc.fst.keycode = e.keycode /\ kc.snd = NoKeypress
    <3>1. kc.fst = Keypress(kchr_load(k), e.table, e.keycode) /\ kc.snd = NoKeypress
      BY <1>2, OnePress DEF kc, e
    <3> QED BY <3>1 DEF Keypress
  <2>2. e.keycode \in 0 .. 127
    BY EntryRight DEF e
  <2> QED BY <2>1, <2>2, <1>1 DEF kc
<1>3. CASE Places(k, c) = {} /\ Ways(k, c) # {}
  <2>1. kc.fst.keycode = d.deadkey /\ kc.snd.keycode = s.keycode
    <3>1. /\ kc.fst = Keypress(kchr_load(k), d.table, d.deadkey)
          /\ kc.snd = Keypress(kchr_load(k), s.table, s.keycode)
      BY <1>3, TwoPresses DEF kc, d, s
    <3> QED BY <3>1 DEF Keypress
  <2>2. PICK i \in DOMAIN k.deads : \E j \in DOMAIN k.deads[i].subs :
          d.deadkey = k.deads[i].keycode /\ d.comp_char = k.deads[i].subs[j].comp
    BY <1>3, DeadRight DEF d
  <2>3. d.deadkey \in Keycodes /\ d.comp_char \in Chars
    BY <2>2, DeadKey
  <2>4. d.deadkey \in 0 .. 127
    BY <2>3, KeyNumbers
  <2>5. s.keycode \in 0 .. 127
    BY <2>3, EntryRight DEF s
  <2> QED BY <2>1, <2>4, <2>5 DEF kc
<1>4. CASE Places(k, c) = {} /\ Ways(k, c) = {}
  <2>1. kc.fst = NoKeypress /\ kc.snd = NoKeypress
    BY <1>4, NoPress DEF kc
  <2> QED BY <2>1, <1>1 DEF kc
<1> QED BY <1>2, <1>3, <1>4

\* A character that has a place is one press: a key of the table its modifiers lead to.
LEMMA PlainGives ==
  ASSUME NEW k, IsLayout(k), NEW c \in Chars, Places(k, c) # {},
         NEW kc, kc = kchr_keys_for_char(kchr_load(k), c), NEW p, p = FirstPlace(k, c)
  PROVE  /\ kc.fst.valid /\ ~kc.snd.valid
         /\ p[1] \in TablesOf(k) /\ kc.fst.keycode \in Keycodes
         /\ kc.fst.modifiers = kchr_load(k).modifiers[p[1]] /\ kc.fst.keycode = p[2]
         /\ k.tables[p[1]][kc.fst.keycode] = c
<1> DEFINE e == kchr_load(k).entries[c]
<1> HIDE DEF e
<1>1. e = [valid |-> TRUE, table |-> p[1], keycode |-> p[2]]
  BY DEF e, kchr_load, kchr_build_char_table
<1>2. e.table = p[1] /\ e.keycode = p[2]
  BY <1>1
<1>3. kc.fst = Keypress(kchr_load(k), e.table, e.keycode) /\ kc.snd = NoKeypress
  BY OnePress DEF e
<1>4. /\ kc.fst.valid /\ kc.fst.modifiers = kchr_load(k).modifiers[p[1]]
      /\ kc.fst.keycode = p[2]
  BY <1>2, <1>3 DEF Keypress
<1>5. ~kc.snd.valid
  BY <1>3 DEF NoKeypress
<1>6. p[1] \in TablesOf(k) /\ p[2] \in Keycodes /\ k.tables[p[1]][p[2]] = c
  BY FirstPlaceFound
<1> QED BY <1>4, <1>5, <1>6, Zenon

\* A character that has none but can be completed is two: a dead key and the completor's.
LEMMA DeadGives ==
  ASSUME NEW k, IsLayout(k), NEW c \in Chars, Places(k, c) = {}, Ways(k, c) # {},
         NEW kc, kc = kchr_keys_for_char(kchr_load(k), c)
  PROVE  /\ kc.fst.valid /\ kc.snd.valid
         /\ \E i \in DOMAIN k.deads : \E j \in DOMAIN k.deads[i].subs : \E t \in TablesOf(k) :
              /\ kc.fst.modifiers = kchr_load(k).modifiers[k.deads[i].table]
              /\ kc.fst.keycode = k.deads[i].keycode
              /\ kc.snd.modifiers = kchr_load(k).modifiers[t]
              /\ kc.snd.keycode \in Keycodes
              /\ k.tables[t][kc.snd.keycode] = k.deads[i].subs[j].comp
              /\ k.deads[i].subs[j].sub = c
<1> DEFINE d == kchr_load(k).deads[c]
           s == kchr_load(k).entries[d.comp_char]
<1> HIDE DEF d, s
<1>1. PICK i \in DOMAIN k.deads : \E j \in DOMAIN k.deads[i].subs :
        /\ d.table = k.deads[i].table /\ d.deadkey = k.deads[i].keycode
        /\ d.comp_char = k.deads[i].subs[j].comp
        /\ k.deads[i].subs[j].sub = c
  BY DeadRight DEF d
<1>2. PICK j \in DOMAIN k.deads[i].subs :
        /\ d.table = k.deads[i].table /\ d.deadkey = k.deads[i].keycode
        /\ d.comp_char = k.deads[i].subs[j].comp
        /\ k.deads[i].subs[j].sub = c
  BY <1>1
<1>3. d.comp_char \in Chars /\ Places(k, d.comp_char) # {}
  BY <1>2, DeadKey
<1>4. /\ s.table \in TablesOf(k) /\ s.keycode \in Keycodes
      /\ k.tables[s.table][s.keycode] = d.comp_char
  BY <1>3, EntryRight DEF s
<1>5. /\ kc.fst = Keypress(kchr_load(k), d.table, d.deadkey)
      /\ kc.snd = Keypress(kchr_load(k), s.table, s.keycode)
  BY TwoPresses DEF d, s
<1>6. /\ kc.fst.valid /\ kc.fst.modifiers = kchr_load(k).modifiers[d.table]
      /\ kc.fst.keycode = d.deadkey
  BY <1>5 DEF Keypress
<1>7. /\ kc.snd.valid /\ kc.snd.modifiers = kchr_load(k).modifiers[s.table]
      /\ kc.snd.keycode = s.keycode
  BY <1>5 DEF Keypress
<1>8. /\ kc.fst.modifiers = kchr_load(k).modifiers[k.deads[i].table]
      /\ kc.fst.keycode = k.deads[i].keycode
      /\ kc.snd.modifiers = kchr_load(k).modifiers[s.table]
      /\ kc.snd.keycode \in Keycodes
      /\ k.tables[s.table][kc.snd.keycode] = k.deads[i].subs[j].comp
      /\ k.deads[i].subs[j].sub = c
  BY <1>2, <1>4, <1>6, <1>7, Zenon
<1> QED BY <1>4, <1>6, <1>7, <1>8, Zenon

(***************************************************************************)
(* Reversal: kchr_keys_for_char has keys for just the characters that the  *)
(* layout produces, and they produce them: read forward through the same   *)
(* layout by a Mac with no dead key pending, one key gives the character,  *)
(* and of two keys the first gives nothing and the second the character.   *)
(***************************************************************************)
THEOREM Reversal ==
  ASSUME NEW k, IsLayout(k), NEW c \in Chars \ {0}
  PROVE  LET kc     == kchr_keys_for_char(kchr_load(k), c)
             first  == Translate(k, 0, kc.fst.modifiers, kc.fst.keycode)
             second == Translate(k, first.pending, kc.snd.modifiers, kc.snd.keycode)
         IN  /\ kc.fst.valid <=> Places(k, c) # {} \/ Ways(k, c) # {}
             /\ kc.fst.valid /\ ~kc.snd.valid => first = [pending |-> 0, out |-> <<c>>]
             /\ kc.snd.valid => /\ kc.fst.valid /\ first.out = <<>>
                                /\ second = [pending |-> 0, out |-> <<c>>]
<1> DEFINE kc     == kchr_keys_for_char(kchr_load(k), c)
           first  == Translate(k, 0, kc.fst.modifiers, kc.fst.keycode)
           second == Translate(k, first.pending, kc.snd.modifiers, kc.snd.keycode)
<1> HIDE DEF kc, first, second
<1>1. c \in Chars
  OBVIOUS
<1>2. CASE Places(k, c) # {}
  <2> DEFINE p == FirstPlace(k, c)
  <2> HIDE DEF p
  <2>1. /\ kc.fst.valid /\ ~kc.snd.valid
        /\ p[1] \in TablesOf(k) /\ kc.fst.keycode \in Keycodes
        /\ kc.fst.modifiers = kchr_load(k).modifiers[p[1]]
        /\ k.tables[p[1]][kc.fst.keycode] = c
    <3>1. kc = kchr_keys_for_char(kchr_load(k), c) /\ p = FirstPlace(k, c)
      BY DEF kc, p
    <3> QED BY <1>1, <1>2, <3>1, PlainGives
  <2>2. Translate(k, 0, kchr_load(k).modifiers[p[1]], kc.fst.keycode) = [pending |-> 0, out |-> <<c>>]
    BY <2>1, PlainKey
  <2>3. first = [pending |-> 0, out |-> <<c>>]
    BY <2>1, <2>2, Zenon DEF first
  <2> QED BY <1>2, <2>1, <2>3, Zenon DEF kc, first
<1>3. CASE Places(k, c) = {} /\ Ways(k, c) # {}
  <2>0. kc = kchr_keys_for_char(kchr_load(k), c)
    BY DEF kc
  <2>1. kc.fst.valid /\ kc.snd.valid
    BY <1>1, <1>3, <2>0, DeadGives
  <2>2. PICK i \in DOMAIN k.deads : \E j \in DOMAIN k.deads[i].subs : \E t \in TablesOf(k) :
          /\ kc.fst.modifiers = kchr_load(k).modifiers[k.deads[i].table]
          /\ kc.fst.keycode = k.deads[i].keycode
          /\ kc.snd.modifiers = kchr_load(k).modifiers[t]
          /\ kc.snd.keycode \in Keycodes
          /\ k.tables[t][kc.snd.keycode] = k.deads[i].subs[j].comp
          /\ k.deads[i].subs[j].sub = c
    BY <1>1, <1>3, <2>0, DeadGives
  <2>3. PICK j \in DOMAIN k.deads[i].subs : \E t \in TablesOf(k) :
          /\ kc.fst.modifiers = kchr_load(k).modifiers[k.deads[i].table]
          /\ kc.fst.keycode = k.deads[i].keycode
          /\ kc.snd.modifiers = kchr_load(k).modifiers[t]
          /\ kc.snd.keycode \in Keycodes
          /\ k.tables[t][kc.snd.keycode] = k.deads[i].subs[j].comp
          /\ k.deads[i].subs[j].sub = c
    BY <2>2, Zenon
  <2>4. PICK t \in TablesOf(k) :
          /\ kc.fst.modifiers = kchr_load(k).modifiers[k.deads[i].table]
          /\ kc.fst.keycode = k.deads[i].keycode
          /\ kc.snd.modifiers = kchr_load(k).modifiers[t]
          /\ kc.snd.keycode \in Keycodes
          /\ k.tables[t][kc.snd.keycode] = k.deads[i].subs[j].comp
          /\ k.deads[i].subs[j].sub = c
    BY <2>3, Zenon
  <2>5. first = [pending |-> i, out |-> <<>>]
    BY <2>4, DeadPressed, Zenon DEF first
  <2>6. first.pending = i /\ first.out = <<>>
    BY <2>5
  <2>7. Translate(k, i, kchr_load(k).modifiers[t], kc.snd.keycode)
          = [pending |-> 0, out |-> <<k.deads[i].subs[j].sub>>]
    BY <2>4, Completed
  <2>8. second = [pending |-> 0, out |-> <<c>>]
    BY <2>4, <2>6, <2>7, Zenon DEF second
  <2> QED BY <1>3, <2>1, <2>6, <2>8, Zenon DEF kc, first, second
<1>4. CASE Places(k, c) = {} /\ Ways(k, c) = {}
  <2>1. kc.fst.valid = FALSE /\ ~kc.snd.valid
    BY <1>1, <1>4, NoPress DEF NoKeypress, kc
  <2> QED BY <1>4, <2>1, Zenon DEF kc
<1> QED BY <1>2, <1>3, <1>4
=============================================================================

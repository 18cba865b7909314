---------------------------- MODULE Crc32Proofs ----------------------------
(***************************************************************************)
(* A change within two octets is always seen in the hash (kernel/src/      *)
(* crc32.h), for tables of every length and contents: the bits of each     *)
(* register determine the index it came from and the register before it.   *)
(***************************************************************************)
EXTENDS Crc32, TLAPS

\* Two words have the same bits within S.
Agree(a, b, S) == \A k \in S : k \in a <=> k \in b

\* The registers stay within 32 bits, and differ exactly once the tables have.
Inv ==
  /\ oldcrc32 \in SUBSET Bits /\ newcrc32 \in SUBSET Bits
  /\ IF changed
       THEN change = <<>> /\ oldcrc32 # newcrc32
       ELSE (\E c \in Changes : change = <<c[1], c[2]>>) /\ oldcrc32 = newcrc32

-----------------------------------------------------------------------------
\* What one step of division does to each bit.
LEMMA StepBits ==
  ASSUME NEW w \in SUBSET Bits
  PROVE  /\ Step(w) \in SUBSET Bits
         /\ 31 \in Step(w) <=> 0 \in w
         /\ \A k \in 0 .. 30 :
              k \in Step(w) <=> IF 0 \in w /\ k \in Polynomial THEN k + 1 \notin w ELSE k + 1 \in w
<1>1. ASSUME NEW k \in Bits PROVE k \in ShiftRight(w, 1) <=> k + 1 \in w
  <2>1. ASSUME k + 1 \in w PROVE k \in ShiftRight(w, 1)
    <3>1. k + 1 >= 1 /\ (k + 1) - 1 = k
      BY DEF Bits
    <3>2. QED BY <2>1, <3>1 DEF ShiftRight
  <2>2. ASSUME k \in ShiftRight(w, 1) PROVE k + 1 \in w
    <3>1. PICK c \in w : c >= 1 /\ k = c - 1
      BY <2>2 DEF ShiftRight
    <3>2. c \in Int /\ c = k + 1
      BY <3>1 DEF Bits
    <3>3. QED BY <3>1, <3>2
  <2>3. QED BY <2>1, <2>2
<1>2. ShiftRight(w, 1) \in SUBSET (0 .. 30)
  BY DEF ShiftRight, Bits
<1>3. Polynomial \in SUBSET Bits /\ 31 \in Polynomial
  BY DEF Polynomial, Bits
<1>4. \A k : k \in Step(w) <=>
               IF 0 \in w /\ k \in Polynomial THEN k \notin ShiftRight(w, 1) ELSE k \in ShiftRight(w, 1)
  BY DEF Step, SymDiff
<1>5. Step(w) \in SUBSET Bits
  <2>1. ShiftRight(w, 1) \in SUBSET Bits
    BY <1>2 DEF Bits
  <2>2. Step(w) \subseteq ShiftRight(w, 1) \cup Polynomial
    BY DEF Step, SymDiff
  <2>3. QED BY <1>3, <2>1, <2>2
<1>6. 31 \in Step(w) <=> 0 \in w
  <2>1. 31 \notin ShiftRight(w, 1)
    BY <1>2
  <2>2. QED BY <1>3, <1>4, <2>1
<1>7. ASSUME NEW k \in 0 .. 30
      PROVE  k \in Step(w) <=> IF 0 \in w /\ k \in Polynomial THEN k + 1 \notin w ELSE k + 1 \in w
  <2>1. k \in Bits
    BY DEF Bits
  <2>2. QED BY <1>1, <1>4, <2>1
<1>8. QED BY <1>5, <1>6, <1>7

\* Where two words agree after a step they agreed one bit further before it, and in bit 0.
LEMMA StepBack ==
  ASSUME NEW a \in SUBSET Bits, NEW b \in SUBSET Bits, NEW k \in 0 .. 7,
         Agree(Step(a), Step(b), 0 .. k - 1 \cup 24 + k .. 31)
  PROVE  Agree(a, b, 0 .. k \cup 24 + (k + 1) .. 31)
<1> DEFINE S == 0 .. k - 1 \cup 24 + k .. 31
<1>1. 0 \in a <=> 0 \in b
  <2>1. 31 \in S
    OBVIOUS
  <2>2. 31 \in Step(a) <=> 31 \in Step(b)
    BY <2>1 DEF Agree
  <2>3. QED BY <2>2, StepBits
<1>2. ASSUME NEW n \in 0 .. k \cup 24 + (k + 1) .. 31, n # 0
      PROVE  n \in a <=> n \in b
  <2>1. n - 1 \in S /\ n - 1 \in 0 .. 30 /\ (n - 1) + 1 = n
    BY <1>2
  <2>2. n - 1 \in Step(a) <=> n - 1 \in Step(b)
    BY <2>1 DEF Agree
  <2>3. /\ n - 1 \in Step(a) <=> IF 0 \in a /\ n - 1 \in Polynomial THEN n \notin a ELSE n \in a
        /\ n - 1 \in Step(b) <=> IF 0 \in b /\ n - 1 \in Polynomial THEN n \notin b ELSE n \in b
    BY <2>1, StepBits
  <2>4. QED BY <1>1, <2>2, <2>3
<1>3. QED BY <1>1, <1>2 DEF Agree

\* The high octet of an entry of the table tells which entry it is.
LEMMA TableInjective ==
  ASSUME NEW m \in SUBSET Octet, NEW n \in SUBSET Octet,
         Agree(fb_crc_32_tab[m], fb_crc_32_tab[n], 24 .. 31)
  PROVE  m = n
<1> DEFINE m1 == Step(m)   n1 == Step(n)
           m2 == Step(m1)  n2 == Step(n1)
           m3 == Step(m2)  n3 == Step(n2)
           m4 == Step(m3)  n4 == Step(n3)
           m5 == Step(m4)  n5 == Step(n4)
           m6 == Step(m5)  n6 == Step(n5)
           m7 == Step(m6)  n7 == Step(n6)
           m8 == Step(m7)  n8 == Step(n7)
<1>1. fb_crc_32_tab[m] = m8 /\ fb_crc_32_tab[n] = n8
  BY DEF fb_crc_32_tab
<1>2. m \in SUBSET Bits /\ n \in SUBSET Bits
  BY DEF Octet, Bits
<1>3. m1 \in SUBSET Bits /\ n1 \in SUBSET Bits
  BY <1>2, StepBits
<1> HIDE DEF m1, n1
<1>4. m2 \in SUBSET Bits /\ n2 \in SUBSET Bits
  BY <1>3, StepBits
<1> HIDE DEF m2, n2
<1>5. m3 \in SUBSET Bits /\ n3 \in SUBSET Bits
  BY <1>4, StepBits
<1> HIDE DEF m3, n3
<1>6. m4 \in SUBSET Bits /\ n4 \in SUBSET Bits
  BY <1>5, StepBits
<1> HIDE DEF m4, n4
<1>7. m5 \in SUBSET Bits /\ n5 \in SUBSET Bits
  BY <1>6, StepBits
<1> HIDE DEF m5, n5
<1>8. m6 \in SUBSET Bits /\ n6 \in SUBSET Bits
  BY <1>7, StepBits
<1> HIDE DEF m6, n6
<1>9. m7 \in SUBSET Bits /\ n7 \in SUBSET Bits
  BY <1>8, StepBits
<1> HIDE DEF m7, n7
<1>10. Agree(m8, n8, 0 .. 0 - 1 \cup 24 + 0 .. 31)
  BY <1>1 DEF Agree
<1>11. Agree(m7, n7, 0 .. 0 \cup 24 + 1 .. 31)
  BY <1>9, <1>10, StepBack
<1>12. Agree(m6, n6, 0 .. 1 \cup 24 + 2 .. 31)
  BY <1>8, <1>11, StepBack DEF m7, n7
<1>13. Agree(m5, n5, 0 .. 2 \cup 24 + 3 .. 31)
  BY <1>7, <1>12, StepBack DEF m6, n6
<1>14. Agree(m4, n4, 0 .. 3 \cup 24 + 4 .. 31)
  BY <1>6, <1>13, StepBack DEF m5, n5
<1>15. Agree(m3, n3, 0 .. 4 \cup 24 + 5 .. 31)
  BY <1>5, <1>14, StepBack DEF m4, n4
<1>16. Agree(m2, n2, 0 .. 5 \cup 24 + 6 .. 31)
  BY <1>4, <1>15, StepBack DEF m3, n3
<1>17. Agree(m1, n1, 0 .. 6 \cup 24 + 7 .. 31)
  BY <1>3, <1>16, StepBack DEF m2, n2
<1>18. Agree(m, n, 0 .. 7 \cup 24 + 8 .. 31)
  BY <1>2, <1>17, StepBack DEF m1, n1
<1>19. QED BY <1>18 DEF Agree, Octet


\* Two registers that come out alike came from the same entry of the table, and from
\* registers alike but for the low octet.
LEMMA UpdateInjective ==
  ASSUME NEW c \in SUBSET Bits, NEW d \in SUBSET Bits,
         NEW x \in SUBSET Octet, NEW y \in SUBSET Octet
  PROVE  /\ UPDC32(x, c) \in SUBSET Bits
         /\ Agree(UPDC32(x, c), UPDC32(y, d), 24 .. 31) =>
              LowOctet(SymDiff(c, x)) = LowOctet(SymDiff(d, y))
         /\ UPDC32(x, c) = UPDC32(y, d) =>
              /\ LowOctet(SymDiff(c, x)) = LowOctet(SymDiff(d, y))
              /\ Agree(c, d, 8 .. 31)
<1> DEFINE m == LowOctet(SymDiff(c, x))
           n == LowOctet(SymDiff(d, y))
<1>1. m \in SUBSET Octet /\ n \in SUBSET Octet
  BY DEF LowOctet
<1>2. ASSUME NEW w \in SUBSET Bits, NEW k \in Bits
      PROVE  k \in ShiftRight(w, 8) <=> k + 8 \in w
  <2>1. ASSUME k + 8 \in w PROVE k \in ShiftRight(w, 8)
    <3>1. k + 8 >= 8 /\ (k + 8) - 8 = k
      BY DEF Bits
    <3>2. QED BY <2>1, <3>1 DEF ShiftRight
  <2>2. ASSUME k \in ShiftRight(w, 8) PROVE k + 8 \in w
    <3>1. PICK b \in w : b >= 8 /\ k = b - 8
      BY <2>2 DEF ShiftRight
    <3>2. b \in Int /\ b = k + 8
      BY <3>1 DEF Bits
    <3>3. QED BY <3>1, <3>2
  <2>3. QED BY <2>1, <2>2
<1>3. ASSUME NEW w \in SUBSET Bits PROVE ShiftRight(w, 8) \in SUBSET (0 .. 23)
  BY DEF ShiftRight, Bits
<1>4. ASSUME NEW i \in SUBSET Octet PROVE fb_crc_32_tab[i] \in SUBSET Bits
  <2>1. i \in SUBSET Bits
    BY DEF Octet, Bits
  <2>2. \A w \in SUBSET Bits : Step(w) \in SUBSET Bits
    BY StepBits
  <2>3. Step(Step(Step(Step(i)))) \in SUBSET Bits
    BY <2>1, <2>2
  <2>4. QED BY <2>2, <2>3 DEF fb_crc_32_tab
<1> HIDE DEF m, n
<1>5. \A k : /\ k \in UPDC32(x, c) <=> (k \in fb_crc_32_tab[m] <=> k \notin ShiftRight(c, 8))
             /\ k \in UPDC32(y, d) <=> (k \in fb_crc_32_tab[n] <=> k \notin ShiftRight(d, 8))
  BY DEF UPDC32, SymDiff, m, n
<1>6. UPDC32(x, c) \in SUBSET Bits
  <2>1. fb_crc_32_tab[m] \in SUBSET Bits /\ ShiftRight(c, 8) \in SUBSET Bits
    <3>1. ShiftRight(c, 8) \in SUBSET (0 .. 23)
      BY <1>3
    <3>2. QED BY <1>1, <1>4, <3>1 DEF Bits
  <2>2. UPDC32(x, c) \subseteq fb_crc_32_tab[m] \cup ShiftRight(c, 8)
    BY DEF UPDC32, SymDiff, m
  <2>3. QED BY <2>1, <2>2
<1>7. ASSUME Agree(UPDC32(x, c), UPDC32(y, d), 24 .. 31) PROVE m = n
  <2>1. \A k \in 24 .. 31 : k \notin ShiftRight(c, 8) /\ k \notin ShiftRight(d, 8)
    BY <1>3
  <2>2. Agree(fb_crc_32_tab[m], fb_crc_32_tab[n], 24 .. 31)
    BY <1>5, <1>7, <2>1 DEF Agree
  <2>3. QED BY <1>1, <2>2, TableInjective
<1>8. ASSUME UPDC32(x, c) = UPDC32(y, d) PROVE m = n /\ Agree(c, d, 8 .. 31)
  <2>1. m = n
    BY <1>7, <1>8 DEF Agree
  <2>2. \A k : k \in ShiftRight(c, 8) <=> k \in ShiftRight(d, 8)
    BY <1>5, <1>8, <2>1
  <2>3. ASSUME NEW k \in 8 .. 31 PROVE k \in c <=> k \in d
    <3>1. k - 8 \in Bits /\ (k - 8) + 8 = k
      BY DEF Bits
    <3>2. /\ k - 8 \in ShiftRight(c, 8) <=> k \in c
          /\ k - 8 \in ShiftRight(d, 8) <=> k \in d
      BY <1>2, <3>1
    <3>3. QED BY <2>2, <3>2
  <2>4. QED BY <2>1, <2>3 DEF Agree
<1>9. QED BY <1>6, <1>7, <1>8 DEF m, n

\* An octet alike in both tables keeps equal registers equal and different ones different.
LEMMA SameOctetKept ==
  ASSUME NEW c \in SUBSET Bits, NEW d \in SUBSET Bits, NEW x \in SUBSET Octet,
         UPDC32(x, c) = UPDC32(x, d)
  PROVE  c = d
<1>1. LowOctet(SymDiff(c, x)) = LowOctet(SymDiff(d, x)) /\ Agree(c, d, 8 .. 31)
  BY UpdateInjective
<1>2. ASSUME NEW k \in Octet PROVE k \in c <=> k \in d
  <2>1. k \in LowOctet(SymDiff(c, x)) <=> k \in LowOctet(SymDiff(d, x))
    BY <1>1
  <2>2. QED BY <2>1 DEF LowOctet, SymDiff
<1>3. \A k \in Bits : k \in Octet \/ k \in 8 .. 31
  BY DEF Bits, Octet
<1>4. QED BY <1>1, <1>2, <1>3 DEF Agree

\* Two octets that differ between the tables take equal registers to different ones.
LEMMA ChangedOctetsSeen ==
  ASSUME NEW c \in SUBSET Bits,
         NEW x \in SUBSET Octet, NEW y \in SUBSET Octet,
         NEW p \in SUBSET Octet, NEW q \in SUBSET Octet,
         UPDC32(y, UPDC32(x, c)) = UPDC32(SymDiff(y, q), UPDC32(SymDiff(x, p), c))
  PROVE  p = {} /\ q = {}
<1> DEFINE a == UPDC32(x, c)
           b == UPDC32(SymDiff(x, p), c)
<1>1. SymDiff(x, p) \in SUBSET Octet /\ SymDiff(y, q) \in SUBSET Octet
  BY DEF SymDiff
<1>2. a \in SUBSET Bits /\ b \in SUBSET Bits
  BY <1>1, UpdateInjective
<1> HIDE DEF a, b
<1>3. UPDC32(y, a) = UPDC32(SymDiff(y, q), b)
  BY DEF a, b
<1>4. /\ LowOctet(SymDiff(a, y)) = LowOctet(SymDiff(b, SymDiff(y, q)))
      /\ Agree(a, b, 8 .. 31)
  BY <1>1, <1>2, <1>3, UpdateInjective
<1>5. LowOctet(SymDiff(c, x)) = LowOctet(SymDiff(c, SymDiff(x, p)))
  <2>1. Agree(a, b, 24 .. 31)
    BY <1>4 DEF Agree
  <2>2. QED BY <1>1, <2>1, UpdateInjective DEF a, b
<1>6. p = {}
  <2>1. ASSUME NEW k \in p PROVE FALSE
    <3>1. k \in LowOctet(SymDiff(c, x)) <=> k \in LowOctet(SymDiff(c, SymDiff(x, p)))
      BY <1>5
    <3>2. k \in Octet
      OBVIOUS
    <3>3. QED BY <2>1, <3>1, <3>2 DEF LowOctet, SymDiff
  <2>2. QED BY <2>1
<1>7. a = b
  <2>1. SymDiff(x, p) = x
    BY <1>6 DEF SymDiff
  <2>2. QED BY <2>1 DEF a, b
<1>8. q = {}
  <2>1. ASSUME NEW k \in q PROVE FALSE
    <3>1. k \in LowOctet(SymDiff(a, y)) <=> k \in LowOctet(SymDiff(a, SymDiff(y, q)))
      BY <1>4, <1>7
    <3>2. k \in Octet
      OBVIOUS
    <3>3. QED BY <2>1, <3>1, <3>2 DEF LowOctet, SymDiff
  <2>2. QED BY <2>1
<1>9. QED BY <1>6, <1>8

\* The invariant holds before the first octet.
LEMMA Start == CrcInit => Inv
BY CrcAssumption DEF CrcInit, Inv

\* The next octet is alike in both tables.
LEMMA SameOctetStep == Inv /\ SameOctet => Inv'
<1> SUFFICES ASSUME Inv, SameOctet PROVE Inv'
  OBVIOUS
<1>1. PICK octet \in Octets : /\ oldcrc32' = UPDC32(octet, oldcrc32)
                              /\ newcrc32' = UPDC32(octet, newcrc32)
  BY DEF SameOctet
<1>2. octet \in SUBSET Octet /\ oldcrc32 \in SUBSET Bits /\ newcrc32 \in SUBSET Bits
  BY CrcAssumption DEF Inv
<1>3. oldcrc32' \in SUBSET Bits /\ newcrc32' \in SUBSET Bits
  BY <1>1, <1>2, UpdateInjective
<1>4. oldcrc32' = newcrc32' <=> oldcrc32 = newcrc32
  BY <1>1, <1>2, SameOctetKept
<1>5. UNCHANGED <<change, changed>>
  BY DEF SameOctet
<1>6. QED BY <1>3, <1>4, <1>5 DEF Inv

\* The next two octets hold the change.
LEMMA ChangedOctetsStep == Inv /\ ChangedOctets => Inv'
<1> SUFFICES ASSUME Inv, ChangedOctets PROVE Inv'
  OBVIOUS
<1>1. /\ oldcrc32 \in SUBSET Bits /\ newcrc32 = oldcrc32
      /\ \E c \in Changes : change = <<c[1], c[2]>>
  BY DEF Inv, ChangedOctets
<1>2. PICK c \in Changes : change = <<c[1], c[2]>>
  BY <1>1
<1>3. c[1] \in SUBSET Octet /\ c[2] \in SUBSET Octet /\ ~(c[1] = {} /\ c[2] = {})
  <2>1. c \in (SUBSET Octet) \X (SUBSET Octet) /\ c # <<{}, {}>>
    BY CrcAssumption
  <2>2. c = <<c[1], c[2]>>
    BY <2>1
  <2>3. QED BY <2>1, <2>2
<1>4. PICK first, second \in Octets :
        /\ oldcrc32' = UPDC32(second, UPDC32(first, oldcrc32))
        /\ newcrc32' = UPDC32(SymDiff(second, change[2]),
                              UPDC32(SymDiff(first, change[1]), newcrc32))
  BY DEF ChangedOctets
<1>5. first \in SUBSET Octet /\ second \in SUBSET Octet
  BY CrcAssumption
<1>6. change[1] = c[1] /\ change[2] = c[2]
  BY <1>2
<1>7. SymDiff(first, c[1]) \in SUBSET Octet /\ SymDiff(second, c[2]) \in SUBSET Octet
  BY <1>3, <1>5 DEF SymDiff
<1>8. UPDC32(first, oldcrc32) \in SUBSET Bits /\ UPDC32(SymDiff(first, c[1]), newcrc32) \in SUBSET Bits
  BY <1>1, <1>5, <1>7, UpdateInjective
<1>9. oldcrc32' \in SUBSET Bits /\ newcrc32' \in SUBSET Bits
  BY <1>4, <1>5, <1>6, <1>7, <1>8, UpdateInjective
<1>10. oldcrc32' # newcrc32'
  BY <1>1, <1>3, <1>4, <1>5, <1>6, ChangedOctetsSeen
<1>11. changed' = TRUE /\ change' = <<>>
  BY DEF ChangedOctets
<1>12. QED BY <1>9, <1>10, <1>11 DEF Inv

\* Every state of the two computations satisfies Inv.
THEOREM Invariance == CrcSpec => []Inv
<1>1. CrcInit => Inv
  BY Start
<1>2. Inv /\ [CrcNext]_crcvars => Inv'
  <2>1. Inv /\ UNCHANGED crcvars => Inv'
    BY DEF Inv, crcvars
  <2>2. QED BY <2>1, SameOctetStep, ChangedOctetsStep DEF CrcNext, CrcDone
<1>3. QED BY <1>1, <1>2, PTL DEF CrcSpec

(***************************************************************************)
(* A change of one component of one colour changes the hash, wherever in   *)
(* the table it is and whatever else the table holds (fb_crc32buf): the    *)
(* test of the hash in fb_update_clut never misses one.                    *)
(***************************************************************************)
THEOREM AlwaysSeen == CrcSpec => []ChangeSeen
<1>1. Inv => ChangeSeen
  <2>1. SUFFICES ASSUME Inv, changed PROVE Hash(oldcrc32) # Hash(newcrc32)
    BY DEF ChangeSeen
  <2>2. oldcrc32 \in SUBSET Bits /\ newcrc32 \in SUBSET Bits /\ oldcrc32 # newcrc32
    BY <2>1 DEF Inv
  <2>3. PICK k \in Bits : ~(k \in oldcrc32 <=> k \in newcrc32)
    BY <2>2
  <2>4. ~(k \in Hash(oldcrc32) <=> k \in Hash(newcrc32))
    BY <2>3 DEF Hash
  <2>5. QED BY <2>4
<1>2. QED BY <1>1, Invariance, PTL

====

------------------------- MODULE VideoMemoryProofs -------------------------
(***************************************************************************)
(* The way of a pixel from the card to frame_to_send (fb_phys, fb_update   *)
(* and the four fb_copy_n_row), for every card and screen, whatever is     *)
(* drawn, and however often the Mac changes its mode between two updates.  *)
(***************************************************************************)
EXTENDS VideoMemory, WellFoundedInduction, TLAPS

\* A set of numbers that is not empty has a least one, ...
LEMMA Least ==
  ASSUME NEW S, S \subseteq Nat, S # {}
  PROVE  Min(S) \in S /\ \A x \in S : Min(S) <= x
<1> DEFINE R == {p \in Nat \X Nat : p[1] < p[2]}
<1>1. IsWellFoundedOn(R, Nat)
  BY NatLessThanWellFounded DEF OpToRel
<1>2. \A x, y \in Nat : x < y => <<x, y>> \in R
  OBVIOUS
<1> HIDE DEF R
<1>3. PICK x \in S : \A y \in S : <<y, x>> \notin R
  BY <1>1, WFMin
<1>4. \A y \in S : ~(y < x)
  BY <1>2, <1>3
<1>5. \A y \in S : x <= y
  BY <1>4, SMT
<1> QED
  BY <1>5 DEF Min

\* ... and a greatest one when there is a bound.
LEMMA Greatest ==
  ASSUME NEW S, S \subseteq Nat, NEW h \in Nat, \A x \in S : x <= h, S # {}
  PROVE  Max(S) \in S /\ \A x \in S : x <= Max(S)
<1> DEFINE T == {n \in 0 .. h : h - n \in S}
<1>1. T \subseteq Nat
  OBVIOUS
<1>2. T # {}
  <2>1. PICK x \in S : TRUE
    OBVIOUS
  <2>2. h - x \in 0 .. h /\ h - (h - x) = x
    BY <2>1
  <2> QED BY <2>1, <2>2
<1>3. Min(T) \in T /\ \A n \in T : Min(T) <= n
  BY <1>1, <1>2, Least
<1> DEFINE m == h - Min(T)
<1>4. Min(T) \in Nat /\ m \in S
  BY <1>3
<1> HIDE DEF T
<1>5. ASSUME NEW x \in S PROVE m >= x
  <2>1. x \in Nat /\ x <= h
    BY <1>5
  <2>2. h - x \in 0 .. h /\ h - (h - x) = x
    BY <2>1
  <2>3. h - x \in T
    BY <1>5, <2>2 DEF T
  <2>4. Min(T) <= h - x
    BY <1>3, <2>3
  <2> QED BY <1>4, <2>1, <2>4
<1> HIDE DEF m
<1>6. \E y \in S : \A x \in S : y >= x
  BY <1>4, <1>5
<1>7. Max(S) \in S /\ \A x \in S : Max(S) >= x
  BY <1>6 DEF Max
<1> QED
  BY <1>7

-----------------------------------------------------------------------------
\* Byte k of an entry of lut1bit, as the 68k stores it, is bit 3 - k of the index.
LEMMA LutOne ==
  ASSUME NEW n \in 0 .. 15, NEW k \in 0 .. 3
  PROVE  /\ Stored(4, lut1bit[n])[k] = (n \div 2^(3 - k)) % 2
         /\ Stored(4, lut1bit[n])[k] \in 0 .. 255
<1> DEFINE number == (n % 2) + 256 * ((n \div 2) % 2) + 65536 * ((n \div 4) % 2)
                       + 16777216 * ((n \div 8) % 2)
<1>1. lut1bit[n] = number
  <2>1. 2^(1 * 0) = 1 /\ 2^(1 * 1) = 2 /\ 2^(1 * 2) = 4 /\ 2^(1 * 3) = 8 /\ 2^1 = 2
    OBVIOUS
  <2> QED BY <2>1, SMT DEF lut1bit, Entry, Number
<1>2. 256^(4 - 1 - 0) = 16777216 /\ 256^(4 - 1 - 1) = 65536 /\ 256^(4 - 1 - 2) = 256
        /\ 256^(4 - 1 - 3) = 1
  OBVIOUS
<1>3. 2^(3 - 0) = 8 /\ 2^(3 - 1) = 4 /\ 2^(3 - 2) = 2 /\ 2^(3 - 3) = 1
  OBVIOUS
<1>4. Stored(4, lut1bit[n])[k] = (number \div 256^(4 - 1 - k)) % 256
  BY <1>1 DEF Stored
<1>5. CASE k = 0
  BY <1>2, <1>3, <1>4, <1>5
<1>6. CASE k = 1
  BY <1>2, <1>3, <1>4, <1>6
<1>7. CASE k = 2
  BY <1>2, <1>3, <1>4, <1>7
<1>8. CASE k = 3
  BY <1>2, <1>3, <1>4, <1>8
<1> QED
  BY <1>5, <1>6, <1>7, <1>8

\* The first store of a turn of fb_copy_1_row is the high half of a byte, high bit
\* first, ...
LEMMA HighBits ==
  ASSUME NEW b \in 0 .. 255, NEW k \in 0 .. 3
  PROVE  /\ Stored(4, lut1bit[b \div 16])[k] = (b \div 2^(8 - 1 - k)) % 2^1
         /\ Stored(4, lut1bit[b \div 16])[k] \in 0 .. 255
<1>1. b \div 16 \in 0 .. 15
  OBVIOUS
<1>2. /\ Stored(4, lut1bit[b \div 16])[k] = ((b \div 16) \div 2^(3 - k)) % 2
      /\ Stored(4, lut1bit[b \div 16])[k] \in 0 .. 255
  BY <1>1, LutOne
<1>3. CASE k = 0
  <2>1. 2^(3 - 0) = 8 /\ 2^(8 - 1 - 0) = 128 /\ 2^1 = 2
    OBVIOUS
  <2>2. (b \div 16) \div 8 = b \div 128
    OBVIOUS
  <2> QED BY <1>2, <1>3, <2>1, <2>2
<1>4. CASE k = 1
  <2>1. 2^(3 - 1) = 4 /\ 2^(8 - 1 - 1) = 64 /\ 2^1 = 2
    OBVIOUS
  <2>2. (b \div 16) \div 4 = b \div 64
    OBVIOUS
  <2> QED BY <1>2, <1>4, <2>1, <2>2
<1>5. CASE k = 2
  <2>1. 2^(3 - 2) = 2 /\ 2^(8 - 1 - 2) = 32 /\ 2^1 = 2
    OBVIOUS
  <2>2. (b \div 16) \div 2 = b \div 32
    OBVIOUS
  <2> QED BY <1>2, <1>5, <2>1, <2>2
<1>6. CASE k = 3
  <2>1. 2^(3 - 3) = 1 /\ 2^(8 - 1 - 3) = 16 /\ 2^1 = 2
    OBVIOUS
  <2>2. (b \div 16) \div 1 = b \div 16
    OBVIOUS
  <2> QED BY <1>2, <1>6, <2>1, <2>2
<1> QED
  BY <1>3, <1>4, <1>5, <1>6

\* ... and the second one the low half.
LEMMA LowBits ==
  ASSUME NEW b \in 0 .. 255, NEW k \in 4 .. 7
  PROVE  /\ Stored(4, lut1bit[b % 16])[k - 4] = (b \div 2^(8 - 1 - k)) % 2^1
         /\ Stored(4, lut1bit[b % 16])[k - 4] \in 0 .. 255
<1>1. b % 16 \in 0 .. 15 /\ k - 4 \in 0 .. 3
  OBVIOUS
<1>2. /\ Stored(4, lut1bit[b % 16])[k - 4] = ((b % 16) \div 2^(3 - (k - 4))) % 2
      /\ Stored(4, lut1bit[b % 16])[k - 4] \in 0 .. 255
  BY <1>1, LutOne
<1>3. CASE k = 4
  <2>1. 2^(3 - (4 - 4)) = 8 /\ 2^(8 - 1 - 4) = 8 /\ 2^1 = 2
    OBVIOUS
  <2>2. ((b % 16) \div 8) % 2 = (b \div 8) % 2
    OBVIOUS
  <2> QED BY <1>2, <1>3, <2>1, <2>2
<1>4. CASE k = 5
  <2>1. 2^(3 - (5 - 4)) = 4 /\ 2^(8 - 1 - 5) = 4 /\ 2^1 = 2
    OBVIOUS
  <2>2. ((b % 16) \div 4) % 2 = (b \div 4) % 2
    OBVIOUS
  <2> QED BY <1>2, <1>4, <2>1, <2>2
<1>5. CASE k = 6
  <2>1. 2^(3 - (6 - 4)) = 2 /\ 2^(8 - 1 - 6) = 2 /\ 2^1 = 2
    OBVIOUS
  <2>2. ((b % 16) \div 2) % 2 = (b \div 2) % 2
    OBVIOUS
  <2> QED BY <1>2, <1>5, <2>1, <2>2
<1>6. CASE k = 7
  <2>1. 2^(3 - (7 - 4)) = 1 /\ 2^(8 - 1 - 7) = 1 /\ 2^1 = 2
    OBVIOUS
  <2>2. ((b % 16) \div 1) % 2 = (b \div 1) % 2
    OBVIOUS
  <2> QED BY <1>2, <1>6, <2>1, <2>2
<1> QED
  BY <1>3, <1>4, <1>5, <1>6

\* The bytes of an entry of lut2bit are the pairs of bits of its index, the high one
\* first.
LEMMA LutTwo ==
  ASSUME NEW n \in 0 .. 255, NEW k \in 0 .. 3
  PROVE  /\ Stored(4, lut2bit[n])[k] = (n \div 2^(8 - 2 - 2 * k)) % 2^2
         /\ Stored(4, lut2bit[n])[k] \in 0 .. 255
<1> DEFINE number == (n % 4) + 256 * ((n \div 4) % 4) + 65536 * ((n \div 16) % 4)
                       + 16777216 * ((n \div 64) % 4)
<1>1. lut2bit[n] = number
  <2>1. 2^(2 * 0) = 1 /\ 2^(2 * 1) = 4 /\ 2^(2 * 2) = 16 /\ 2^(2 * 3) = 64 /\ 2^2 = 4
    OBVIOUS
  <2> QED BY <2>1, SMT DEF lut2bit, Entry, Number
<1>2. 256^(4 - 1 - 0) = 16777216 /\ 256^(4 - 1 - 1) = 65536 /\ 256^(4 - 1 - 2) = 256
        /\ 256^(4 - 1 - 3) = 1
  OBVIOUS
<1>3. 2^(8 - 2 - 2 * 0) = 64 /\ 2^(8 - 2 - 2 * 1) = 16 /\ 2^(8 - 2 - 2 * 2) = 4
        /\ 2^(8 - 2 - 2 * 3) = 1 /\ 2^2 = 4
  OBVIOUS
<1>4. Stored(4, lut2bit[n])[k] = (number \div 256^(4 - 1 - k)) % 256
  BY <1>1 DEF Stored
<1>5. CASE k = 0
  BY <1>2, <1>3, <1>4, <1>5
<1>6. CASE k = 1
  BY <1>2, <1>3, <1>4, <1>6
<1>7. CASE k = 2
  BY <1>2, <1>3, <1>4, <1>7
<1>8. CASE k = 3
  BY <1>2, <1>3, <1>4, <1>8
<1> QED
  BY <1>5, <1>6, <1>7, <1>8

\* The bytes of an entry of lut4bit are the halves of its index, the high one first.
LEMMA LutFour ==
  ASSUME NEW n \in 0 .. 255, NEW k \in 0 .. 1
  PROVE  /\ Stored(2, lut4bit[n])[k] = (n \div 2^(8 - 4 - 4 * k)) % 2^4
         /\ Stored(2, lut4bit[n])[k] \in 0 .. 255
<1> DEFINE number == (n % 16) + 256 * ((n \div 16) % 16)
<1>1. lut4bit[n] = number
  <2>1. 2^(4 * 0) = 1 /\ 2^(4 * 1) = 16 /\ 2^4 = 16
    OBVIOUS
  <2> QED BY <2>1, SMT DEF lut4bit, Entry, Number
<1>2. 256^(2 - 1 - 0) = 256 /\ 256^(2 - 1 - 1) = 1
  OBVIOUS
<1>3. 2^(8 - 4 - 4 * 0) = 16 /\ 2^(8 - 4 - 4 * 1) = 1 /\ 2^4 = 16
  OBVIOUS
<1>4. Stored(2, lut4bit[n])[k] = (number \div 256^(2 - 1 - k)) % 256
  BY <1>1 DEF Stored
<1>5. CASE k = 0
  BY <1>2, <1>3, <1>4, <1>5
<1>6. CASE k = 1
  BY <1>2, <1>3, <1>4, <1>6
<1> QED
  BY <1>5, <1>6

-----------------------------------------------------------------------------
\* What the driver has listed is what the card has.
Modes ==
  \A m \in DOMAIN fb_vp : fb_vp[m] = NoBlock \/ (m \in DOMAIN card /\ fb_vp[m] = card[m])

\* The daemon has the memory of a listed mode with at least eight bits.
Mapping ==
  pc \in {"idle", "copy"} =>
    \E d \in DOMAIN fb_vp :
      fb_vp[d].vpPixelSize >= 8 /\ mapped = fb_vp[d].vpRowBytes * video_scr_y

\* An update copies from a listed mode, one with a lookup table or eight bits; between
\* two of them row, i and the span are as they were at first.
Copying ==
  IF pc = "copy"
    THEN Depth \in {1, 2, 4, 8} /\ (\E m \in DOMAIN fb_vp : vp = fb_vp[m]) /\ i <= wi
    ELSE row = 0 /\ i = 0 /\ xstart = Unset /\ xend = Unset

\* How far the copy has come: the columns of its row before this turn are QuickDraw's,
\* the others and the rows below as they were before the update.
Copied ==
  pc = "copy" =>
    \A y \in Rows, x \in Columns :
      /\ y = row /\ x < i * PerTurn => frame_to_send[y][x] = QuickDrawPixel(y, x)
      /\ y = row /\ x >= i * PerTurn => frame_to_send[y][x] = before[y][x]
      /\ y > row => frame_to_send[y][x] = before[y][x]

\* The columns of the row that are not as they were before the update.
Differ == {x \in Columns : frame_to_send[row][x] # before[row][x]}

\* The span of the row so far encloses what differs, and begins and ends in a store
\* with a difference.
Dirty ==
  pc = "copy" =>
    IF xstart = Unset
      THEN Differ = {}
      ELSE /\ \A x \in Differ : xstart <= x /\ x <= xend
           /\ \E x \in Differ : x < xstart + PerStore
           /\ \E x \in Differ : xend - PerStore < x

\* The inductive invariant.
Inv == TypeOK /\ Modes /\ Mapping /\ Copying /\ Copied /\ Dirty

-----------------------------------------------------------------------------
USE VideoAssumption

\* What a turn is at each depth, and that the turns fit into the row.
LEMMA Turns ==
  ASSUME TypeOK, Depth \in {1, 2, 4, 8}
  PROVE  /\ Depth = 8 => PerTurn = 4 /\ PerStore = 4 /\ SrcBytes = 4 /\ DOMAIN Stores = {1}
         /\ Depth = 1 => PerTurn = 8 /\ PerStore = 4 /\ SrcBytes = 1 /\ DOMAIN Stores = {1, 2}
         /\ Depth = 2 => PerTurn = 4 /\ PerStore = 4 /\ SrcBytes = 1 /\ DOMAIN Stores = {1}
         /\ Depth = 4 => PerTurn = 2 /\ PerStore = 2 /\ SrcBytes = 1 /\ DOMAIN Stores = {1}
         /\ wi \in Nat /\ wi * PerTurn <= video_scr_x
<1>1. CASE Depth = 8
  BY <1>1 DEF PerTurn, PerStore, SrcBytes, Stores, wi
<1>2. CASE Depth = 1
  BY <1>2 DEF PerTurn, PerStore, SrcBytes, Stores, wi
<1>3. CASE Depth = 2
  BY <1>3 DEF PerTurn, PerStore, SrcBytes, Stores, wi
<1>4. CASE Depth = 4
  BY <1>4 DEF PerTurn, PerStore, SrcBytes, Stores, wi
<1> QED
  BY <1>1, <1>2, <1>3, <1>4

\* A row in the current mode.
LEMMA CurrentMode ==
  ASSUME TypeOK, Modes, Mapping, Copying, pc = "copy"
  PROVE  /\ \E m \in DOMAIN card : vp = card[m]
         /\ vp.vpRowBytes \in Nat
         /\ vp.vpRowBytes * 8 >= video_scr_x * Depth
         /\ mapped >= vp.vpRowBytes * video_scr_y
<1>1. Depth \in {1, 2, 4, 8} /\ \E m \in DOMAIN fb_vp : vp = fb_vp[m]
  BY DEF Copying
<1>2. PICK m \in DOMAIN fb_vp : vp = fb_vp[m]
  BY <1>1
<1>3. vp # NoBlock
  BY <1>1 DEF NoBlock, Depth
<1>4. m \in DOMAIN card /\ vp = card[m]
  BY <1>2, <1>3 DEF Modes
<1>5. PICK d \in DOMAIN fb_vp :
        fb_vp[d].vpPixelSize >= 8 /\ mapped = fb_vp[d].vpRowBytes * video_scr_y
  BY DEF Mapping
<1>6. fb_vp[d] # NoBlock
  BY <1>5 DEF NoBlock
<1>7. d \in DOMAIN card /\ fb_vp[d] = card[d]
  BY <1>6 DEF Modes
<1>8. card \in Cards /\ card[m] \in VPBlocks /\ card[d] \in VPBlocks
  BY <1>4, <1>7, CardAssumption DEF TypeOK
<1>9. card[m].vpPixelSize <= card[d].vpPixelSize
  BY <1>1, <1>4, <1>5, <1>7, <1>8 DEF VPBlocks, Depth
<1>10. card[m].vpRowBytes <= card[d].vpRowBytes
  BY <1>4, <1>7, <1>8, <1>9, CardAssumption
<1>11. card[m].vpRowBytes * 8 >= video_scr_x * card[m].vpPixelSize
  BY <1>4, <1>8, CardAssumption
<1>12. card[m].vpRowBytes \in Nat /\ card[d].vpRowBytes \in Nat
  BY <1>8 DEF VPBlocks
<1>13. card[m].vpRowBytes * video_scr_y <= card[d].vpRowBytes * video_scr_y
  BY <1>10, <1>12
<1> QED
  BY <1>4, <1>5, <1>7, <1>11, <1>12, <1>13 DEF Depth

\* What the turns read is in the row they copy.
LEMMA RowRead ==
  ASSUME TypeOK, Modes, Mapping, Copying, pc = "copy",
         NEW k \in Nat, k < wi
  PROVE  /\ (k + 1) * SrcBytes <= vp.vpRowBytes
         /\ row * vp.vpRowBytes + vp.vpRowBytes <= vp.vpRowBytes * video_scr_y
<1> DEFINE rb == vp.vpRowBytes
<1>1. rb \in Nat /\ rb * 8 >= video_scr_x * Depth
  BY CurrentMode
<1>2. Depth \in {1, 2, 4, 8}
  BY DEF Copying
<1>3. row \in Nat /\ row + 1 <= video_scr_y
  BY DEF TypeOK, Rows
<1>4. (row + 1) * rb <= video_scr_y * rb
  BY <1>1, <1>3
<1>5. row * rb + rb <= rb * video_scr_y
  BY <1>1, <1>3, <1>4
<1>6. (k + 1) * SrcBytes <= rb
  <2>1. CASE Depth = 8
    BY <1>1, <2>1, Turns
  <2>2. CASE Depth = 1
    BY <1>1, <2>2, Turns
  <2>3. CASE Depth = 2
    BY <1>1, <2>3, Turns
  <2>4. CASE Depth = 4
    BY <1>1, <2>4, Turns
  <2> QED BY <1>2, <2>1, <2>2, <2>3, <2>4
<1> QED
  BY <1>5, <1>6

\* The bytes read are bytes.
LEMMA Bytes ==
  ASSUME TypeOK, Modes, Mapping, Copying, pc = "copy",
         NEW a \in Nat, a < wi * SrcBytes
  PROVE  src(a) \in 0 .. 255
<1> DEFINE rb == vp.vpRowBytes
<1>1. rb \in Nat /\ row \in Nat /\ SrcBytes \in {1, 4} /\ wi \in Nat
  <2>1. Depth \in {1, 2, 4, 8} /\ row \in Nat
    BY DEF TypeOK, Rows, Copying
  <2>2. SrcBytes \in {1, 4} /\ wi \in Nat
    BY <2>1, Turns
  <2> QED BY <2>1, <2>2, CurrentMode
<1>2. wi >= 1
  BY <1>1
<1>3. wi - 1 \in Nat /\ wi - 1 < wi
  BY <1>1, <1>2
<1>4. wi * SrcBytes <= rb
  BY <1>1, <1>3, RowRead, (wi - 1) + 1 = wi
<1>5. row * rb + rb <= rb * video_scr_y
  BY <1>3, RowRead
<1>6. row * rb \in Nat
  BY <1>1
<1>7. SrcAt(a) \in 0 .. rb * video_scr_y - 1
  BY <1>1, <1>4, <1>5, <1>6 DEF SrcAt
<1>8. PICK m \in DOMAIN card : vp = card[m]
  BY CurrentMode
<1>9. card \in Cards /\ pattern \in Patterns
  BY DEF TypeOK
<1> QED
  BY <1>7, <1>8, <1>9, ByteAssumption DEF src

\* The columns that this turn stores.
TurnColumns == {x \in Columns : i * PerTurn <= x /\ x < (i + 1) * PerTurn}

\* What a turn stores is what QuickDraw has there.
LEMMA Expanded ==
  ASSUME TypeOK, Modes, Mapping, Copying, pc = "copy", i < wi, NEW x \in TurnColumns
  PROVE  /\ StoreOf(x) \in DOMAIN Stores
         /\ x - Column(StoreOf(x)) \in 0 .. PerStore - 1
         /\ Stores[StoreOf(x)][x - Column(StoreOf(x))] = QuickDrawPixel(row, x)
         /\ QuickDrawPixel(row, x) \in 0 .. 255
<1> DEFINE k == x - i * PerTurn
<1>1. Depth \in {1, 2, 4, 8} /\ row \in Nat /\ i \in Nat /\ x \in Nat
  BY DEF TypeOK, Rows, Copying, TurnColumns, Columns
<1>2. CASE Depth = 8
  <2>1. PerTurn = 4 /\ PerStore = 4 /\ SrcBytes = 4 /\ wi \in Nat /\ DOMAIN Stores = {1}
    BY <1>2, Turns
  <2>2. x < wi * SrcBytes
    BY <1>1, <2>1 DEF TurnColumns
  <2>3. src(x) \in 0 .. 255
    BY <1>1, <2>2, Bytes
  <2>4. k \in 0 .. 3 /\ x = i * 4 + k
    BY <1>1, <2>1 DEF TurnColumns
  <2>5. StoreOf(x) = 1 /\ Column(1) = i * 4
    BY <1>1, <2>1, <2>4 DEF StoreOf, Column
  <2>6. Stores[1][k] = src(x)
    BY <1>2, <2>4 DEF Stores
  <2>7. (x * Depth) \div 8 = x /\ 8 - Depth - ((x * Depth) % 8) = 0
    BY <1>1, <1>2
  <2>8. 2^(8 - Depth - ((x * Depth) % 8)) = 1 /\ 2^Depth = 256
    <3>1. 2^0 = 1 /\ 2^8 = 256
      OBVIOUS
    <3> QED BY <1>2, <2>7, <3>1
  <2>9. QuickDrawPixel(row, x) = (src(x) \div 1) % 256
    BY <2>7, <2>8 DEF QuickDrawPixel, src, SrcAt
  <2> QED
    BY <1>2, <2>1, <2>3, <2>4, <2>5, <2>6, <2>9, Turns
<1>3. CASE Depth = 1
  <2>1. PerTurn = 8 /\ PerStore = 4 /\ SrcBytes = 1 /\ wi \in Nat /\ DOMAIN Stores = {1, 2}
    BY <1>3, Turns
  <2>2. i < wi * SrcBytes
    BY <1>1, <2>1
  <2>3. src(i) \in 0 .. 255
    BY <1>1, <2>2, Bytes
  <2>4. k \in 0 .. 7 /\ x = i * 8 + k
    BY <1>1, <2>1 DEF TurnColumns
  <2>5. (x * 1) \div 8 = i /\ (x * 1) % 8 = k
    BY <1>1, <2>4
  <2>6. QuickDrawPixel(row, x) = (src(i) \div 2^(8 - 1 - k)) % 2^1
    BY <1>3, <2>5 DEF QuickDrawPixel, src, SrcAt
  <2>7. CASE k < 4
    <3>1. StoreOf(x) = 1 /\ Column(1) = i * 8
      BY <1>1, <2>1, <2>4, <2>7 DEF StoreOf, Column
    <3>2. Stores[1] = Stored(4, lut1bit[src(i) \div 16])
      BY <1>3 DEF Stores
    <3>3. k \in 0 .. 3
      BY <2>4, <2>7
    <3>4. /\ Stores[1][k] = QuickDrawPixel(row, x)
          /\ Stores[1][k] \in 0 .. 255
      <4> HIDE DEF k
      <4> QED BY <2>3, <2>6, <3>2, <3>3, HighBits, Zenon
    <3>5. StoreOf(x) \in DOMAIN Stores /\ x - Column(StoreOf(x)) = k
      BY <1>1, <2>1, <2>4, <3>1
    <3> QED
      BY <2>1, <3>3, <3>1, <3>5, <3>4
  <2>8. CASE k >= 4
    <3>1. StoreOf(x) = 2 /\ Column(2) = i * 8 + 4
      BY <1>1, <2>1, <2>4, <2>8 DEF StoreOf, Column
    <3>2. Stores[2] = Stored(4, lut1bit[src(i) % 16])
      BY <1>3 DEF Stores
    <3>3. k \in 4 .. 7
      BY <2>4, <2>8
    <3>4. /\ Stores[2][k - 4] = QuickDrawPixel(row, x)
          /\ Stores[2][k - 4] \in 0 .. 255
      <4> HIDE DEF k
      <4> QED BY <2>3, <2>6, <3>2, <3>3, LowBits, Zenon
    <3>5. StoreOf(x) \in DOMAIN Stores /\ x - Column(StoreOf(x)) = k - 4
      BY <1>1, <2>1, <2>4, <3>1
    <3> QED
      BY <2>1, <3>3, <3>1, <3>5, <3>4
  <2> QED BY <2>4, <2>7, <2>8
<1>4. CASE Depth = 2
  <2>1. PerTurn = 4 /\ PerStore = 4 /\ SrcBytes = 1 /\ wi \in Nat /\ DOMAIN Stores = {1}
    BY <1>4, Turns
  <2>2. i < wi * SrcBytes
    BY <1>1, <2>1
  <2>3. src(i) \in 0 .. 255
    BY <1>1, <2>2, Bytes
  <2>4. k \in 0 .. 3 /\ x = i * 4 + k
    BY <1>1, <2>1 DEF TurnColumns
  <2>5. (x * 2) \div 8 = i /\ (x * 2) % 8 = 2 * k
    BY <1>1, <2>4
  <2>6. QuickDrawPixel(row, x) = (src(i) \div 2^(8 - 2 - 2 * k)) % 2^2
    BY <1>4, <2>5 DEF QuickDrawPixel, src, SrcAt
  <2>7. StoreOf(x) = 1 /\ Column(1) = i * 4
    BY <1>1, <2>1, <2>4 DEF StoreOf, Column
  <2>8. Stores[1] = Stored(4, lut2bit[src(i)])
    BY <1>4 DEF Stores
  <2>9. /\ Stores[1][k] = QuickDrawPixel(row, x)
        /\ Stores[1][k] \in 0 .. 255
    <3> HIDE DEF k
    <3> QED BY <2>3, <2>4, <2>6, <2>8, LutTwo, Zenon
  <2> QED
    BY <1>1, <2>1, <2>4, <2>7, <2>9
<1>5. CASE Depth = 4
  <2>1. PerTurn = 2 /\ PerStore = 2 /\ SrcBytes = 1 /\ wi \in Nat /\ DOMAIN Stores = {1}
    BY <1>5, Turns
  <2>2. i < wi * SrcBytes
    BY <1>1, <2>1
  <2>3. src(i) \in 0 .. 255
    BY <1>1, <2>2, Bytes
  <2>4. k \in 0 .. 1 /\ x = i * 2 + k
    BY <1>1, <2>1 DEF TurnColumns
  <2>5. (x * 4) \div 8 = i /\ (x * 4) % 8 = 4 * k
    BY <1>1, <2>4
  <2>6. QuickDrawPixel(row, x) = (src(i) \div 2^(8 - 4 - 4 * k)) % 2^4
    BY <1>5, <2>5 DEF QuickDrawPixel, src, SrcAt
  <2>7. StoreOf(x) = 1 /\ Column(1) = i * 2
    BY <1>1, <2>1, <2>4 DEF StoreOf, Column
  <2>8. Stores[1] = Stored(2, lut4bit[src(i)])
    BY <1>5 DEF Stores
  <2>9. /\ Stores[1][k] = QuickDrawPixel(row, x)
        /\ Stores[1][k] \in 0 .. 255
    <3> HIDE DEF k
    <3> QED BY <2>3, <2>4, <2>6, <2>8, LutFour, Zenon
  <2> QED
    BY <1>1, <2>1, <2>4, <2>7, <2>9
<1> QED
  BY <1>1, <1>2, <1>3, <1>4, <1>5

\* The powers of two that the bits of a byte are divided by.
LEMMA Powers ==
  ASSUME NEW e \in 0 .. 7
  PROVE  2^e \in Nat \ {0}
<1>1. CASE e \in {0, 1, 2, 3}
  <2>1. 2^0 = 1 /\ 2^1 = 2 /\ 2^2 = 4 /\ 2^3 = 8
    OBVIOUS
  <2>2. e = 0 \/ e = 1 \/ e = 2 \/ e = 3
    BY <1>1
  <2>3. 2^e = 1 \/ 2^e = 2 \/ 2^e = 4 \/ 2^e = 8
    BY <2>1, <2>2, Zenon
  <2> QED BY <2>3
<1>2. CASE e \in {4, 5, 6, 7}
  <2>1. 2^4 = 16 /\ 2^5 = 32 /\ 2^6 = 64 /\ 2^7 = 128
    OBVIOUS
  <2>2. CASE e = 4
    BY <2>1, <2>2
  <2>3. CASE e = 5
    BY <2>1, <2>3
  <2>4. CASE e = 6
    BY <2>1, <2>4
  <2>5. CASE e = 7
    BY <2>1, <2>5
  <2> QED BY <1>2, <2>2, <2>3, <2>4, <2>5
<1> QED BY <1>1, <1>2

\* A pixel of so many bits is below the power of two.
LEMMA Fits ==
  ASSUME TypeOK, Modes, Mapping, Copying, pc = "copy", i < wi, NEW x \in TurnColumns
  PROVE  QuickDrawPixel(row, x) < 2^Depth
<1>1. Depth \in {1, 2, 4, 8} /\ i \in Nat /\ x \in Nat
  BY DEF TypeOK, Copying, TurnColumns, Columns
<1>2. 2^1 = 2 /\ 2^2 = 4 /\ 2^4 = 16 /\ 2^8 = 256
  OBVIOUS
<1>3. CASE Depth = 8
  <2>1. QuickDrawPixel(row, x) \in 0 .. 255
    BY Expanded
  <2> QED BY <1>2, <1>3, <2>1
<1>4. CASE Depth \in {1, 2, 4}
  <2>1. PerTurn * Depth = 8 /\ SrcBytes = 1 /\ wi \in Nat
    BY <1>4, Turns
  <2>2. src(i) \in 0 .. 255
    BY <1>1, <2>1, Bytes
  <2>3. (x * Depth) \div 8 = i
    <3>1. CASE Depth = 1
      BY <1>1, <3>1, Turns DEF TurnColumns
    <3>2. CASE Depth = 2
      BY <1>1, <3>2, Turns DEF TurnColumns
    <3>3. CASE Depth = 4
      BY <1>1, <3>3, Turns DEF TurnColumns
    <3> QED BY <1>4, <3>1, <3>2, <3>3
  <2>4. 8 - Depth - ((x * Depth) % 8) \in 0 .. 7
    <3>1. CASE Depth = 1
      BY <1>1, <3>1
    <3>2. CASE Depth = 2
      BY <1>1, <3>2
    <3>3. CASE Depth = 4
      BY <1>1, <3>3
    <3> QED BY <1>4, <3>1, <3>2, <3>3
  <2>5. PICK p \in Nat \ {0} : p = 2^(8 - Depth - ((x * Depth) % 8))
    BY <2>4, Powers
  <2>6. QuickDrawPixel(row, x) = (src(i) \div p) % 2^Depth
    BY <2>3, <2>5 DEF QuickDrawPixel, src, SrcAt
  <2>7. PICK q \in Int : q = src(i) \div p
    BY <2>2, <2>5
  <2>8. PICK d \in {2, 4, 16} : d = 2^Depth
    <3>1. CASE Depth = 1
      BY <1>2, <3>1
    <3>2. CASE Depth = 2
      BY <1>2, <3>2
    <3>3. CASE Depth = 4
      BY <1>2, <3>3
    <3> QED BY <1>4, <3>1, <3>2, <3>3
  <2>9. q % d < d
    BY <2>7, <2>8
  <2> QED BY <2>6, <2>7, <2>8, <2>9
<1> QED
  BY <1>1, <1>3, <1>4

-----------------------------------------------------------------------------
\* No other column belongs to a store of the turn.
LEMMA Elsewhere ==
  ASSUME TypeOK, Depth \in {1, 2, 4, 8}, NEW x \in Columns, x \notin TurnColumns
  PROVE  StoreOf(x) \notin DOMAIN Stores
<1>1. i \in Nat /\ x \in Nat
  BY DEF TypeOK, Columns
<1>2. CASE Depth = 8
  <2>1. PerTurn = 4 /\ PerStore = 4 /\ DOMAIN Stores = {1}
    BY <1>2, Turns
  <2> QED BY <1>1, <2>1 DEF TurnColumns, StoreOf
<1>3. CASE Depth = 1
  <2>1. PerTurn = 8 /\ PerStore = 4 /\ DOMAIN Stores = {1, 2}
    BY <1>3, Turns
  <2> QED BY <1>1, <2>1 DEF TurnColumns, StoreOf
<1>4. CASE Depth = 2
  <2>1. PerTurn = 4 /\ PerStore = 4 /\ DOMAIN Stores = {1}
    BY <1>4, Turns
  <2> QED BY <1>1, <2>1 DEF TurnColumns, StoreOf
<1>5. CASE Depth = 4
  <2>1. PerTurn = 2 /\ PerStore = 2 /\ DOMAIN Stores = {1}
    BY <1>5, Turns
  <2> QED BY <1>1, <2>1 DEF TurnColumns, StoreOf
<1> QED
  BY <1>2, <1>3, <1>4, <1>5

\* Where the stores of a turn are.
LEMMA StoreColumns ==
  ASSUME TypeOK, Depth \in {1, 2, 4, 8}, i < wi,
         NEW s \in DOMAIN Stores, NEW k \in 0 .. PerStore - 1
  PROVE  /\ s \in {1, 2} /\ Column(s) \in Nat /\ PerStore \in {2, 4}
         /\ Column(s) + k \in TurnColumns
         /\ StoreOf(Column(s) + k) = s
<1>1. i \in Nat
  BY DEF TypeOK
<1>2. CASE Depth = 8
  <2>1. PerTurn = 4 /\ PerStore = 4 /\ DOMAIN Stores = {1} /\ wi \in Nat /\ wi * 4 <= video_scr_x
    BY <1>2, Turns
  <2>2. s = 1 /\ Column(s) = i * 4
    BY <1>1, <2>1 DEF Column
  <2>3. Column(s) + k \in TurnColumns
    BY <1>1, <2>1, <2>2 DEF TurnColumns, Columns
  <2>4. StoreOf(Column(s) + k) = s
    BY <1>1, <2>1, <2>2 DEF StoreOf
  <2> QED BY <1>1, <2>1, <2>2, <2>3, <2>4
<1>3. CASE Depth = 1
  <2>1. PerTurn = 8 /\ PerStore = 4 /\ DOMAIN Stores = {1, 2} /\ wi \in Nat /\ wi * 8 <= video_scr_x
    BY <1>3, Turns
  <2>2. s \in {1, 2} /\ Column(s) = i * 8 + (s - 1) * 4
    BY <1>1, <2>1 DEF Column
  <2>3. Column(s) + k \in TurnColumns
    BY <1>1, <2>1, <2>2 DEF TurnColumns, Columns
  <2>4. StoreOf(Column(s) + k) = s
    BY <1>1, <2>1, <2>2 DEF StoreOf
  <2> QED BY <1>1, <2>1, <2>2, <2>3, <2>4
<1>4. CASE Depth = 2
  <2>1. PerTurn = 4 /\ PerStore = 4 /\ DOMAIN Stores = {1} /\ wi \in Nat /\ wi * 4 <= video_scr_x
    BY <1>4, Turns
  <2>2. s = 1 /\ Column(s) = i * 4
    BY <1>1, <2>1 DEF Column
  <2>3. Column(s) + k \in TurnColumns
    BY <1>1, <2>1, <2>2 DEF TurnColumns, Columns
  <2>4. StoreOf(Column(s) + k) = s
    BY <1>1, <2>1, <2>2 DEF StoreOf
  <2> QED BY <1>1, <2>1, <2>2, <2>3, <2>4
<1>5. CASE Depth = 4
  <2>1. PerTurn = 2 /\ PerStore = 2 /\ DOMAIN Stores = {1} /\ wi \in Nat /\ wi * 2 <= video_scr_x
    BY <1>5, Turns
  <2>2. s = 1 /\ Column(s) = i * 2
    BY <1>1, <2>1 DEF Column
  <2>3. Column(s) + k \in TurnColumns
    BY <1>1, <2>1, <2>2 DEF TurnColumns, Columns
  <2>4. StoreOf(Column(s) + k) = s
    BY <1>1, <2>1, <2>2 DEF StoreOf
  <2> QED BY <1>1, <2>1, <2>2, <2>3, <2>4
<1> QED
  BY <1>2, <1>3, <1>4, <1>5

\* A turn puts what QuickDraw has into its columns and leaves the others alone.
LEMMA TurnCopies ==
  ASSUME Inv, CopyTurn
  PROVE  /\ frame_to_send' \in [Rows -> [Columns -> 0 .. 255]]
         /\ \A y \in Rows, x \in Columns :
              frame_to_send'[y][x] =
                IF y = row /\ x \in TurnColumns THEN QuickDrawPixel(row, x) ELSE frame_to_send[y][x]
<1>1. pc = "copy" /\ i < wi /\ Depth \in {1, 2, 4, 8}
  BY DEF Inv, CopyTurn, Copying
<1>2. frame_to_send \in [Rows -> [Columns -> 0 .. 255]]
  BY DEF Inv, TypeOK
<1>3. ASSUME NEW y \in Rows, NEW x \in Columns
      PROVE  /\ frame_to_send'[y][x] =
                  IF y = row /\ x \in TurnColumns
                    THEN QuickDrawPixel(row, x) ELSE frame_to_send[y][x]
             /\ frame_to_send'[y][x] \in 0 .. 255
  <2>1. frame_to_send'[y][x] =
          IF y = row /\ StoreOf(x) \in Changing
            THEN Stores[StoreOf(x)][x - Column(StoreOf(x))] ELSE frame_to_send[y][x]
    BY <1>2, <1>3 DEF CopyTurn
  <2>2. Changing \subseteq DOMAIN Stores
    BY DEF Changing
  <2>3. CASE y = row /\ x \in TurnColumns
    <3>1. /\ StoreOf(x) \in DOMAIN Stores
          /\ x - Column(StoreOf(x)) \in 0 .. PerStore - 1
          /\ Stores[StoreOf(x)][x - Column(StoreOf(x))] = QuickDrawPixel(row, x)
          /\ QuickDrawPixel(row, x) \in 0 .. 255
      BY <1>1, <2>3, Expanded DEF Inv
    <3>2. Column(StoreOf(x)) + (x - Column(StoreOf(x))) = x
      <4>1. x \in Int
        BY DEF Columns
      <4>2. Column(StoreOf(x)) \in Nat
        BY <1>1, <3>1, StoreColumns DEF Inv
      <4> QED BY <4>1, <4>2
    <3>3. CASE StoreOf(x) \in Changing
      BY <2>1, <2>3, <3>1, <3>3
    <3>4. CASE StoreOf(x) \notin Changing
      <4>1. frame_to_send[row][Column(StoreOf(x)) + (x - Column(StoreOf(x)))]
              = Stores[StoreOf(x)][x - Column(StoreOf(x))]
        BY <3>1, <3>4 DEF Changing
      <4> QED BY <2>1, <2>3, <3>1, <3>2, <3>4, <4>1
    <3> QED BY <3>3, <3>4
  <2>4. CASE y = row /\ x \notin TurnColumns
    BY <1>1, <1>2, <2>1, <2>2, <2>4, Elsewhere DEF Inv
  <2>5. CASE y # row
    BY <1>2, <2>1, <2>5
  <2> QED BY <2>3, <2>4, <2>5
<1>4. frame_to_send' \in [Rows -> [Columns -> 0 .. 255]]
  <2> DEFINE new == [x \in Columns |->
                       IF StoreOf(x) \in Changing
                         THEN Stores[StoreOf(x)][x - Column(StoreOf(x))] ELSE frame_to_send[row][x]]
  <2>1. row \in Rows
    BY DEF Inv, TypeOK
  <2>2. frame_to_send' = [frame_to_send EXCEPT ![row] = new]
    BY DEF CopyTurn
  <2>3. new = [x \in Columns |-> frame_to_send'[row][x]]
    BY <1>2, <2>1, <2>2
  <2>4. new \in [Columns -> 0 .. 255]
    BY <1>3, <2>1, <2>3
  <2> QED BY <1>2, <2>1, <2>2, <2>4
<1> QED
  BY <1>3, <1>4

\* A store changes something just when QuickDraw has another pixel there.
LEMMA ChangingStores ==
  ASSUME Inv, pc = "copy", i < wi, NEW s \in DOMAIN Stores
  PROVE  s \in Changing <=>
           \E k \in 0 .. PerStore - 1 :
             frame_to_send[row][Column(s) + k] # QuickDrawPixel(row, Column(s) + k)
<1>1. Depth \in {1, 2, 4, 8}
  BY DEF Inv, Copying
<1>2. ASSUME NEW k \in 0 .. PerStore - 1
      PROVE  Stores[s][k] = QuickDrawPixel(row, Column(s) + k)
  <2>1. /\ Column(s) \in Nat /\ k \in Int
        /\ Column(s) + k \in TurnColumns
        /\ StoreOf(Column(s) + k) = s
    BY <1>1, StoreColumns DEF Inv
  <2>2. (Column(s) + k) - Column(s) = k
    BY <2>1
  <2> QED BY <2>1, <2>2, Expanded DEF Inv
<1> QED
  BY <1>2 DEF Changing

\* xstart and xend are taken from the first and the last store that changes something.
LEMMA ChangedStores ==
  ASSUME Inv, pc = "copy", i < wi, Changing # {}
  PROVE  /\ Min(Changing) \in Changing /\ Max(Changing) \in Changing
         /\ \A s \in Changing : Min(Changing) <= s /\ s <= Max(Changing)
         /\ Changing \subseteq {1, 2}
<1>1. Depth \in {1, 2, 4, 8}
  BY DEF Inv, Copying
<1>2. Changing \subseteq {1, 2}
  BY <1>1, Turns DEF Changing, Inv
<1>3. Min(Changing) \in Changing /\ \A s \in Changing : Min(Changing) <= s
  <2>1. Changing \subseteq Nat
    BY <1>2
  <2> QED BY <2>1, Least
<1>4. \E s \in Changing : \A u \in Changing : s >= u
  <2> SUFFICES ASSUME NEW C, C \subseteq {1, 2}, C # {}
               PROVE  \E s \in C : \A u \in C : s >= u
    BY <1>2
  <2>1. CASE 2 \in C
    BY <2>1
  <2>2. CASE 2 \notin C
    <3>1. C = {1}
      BY <2>2
    <3> QED BY <3>1
  <2> QED BY <2>1, <2>2
<1>5. Max(Changing) \in Changing /\ \A s \in Changing : Max(Changing) >= s
  BY <1>4 DEF Max
<1> QED
  BY <1>2, <1>3, <1>5

\* The span of a row grows to just hold what the turn changes.
LEMMA TurnDirties ==
  ASSUME Inv, CopyTurn
  PROVE  /\ xstart' \in Columns \cup {Unset} /\ xend' \in Columns \cup {Unset}
         /\ Dirty'
<1>1. pc = "copy" /\ i < wi /\ Depth \in {1, 2, 4, 8} /\ row' = row /\ before' = before
  BY DEF Inv, CopyTurn, Copying, place
<1>2. TypeOK
  BY DEF Inv
<1>3. PerStore' = PerStore /\ PerStore \in {2, 4} /\ PerTurn \in {2, 4, 8}
  BY <1>1, <1>2, Turns DEF CopyTurn, PerStore, PerTurn, Depth, vars
<1>4. i \in Nat /\ row \in Rows /\ i * PerTurn \in Nat
  BY <1>2, <1>3 DEF TypeOK
<1>5. \A x \in Columns : frame_to_send'[row][x] =
        IF x \in TurnColumns THEN QuickDrawPixel(row, x) ELSE frame_to_send[row][x]
  BY <1>4, TurnCopies
<1>6. \A x \in Columns : x >= i * PerTurn => frame_to_send[row][x] = before[row][x]
  BY <1>1, <1>4 DEF Inv, Copied
<1>7. \A x \in Differ : x < i * PerTurn
  BY <1>4, <1>6 DEF Differ, Columns
<1>8. \A x \in Columns : x \in Differ' <=>
        x \in Differ \/ (x \in TurnColumns /\ frame_to_send[row][x] # QuickDrawPixel(row, x))
  <2>1. ASSUME NEW x \in Columns
        PROVE  x \in Differ' <=>
                 x \in Differ \/ (x \in TurnColumns /\ frame_to_send[row][x] # QuickDrawPixel(row, x))
    <3>1. x \in Differ' <=> frame_to_send'[row][x] # before[row][x]
      BY <1>1, <2>1 DEF Differ
    <3>2. CASE x \in TurnColumns
      <4>1. frame_to_send[row][x] = before[row][x]
        BY <1>4, <1>6, <3>2 DEF TurnColumns
      <4> QED BY <1>5, <3>1, <3>2, <4>1 DEF Differ
    <3>3. CASE x \notin TurnColumns
      BY <1>5, <2>1, <3>1, <3>3 DEF Differ
    <3> QED BY <3>2, <3>3
  <2> QED BY <2>1
<1>9. Differ' \subseteq Columns /\ Differ \subseteq Columns
  BY DEF Differ
<1>10. IF xstart = Unset
         THEN Differ = {}
         ELSE /\ \A x \in Differ : xstart <= x /\ x <= xend
              /\ \E x \in Differ : x < xstart + PerStore
              /\ \E x \in Differ : xend - PerStore < x
  BY <1>1 DEF Inv, Dirty
<1>11. xstart \in Columns \cup {Unset} /\ xend \in Columns \cup {Unset}
  BY <1>2 DEF TypeOK
<1>12. CASE Changing = {}
  <2>1. xstart' = xstart /\ xend' = xend
    BY <1>12 DEF CopyTurn
  <2>2. ASSUME NEW x \in TurnColumns
        PROVE  frame_to_send[row][x] = QuickDrawPixel(row, x)
    <3>1. /\ StoreOf(x) \in DOMAIN Stores
          /\ x - Column(StoreOf(x)) \in 0 .. PerStore - 1
      BY <1>1, <2>2, Expanded DEF Inv
    <3>2. Column(StoreOf(x)) \in Nat /\ x \in Int
      BY <1>1, <1>2, <3>1, StoreColumns DEF TurnColumns, Columns
    <3>3. Column(StoreOf(x)) + (x - Column(StoreOf(x))) = x
      BY <3>2
    <3> QED BY <1>1, <1>12, <3>1, <3>3, ChangingStores
  <2>3. Differ' = Differ
    BY <1>8, <1>9, <2>2
  <2> QED BY <1>3, <1>10, <1>11, <2>1, <2>3 DEF Dirty
<1>13. CASE Changing # {}
  <2> DEFINE first == Min(Changing)
             last == Max(Changing)
  <2>1. /\ first \in Changing /\ last \in Changing /\ Changing \subseteq {1, 2}
        /\ \A s \in Changing : first <= s /\ s <= last
    BY <1>1, <1>13, ChangedStores
  <2>2. Changing \subseteq DOMAIN Stores
    BY DEF Changing
  <2>3. /\ xstart' = IF xstart = Unset THEN Column(first) ELSE xstart
        /\ xend' = EndColumn(last)
    BY <1>13 DEF CopyTurn
  <2> HIDE DEF first, last
  <2>4. ASSUME NEW s \in Changing
        PROVE  /\ Column(s) \in Nat /\ Column(s) \in Columns /\ EndColumn(s) \in Columns
               /\ Column(s) = i * PerTurn + (s - 1) * PerStore
               /\ EndColumn(s) = Column(s) + PerStore - 1
               /\ \E x \in Differ' : Column(s) <= x /\ x <= EndColumn(s)
    <3>1. s \in DOMAIN Stores
      BY <2>2, <2>4
    <3>2. 0 \in 0 .. PerStore - 1 /\ PerStore - 1 \in 0 .. PerStore - 1
      BY <1>3
    <3>3. Column(s) \in Nat /\ Column(s) + 0 \in TurnColumns /\ Column(s) + (PerStore - 1) \in TurnColumns
      BY <1>1, <1>2, <3>1, <3>2, StoreColumns
    <3>4. EndColumn(s) = Column(s) + PerStore - 1 /\ Column(s) + 0 = Column(s)
            /\ EndColumn(s) = Column(s) + (PerStore - 1)
      BY <1>3, <3>3 DEF EndColumn
    <3>5. PICK k \in 0 .. PerStore - 1 :
            frame_to_send[row][Column(s) + k] # QuickDrawPixel(row, Column(s) + k)
      BY <1>1, <2>4, <3>1, ChangingStores
    <3>6. Column(s) + k \in TurnColumns
      BY <1>1, <1>2, <3>1, <3>5, StoreColumns
    <3>7. Column(s) + k \in Differ'
      BY <1>8, <3>5, <3>6 DEF TurnColumns
    <3>8. Column(s) <= Column(s) + k /\ Column(s) + k <= EndColumn(s)
      BY <1>3, <3>3, <3>4, <3>5
    <3>9. Column(s) \in Columns /\ EndColumn(s) \in Columns
      BY <3>3, <3>4 DEF TurnColumns
    <3>10. Column(s) = i * PerTurn + (s - 1) * PerStore
      BY DEF Column
    <3> QED BY <3>3, <3>4, <3>7, <3>8, <3>9, <3>10
  <2>5. ASSUME NEW x \in Differ', x \notin Differ
        PROVE  i * PerTurn <= x /\ Column(first) <= x /\ x <= EndColumn(last)
    <3>1. x \in TurnColumns /\ frame_to_send[row][x] # QuickDrawPixel(row, x)
      BY <1>8, <1>9, <2>5
    <3> DEFINE s == StoreOf(x)
    <3>2. s \in DOMAIN Stores /\ x - Column(s) \in 0 .. PerStore - 1
      BY <1>1, <3>1, Expanded DEF Inv
    <3>3. Column(s) \in Nat /\ x \in Int
      BY <1>1, <1>2, <3>1, <3>2, StoreColumns DEF TurnColumns, Columns
    <3>4. Column(s) + (x - Column(s)) = x
      BY <3>3
    <3>5. s \in Changing
      BY <1>1, <3>1, <3>2, <3>4, ChangingStores
    <3> HIDE DEF s
    <3>6. Column(s) <= x /\ x <= EndColumn(s)
      BY <1>3, <2>4, <3>2, <3>3, <3>5
    <3>7. Column(first) <= Column(s) /\ EndColumn(s) <= EndColumn(last)
      BY <1>3, <1>4, <2>1, <2>4, <3>5
    <3>8. i * PerTurn <= x
      BY <3>1 DEF TurnColumns
    <3>9. Column(first) \in Nat /\ EndColumn(last) \in Int /\ EndColumn(s) \in Int
      BY <2>1, <2>4, <3>5 DEF Columns
    <3> QED BY <3>3, <3>6, <3>7, <3>8, <3>9
  <2>6. Differ \subseteq Differ'
    BY <1>8, <1>9
  <2>7. i * PerTurn <= Column(first) /\ i * PerTurn <= EndColumn(last)
    BY <1>3, <1>4, <2>1, <2>4
  <2>8. /\ Column(first) \in Columns /\ EndColumn(last) \in Columns
        /\ Column(first) \in Nat /\ EndColumn(last) \in Nat
        /\ EndColumn(first) = Column(first) + PerStore - 1
        /\ EndColumn(last) = Column(last) + PerStore - 1
        /\ Column(last) \in Nat
    BY <2>1, <2>4 DEF Columns
  <2>9. \A x \in Differ' : x \in Nat
    BY <1>9 DEF Columns
  <2>10. PICK z \in Differ' : Column(last) <= z /\ z <= EndColumn(last)
    BY <2>1, <2>4
  <2>11. xend' - PerStore < z
    BY <1>3, <2>3, <2>8, <2>9, <2>10
  <2>12. \A x \in Differ' : x <= xend'
    <3>1. \A x \in Differ : x <= xend'
      BY <1>4, <1>7, <2>3, <2>6, <2>7, <2>8, <2>9
    <3> QED BY <2>3, <2>5, <3>1
  <2>13. CASE xstart = Unset
    <3>1. Differ = {} /\ xstart' = Column(first)
      BY <1>10, <2>3, <2>13
    <3>2. PICK w \in Differ' : Column(first) <= w /\ w <= EndColumn(first)
      BY <2>1, <2>4
    <3>3. w < xstart' + PerStore
      BY <1>3, <2>8, <2>9, <3>1, <3>2
    <3>4. \A x \in Differ' : xstart' <= x
      BY <2>5, <3>1
    <3>5. xstart' # Unset
      BY <2>8, <3>1 DEF Unset
    <3> QED BY <1>3, <2>3, <2>8, <2>10, <2>11, <2>12, <3>1, <3>3, <3>4, <3>5 DEF Dirty
  <2>14. CASE xstart # Unset
    <3>1. xstart' = xstart /\ xstart \in Nat
      BY <1>11, <2>3, <2>14 DEF Columns
    <3>2. PICK w \in Differ : w < xstart + PerStore
      BY <1>10, <2>14
    <3>3. xstart <= w /\ w < i * PerTurn
      BY <1>7, <1>10, <2>14, <3>2
    <3>4. xstart < i * PerTurn
      BY <1>4, <2>6, <2>9, <3>1, <3>2, <3>3
    <3>5. \A x \in Differ' : xstart' <= x
      <4>1. \A x \in Differ : xstart <= x
        BY <1>10, <2>14
      <4>2. \A x \in Differ' : x \notin Differ => xstart <= x
        BY <1>4, <2>5, <2>9, <3>1, <3>4
      <4> QED BY <3>1, <4>1, <4>2
    <3>6. w \in Differ' /\ w < xstart' + PerStore
      BY <2>6, <3>1, <3>2
    <3> QED BY <1>3, <1>11, <2>3, <2>8, <2>10, <2>11, <2>12, <2>14, <3>1, <3>5, <3>6 DEF Dirty
  <2> QED BY <2>13, <2>14
<1> QED
  BY <1>12, <1>13

-----------------------------------------------------------------------------
\* The invariant holds when the daemon starts.
LEMMA InitInv == Init => Inv
<1> SUFFICES ASSUME Init PROVE Inv
  OBVIOUS
<1> USE DEF Init
<1>1. TypeOK
  <2>1. 0 \in Rows /\ 0 \in 0 .. video_scr_x /\ 0 \in 0 .. MaxUpdates
    BY DEF Rows
  <2>2. frame_to_send \in [Rows -> [Columns -> 0 .. 255]]
    OBVIOUS
  <2>3. PixelsFit
    BY DEF PixelsFit
  <2> QED BY <2>1, <2>2, <2>3 DEF TypeOK
<1>2. Modes
  BY DEF Modes
<1>3. Mapping /\ Copied /\ Dirty
  BY DEF Mapping, Copied, Dirty
<1>4. Copying
  BY DEF Copying
<1> QED
  BY <1>1, <1>2, <1>3, <1>4 DEF Inv

\* Only modes of the card are listed.
LEMMA OpenInv == Inv /\ Open => Inv'
<1> SUFFICES ASSUME Inv, Open PROVE Inv'
  OBVIOUS
<1> USE DEF Inv, Open, mac, place
<1>1. /\ card' = card /\ pc = "open" /\ pc' = "phys"
      /\ fb_vp' = [m \in 0 .. QD_MAX_MODES - 1 |-> IF Listed(m) THEN card[m] ELSE fb_vp[m]]
  BY DEF fb_update_modelist
<1>2. \A m \in 0 .. QD_MAX_MODES - 1 : Listed(m) => m \in DOMAIN card
  BY DEF Listed, QD_MAX_MODES
<1>3. \A m \in DOMAIN card : card[m] \in VPBlocks
  BY CardAssumption DEF TypeOK
<1>4. TypeOK'
  <2>1. fb_vp' \in [0 .. QD_MAX_MODES - 1 -> VPBlocks \cup {NoBlock}]
    BY <1>1, <1>2, <1>3 DEF TypeOK
  <2> QED BY <1>1, <2>1 DEF TypeOK, PixelsFit
<1>5. Modes'
  BY <1>1, <1>2 DEF Modes, TypeOK
<1>6. Mapping' /\ Copied' /\ Dirty'
  BY <1>1 DEF Mapping, Copied, Dirty
<1>7. Copying'
  BY <1>1 DEF Copying
<1> QED
  BY <1>4, <1>5, <1>6, <1>7

\* Only the memory of a mode with eight bits or more is mapped.
LEMMA PhysInv == Inv /\ Phys => Inv'
<1> SUFFICES ASSUME Inv, Phys PROVE Inv'
  OBVIOUS
<1> USE DEF Inv, Phys, mac, place
<1>1. pc' \in {"idle", "closed"} /\ pc = "phys" /\ fb_vp' = fb_vp /\ card' = card
  OBVIOUS
<1>2. CASE fb_fb_size < 0
  <2>1. pc' = "closed" /\ mapped' = mapped
    BY <1>2
  <2>2. TypeOK'
    BY <2>1 DEF TypeOK, PixelsFit
  <2>3. Modes' /\ Mapping' /\ Copied' /\ Dirty'
    BY <1>1, <2>1 DEF Modes, Mapping, Copied, Dirty
  <2>4. Copying'
    BY <1>1, <2>1 DEF Copying
  <2> QED BY <2>2, <2>3, <2>4
<1>3. CASE ~(fb_fb_size < 0)
  <2>1. pc' = "idle" /\ mapped' = fb_fb_size
    BY <1>3
  <2>2. Deep # {}
    BY <1>3 DEF fb_fb_size
  <2>3. DOMAIN fb_vp = 0 .. QD_MAX_MODES - 1
    BY DEF TypeOK
  <2>4. Deep \subseteq Nat
    BY <2>3 DEF Deep, QD_MAX_MODES
  <2>5. Min(Deep) \in Deep
    BY <2>2, <2>4, Least
  <2> DEFINE d == Min(Deep)
  <2>6. mapped' = fb_vp[d].vpRowBytes * video_scr_y
    BY <2>1, <2>2 DEF fb_fb_size
  <2> HIDE DEF d
  <2>7. d \in DOMAIN fb_vp /\ fb_vp[d].vpPixelSize >= 8
    BY <2>5 DEF d, Deep
  <2>8. fb_vp[d] \in VPBlocks \cup {NoBlock}
    BY <2>3, <2>7 DEF TypeOK
  <2>9. mapped' \in Nat
    BY <2>6, <2>8 DEF VPBlocks, NoBlock
  <2>10. TypeOK'
    BY <2>1, <2>9 DEF TypeOK, PixelsFit
  <2>11. Mapping'
    BY <1>1, <2>6, <2>7 DEF Mapping
  <2>12. Modes' /\ Copied' /\ Dirty'
    BY <1>1, <2>1 DEF Modes, Copied, Dirty
  <2>13. Copying'
    BY <1>1, <2>1 DEF Copying
  <2> QED BY <2>10, <2>11, <2>12, <2>13
<1> QED
  BY <1>2, <1>3

\* A mode with too many bits, or beyond the list, ends the session; others begin a
\* copy.
LEMMA GetVideoInfoInv == Inv /\ GetVideoInfo => Inv'
<1> SUFFICES ASSUME Inv, GetVideoInfo PROVE Inv'
  OBVIOUS
<1> USE DEF Inv, GetVideoInfo, mac, place
<1>1. /\ pc = "idle" /\ pc' \in {"copy", "closed"} /\ fb_vp' = fb_vp /\ card' = card
      /\ mapped' = mapped /\ before' = frame_to_send /\ frame_to_send' = frame_to_send
      /\ row' = row /\ i' = i /\ xstart' = xstart /\ xend' = xend
  OBVIOUS
<1>2. row = 0 /\ i = 0 /\ xstart = Unset /\ xend = Unset
  BY <1>1 DEF Copying
<1>3. mode < QD_MAX_MODES => mode \in DOMAIN fb_vp
  <2>1. mode \in DOMAIN card /\ card \in Cards /\ DOMAIN fb_vp = 0 .. QD_MAX_MODES - 1
    BY DEF TypeOK
  <2>2. mode \in Nat
    BY <2>1, CardAssumption
  <2> QED BY <2>1, <2>2 DEF QD_MAX_MODES
<1>4. TypeOK'
  <2>1. vp' \in VPBlocks \cup {NoBlock}
    BY <1>3 DEF TypeOK
  <2>2. updates' \in 0 .. MaxUpdates
    BY DEF TypeOK
  <2>3. ASSUME pc' = "copy", NEW y \in Rows, NEW x \in Columns
        PROVE  ~(y < row') /\ (y = row' => ~(x < i' * PerTurn'))
    <3>1. Depth' \in {1, 2, 4, 8}
      BY <2>3 DEF Depth
    <3>2. PerTurn' \in {2, 4, 8}
      BY <3>1, Zenon DEF PerTurn
    <3>3. i' * PerTurn' = 0
      <4>1. \A n \in {2, 4, 8} : 0 * n = 0
        OBVIOUS
      <4>2. i' = 0
        BY <1>1, <1>2
      <4> QED BY <3>2, <4>1, <4>2, Zenon
    <3> QED BY <1>1, <1>2, <3>3 DEF Rows, Columns
  <2>4. PixelsFit'
    BY <2>3 DEF PixelsFit, Rows, Columns
  <2> QED BY <1>1, <2>1, <2>2, <2>4 DEF TypeOK
<1>5. Modes' /\ Mapping'
  BY <1>1 DEF Modes, Mapping
<1>6. CASE pc' = "closed"
  <2>1. Copying'
    BY <1>1, <1>2, <1>6 DEF Copying
  <2>2. Copied' /\ Dirty'
    BY <1>6 DEF Copied, Dirty
  <2> QED BY <1>4, <1>5, <2>1, <2>2
<1>7. CASE pc' = "copy"
  <2>1. mode < QD_MAX_MODES /\ vp' = fb_vp[mode] /\ vp'.vpPixelSize \in {1, 2, 4, 8}
    BY <1>7
  <2>2. Depth' \in {1, 2, 4, 8}
    BY <2>1 DEF Depth
  <2>3. PerTurn' \in {2, 4, 8}
    <3>1. CASE Depth' = 1
      BY <3>1 DEF PerTurn
    <3>2. CASE Depth' = 2
      BY <3>2 DEF PerTurn
    <3>3. CASE Depth' = 4
      BY <3>3 DEF PerTurn
    <3>4. CASE Depth' = 8
      BY <3>4 DEF PerTurn
    <3> QED BY <2>2, <3>1, <3>2, <3>3, <3>4
  <2>4. wi' \in Nat
    <3>1. \A n \in {2, 4, 8} : video_scr_x \div n \in Nat
      OBVIOUS
    <3>2. wi' = video_scr_x \div PerTurn'
      BY DEF wi
    <3> QED BY <2>3, <3>1, <3>2, Zenon
  <2>5. Copying'
    BY <1>1, <1>2, <1>3, <1>7, <2>1, <2>2, <2>4 DEF Copying
  <2>6. i' * PerTurn' = 0
    <3>1. \A n \in {2, 4, 8} : 0 * n = 0
      OBVIOUS
    <3>2. i' = 0
      BY <1>1, <1>2
    <3> QED BY <2>3, <3>1, <3>2, Zenon
  <2>7. Copied'
    BY <1>1, <2>6 DEF Copied, Columns
  <2>8. Dirty'
    BY <1>1, <1>2 DEF Dirty, Differ
  <2> QED BY <1>4, <1>5, <2>5, <2>7, <2>8
<1> QED
  BY <1>1, <1>6, <1>7

\* A turn keeps the invariant.
LEMMA CopyTurnInv == Inv /\ CopyTurn => Inv'
<1> SUFFICES ASSUME Inv, CopyTurn PROVE Inv'
  OBVIOUS
<1>1. /\ pc = "copy" /\ pc' = "copy" /\ i < wi /\ i' = i + 1 /\ row' = row /\ vp' = vp
      /\ fb_vp' = fb_vp /\ card' = card /\ mapped' = mapped /\ before' = before
      /\ pattern' = pattern /\ mode' = mode /\ updates' = updates
  BY DEF CopyTurn, mac
<1>2. Depth \in {1, 2, 4, 8}
  BY <1>1 DEF Inv, Copying
<1>3. wi \in Nat /\ wi * PerTurn <= video_scr_x /\ PerTurn \in {2, 4, 8}
  BY <1>2, Turns DEF Inv
<1>4. Depth' = Depth /\ PerTurn' = PerTurn /\ wi' = wi
  BY <1>1 DEF Depth, PerTurn, wi
<1>5. i \in Nat /\ row \in Rows
  BY DEF Inv, TypeOK
<1>6. /\ frame_to_send' \in [Rows -> [Columns -> 0 .. 255]]
      /\ \A y \in Rows, x \in Columns :
           frame_to_send'[y][x] =
             IF y = row /\ x \in TurnColumns THEN QuickDrawPixel(row, x) ELSE frame_to_send[y][x]
  BY TurnCopies
<1>7. TypeOK'
  <2>1. i' \in 0 .. video_scr_x
    BY <1>1, <1>3, <1>5
  <2>2. xstart' \in Columns \cup {Unset} /\ xend' \in Columns \cup {Unset}
    BY TurnDirties
  <2>3. ASSUME NEW y \in Rows, NEW x \in Columns,
               (y < row /\ x < wi * PerTurn) \/ (y = row /\ x < (i + 1) * PerTurn)
        PROVE  frame_to_send'[y][x] < 2^Depth
    <3>1. frame_to_send'[y][x] =
            IF y = row /\ x \in TurnColumns THEN QuickDrawPixel(row, x) ELSE frame_to_send[y][x]
      BY <1>6, <2>3
    <3>2. CASE y = row /\ x \in TurnColumns
      BY <1>1, <3>1, <3>2, Fits DEF Inv
    <3>3. CASE ~(y = row /\ x \in TurnColumns)
      <4>1. y \in Nat /\ row \in Nat /\ x \in Nat
        BY <1>5, <2>3 DEF Rows, Columns
      <4>2. (y < row /\ x < wi * PerTurn) \/ (y = row /\ x < i * PerTurn)
        BY <1>3, <1>5, <2>3, <3>3, <4>1 DEF TurnColumns
      <4>3. frame_to_send[y][x] < 2^Depth
        BY <1>1, <2>3, <4>2 DEF Inv, TypeOK, PixelsFit
      <4> QED BY <3>1, <3>3, <4>3
    <3> QED BY <3>2, <3>3
  <2>4. PixelsFit'
    BY <1>1, <1>4, <2>3 DEF PixelsFit, Rows, Columns
  <2> QED BY <1>1, <1>6, <2>1, <2>2, <2>4 DEF Inv, TypeOK
<1>8. Modes' /\ Mapping'
  BY <1>1 DEF Inv, Modes, Mapping
<1>9. Copying'
  <2>1. i' <= wi'
    BY <1>1, <1>3, <1>4, <1>5
  <2> QED BY <1>1, <1>2, <1>4, <2>1 DEF Inv, Copying
<1>10. Copied'
  <2>1. ASSUME NEW y \in Rows, NEW x \in Columns
        PROVE  /\ y = row /\ x < (i + 1) * PerTurn => frame_to_send'[y][x] = QuickDrawPixel(y, x)
               /\ y = row /\ x >= (i + 1) * PerTurn => frame_to_send'[y][x] = before[y][x]
               /\ y > row => frame_to_send'[y][x] = before[y][x]
    <3>1. /\ y = row /\ x < i * PerTurn => frame_to_send[y][x] = QuickDrawPixel(y, x)
          /\ y = row /\ x >= i * PerTurn => frame_to_send[y][x] = before[y][x]
          /\ y > row => frame_to_send[y][x] = before[y][x]
      BY <1>1, <2>1 DEF Inv, Copied
    <3>2. frame_to_send'[y][x] =
             IF y = row /\ x \in TurnColumns THEN QuickDrawPixel(row, x) ELSE frame_to_send[y][x]
      BY <1>6, <2>1
    <3>3. x \in Nat /\ i * PerTurn \in Nat /\ (i + 1) * PerTurn = i * PerTurn + PerTurn
      BY <1>3, <1>5, <2>1 DEF Columns
    <3>4. x \in TurnColumns <=> i * PerTurn <= x /\ x < (i + 1) * PerTurn
      BY <2>1 DEF TurnColumns
    <3>5. CASE y = row /\ x \in TurnColumns
      BY <1>3, <3>2, <3>3, <3>4, <3>5, <1>5, <2>1 DEF Rows
    <3>6. CASE y = row /\ x \notin TurnColumns
      BY <1>3, <3>1, <3>2, <3>3, <3>4, <3>6
    <3>7. CASE y # row
      BY <3>1, <3>2, <3>7
    <3> QED BY <3>5, <3>6, <3>7
  <2>2. \A y \in Rows, x \in Columns : QuickDrawPixel(y, x)' = QuickDrawPixel(y, x)
    BY <1>1, <1>4 DEF QuickDrawPixel
  <2>3. row' = row /\ i' * PerTurn' = (i + 1) * PerTurn /\ before' = before
    BY <1>1, <1>4
  <2> QED BY <2>1, <2>2, <2>3 DEF Copied
<1>11. Dirty'
  BY TurnDirties
<1> QED
  BY <1>7, <1>8, <1>9, <1>10, <1>11 DEF Inv

\* The next row is still as it was before the update.
LEMMA EndRowInv == Inv /\ EndRow => Inv'
<1> SUFFICES ASSUME Inv, EndRow PROVE Inv'
  OBVIOUS
<1>1. /\ pc = "copy" /\ pc' \in {"copy", "idle"} /\ vp' = vp /\ fb_vp' = fb_vp /\ card' = card
      /\ mapped' = mapped /\ frame_to_send' = frame_to_send /\ before' = before
      /\ pattern' = pattern /\ mode' = mode /\ updates' = updates
      /\ i' = 0 /\ xstart' = Unset /\ xend' = Unset
  BY DEF EndRow, mac
<1>2. row \in Nat /\ Depth \in {1, 2, 4, 8}
  BY <1>1 DEF Inv, TypeOK, Rows, Copying
<1>3. wi \in Nat /\ PerTurn \in {2, 4, 8}
  BY <1>2, Turns DEF Inv
<1>4. Depth' = Depth /\ PerTurn' = PerTurn /\ wi' = wi
  BY <1>1 DEF Depth, PerTurn, wi
<1>5. TypeOK'
  <2>1. row' \in Rows /\ i' \in 0 .. video_scr_x
    BY <1>1, <1>2 DEF EndRow, Rows
  <2>2. ASSUME pc' = "copy", NEW y \in Rows, NEW x \in Columns,
               (y < row' /\ x < wi * PerTurn) \/ (y = row' /\ x < 0 * PerTurn)
        PROVE  frame_to_send[y][x] < 2^Depth
    <3>1. row' = row + 1 /\ i = wi
      BY <1>1, <2>2 DEF EndRow
    <3>2. y \in Nat /\ x \in Nat /\ 0 * PerTurn = 0
      BY <1>3, <2>2 DEF Rows, Columns
    <3>3. (y < row /\ x < wi * PerTurn) \/ (y = row /\ x < i * PerTurn)
      BY <1>2, <2>2, <3>1, <3>2
    <3> QED BY <1>1, <2>2, <3>3 DEF Inv, TypeOK, PixelsFit
  <2>3. PixelsFit'
    BY <1>1, <1>4, <2>2 DEF PixelsFit, Rows, Columns
  <2> QED BY <1>1, <2>1, <2>3 DEF Inv, TypeOK
<1>6. Modes' /\ Mapping'
  BY <1>1 DEF Inv, Modes, Mapping
<1>7. CASE pc' = "idle"
  <2>1. row' = 0
    BY <1>1, <1>7 DEF EndRow
  <2>2. Copying'
    BY <1>1, <1>7, <2>1 DEF Copying
  <2>3. Copied' /\ Dirty'
    BY <1>7 DEF Copied, Dirty
  <2> QED BY <1>5, <1>6, <2>2, <2>3 DEF Inv
<1>8. CASE pc' = "copy"
  <2>1. row' = row + 1
    BY <1>1, <1>8 DEF EndRow
  <2>2. Copying'
    BY <1>1, <1>2, <1>3, <1>4, <1>8 DEF Inv, Copying
  <2>3. i' * PerTurn' = 0
    BY <1>1, <1>3, <1>4
  <2>4. \A y \in Rows, x \in Columns : y >= row' => frame_to_send[y][x] = before[y][x]
    <3>1. \A y \in Rows : y >= row' => y > row
      BY <1>2, <2>1 DEF Rows
    <3> QED BY <1>1, <3>1 DEF Inv, Copied
  <2>5. row' \in Rows
    BY <1>5 DEF TypeOK
  <2>6. Copied'
    <3>1. \A y \in Rows, x \in Columns :
             /\ ~(x < 0)
             /\ y = row' => frame_to_send[y][x] = before[y][x]
             /\ y > row' => frame_to_send[y][x] = before[y][x]
      BY <1>2, <2>1, <2>4 DEF Rows, Columns
    <3> QED BY <1>1, <2>3, <3>1 DEF Copied
  <2>7. Dirty'
    <3>1. \A x \in Columns : frame_to_send[row'][x] = before[row'][x]
      BY <1>2, <2>1, <2>4, <2>5 DEF Rows
    <3>2. Differ' = {}
      BY <1>1, <3>1 DEF Differ
    <3> QED BY <1>1, <3>2 DEF Dirty
  <2> QED BY <1>5, <1>6, <2>2, <2>6, <2>7 DEF Inv
<1> QED
  BY <1>1, <1>7, <1>8

\* What the Mac does between two updates does not matter to what is mapped.
LEMMA MacInv == Inv /\ Mac => Inv'
<1> SUFFICES ASSUME Inv, Mac PROVE Inv'
  OBVIOUS
<1> USE DEF Inv, Mac, place
<1>1. TypeOK'
  BY DEF TypeOK, PixelsFit
<1>2. Modes' /\ Mapping' /\ Copied' /\ Dirty'
  BY DEF Modes, Mapping, Copied, Dirty
<1>3. Copying'
  BY DEF Copying
<1> QED
  BY <1>1, <1>2, <1>3

\* Nor does a step that changes nothing.
LEMMA StutterInv == Inv /\ UNCHANGED vars => Inv'
<1> SUFFICES ASSUME Inv, UNCHANGED vars PROVE Inv'
  OBVIOUS
<1> USE DEF Inv, vars, mac, place
<1>1. Depth' = Depth /\ PerTurn' = PerTurn /\ PerStore' = PerStore /\ wi' = wi
  BY DEF Depth, PerTurn, PerStore, wi
<1>2. TypeOK'
  <2>1. PixelsFit'
    BY <1>1 DEF TypeOK, PixelsFit
  <2> QED BY <2>1 DEF TypeOK
<1>3. Modes' /\ Mapping'
  BY DEF Modes, Mapping
<1>4. Copying'
  BY <1>1 DEF Copying
<1>5. Copied'
  <2>1. \A y \in Rows, x \in Columns : QuickDrawPixel(y, x)' = QuickDrawPixel(y, x)
    BY <1>1 DEF QuickDrawPixel
  <2> QED BY <1>1, <2>1 DEF Copied
<1>6. Dirty'
  BY <1>1 DEF Dirty, Differ
<1> QED
  BY <1>2, <1>3, <1>4, <1>5, <1>6

(***************************************************************************)
(* The invariant holds in every reachable state, for all Cards, screens,   *)
(* Patterns and Byte that satisfy the assumptions: in particular, whatever *)
(* mode the Mac goes into between two updates (Mac), the list and the      *)
(* mapping made when the driver was opened stay right for it.              *)
(***************************************************************************)
THEOREM Invariance == Spec => []Inv
<1>1. Inv /\ [Next]_vars => Inv'
  BY OpenInv, PhysInv, GetVideoInfoInv, CopyTurnInv, EndRowInv, MacInv, StutterInv
  DEF Next, Stopped
<1> QED
  BY InitInv, <1>1, PTL DEF Spec

(***************************************************************************)
(* Every variable has its type: no turn writes outside frame_to_send or    *)
(* anything but a byte into it, and xstart and xend are columns            *)
(* (fb_copy_n_row).                                                        *)
(***************************************************************************)
THEOREM TypeCorrect == Spec => []TypeOK
<1>1. Inv => TypeOK
  BY DEF Inv
<1> QED
  BY <1>1, Invariance, PTL

(***************************************************************************)
(* No turn of a row copier reads past the bytes that fb_phys mapped:       *)
(* fb_fb_size takes the first mode of eight bits or more, and no mode that *)
(* fb_update accepts has longer rows.                                      *)
(***************************************************************************)
THEOREM AlwaysMapped == Spec => []ReadsMapped
<1>1. Inv => ReadsMapped
  <2> SUFFICES ASSUME Inv, pc = "copy", i < wi
               PROVE  SrcAt((i + 1) * SrcBytes) <= mapped
    BY DEF ReadsMapped
  <2>1. i \in Nat /\ row \in Nat
    BY DEF Inv, TypeOK, Rows
  <2>2. /\ (i + 1) * SrcBytes <= vp.vpRowBytes
        /\ row * vp.vpRowBytes + vp.vpRowBytes <= vp.vpRowBytes * video_scr_y
    BY <2>1, RowRead DEF Inv
  <2>3. vp.vpRowBytes \in Nat /\ mapped >= vp.vpRowBytes * video_scr_y
    BY CurrentMode DEF Inv
  <2>4. Depth \in {1, 2, 4, 8}
    BY DEF Inv, Copying
  <2>5. SrcBytes \in {1, 4}
    BY <2>4, Turns DEF Inv
  <2>6. row * vp.vpRowBytes \in Nat /\ (i + 1) * SrcBytes \in Nat
    BY <2>1, <2>3, <2>5
  <2>7. mapped \in Nat /\ vp.vpRowBytes * video_scr_y \in Nat
    BY <2>3 DEF Inv, TypeOK
  <2> QED BY <2>2, <2>3, <2>6, <2>7 DEF SrcAt
<1> QED
  BY <1>1, Invariance, PTL

(***************************************************************************)
(* A row that has been copied shows, up to its last whole turn, the pixels *)
(* QuickDraw has in the card's memory, for each of the four depths and all *)
(* contents of the lookup tables' index; the columns after it are as they  *)
(* were.                                                                   *)
(***************************************************************************)
THEOREM Faithful == Spec => []RowsExpanded
<1>1. Inv => RowsExpanded
  <2> SUFFICES ASSUME Inv, pc = "copy", i = wi, NEW x \in Columns
               PROVE  frame_to_send[row][x] =
                        IF x < wi * PerTurn THEN QuickDrawPixel(row, x) ELSE before[row][x]
    BY DEF RowsExpanded
  <2>1. row \in Rows /\ Depth \in {1, 2, 4, 8}
    BY DEF Inv, TypeOK, Copying
  <2>2. wi \in Nat /\ PerTurn \in {2, 4, 8}
    BY <2>1, Turns DEF Inv
  <2>3. x < wi * PerTurn \/ x >= wi * PerTurn
    BY <2>2 DEF Columns
  <2>4. /\ x < wi * PerTurn => frame_to_send[row][x] = QuickDrawPixel(row, x)
        /\ x >= wi * PerTurn => frame_to_send[row][x] = before[row][x]
    BY <2>1 DEF Inv, Copied
  <2> QED BY <2>2, <2>3, <2>4 DEF Columns
<1> QED
  BY <1>1, Invariance, PTL

(***************************************************************************)
(* The span fb_copy_n_row returns for a row encloses all pixels that       *)
(* changed, with less than one store to spare on either side, and is unset *)
(* just when none did.                                                     *)
(***************************************************************************)
THEOREM SpanExact == Spec => []DirtyExact
<1>1. Inv => DirtyExact
  <2> SUFFICES ASSUME Inv, pc = "copy", i = wi
               PROVE  IF Differ = {}
                        THEN xstart = Unset
                        ELSE /\ xstart <= Min(Differ) /\ Min(Differ) < xstart + PerStore
                             /\ Max(Differ) <= xend /\ xend - PerStore < Max(Differ)
    BY DEF DirtyExact, Differ
  <2>1. IF xstart = Unset
          THEN Differ = {}
          ELSE /\ \A x \in Differ : xstart <= x /\ x <= xend
               /\ \E x \in Differ : x < xstart + PerStore
               /\ \E x \in Differ : xend - PerStore < x
    BY DEF Inv, Dirty
  <2>2. CASE xstart = Unset
    BY <2>1, <2>2
  <2>3. CASE xstart # Unset
    <3>1. Differ # {} /\ Differ \subseteq Nat /\ \A x \in Differ : x <= video_scr_x
      BY <2>1, <2>3 DEF Differ, Columns
    <3>2. Min(Differ) \in Differ /\ \A x \in Differ : Min(Differ) <= x
      BY <3>1, Least
    <3>3. Max(Differ) \in Differ /\ \A x \in Differ : x <= Max(Differ)
      BY <3>1, Greatest
    <3>4. xstart <= Min(Differ) /\ Max(Differ) <= xend
      BY <2>1, <2>3, <3>2, <3>3
    <3>5. Depth \in {1, 2, 4, 8}
      BY DEF Inv, Copying
    <3>6. PerStore \in {2, 4}
      BY <3>5, Turns DEF Inv
    <3>7. xstart \in Nat /\ xend \in Int
      BY <2>3 DEF Inv, TypeOK, Columns, Unset
    <3>8. PICK u \in Differ : u < xstart + PerStore
      BY <2>1, <2>3
    <3>9. PICK w \in Differ : xend - PerStore < w
      BY <2>1, <2>3
    <3> DEFINE lo == Min(Differ)
               hi == Max(Differ)
    <3>10. lo \in Nat /\ hi \in Nat /\ lo <= u /\ w <= hi /\ u \in Nat /\ w \in Nat
      BY <3>1, <3>2, <3>3, <3>8, <3>9
    <3> HIDE DEF lo, hi
    <3>11. lo < xstart + PerStore
      BY <3>6, <3>7, <3>8, <3>10
    <3>12. xend - PerStore < hi
      BY <3>6, <3>7, <3>9, <3>10
    <3> USE DEF lo, hi
    <3> QED BY <3>1, <3>4, <3>11, <3>12
  <2> QED BY <2>2, <2>3
<1> QED
  BY <1>1, Invariance, PTL
============================================================================

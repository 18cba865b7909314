---------------------------- MODULE VideoMemory ----------------------------
(***************************************************************************)
(* From the bytes of a video card to the pixels of frame_to_send.  The     *)
(* driver (kernel/src/fb.c) keeps a list of the card's modes and maps the  *)
(* card's memory into the daemon, which copies row after row out of it     *)
(* (app/frame_buffer.c), one store at a time, expanding pixels of less     *)
(* than eight bits with lookup tables (app/luts.c).                        *)
(*                                                                         *)
(* What happens when the Mac draws or changes its mode in the middle of an *)
(* update is the subject of FrameUpdate; here the Mac is at rest then.     *)
(***************************************************************************)
EXTENDS Integers, FiniteSets, FiniteSetsExt

CONSTANTS
  Cards,                     \* the modes of each video card: depth and bytes of a row
  video_scr_x, video_scr_y,  \* the screen; the card's memory has as many rows
  Patterns,                  \* what the Mac may draw (a bound)
  Byte(_, _),                \* the byte of a pattern at an address
  MaxUpdates                 \* how many updates there are (a bound)

QD_MAX_MODES == 6

NoBlock == [vpPixelSize |-> 0, vpRowBytes |-> 0]

VPBlocks == [vpPixelSize : {1, 2, 4, 8, 16, 32}, vpRowBytes : Nat]

\* A card numbers its modes from 0x80 on, here from 0; a row in a deeper mode has
\* room for all its pixels and is no shorter than in another.
ASSUME CardAssumption ==
  \A card \in Cards :
    /\ DOMAIN card \subseteq Nat /\ DOMAIN card # {}
    /\ \A m \in DOMAIN card :
         /\ card[m] \in VPBlocks
         /\ card[m].vpRowBytes * 8 >= video_scr_x * card[m].vpPixelSize
         /\ \A n \in DOMAIN card :
              card[m].vpPixelSize <= card[n].vpPixelSize =>
                card[m].vpRowBytes <= card[n].vpRowBytes

ASSUME VideoAssumption ==
  /\ video_scr_x \in Nat \ {0} /\ video_scr_y \in Nat \ {0} /\ MaxUpdates \in Nat \ {0}
  /\ Patterns # {}

\* The card's memory holds bytes.
ASSUME ByteAssumption ==
  \A card \in Cards : \A m \in DOMAIN card :
    \A p \in Patterns, a \in 0 .. card[m].vpRowBytes * video_scr_y - 1 : Byte(p, a) \in 0 .. 255

VARIABLES
  card, mode, pattern,   \* the Mac: its video card, the mode it is in, what is drawn
  fb_vp,                 \* the driver's list of modes
  mapped,                \* how many bytes of the card's memory the daemon has
  pc,                    \* where the daemon is
  vp,                    \* fb->vp
  frame_to_send,         \* the pixels, by row and column
  row, i,                \* i of fb_update, i of fb_copy_n_row
  xstart, xend,          \* of fb_copy_n_row (-1: not set)
  before,                \* frame_to_send before the update (for the properties)
  updates                \* how many there have been

mac == <<card, mode, pattern>>
place == <<row, i, xstart, xend>>
vars == <<mac, fb_vp, mapped, pc, vp, frame_to_send, place, before, updates>>

Rows == 0 .. video_scr_y - 1
Columns == 0 .. video_scr_x - 1
Unset == -1

-----------------------------------------------------------------------------
(***************************************************************************)
(* The lookup tables.  lutgen writes each entry as a number, its pixels    *)
(* from the low end of the index to the low end of the number; the 68k     *)
(* stores a number with its high byte first.                               *)
(***************************************************************************)

\* The number whose byte j, from the low end, is digit[j].
Number(digit, pixels) ==
  digit[0] + 256 * digit[1]
    + (IF pixels = 2 THEN 0 ELSE 65536 * digit[2] + 16777216 * digit[3])

\* Mutant: the pixels are taken from the high end of the index.
EntryBackwards(depth, pixels, n) ==
  Number([j \in 0 .. pixels - 1 |-> (n \div 2^(depth * (pixels - 1 - j))) % 2^depth], pixels)

Entry(depth, pixels, n) ==
  Number([j \in 0 .. pixels - 1 |-> (n \div 2^(depth * j)) % 2^depth], pixels)

lut1bit == [n \in 0 .. 15 |-> Entry(1, 4, n)]
lut2bit == [n \in 0 .. 255 |-> Entry(2, 4, n)]
lut4bit == [n \in 0 .. 255 |-> Entry(4, 2, n)]

\* The bytes of a number in memory.
Stored(pixels, number) == [k \in 0 .. pixels - 1 |-> (number \div 256^(pixels - 1 - k)) % 256]

-----------------------------------------------------------------------------
\* fb_get_vpblock finds no block for a mode the card does not have.
Listed(m) == \A n \in 0 .. m : n \in DOMAIN card

\* fb_update_modelist: up to the first mode that is not there.
fb_update_modelist == [m \in 0 .. QD_MAX_MODES - 1 |-> IF Listed(m) THEN card[m] ELSE fb_vp[m]]

Deep == {m \in DOMAIN fb_vp : fb_vp[m].vpPixelSize >= 8}

\* Mutant: the memory of the current mode, as fb_read has it.
fb_fb_size_now == IF mode \in DOMAIN fb_vp THEN fb_vp[mode].vpRowBytes * video_scr_y ELSE -1

\* The memory of the first mode with eight bits or more.
fb_fb_size == IF Deep = {} THEN -1 ELSE fb_vp[Min(Deep)].vpRowBytes * video_scr_y

Init ==
  /\ card \in Cards
  /\ mode \in DOMAIN card
  /\ pattern \in Patterns
  /\ fb_vp = [m \in 0 .. QD_MAX_MODES - 1 |-> NoBlock]
  /\ mapped = 0
  /\ pc = "open"
  /\ vp = NoBlock
  /\ frame_to_send = [y \in Rows |-> [x \in Columns |-> 0]] /\ before = frame_to_send
  /\ row = 0 /\ i = 0 /\ xstart = Unset /\ xend = Unset
  /\ updates = 0

\* fb_open
Open ==
  /\ pc = "open"
  /\ fb_vp' = fb_update_modelist
  /\ pc' = "phys"
  /\ UNCHANGED <<mac, mapped, vp, frame_to_send, place, before, updates>>

\* fb_phys; the system does not map a negative number of bytes.
Phys ==
  /\ pc = "phys"
  /\ IF fb_fb_size < 0
       THEN pc' = "closed" /\ UNCHANGED mapped
       ELSE pc' = "idle" /\ mapped' = fb_fb_size
  /\ UNCHANGED <<mac, fb_vp, vp, frame_to_send, place, before, updates>>

\* fb_get_video_info, and the test of the depth for the first row.
GetVideoInfo ==
  /\ pc = "idle"
  /\ updates < MaxUpdates
  /\ updates' = updates + 1
  /\ IF mode < QD_MAX_MODES THEN vp' = fb_vp[mode] ELSE UNCHANGED vp
  /\ pc' = IF mode < QD_MAX_MODES /\ vp'.vpPixelSize \in {1, 2, 4, 8} THEN "copy" ELSE "closed"
  /\ before' = frame_to_send
  /\ UNCHANGED <<mac, fb_vp, mapped, frame_to_send, place>>

-----------------------------------------------------------------------------
Depth == vp.vpPixelSize

\* The pixels of one turn of a row copier, and of each of its stores.
PerTurn == CASE Depth = 8 -> 4 [] Depth = 1 -> 8 [] Depth = 2 -> 4 [] Depth = 4 -> 2
PerStore == IF Depth = 1 THEN 4 ELSE PerTurn

wi == video_scr_x \div PerTurn

\* Where in its row a turn begins to read, and how much it reads.
SrcBytes == IF Depth = 8 THEN 4 ELSE 1
SrcAt(k) == row * vp.vpRowBytes + k

src(k) == Byte(pattern, SrcAt(k))

\* What one turn stores, first store first: the pixels of each.
Stores ==
  CASE Depth = 8 -> <<[k \in 0 .. 3 |-> src(i * 4 + k)]>>
    [] Depth = 1 -> <<Stored(4, lut1bit[src(i) \div 16]), Stored(4, lut1bit[src(i) % 16])>>
    [] Depth = 2 -> <<Stored(4, lut2bit[src(i)])>>
    [] Depth = 4 -> <<Stored(2, lut4bit[src(i)])>>

\* The column where a store of this turn begins.
Column(s) == i * PerTurn + (s - 1) * PerStore

\* The store of this turn that a column belongs to, if it does.
StoreOf(x) == (x - i * PerTurn) \div PerStore + 1

\* The stores that find something else there.
Changing ==
  {s \in DOMAIN Stores :
     \E k \in 0 .. PerStore - 1 : frame_to_send[row][Column(s) + k] # Stores[s][k]}

\* Mutant: xend is one past the store.
ColumnAfter(s) == Column(s) + PerStore

\* Mutant: xend is left where the last changed store begins.
LastColumn(s) == Column(s)

\* The last pixel of a store.
EndColumn(s) == Column(s) + PerStore - 1

\* One turn of fb_copy_8_row, fb_copy_1_row, fb_copy_2_row or fb_copy_4_row.
CopyTurn ==
  /\ pc = "copy"
  /\ i < wi
  /\ frame_to_send' = [frame_to_send EXCEPT ![row] =
       [x \in Columns |->
          IF StoreOf(x) \in Changing THEN Stores[StoreOf(x)][x - Column(StoreOf(x))] ELSE @[x]]]
  /\ xstart' = IF Changing # {} /\ xstart = Unset THEN Column(Min(Changing)) ELSE xstart
  /\ xend' = IF Changing # {} THEN EndColumn(Max(Changing)) ELSE xend
  /\ i' = i + 1
  /\ UNCHANGED <<mac, fb_vp, mapped, pc, vp, row, before, updates>>

\* The copier returns, and dst and src move on to the next row.
EndRow ==
  /\ pc = "copy"
  /\ i = wi
  /\ IF row + 1 < video_scr_y
       THEN row' = row + 1 /\ UNCHANGED pc
       ELSE row' = 0 /\ pc' = "idle"
  /\ i' = 0 /\ xstart' = Unset /\ xend' = Unset
  /\ UNCHANGED <<mac, fb_vp, mapped, vp, frame_to_send, before, updates>>

-----------------------------------------------------------------------------
\* The Mac draws and goes into another mode, also one the driver has not listed.
Mac ==
  /\ pc = "idle"
  /\ 0 < updates /\ updates < MaxUpdates
  /\ mode' \in DOMAIN card
  /\ pattern' \in Patterns
  /\ UNCHANGED <<card, fb_vp, mapped, pc, vp, frame_to_send, place, before, updates>>

Stopped ==
  /\ pc = "closed" \/ (pc = "idle" /\ updates = MaxUpdates)
  /\ UNCHANGED vars

Next ==
  \/ Open
  \/ Phys
  \/ GetVideoInfo
  \/ CopyTurn
  \/ EndRow
  \/ Mac
  \/ Stopped

Spec == Init /\ [][Next]_vars

-----------------------------------------------------------------------------
\* The pixels of this update so far.
PixelsFit ==
  pc = "copy" =>
    \A y \in Rows, x \in Columns :
      (y < row /\ x < wi * PerTurn) \/ (y = row /\ x < i * PerTurn) =>
        frame_to_send[y][x] < 2^Depth

\* Every variable has its type; in particular a pixel of d bits is below 2^d once a
\* turn has copied it.
TypeOK ==
  /\ card \in Cards /\ mode \in DOMAIN card /\ pattern \in Patterns
  /\ pc \in {"open", "phys", "idle", "copy", "closed"}
  /\ fb_vp \in [0 .. QD_MAX_MODES - 1 -> VPBlocks \cup {NoBlock}]
  /\ vp \in VPBlocks \cup {NoBlock}
  /\ mapped \in Nat
  /\ frame_to_send \in [Rows -> [Columns -> 0 .. 255]] /\ PixelsFit
  /\ before \in [Rows -> [Columns -> 0 .. 255]]
  /\ row \in Rows /\ i \in 0 .. video_scr_x
  /\ xstart \in Columns \cup {Unset} /\ xend \in Columns \cup {Unset}
  /\ updates \in 0 .. MaxUpdates

(***************************************************************************)
(* The daemon never reads past what the driver has mapped, in whatever     *)
(* mode the Mac is by then: the mapping is made once, at the size of an    *)
(* 8-bit mode (fb.c:390-410), and read with the row bytes of the mode of   *)
(* each update (frame_buffer.c:129-171).                                   *)
(***************************************************************************)
ReadsMapped == pc = "copy" /\ i < wi => SrcAt((i + 1) * SrcBytes) <= mapped

\* A pixel as QuickDraw has it: bits from the high end of the byte on.
QuickDrawPixel(y, x) ==
  LET byte == Byte(pattern, y * vp.vpRowBytes + (x * Depth) \div 8)
  IN  (byte \div 2^(8 - Depth - ((x * Depth) % 8))) % 2^Depth

(***************************************************************************)
(* The copiers expand "pixels to 8 bits wide" (frame_buffer.c:190-192):    *)
(* each column up to the last whole turn becomes the pixel QuickDraw put   *)
(* there, and nothing else of frame_to_send changes.                       *)
(***************************************************************************)
RowsExpanded ==
  pc = "copy" /\ i = wi =>
    \A x \in Columns :
      frame_to_send[row][x] =
        IF x < wi * PerTurn THEN QuickDrawPixel(row, x) ELSE before[row][x]

(***************************************************************************)
(* xstart and xend of a row enclose the pixels that changed, and no whole  *)
(* store more; xstart is -1 just when none did (frame_buffer.c:194-325).   *)
(***************************************************************************)
DirtyExact ==
  pc = "copy" /\ i = wi =>
    LET changed == {x \in Columns : frame_to_send[row][x] # before[row][x]}
    IN  IF changed = {}
          THEN xstart = Unset
          ELSE /\ xstart <= Min(changed) /\ Min(changed) < xstart + PerStore
               /\ Max(changed) <= xend /\ xend - PerStore < Max(changed)
=============================================================================

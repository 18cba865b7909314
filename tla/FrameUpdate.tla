---------------------------- MODULE FrameUpdate ----------------------------
(***************************************************************************)
(* One session answering update requests (vnc_evt_update_request): the     *)
(* screen, its depth and its colour table are asked for or read in many    *)
(* steps (app/frame_buffer.c, and the ioctls of kernel/src/fb.c) while the *)
(* Mac goes on changing them, and what has changed is sent to the client.  *)
(*                                                                         *)
(* A frame is linear memory: the pixel in column x of row y is cell        *)
(* y * Width + x.  What screen holds is the picture as 8-bit pixels, the   *)
(* form the lookup tables expand it to.                                    *)
(***************************************************************************)
EXTENDS Integers

CONSTANTS
  Width, Height,   \* video_scr_x and video_scr_y
  Pixels,          \* the values of a pixel
  Blank,           \* the one the screen is filled with at first
  PixelsPerWord,   \* for each indexed depth, how many pixels a row copier stores at once
  Modes,           \* the depths the Mac may switch to
  NumChunks,       \* how many chunks a colour table is read in
  MallocFrames,    \* what malloc may return for frame_to_send
  MaxDraws, MaxCluts, MaxModes,  \* how often the Mac changes each (bounds)
  MaxChanges,      \* how often it changes anything (a bound)
  Reverts          \* the Mac may set a colour it has used before

Depths == DOMAIN PixelsPerWord

Unlisted == 0   \* a video mode beyond the QD_MAX_MODES the driver keeps

Rows == 0 .. Height - 1
Columns == 0 .. Width - 1
Cells == 0 .. Width * Height - 1
Chunks == 0 .. NumChunks - 1
Colours == 0 .. MaxCluts + 1

ASSUME SizeAssumption ==
  /\ Width \in Nat \ {0}
  /\ Height \in Nat \ {0}

\* Screens are a whole number of words wide.
ASSUME WordAssumption ==
  \A d \in Depths : PixelsPerWord[d] \in Nat \ {0} /\ Width % PixelsPerWord[d] = 0

ASSUME PixelAssumption == Blank \in Pixels

ASSUME ModeAssumption == 8 \in Depths /\ 8 \in Modes /\ Unlisted \notin Depths

ASSUME MallocAssumption == MallocFrames \subseteq [Cells -> Pixels] /\ MallocFrames # {}

ASSUME BoundAssumption ==
  /\ NumChunks \in Nat \ {0}
  /\ MaxDraws \in Nat /\ MaxCluts \in Nat /\ MaxModes \in Nat /\ MaxChanges \in Nat
  /\ Reverts \in BOOLEAN

VARIABLES
  screen, clut, mode,          \* the Mac: picture, colour table, depth
  draws, cluts, modes,         \* how often each has changed (bounded)
  fb_c,                        \* the kernel's buffer for a colour table
  pc,                          \* where the session is
  incremental,                 \* of the request being answered
  vpPixelSize,                 \* fb->vp.vpPixelSize
  clut_hash, clut_changed,     \* as in frame_buffer
  vnc_clut,                    \* fb->clut, and vnc_clut made from it
  chunk,                       \* i of fb_update_clut
  frame_to_send,
  row, word,                   \* i of fb_update, i of fb_copy_n_row
  line,                        \* xstart and xend of fb_copy_n_row
  found,                       \* low/highXChange, low/highYChange of fb_update
  last_dirty, dirty_cursor,    \* as in frame_buffer
  rect, got,                   \* the client: rectangle announced, pixels of it received
  view, cmap,                  \* the client: what it shows, its colour map
  primed,                      \* history: the client has had a whole frame
  recoloured                   \* history: this answer sent a colour map

mac == <<screen, clut, mode, draws, cluts, modes>>
palette == <<clut_hash, clut_changed, vnc_clut, chunk>>
copying == <<frame_to_send, row, word, line, found, last_dirty>>
client == <<rect, got, view, cmap, primed, recoloured>>

vars == <<mac, fb_c, pc, incremental, vpPixelSize, palette, copying, dirty_cursor, client>>

-----------------------------------------------------------------------------

Cell(x, y) == y * Width + x

\* 0xFFFFFFFF, more than any column or row.
Far == Width + Height

\* xstart = -1, and xend not yet set.
CleanLine == [xstart |-> -1, xend |-> -1]

NothingFound == [lowX |-> Far, highX |-> 0, lowY |-> Far, highY |-> 0, changed |-> FALSE]

\* The chunks GetEntries fills in a mode: low depths have a short table, and a
\* driver asked for more entries than it has refuses and fills none.
ChunksOf(m) ==
  CASE m = 8               -> Chunks
    [] m \in Depths \ {8}  -> {0}
    [] OTHER               -> {}

\* What fb_getCLUTFor may leave in fb_c.  For an unlisted mode it takes the
\* depth from beyond the end of fb_vp, so any number of entries may be asked for.
TablesRead ==
  {[c \in Chunks |-> IF c \in filled THEN clut[c] ELSE fb_c[c]] :
     filled \in IF mode = Unlisted THEN {{}, {0}, Chunks} ELSE {ChunksOf(mode)}}

\* The hash of no colour table: clut_hash before the first one.  A CRC is taken
\* for the table it is computed from: no two collide, and none is zero.
NoHash == [c \in Chunks |-> -1]

WordsPerRow == Width \div PixelsPerWord[vpPixelSize]

\* The cells of the word being copied.
WordCells ==
  {Cell(word * PixelsPerWord[vpPixelSize] + j, row) : j \in 0 .. PixelsPerWord[vpPixelSize] - 1}

\* What the word may be read as: the picture, or garbage when the depth is no
\* longer the one fb_update asked for.
WordsRead ==
  IF mode = vpPixelSize
    THEN {[p \in WordCells |-> screen[p]]}
    ELSE [WordCells -> Pixels]

Unchanged(w) == \A p \in WordCells : frame_to_send[p] = w[p]

Stored(w) == [p \in Cells |-> IF p \in WordCells THEN w[p] ELSE frame_to_send[p]]

\* Mutant: xend is left at the first pixel of the word.
MarkedShort ==
  [xstart |-> IF line.xstart = -1 THEN word * PixelsPerWord[vpPixelSize] ELSE line.xstart,
   xend   |-> word * PixelsPerWord[vpPixelSize]]

\* Mutant: xend is one past the word.
MarkedPast ==
  [xstart |-> IF line.xstart = -1 THEN word * PixelsPerWord[vpPixelSize] ELSE line.xstart,
   xend   |-> (word + 1) * PixelsPerWord[vpPixelSize]]

\* xstart and xend once the word is known to have changed.
Marked ==
  [xstart |-> IF line.xstart = -1 THEN word * PixelsPerWord[vpPixelSize] ELSE line.xstart,
   xend   |-> (word + 1) * PixelsPerWord[vpPixelSize] - 1]

lineChanged == line.xstart # -1

\* Mutant: "else if" between the tests of lowYChange and highYChange.
GrownElse ==
  IF ~lineChanged THEN found
  ELSE [lowX    |-> IF line.xstart < found.lowX THEN line.xstart ELSE found.lowX,
        highX   |-> IF line.xend > found.highX THEN line.xend ELSE found.highX,
        lowY    |-> IF row < found.lowY THEN row ELSE found.lowY,
        highY   |-> IF row >= found.lowY /\ row > found.highY THEN row ELSE found.highY,
        changed |-> TRUE]

\* The dirty rectangle grown by the row just copied.
Grown ==
  IF ~lineChanged THEN found
  ELSE [lowX    |-> IF line.xstart < found.lowX THEN line.xstart ELSE found.lowX,
        highX   |-> IF line.xend > found.highX THEN line.xend ELSE found.highX,
        lowY    |-> IF row < found.lowY THEN row ELSE found.lowY,
        highY   |-> IF row > found.highY THEN row ELSE found.highY,
        changed |-> TRUE]

DirtyRect(f) ==
  IF f.changed
    THEN [x1 |-> f.lowX, x2 |-> f.highX, y1 |-> f.lowY, y2 |-> f.highY]
    ELSE [x1 |-> 0, x2 |-> 0, y1 |-> 0, y2 |-> 0]

FB_RECT_WIDTH(r) == r.x2 + 1 - r.x1
FB_RECT_HEIGHT(r) == r.y2 + 1 - r.y1

WholeScreen == [x |-> 0, y |-> 0, w |-> Width, h |-> Height]

-----------------------------------------------------------------------------

Init ==
  /\ screen = [p \in Cells |-> Blank]
  /\ clut = [c \in Chunks |-> 1]
  /\ mode \in Modes
  /\ draws = 0 /\ cluts = 0 /\ modes = 0
  /\ fb_c \in [Chunks -> {0, 1}]
  /\ pc = "idle"
  /\ incremental = FALSE
  /\ vpPixelSize = 8
  /\ clut_hash = NoHash /\ clut_changed = FALSE
  /\ vnc_clut = [c \in Chunks |-> 0]
  /\ chunk = 0
  /\ frame_to_send \in MallocFrames
  /\ row = 0 /\ word = 0 /\ line = CleanLine /\ found = NothingFound
  /\ last_dirty = DirtyRect(NothingFound)
  /\ dirty_cursor = [offset |-> 0, number_of_increments |-> 0]
  /\ rect = WholeScreen /\ got = 0
  /\ view = [p \in Cells |-> Blank]
  /\ cmap = [c \in Chunks |-> -1]
  /\ primed = FALSE /\ recoloured = FALSE

(***************************************************************************)
(* The Mac.  It never waits for the daemon.  Once the session is over it   *)
(* is of no concern here.                                                  *)
(***************************************************************************)
Draw ==
  /\ pc # "closed"
  /\ draws < MaxDraws
  /\ draws' = draws + 1
  /\ \E p \in Cells, v \in Pixels :
       /\ screen[p] # v
       /\ screen' = [screen EXCEPT ![p] = v]
  /\ UNCHANGED <<clut, mode, cluts, modes>>

SetClut ==
  /\ pc # "closed"
  /\ cluts < MaxCluts
  /\ cluts' = cluts + 1
  /\ \E c \in Chunks, v \in Colours :
       /\ clut[c] # v
       /\ Reverts \/ v = cluts + 2
       /\ clut' = [clut EXCEPT ![c] = v]
  /\ UNCHANGED <<screen, mode, draws, modes>>

SetMode ==
  /\ pc # "closed"
  /\ modes < MaxModes
  /\ modes' = modes + 1
  /\ mode' \in Modes \ {mode}
  /\ UNCHANGED <<screen, clut, draws, cluts>>

Mac ==
  /\ draws + cluts + modes < MaxChanges
  /\ Draw \/ SetClut \/ SetMode
  /\ UNCHANGED <<fb_c, pc, incremental, vpPixelSize, palette, copying, dirty_cursor, client>>

-----------------------------------------------------------------------------
(***************************************************************************)
(* A client's first request is for a whole frame; after that it asks again *)
(* whenever it has been answered.                                          *)
(***************************************************************************)
Request ==
  /\ pc = "idle"
  /\ incremental' \in IF primed THEN BOOLEAN ELSE {FALSE}
  /\ pc' = "info"
  /\ recoloured' = FALSE
  /\ UNCHANGED <<mac, fb_c, vpPixelSize, palette, copying, dirty_cursor,
                 rect, got, view, cmap, primed>>

\* fb_get_video_info: FB_METADATA never fails, FB_MODE only for a mode it has no block for.
GetVideoInfo ==
  /\ pc = "info"
  /\ IF mode = Unlisted
       THEN pc' = "closed" /\ UNCHANGED vpPixelSize
       ELSE pc' = "hash" /\ vpPixelSize' = mode
  /\ UNCHANGED <<mac, fb_c, incremental, palette, copying, dirty_cursor, client>>

\* Mutant: a change of the hash is not noticed: the table is fetched at first, and again
\* only for as long as it has not been sent.
HashClutForgetful ==
  /\ pc = "hash"
  /\ fb_c' \in TablesRead
  /\ clut_hash' = fb_c'
  /\ clut_changed' = (clut_changed \/ clut_hash = NoHash)
  /\ chunk' = 0
  /\ pc' = IF clut_changed' THEN "chunk" ELSE "copy"
  /\ UNCHANGED <<mac, incremental, vpPixelSize, vnc_clut, copying, dirty_cursor, client>>

\* FB_CLUT_HASH, and whether the table has to be fetched.
HashClut ==
  /\ pc = "hash"
  /\ fb_c' \in TablesRead
  /\ clut_hash' = fb_c'
  /\ clut_changed' = (clut_changed \/ clut_hash # fb_c')
  /\ chunk' = 0
  /\ pc' = IF clut_changed' THEN "chunk" ELSE "copy"
  /\ UNCHANGED <<mac, incremental, vpPixelSize, vnc_clut, copying, dirty_cursor, client>>

\* FB_CLUT_CHUNK: the driver reads the whole table for each chunk of it.
FetchChunk ==
  /\ pc = "chunk"
  /\ fb_c' \in TablesRead
  /\ vnc_clut' = [vnc_clut EXCEPT ![chunk] = fb_c'[chunk]]
  /\ IF chunk + 1 < NumChunks
       THEN chunk' = chunk + 1 /\ UNCHANGED pc
       ELSE chunk' = 0 /\ pc' = "copy"
  /\ UNCHANGED <<mac, incremental, vpPixelSize, clut_hash, clut_changed, copying,
                 dirty_cursor, client>>

\* Mutant: a frame of unsupported depth is left as it is.
RefuseDepthQuietly ==
  /\ pc = "copy"
  /\ vpPixelSize \notin Depths
  /\ pc' = "colourmap"
  /\ UNCHANGED <<mac, fb_c, incremental, vpPixelSize, palette, copying, dirty_cursor, client>>

\* Only indexed-colour modes are supported.
RefuseDepth ==
  /\ pc = "copy"
  /\ vpPixelSize \notin Depths
  /\ pc' = "closed"
  /\ UNCHANGED <<mac, fb_c, incremental, vpPixelSize, palette, copying, dirty_cursor, client>>

-----------------------------------------------------------------------------
(***************************************************************************)
(* One word of a row.  fb_copy_8_row reads the screen to compare and again *)
(* to store, unless the compiler kept what it had read; the others read it *)
(* once.                                                                   *)
(***************************************************************************)
CopyWord ==
  /\ pc = "copy"
  /\ vpPixelSize \in Depths
  /\ word < WordsPerRow
  /\ \E w \in WordsRead :
       \/ /\ Unchanged(w)
          /\ word' = word + 1
          /\ UNCHANGED <<pc, frame_to_send, line>>
       \/ /\ ~Unchanged(w)
          /\ frame_to_send' = Stored(w)
          /\ line' = Marked
          /\ word' = word + 1
          /\ UNCHANGED pc
       \/ /\ ~Unchanged(w)
          /\ vpPixelSize = 8
          /\ pc' = "store"
          /\ UNCHANGED <<frame_to_send, line, word>>
  /\ UNCHANGED <<mac, fb_c, incremental, vpPixelSize, palette, row, found, last_dirty,
                 dirty_cursor, client>>

\* The second read of fb_copy_8_row.
StoreWord ==
  /\ pc = "store"
  /\ \E w \in WordsRead : frame_to_send' = Stored(w)
  /\ line' = Marked
  /\ word' = word + 1
  /\ pc' = "copy"
  /\ UNCHANGED <<mac, fb_c, incremental, vpPixelSize, palette, row, found, last_dirty,
                 dirty_cursor, client>>

\* A row is done: the dirty rectangle grows; after the last row it is final.
EndRow ==
  /\ pc = "copy"
  /\ vpPixelSize \in Depths
  /\ word = WordsPerRow
  /\ word' = 0
  /\ line' = CleanLine
  /\ IF row + 1 < Height
       THEN /\ row' = row + 1
            /\ found' = Grown
            /\ UNCHANGED <<last_dirty, pc>>
       ELSE /\ row' = 0
            /\ found' = NothingFound
            /\ last_dirty' = DirtyRect(Grown)
            /\ pc' = "colourmap"
  /\ UNCHANGED <<mac, fb_c, incremental, vpPixelSize, palette, frame_to_send,
                 dirty_cursor, client>>

-----------------------------------------------------------------------------
\* Mutant: the colour map is only sent with whole frames.
SendColourmapWithFrames ==
  /\ pc = "colourmap"
  /\ IF clut_changed /\ ~incremental
       THEN cmap' = vnc_clut /\ clut_changed' = FALSE /\ recoloured' = TRUE
       ELSE UNCHANGED <<cmap, clut_changed, recoloured>>
  /\ pc' = "header"
  /\ UNCHANGED <<mac, fb_c, incremental, vpPixelSize, clut_hash, vnc_clut, chunk, copying,
                 dirty_cursor, rect, got, view, primed>>

\* vnc_upd_send_colourmap
SendColourmap ==
  /\ pc = "colourmap"
  /\ IF clut_changed
       THEN cmap' = vnc_clut /\ clut_changed' = FALSE /\ recoloured' = TRUE
       ELSE UNCHANGED <<cmap, clut_changed, recoloured>>
  /\ pc' = "header"
  /\ UNCHANGED <<mac, fb_c, incremental, vpPixelSize, clut_hash, vnc_clut, chunk, copying,
                 dirty_cursor, rect, got, view, primed>>

\* The session gives up an incremental update.
SendWhole ==
  \/ clut_changed
  \/ /\ FB_RECT_HEIGHT(last_dirty) > Height \div 2
     /\ FB_RECT_WIDTH(last_dirty) > Width \div 2

\* Mutant: the corner of the dirty rectangle and the size of the screen.
AnnouncedCorner(inc) ==
  IF inc THEN [x |-> last_dirty.x1, y |-> last_dirty.y1, w |-> Width, h |-> Height]
         ELSE WholeScreen

\* The rectangle the header announces.
Announced(inc) ==
  IF inc
    THEN [x |-> last_dirty.x1, y |-> last_dirty.y1,
          w |-> FB_RECT_WIDTH(last_dirty), h |-> FB_RECT_HEIGHT(last_dirty)]
    ELSE WholeScreen

\* fb_reset_dirty_cursor
CursorReset == [offset |-> Cell(last_dirty.x1, last_dirty.y1), number_of_increments |-> 0]

\* vnc_upd_send_hdr_raw, and on into the body of an incremental update.
SendHeader ==
  /\ pc = "header"
  /\ incremental' = (incremental /\ ~SendWhole)
  /\ rect' = Announced(incremental')
  /\ got' = 0
  /\ dirty_cursor' = IF incremental' THEN CursorReset ELSE dirty_cursor
  /\ pc' = "body"
  /\ UNCHANGED <<mac, fb_c, vpPixelSize, palette, copying, view, cmap, primed, recoloured>>

\* n pixels from a given offset of frame_to_send go out, and the client paints
\* them where rect says, row by row.
Transmit(offset, n) ==
  LET x(p)     == p % Width
      y(p)     == p \div Width
      inside(p) == /\ rect.x <= x(p) /\ x(p) < rect.x + rect.w
                   /\ rect.y <= y(p) /\ y(p) < rect.y + rect.h
      index(p) == (y(p) - rect.y) * rect.w + (x(p) - rect.x)
  IN  /\ view' = [p \in Cells |->
                    IF inside(p) /\ index(p) \in got .. got + n - 1
                      THEN frame_to_send[offset + index(p) - got]
                      ELSE view[p]]
      /\ got' = got + n

\* The whole frame in one send.
SendFrame ==
  /\ pc = "body"
  /\ ~incremental
  /\ Transmit(0, Width * Height)
  /\ primed' = TRUE
  /\ pc' = "idle"
  /\ UNCHANGED <<mac, fb_c, incremental, vpPixelSize, palette, copying, dirty_cursor,
                 rect, cmap, recoloured>>

fb_more_dirty == dirty_cursor.number_of_increments < FB_RECT_HEIGHT(last_dirty)

\* fb_advance_dirty_cursor
Advanced ==
  [offset |-> dirty_cursor.offset + Width,
   number_of_increments |-> dirty_cursor.number_of_increments + 1]

\* One row of the dirty rectangle, through the dirty cursor.
SendRow ==
  /\ pc = "body"
  /\ incremental
  /\ fb_more_dirty
  /\ Transmit(dirty_cursor.offset, FB_RECT_WIDTH(last_dirty))
  /\ dirty_cursor' = Advanced
  /\ UNCHANGED <<mac, fb_c, pc, incremental, vpPixelSize, palette, copying,
                 rect, cmap, primed, recoloured>>

EndBody ==
  /\ pc = "body"
  /\ incremental
  /\ ~fb_more_dirty
  /\ pc' = "idle"
  /\ UNCHANGED <<mac, fb_c, incremental, vpPixelSize, palette, copying, dirty_cursor, client>>

\* A send fails, or the client hangs up while the session waits for a request.
ConnectionFails ==
  /\ pc \in {"idle", "colourmap", "header", "body"}
  /\ pc' = "closed"
  /\ UNCHANGED <<mac, fb_c, incremental, vpPixelSize, palette, copying, dirty_cursor, client>>

Closed == pc = "closed" /\ UNCHANGED vars

-----------------------------------------------------------------------------

Answer ==
  \/ GetVideoInfo
  \/ HashClut
  \/ FetchChunk
  \/ RefuseDepth
  \/ CopyWord
  \/ StoreWord
  \/ EndRow
  \/ SendColourmap
  \/ SendHeader
  \/ SendFrame
  \/ SendRow
  \/ EndBody

Next ==
  \/ Mac
  \/ Request
  \/ Answer
  \/ ConnectionFails
  \/ Closed

(***************************************************************************)
(* The session is one process the system keeps running, and the client     *)
(* goes on asking.  Nothing makes the Mac change anything, and nothing     *)
(* makes a connection fail.                                                *)
(***************************************************************************)
Spec == Init /\ [][Next]_vars /\ WF_vars(Request) /\ WF_vars(Answer)

-----------------------------------------------------------------------------
\* Every variable has its type; in particular the dirty rectangle lies on the screen.
TypeOK ==
  /\ screen \in [Cells -> Pixels]
  /\ clut \in [Chunks -> Colours] /\ fb_c \in [Chunks -> Colours]
  /\ vnc_clut \in [Chunks -> Colours] /\ cmap \in [Chunks -> Colours \cup {-1}]
  /\ clut_hash \in [Chunks -> Colours \cup {-1}]
  /\ mode \in Modes /\ vpPixelSize \in Modes \cup {8}
  /\ draws \in 0 .. MaxDraws /\ cluts \in 0 .. MaxCluts /\ modes \in 0 .. MaxModes
  /\ pc \in {"idle", "info", "hash", "chunk", "copy", "store", "colourmap", "header",
             "body", "closed"}
  /\ incremental \in BOOLEAN /\ clut_changed \in BOOLEAN
  /\ primed \in BOOLEAN /\ recoloured \in BOOLEAN
  /\ chunk \in Chunks
  /\ frame_to_send \in [Cells -> Pixels] /\ view \in [Cells -> Pixels]
  /\ row \in Rows /\ word \in 0 .. Width
  /\ line \in [xstart : Columns \cup {-1}, xend : Columns \cup {-1}]
  /\ found \in [lowX : Columns \cup {Far}, highX : Columns,
                lowY : Rows \cup {Far}, highY : Rows, changed : BOOLEAN]
  /\ last_dirty \in [x1 : Columns, x2 : Columns, y1 : Rows, y2 : Rows]
  /\ dirty_cursor \in [offset : Nat, number_of_increments : 0 .. Height]
  /\ rect \in [x : Columns, y : Rows, w : 1 .. Width, h : 1 .. Height]
  /\ got \in 0 .. Width * Height

(***************************************************************************)
(* When an answer is complete, a client that has once had a whole frame    *)
(* shows exactly frame_to_send: every word that fb_update changed lies in  *)
(* the rectangle it reports (frame_buffer.c:25-27), whatever the Mac drew  *)
(* meanwhile, and the rows read through the dirty cursor land where the    *)
(* header said.  Otherwise a pixel could stay wrong for ever: fb_update    *)
(* would never see it change again.                                        *)
(***************************************************************************)
ClientMirrors == pc = "idle" /\ primed => view = frame_to_send

(***************************************************************************)
(* The body of an answer has as many pixels as its header announced        *)
(* (session.c:517-524 against 534-546): one more or less, and the client   *)
(* would take pixels for the next message, or wait for ever.               *)
(***************************************************************************)
BodyFillsRect == pc = "idle" /\ primed => got = rect.w * rect.h

(***************************************************************************)
(* Pixels are sent after the colour map they are meant for                 *)
(* (session.c:553-558): when a body goes out, the client's map is the one  *)
(* fetched last.                                                           *)
(***************************************************************************)
ColoursBeforePixels == pc = "body" => cmap = vnc_clut

(***************************************************************************)
(* "if the CLUT has changed, or if more than a quarter of the screen has   *)
(* changed, it gives a better user experience to throw the whole screen at *)
(* send()" (session.c:501-506): an answer with a colour map has a whole    *)
(* frame.                                                                  *)
(***************************************************************************)
WholeAfterClutChange == pc = "body" /\ recoloured => rect = WholeScreen

(***************************************************************************)
(* If the Mac comes to rest, then the client comes to show its screen,     *)
(* even when what was on the way then was torn or read at the wrong depth, *)
(* unless the session ends.                                                *)
(***************************************************************************)
FrameConverges == <>[](pc = "closed" \/ view = screen)

(***************************************************************************)
(* Likewise the client comes to have the Mac's colours: fb_update_clut     *)
(* (frame_buffer.c:78-112) notices every change of the table in the end.   *)
(***************************************************************************)
ClutConverges ==
  <>[](pc = "closed" \/ \A c \in ChunksOf(mode) : cmap[c] = clut[c])
=============================================================================

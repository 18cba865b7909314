------------------------- MODULE FrameUpdateProofs -------------------------
(***************************************************************************)
(* The safety of an update (app/frame_buffer.c, and the part of session.c  *)
(* that sends it) for every size of the screen, every set of depths, every *)
(* length of the colour table, and whatever the Mac does meanwhile: the    *)
(* invariants of FrameUpdate are consequences of Inv, which every step     *)
(* preserves.                                                              *)
(***************************************************************************)
EXTENDS FrameUpdate, TLAPS

\* The column and the row of a cell.
X(p) == p % Width
Y(p) == p \div Width

\* The cells that the client does not show as they are in frame_to_send.
Stale == {p \in Cells : view[p] # frame_to_send[p]}

\* The cell lies in the rectangle that fb_update has found so far.
InFound(p) ==
  /\ found.changed
  /\ found.lowX <= X(p) /\ X(p) <= found.highX
  /\ found.lowY <= Y(p) /\ Y(p) <= found.highY

\* The cell lies between xstart and xend of the row being copied.
InLine(p) ==
  /\ lineChanged
  /\ Y(p) = row
  /\ line.xstart <= X(p) /\ X(p) <= line.xend

\* The cell lies in the rectangle that fb_update has reported.
InDirtyRect(p) ==
  /\ last_dirty.x1 <= X(p) /\ X(p) <= last_dirty.x2
  /\ last_dirty.y1 <= Y(p) /\ Y(p) <= last_dirty.y2

\* Where fb_update and fb_copy_n_row are in the frame: at rest outside them, and the
\* span of changed words of a row ends before the next word to copy.
Progress ==
  /\ pc \in {"idle", "info", "hash", "chunk", "colourmap", "header", "body"} =>
       row = 0 /\ word = 0 /\ line = CleanLine /\ found = NothingFound
  /\ pc \in {"copy", "store"} /\ vpPixelSize \in Depths =>
       /\ word <= WordsPerRow
       /\ lineChanged =>
            line.xstart <= line.xend /\ line.xend < word * PixelsPerWord[vpPixelSize]
  /\ pc = "store" => vpPixelSize = 8 /\ word < WordsPerRow
  /\ pc = "copy" /\ vpPixelSize \notin Depths =>
       row = 0 /\ word = 0 /\ line = CleanLine /\ found = NothingFound

\* What is found is a rectangle of rows already copied; the rectangle reported is never
\* empty.
Rectangles ==
  /\ IF found.changed
       THEN /\ found.lowX \in Columns /\ found.lowX <= found.highX
            /\ found.lowY \in Rows /\ found.lowY <= found.highY
            /\ found.highY < row
       ELSE found = NothingFound
  /\ last_dirty.x1 <= last_dirty.x2 /\ last_dirty.y1 <= last_dirty.y2

\* Half way through a body: the dirty cursor, the rectangle announced and the pixels
\* received agree on how many rows have gone out.
Body ==
  /\ incremental => primed
  /\ pc = "body" =>
       IF incremental
         THEN /\ rect = Announced(TRUE)
              /\ dirty_cursor.number_of_increments <= FB_RECT_HEIGHT(last_dirty)
              /\ dirty_cursor.offset =
                   Cell(last_dirty.x1, last_dirty.y1 + dirty_cursor.number_of_increments)
              /\ got = dirty_cursor.number_of_increments * FB_RECT_WIDTH(last_dirty)
         ELSE rect = WholeScreen /\ got = 0
  /\ BodyFillsRect

\* Unless a change of the colour table is still to be sent, the client's map is the
\* table fetched last.
Palette ==
  /\ clut_hash # NoHash /\ ~clut_changed => cmap = vnc_clut
  /\ pc = "chunk" => clut_changed
  /\ pc \in {"chunk", "copy", "store", "colourmap", "header", "body"} => clut_hash # NoHash
  /\ pc \in {"header", "body"} => ~clut_changed

\* Every cell the client does not show as frame_to_send has it is on record: in the row
\* or the rectangle being found, then in the rectangle reported, then in a row of it
\* that the dirty cursor has still to reach.  Between answers there is none.
Covered ==
  primed =>
    \A p \in Stale :
      /\ pc \notin {"idle", "info", "hash", "chunk"}
      /\ pc \in {"copy", "store"} => InFound(p) \/ InLine(p)
      /\ pc \in {"colourmap", "header", "body"} => InDirtyRect(p)
      /\ pc = "body" /\ incremental =>
           Y(p) >= last_dirty.y1 + dirty_cursor.number_of_increments

Inv == TypeOK /\ Progress /\ Rectangles /\ Body /\ Palette /\ Covered

\* A cell has a column and a row, and they give the cell back.
LEMMA PlaceOf ==
  ASSUME NEW p \in Cells
  PROVE  X(p) \in Columns /\ Y(p) \in Rows /\ Cell(X(p), Y(p)) = p
<1>1. p \in Nat /\ p < Width * Height /\ Width \in Nat \ {0} /\ Height \in Nat \ {0}
  BY SizeAssumption DEF Cells
<1>2. p = Width * (p \div Width) + (p % Width)
  BY <1>1
<1>3. p % Width \in 0 .. Width - 1 /\ p \div Width \in Nat
  BY <1>1
<1>4. p \div Width < Height
  BY <1>1, <1>2, <1>3
<1>5. QED BY <1>1, <1>2, <1>3, <1>4 DEF Columns, Rows, Cell, X, Y

\* A column and a row have a cell, and it gives them back.
LEMMA CellOf ==
  ASSUME NEW x \in Columns, NEW y \in Rows
  PROVE  Cell(x, y) \in Cells /\ X(Cell(x, y)) = x /\ Y(Cell(x, y)) = y
<1>1. /\ x \in Nat /\ y \in Nat /\ x < Width /\ y < Height
      /\ Width \in Nat \ {0} /\ Height \in Nat \ {0}
  BY SizeAssumption DEF Columns, Rows
<1>2. y * Width + x \in Nat /\ y * Width + x < Width * Height
  BY <1>1
<1>3. (y * Width + x) \div Width = y
  BY <1>1
<1>4. (y * Width + x) % Width = x
  BY <1>1
<1>5. QED BY <1>1, <1>2, <1>3, <1>4 DEF Cells, Cell, X, Y

\* A word that is left to copy lies in one row of the screen, as many pixels wide as
\* the depth says: the copiers never run past the end of a row.
LEMMA WordOf ==
  ASSUME Inv, vpPixelSize \in Depths, word < WordsPerRow
  PROVE  /\ PixelsPerWord[vpPixelSize] \in Nat \ {0}
         /\ word * PixelsPerWord[vpPixelSize] \in Columns
         /\ (word + 1) * PixelsPerWord[vpPixelSize] - 1 \in Columns
         /\ word * PixelsPerWord[vpPixelSize] <= (word + 1) * PixelsPerWord[vpPixelSize] - 1
         /\ WordsPerRow <= Width
         /\ \A p \in WordCells :
              /\ p \in Cells /\ Y(p) = row
              /\ word * PixelsPerWord[vpPixelSize] <= X(p)
              /\ X(p) <= (word + 1) * PixelsPerWord[vpPixelSize] - 1
<1> DEFINE n == PixelsPerWord[vpPixelSize]
<1>1. n \in Nat \ {0} /\ Width % n = 0 /\ Width \in Nat \ {0}
  BY WordAssumption, SizeAssumption
<1>2. word \in Nat /\ row \in Rows
  BY DEF Inv, TypeOK
<1>3. Width = n * (Width \div n)
  BY <1>1
<1>4. Width \div n \in Nat /\ Width \div n <= Width
  BY <1>1, <1>3
<1>5. word + 1 <= Width \div n
  BY <1>2, <1>4 DEF WordsPerRow
<1>6. n * (word + 1) <= Width
  BY <1>1, <1>2, <1>3, <1>4, <1>5
<1>7. word * n \in Columns /\ (word + 1) * n - 1 \in Columns /\ word * n <= (word + 1) * n - 1
  BY <1>1, <1>2, <1>6 DEF Columns
<1>8. ASSUME NEW j \in 0 .. n - 1
      PROVE  word * n + j \in Columns /\ word * n <= word * n + j /\ word * n + j <= (word + 1) * n - 1
  BY <1>1, <1>2, <1>6 DEF Columns
<1>9. \A p \in WordCells : p \in Cells /\ Y(p) = row /\ word * n <= X(p) /\ X(p) <= (word + 1) * n - 1
  BY <1>2, <1>8, CellOf DEF WordCells
<1>10. QED BY <1>1, <1>4, <1>7, <1>9 DEF WordsPerRow

\* The invariant holds when a session starts, whatever malloc has returned.
LEMMA Start == Init => Inv
<1> SUFFICES ASSUME Init PROVE Inv
  OBVIOUS
<1> USE SizeAssumption, BoundAssumption, PixelAssumption DEF Init
<1>1. TypeOK
  <2>1. 0 \in Columns /\ 0 \in Rows /\ 0 \in Chunks /\ Far \in Nat
    BY DEF Columns, Rows, Chunks, Far
  <2>2. frame_to_send \in [Cells -> Pixels]
    BY MallocAssumption
  <2>3. /\ clut \in [Chunks -> Colours] /\ fb_c \in [Chunks -> Colours]
        /\ vnc_clut \in [Chunks -> Colours] /\ cmap \in [Chunks -> Colours \cup {-1}]
        /\ clut_hash \in [Chunks -> Colours \cup {-1}]
    BY DEF Colours, NoHash
  <2>4. found \in [lowX : Columns \cup {Far}, highX : Columns,
                   lowY : Rows \cup {Far}, highY : Rows, changed : BOOLEAN]
    BY <2>1 DEF NothingFound
  <2>5. last_dirty \in [x1 : Columns, x2 : Columns, y1 : Rows, y2 : Rows]
    BY <2>1 DEF DirtyRect, NothingFound
  <2>6. rect \in [x : Columns, y : Rows, w : 1 .. Width, h : 1 .. Height]
    BY <2>1 DEF WholeScreen
  <2>7. dirty_cursor \in [offset : Nat, number_of_increments : 0 .. Height]
    OBVIOUS
  <2>8. line \in [xstart : Columns \cup {-1}, xend : Columns \cup {-1}]
    BY DEF CleanLine
  <2>9. got \in 0 .. Width * Height /\ word \in 0 .. Width
    OBVIOUS
  <2>10. screen \in [Cells -> Pixels] /\ view \in [Cells -> Pixels]
    OBVIOUS
  <2>11. /\ mode \in Modes /\ vpPixelSize \in Modes \cup {8}
         /\ chunk \in Chunks /\ row \in Rows
    BY <2>1
  <2>12. draws \in 0 .. MaxDraws /\ cluts \in 0 .. MaxCluts /\ modes \in 0 .. MaxModes
    BY <2>1
  <2>13. /\ pc = "idle" /\ incremental \in BOOLEAN /\ clut_changed \in BOOLEAN
         /\ primed \in BOOLEAN /\ recoloured \in BOOLEAN
    BY <2>1
  <2> HIDE DEF Init
  <2>14. QED
    BY <2>2, <2>3, <2>4, <2>5, <2>6, <2>7, <2>8, <2>9, <2>10, <2>11, <2>12, <2>13 DEF TypeOK
<1>2. Progress
  BY DEF Progress
<1>3. Rectangles
  BY DEF Rectangles, NothingFound, DirtyRect
<1>4. Body
  BY DEF Body, BodyFillsRect
<1>5. Palette
  BY DEF Palette
<1>6. Covered
  BY DEF Covered
<1>7. QED BY <1>1, <1>2, <1>3, <1>4, <1>5, <1>6 DEF Inv


\* What the driver may leave in fb_c is a colour table, and is never taken for none.
LEMMA ReadTables ==
  ASSUME TypeOK, NEW t \in TablesRead
  PROVE  t \in [Chunks -> Colours] /\ t # NoHash /\ t \in [Chunks -> Colours \cup {-1}]
<1>1. t \in [Chunks -> Colours]
  BY DEF TablesRead, TypeOK
<1>2. 0 \in Chunks /\ -1 \notin Colours
  BY BoundAssumption DEF Chunks, Colours
<1>3. t[0] # NoHash[0]
  BY <1>1, <1>2 DEF NoHash
<1>4. QED BY <1>1, <1>3

\* A word read from the screen, torn or of another depth, is a word of pixels.
LEMMA ReadWords ==
  ASSUME Inv, vpPixelSize \in Depths, word < WordsPerRow, NEW w \in WordsRead
  PROVE  w \in [WordCells -> Pixels] /\ Stored(w) \in [Cells -> Pixels]
<1>1. WordCells \subseteq Cells
  BY WordOf
<1>2. screen \in [Cells -> Pixels] /\ frame_to_send \in [Cells -> Pixels]
  BY DEF Inv, TypeOK
<1>3. w \in [WordCells -> Pixels]
  BY <1>1, <1>2 DEF WordsRead
<1>4. QED BY <1>1, <1>2, <1>3 DEF Stored

\* The Mac may draw, change colours and change depth at any moment.
LEMMA MacStep == Inv /\ Mac => Inv'
<1> SUFFICES ASSUME Inv, Mac PROVE Inv'
  OBVIOUS
<1>1. UNCHANGED <<fb_c, pc, incremental, vpPixelSize, palette, copying, dirty_cursor, client>>
  BY DEF Mac
<1>2. /\ screen' \in [Cells -> Pixels] /\ clut' \in [Chunks -> Colours] /\ mode' \in Modes
      /\ draws' \in 0 .. MaxDraws /\ cluts' \in 0 .. MaxCluts /\ modes' \in 0 .. MaxModes
  <2>1. CASE Draw
    BY <2>1, BoundAssumption DEF Draw, Inv, TypeOK
  <2>2. CASE SetClut
    BY <2>2, BoundAssumption DEF SetClut, Inv, TypeOK
  <2>3. CASE SetMode
    BY <2>3, BoundAssumption DEF SetMode, Inv, TypeOK
  <2>4. QED BY <2>1, <2>2, <2>3 DEF Mac
<1>3. TypeOK'
  BY <1>1, <1>2 DEF Inv, TypeOK, palette, copying, client
<1>4. Progress' /\ Rectangles'
  BY <1>1 DEF Inv, Progress, Rectangles, copying, WordsPerRow, lineChanged
<1>5. Body'
  BY <1>1 DEF Inv, Body, BodyFillsRect, Announced, copying, client
<1>6. Palette'
  BY <1>1 DEF Inv, Palette, palette, client
<1>7. Covered'
  BY <1>1 DEF Inv, Covered, Stale, InFound, InLine, InDirtyRect, lineChanged, copying, client
<1>8. QED BY <1>3, <1>4, <1>5, <1>6, <1>7 DEF Inv

\* A request arrives: only a client that has had a whole frame is sent less.
LEMMA RequestStep == Inv /\ Request => Inv'
<1> SUFFICES ASSUME Inv, Request PROVE Inv'
  OBVIOUS
<1>1. /\ UNCHANGED <<mac, fb_c, vpPixelSize, palette, copying, dirty_cursor,
                     rect, got, view, cmap, primed>>
      /\ pc = "idle" /\ pc' = "info" /\ recoloured' = FALSE
      /\ incremental' \in BOOLEAN /\ (incremental' => primed)
  <2>1. primed \in BOOLEAN
    BY DEF Inv, TypeOK
  <2>2. QED BY <2>1 DEF Request
<1>2. TypeOK'
  BY <1>1 DEF Inv, TypeOK, mac, palette, copying
<1>3. Progress' /\ Rectangles'
  BY <1>1 DEF Inv, Progress, Rectangles, copying
<1>4. Body'
  BY <1>1 DEF Inv, Body, BodyFillsRect
<1>5. Palette'
  BY <1>1 DEF Inv, Palette, palette
<1>6. Covered'
  BY <1>1 DEF Inv, Covered, Stale, copying
<1>7. QED BY <1>2, <1>3, <1>4, <1>5, <1>6 DEF Inv

\* The depth is asked for.
LEMMA GetVideoInfoStep == Inv /\ GetVideoInfo => Inv'
<1> SUFFICES ASSUME Inv, GetVideoInfo PROVE Inv'
  OBVIOUS
<1>1. /\ UNCHANGED <<mac, fb_c, incremental, palette, copying, dirty_cursor, client>>
      /\ pc = "info" /\ pc' \in {"closed", "hash"} /\ vpPixelSize' \in {vpPixelSize, mode}
  BY DEF GetVideoInfo
<1>2. TypeOK'
  BY <1>1 DEF Inv, TypeOK, mac, palette, copying, client
<1>3. Progress' /\ Rectangles'
  BY <1>1 DEF Inv, Progress, Rectangles, copying
<1>4. Body'
  BY <1>1 DEF Inv, Body, BodyFillsRect, client
<1>5. Palette'
  BY <1>1 DEF Inv, Palette, palette, client
<1>6. Covered'
  BY <1>1 DEF Inv, Covered, Stale, copying, client
<1>7. QED BY <1>2, <1>3, <1>4, <1>5, <1>6 DEF Inv

\* The hash of the colour table is compared: a new one leaves a change to be sent.
LEMMA HashClutStep == Inv /\ HashClut => Inv'
<1> SUFFICES ASSUME Inv, HashClut PROVE Inv'
  OBVIOUS
<1>1. /\ UNCHANGED <<mac, incremental, vpPixelSize, vnc_clut, copying, dirty_cursor, client>>
      /\ pc = "hash" /\ pc' = (IF clut_changed' THEN "chunk" ELSE "copy")
      /\ clut_hash' = fb_c' /\ chunk' = 0
      /\ clut_changed' = (clut_changed \/ clut_hash # fb_c')
  BY DEF HashClut
<1>2. /\ fb_c' \in [Chunks -> Colours] /\ fb_c' # NoHash
      /\ clut_hash' \in [Chunks -> Colours \cup {-1}]
  BY <1>1, ReadTables DEF HashClut, Inv
<1>3. 0 \in Chunks /\ clut_changed' \in BOOLEAN /\ pc' \in {"chunk", "copy"}
  BY <1>1, BoundAssumption DEF Chunks
<1>4. TypeOK'
  BY <1>1, <1>2, <1>3 DEF Inv, TypeOK, mac, copying, client
<1>5. Progress' /\ Rectangles'
  <2>1. row = 0 /\ word = 0 /\ line = CleanLine /\ found = NothingFound
    BY <1>1 DEF Inv, Progress
  <2>2. vpPixelSize \in Depths => 0 <= WordsPerRow
    BY WordAssumption, SizeAssumption DEF WordsPerRow
  <2>3. ~lineChanged
    BY <2>1 DEF lineChanged, CleanLine
  <2>4. QED
    BY <1>1, <1>3, <2>1, <2>2, <2>3 DEF Inv, Progress, Rectangles, copying, WordsPerRow, lineChanged
<1>6. Body'
  BY <1>1, <1>3 DEF Inv, Body, BodyFillsRect, client
<1>7. Palette'
  BY <1>1, <1>2, <1>3 DEF Inv, Palette, client
<1>8. Covered'
  BY <1>1, <1>3 DEF Inv, Covered, Stale, copying, client
<1>9. QED BY <1>4, <1>5, <1>6, <1>7, <1>8 DEF Inv

\* A chunk of the colour table is fetched; the change stays on record.
LEMMA FetchChunkStep == Inv /\ FetchChunk => Inv'
<1> SUFFICES ASSUME Inv, FetchChunk PROVE Inv'
  OBVIOUS
<1>1. /\ UNCHANGED <<mac, incremental, vpPixelSize, clut_hash, clut_changed, copying,
                     dirty_cursor, client>>
      /\ pc = "chunk" /\ pc' \in {"chunk", "copy"}
      /\ vnc_clut' = [vnc_clut EXCEPT ![chunk] = fb_c'[chunk]]
  BY DEF FetchChunk
<1>2. fb_c' \in [Chunks -> Colours]
  BY ReadTables DEF FetchChunk, Inv
<1>3. vnc_clut' \in [Chunks -> Colours] /\ chunk' \in Chunks
  BY <1>1, <1>2, BoundAssumption DEF Inv, TypeOK, FetchChunk, Chunks
<1>4. TypeOK'
  BY <1>1, <1>2, <1>3 DEF Inv, TypeOK, mac, copying, client
<1>5. Progress' /\ Rectangles'
  <2>1. row = 0 /\ word = 0 /\ line = CleanLine /\ found = NothingFound
    BY <1>1 DEF Inv, Progress
  <2>2. vpPixelSize \in Depths => 0 <= WordsPerRow
    BY WordAssumption, SizeAssumption DEF WordsPerRow
  <2>3. ~lineChanged
    BY <2>1 DEF lineChanged, CleanLine
  <2>4. QED
    BY <1>1, <2>1, <2>2, <2>3 DEF Inv, Progress, Rectangles, copying, WordsPerRow, lineChanged
<1>6. Body'
  BY <1>1 DEF Inv, Body, BodyFillsRect, client
<1>7. Palette'
  BY <1>1 DEF Inv, Palette
<1>8. Covered'
  BY <1>1 DEF Inv, Covered, Stale, copying, client
<1>9. QED BY <1>4, <1>5, <1>6, <1>7, <1>8 DEF Inv

\* The session ends: whatever it was about, nothing is disturbed.
LEMMA EndOfSession ==
  ASSUME Inv, pc' = "closed",
         UNCHANGED <<mac, fb_c, incremental, vpPixelSize, palette, copying, dirty_cursor, client>>
  PROVE  Inv'
<1>1. TypeOK'
  BY DEF Inv, TypeOK, mac, palette, copying, client
<1>2. Progress' /\ Rectangles'
  BY DEF Inv, Progress, Rectangles, copying
<1>3. Body'
  BY DEF Inv, Body, BodyFillsRect, client
<1>4. Palette'
  BY DEF Inv, Palette, palette, client
<1>5. Covered'
  BY DEF Inv, Covered, Stale, copying, client
<1>6. QED BY <1>1, <1>2, <1>3, <1>4, <1>5 DEF Inv


\* When a word has changed, xstart and xend come to span it and what they spanned
\* before, and nothing to its right.
LEMMA MarkedLine ==
  ASSUME Inv, pc \in {"copy", "store"}, vpPixelSize \in Depths, word < WordsPerRow
  PROVE  /\ Marked.xstart \in Columns /\ Marked.xend \in Columns
         /\ Marked.xstart <= Marked.xend
         /\ Marked.xend < (word + 1) * PixelsPerWord[vpPixelSize]
         /\ Marked \in [xstart : Columns \cup {-1}, xend : Columns \cup {-1}]
         /\ Marked.xstart # -1
         /\ \A p \in WordCells : Marked.xstart <= X(p) /\ X(p) <= Marked.xend
         /\ lineChanged => Marked.xstart = line.xstart /\ line.xend <= Marked.xend
<1> DEFINE n == PixelsPerWord[vpPixelSize]
<1>1. /\ word * n \in Columns /\ (word + 1) * n - 1 \in Columns /\ n \in Nat \ {0}
      /\ word * n <= (word + 1) * n - 1
  BY WordOf
<1>2. line \in [xstart : Columns \cup {-1}, xend : Columns \cup {-1}]
  BY DEF Inv, TypeOK
<1>3. lineChanged => line.xstart <= line.xend /\ line.xend < word * n
  BY DEF Inv, Progress
<1>4. word * n \in Nat /\ (word + 1) * n \in Nat /\ Columns \subseteq Nat /\ -1 \notin Columns
  <2>1. Columns \subseteq Nat /\ -1 \notin Columns
    BY DEF Columns
  <2>2. word \in Nat
    BY DEF Inv, TypeOK
  <2>3. QED BY <1>1, <2>1, <2>2
<1>5. /\ Marked.xstart = (IF line.xstart = -1 THEN word * n ELSE line.xstart)
      /\ Marked.xend = (word + 1) * n - 1
      /\ Marked = [xstart |-> Marked.xstart, xend |-> Marked.xend]
  BY DEF Marked
<1> HIDE DEF n
<1>6. Marked.xstart \in Columns /\ Marked.xstart <= word * n
  BY <1>1, <1>2, <1>3, <1>4, <1>5 DEF lineChanged
<1>7. \A p \in WordCells : /\ p \in Cells
                           /\ word * n <= X(p) /\ X(p) <= (word + 1) * n - 1
  BY WordOf DEF n
<1>8. \A p \in WordCells : Marked.xstart <= X(p) /\ X(p) <= Marked.xend
  <2>1. TAKE p \in WordCells
  <2>2. X(p) \in Nat
    BY <1>4, <1>7, PlaceOf
  <2>3. QED BY <2>2, <1>4, <1>5, <1>6, <1>7
<1>9. lineChanged => Marked.xstart = line.xstart /\ line.xend <= Marked.xend
  <2>1. SUFFICES ASSUME lineChanged PROVE Marked.xstart = line.xstart /\ line.xend <= Marked.xend
    OBVIOUS
  <2>2. line.xend \in Columns
    <3>1. line.xstart \in Columns \cup {-1} /\ line.xend \in Columns \cup {-1}
      BY <1>2
    <3>2. line.xstart \in Nat /\ line.xstart <= line.xend
      BY <2>1, <3>1, <1>3, <1>4 DEF lineChanged
    <3>3. QED BY <3>1, <3>2
  <2>3. line.xend < word * n /\ word * n <= (word + 1) * n - 1
    BY <2>1, <1>1, <1>3
  <2>4. QED BY <2>1, <2>2, <2>3, <1>4, <1>5 DEF lineChanged
<1>10. Marked \in [xstart : Columns \cup {-1}, xend : Columns \cup {-1}]
  BY <1>1, <1>5, <1>6
<1>11. /\ Marked.xend \in Columns /\ Marked.xstart <= Marked.xend /\ Marked.xstart # -1
       /\ Marked.xend < (word + 1) * n
  BY <1>1, <1>4, <1>5, <1>6
<1>12. QED BY <1>6, <1>8, <1>9, <1>10, <1>11 DEF n

\* A changed word is stored: each cell of it that the client does not show lies in the
\* span of its row.  It may be another word than the one compared.
LEMMA StoredWord ==
  ASSUME Inv, pc \in {"copy", "store"}, vpPixelSize \in Depths, word < WordsPerRow,
         NEW w \in WordsRead, frame_to_send' = Stored(w), line' = Marked,
         word' = word + 1, pc' = "copy",
         UNCHANGED <<mac, fb_c, incremental, vpPixelSize, palette, row, found, last_dirty,
                     dirty_cursor, client>>
  PROVE  Inv'
<1>1. word' \in 0 .. Width /\ word' <= WordsPerRow
  BY WordOf, SizeAssumption, WordAssumption DEF Inv, TypeOK, WordsPerRow
<1>2. /\ frame_to_send' \in [Cells -> Pixels]
      /\ line' \in [xstart : Columns \cup {-1}, xend : Columns \cup {-1}]
  BY ReadWords, MarkedLine
<1>3. TypeOK'
  BY <1>1, <1>2 DEF Inv, TypeOK, mac, palette, client
<1>4. Progress'
  <2>1. line'.xstart <= line'.xend /\ line'.xend < word' * PixelsPerWord[vpPixelSize]
    BY MarkedLine
  <2>2. WordsPerRow' = WordsPerRow /\ vpPixelSize' = vpPixelSize
    BY DEF WordsPerRow
  <2>3. QED BY <1>1, <2>1, <2>2 DEF Progress
<1>5. Rectangles'
  BY DEF Inv, Rectangles
<1>6. Body'
  BY DEF Inv, Body, BodyFillsRect, client
<1>7. Palette'
  BY DEF Inv, Palette, palette, client
<1>8. Covered'
  <2>1. SUFFICES ASSUME primed', NEW p \in Stale' PROVE (InFound(p) \/ InLine(p))'
    BY DEF Covered
  <2>2. p \in Cells /\ view[p] # Stored(w)[p] /\ primed
    BY <2>1 DEF Stale, client
  <2>3. CASE p \in WordCells
    <3>1. Y(p) = row /\ Marked.xstart <= X(p) /\ X(p) <= Marked.xend /\ Marked.xstart # -1
      BY <2>3, MarkedLine, WordOf
    <3>2. QED BY <3>1 DEF InLine, lineChanged
  <2>4. CASE p \notin WordCells
    <3>1. p \in Stale
      BY <2>2, <2>4 DEF Stale, Stored
    <3>2. InFound(p) \/ InLine(p)
      BY <2>2, <3>1 DEF Inv, Covered
    <3>3. ASSUME InLine(p) PROVE InLine(p)'
      <4>1. lineChanged /\ Y(p) = row /\ line.xstart <= X(p) /\ X(p) <= line.xend
        BY <3>3 DEF InLine
      <4>2. X(p) \in Nat /\ Marked.xend \in Nat
        BY <2>2, PlaceOf, MarkedLine DEF Columns
      <4>3. line.xend \in Int
        BY DEF Inv, TypeOK, Columns
      <4>4. Marked.xstart = line.xstart /\ line.xend <= Marked.xend /\ Marked.xstart # -1
        BY <4>1, MarkedLine
      <4>5. QED BY <4>1, <4>2, <4>3, <4>4 DEF InLine, lineChanged
    <3>4. ASSUME InFound(p) PROVE InFound(p)'
      BY <3>4 DEF InFound
    <3>5. QED BY <3>2, <3>3, <3>4
  <2>5. QED BY <2>3, <2>4
<1>9. QED BY <1>3, <1>4, <1>5, <1>6, <1>7, <1>8 DEF Inv

\* A word is compared, and stored unless the copier is to read it again.
LEMMA CopyWordStep == Inv /\ CopyWord => Inv'
<1> SUFFICES ASSUME Inv, CopyWord PROVE Inv'
  OBVIOUS
<1>1. /\ UNCHANGED <<mac, fb_c, incremental, vpPixelSize, palette, row, found, last_dirty,
                     dirty_cursor, client>>
      /\ pc = "copy" /\ vpPixelSize \in Depths /\ word < WordsPerRow
  BY DEF CopyWord
<1>2. PICK w \in WordsRead :
        \/ /\ word' = word + 1
           /\ UNCHANGED <<pc, frame_to_send, line>>
        \/ /\ frame_to_send' = Stored(w)
           /\ line' = Marked
           /\ word' = word + 1
           /\ UNCHANGED pc
        \/ /\ vpPixelSize = 8
           /\ pc' = "store"
           /\ UNCHANGED <<frame_to_send, line, word>>
  BY DEF CopyWord
<1>3. CASE word' = word + 1 /\ UNCHANGED <<pc, frame_to_send, line>>
  <2>1. word' \in 0 .. Width /\ word' <= WordsPerRow
    BY <1>1, <1>3, WordOf, SizeAssumption, WordAssumption DEF Inv, TypeOK, WordsPerRow
  <2>2. TypeOK'
    BY <1>1, <1>3, <2>1 DEF Inv, TypeOK, mac, palette, client
  <2>3. Progress'
    <3> DEFINE n == PixelsPerWord[vpPixelSize]
    <3>1. n \in Nat /\ word \in Nat
      BY <1>1, WordOf DEF Inv, TypeOK
    <3>2. ASSUME lineChanged PROVE line.xstart <= line.xend /\ line.xend < word' * n
      <4>1. line.xend \in Int
        BY DEF Inv, TypeOK, Columns
      <4>2. line.xstart <= line.xend /\ line.xend < word * n
        BY <1>1, <3>2 DEF Inv, Progress
      <4>3. word' * n = word * n + n /\ word * n \in Nat
        BY <1>3, <3>1
      <4>4. QED BY <3>1, <4>1, <4>2, <4>3
    <3>3. WordsPerRow' = WordsPerRow /\ (lineChanged' <=> lineChanged)
      BY <1>1, <1>3 DEF WordsPerRow, lineChanged
    <3>4. QED BY <1>1, <1>3, <2>1, <3>2, <3>3 DEF Progress
  <2>4. Rectangles'
    BY <1>1 DEF Inv, Rectangles
  <2>5. Body'
    BY <1>1, <1>3 DEF Inv, Body, BodyFillsRect, client
  <2>6. Palette'
    BY <1>1, <1>3 DEF Inv, Palette, palette, client
  <2>7. Covered'
    BY <1>1, <1>3 DEF Inv, Covered, Stale, InFound, InLine, lineChanged, client
  <2>8. QED BY <2>2, <2>3, <2>4, <2>5, <2>6, <2>7 DEF Inv
<1>4. CASE frame_to_send' = Stored(w) /\ line' = Marked /\ word' = word + 1 /\ UNCHANGED pc
  BY <1>1, <1>4, StoredWord
<1>5. CASE vpPixelSize = 8 /\ pc' = "store" /\ UNCHANGED <<frame_to_send, line, word>>
  <2>1. TypeOK'
    BY <1>1, <1>5 DEF Inv, TypeOK, mac, palette, client
  <2>2. Progress' /\ Rectangles'
    BY <1>1, <1>5 DEF Inv, Progress, Rectangles, WordsPerRow, lineChanged
  <2>3. Body'
    BY <1>1, <1>5 DEF Inv, Body, BodyFillsRect, client
  <2>4. Palette'
    BY <1>1, <1>5 DEF Inv, Palette, palette, client
  <2>5. Covered'
    BY <1>1, <1>5 DEF Inv, Covered, Stale, InFound, InLine, lineChanged, client
  <2>6. QED BY <2>1, <2>2, <2>3, <2>4, <2>5 DEF Inv
<1>6. QED BY <1>2, <1>3, <1>4, <1>5

\* A word is stored after a second read of the screen.
LEMMA StoreWordStep == Inv /\ StoreWord => Inv'
<1> SUFFICES ASSUME Inv, StoreWord PROVE Inv'
  OBVIOUS
<1>1. pc = "store" /\ vpPixelSize \in Depths /\ word < WordsPerRow
  BY ModeAssumption DEF StoreWord, Inv, Progress
<1>2. PICK w \in WordsRead : frame_to_send' = Stored(w)
  BY DEF StoreWord
<1>3. QED BY <1>1, <1>2, StoredWord DEF StoreWord


\* At the end of a row the rectangle found takes in the span of the row and loses no
\* cell.
LEMMA GrownRectangle ==
  ASSUME Inv, pc = "copy", vpPixelSize \in Depths
  PROVE  /\ Grown \in [lowX : Columns \cup {Far}, highX : Columns,
                       lowY : Rows \cup {Far}, highY : Rows, changed : BOOLEAN]
         /\ IF Grown.changed
              THEN /\ Grown.lowX \in Columns /\ Grown.lowX <= Grown.highX
                   /\ Grown.lowY \in Rows /\ Grown.lowY <= Grown.highY
                   /\ Grown.highY <= row
              ELSE Grown = NothingFound
         /\ \A p \in Cells : InFound(p) \/ InLine(p) =>
              /\ Grown.changed
              /\ Grown.lowX <= X(p) /\ X(p) <= Grown.highX
              /\ Grown.lowY <= Y(p) /\ Y(p) <= Grown.highY
<1>1. /\ found \in [lowX : Columns \cup {Far}, highX : Columns,
                    lowY : Rows \cup {Far}, highY : Rows, changed : BOOLEAN]
      /\ row \in Rows
      /\ line \in [xstart : Columns \cup {-1}, xend : Columns \cup {-1}]
  BY DEF Inv, TypeOK
<1>2. IF found.changed
        THEN /\ found.lowX \in Columns /\ found.lowX <= found.highX
             /\ found.lowY \in Rows /\ found.lowY <= found.highY
             /\ found.highY < row
        ELSE found = NothingFound
  BY DEF Inv, Rectangles
<1>3. lineChanged => line.xstart \in Columns /\ line.xend \in Columns /\ line.xstart <= line.xend
  <2>1. SUFFICES ASSUME lineChanged
                 PROVE  line.xstart \in Columns /\ line.xend \in Columns /\ line.xstart <= line.xend
    OBVIOUS
  <2>2. line.xstart \in Columns /\ line.xend \in Columns \cup {-1}
    BY <2>1, <1>1 DEF lineChanged
  <2>3. line.xstart <= line.xend
    BY <2>1 DEF Inv, Progress
  <2>4. QED BY <2>2, <2>3 DEF Columns
<1>4. CASE ~lineChanged
  <2>1. Grown = found
    BY <1>4 DEF Grown
  <2>2. found.changed => found.highY <= row
    BY <1>1, <1>2 DEF Rows
  <2>3. \A p \in Cells : ~InLine(p)
    BY <1>4 DEF InLine
  <2>4. QED BY <1>1, <1>2, <2>1, <2>2, <2>3 DEF InFound
<1>5. CASE lineChanged
  <2>1. /\ Grown.lowX = (IF line.xstart < found.lowX THEN line.xstart ELSE found.lowX)
        /\ Grown.highX = (IF line.xend > found.highX THEN line.xend ELSE found.highX)
        /\ Grown.lowY = (IF row < found.lowY THEN row ELSE found.lowY)
        /\ Grown.highY = (IF row > found.highY THEN row ELSE found.highY)
        /\ Grown.changed = TRUE
        /\ Grown = [lowX |-> Grown.lowX, highX |-> Grown.highX,
                    lowY |-> Grown.lowY, highY |-> Grown.highY, changed |-> TRUE]
    BY <1>5 DEF Grown
  <2>2. /\ Columns \subseteq Nat /\ Rows \subseteq Nat /\ Far \in Nat
        /\ \A x \in Columns : x < Far
        /\ \A y \in Rows : y < Far
    BY SizeAssumption DEF Columns, Rows, Far
  <2>3. /\ found.lowX \in Columns \cup {Far} /\ found.highX \in Columns
        /\ found.lowY \in Rows \cup {Far} /\ found.highY \in Rows
    BY <1>1
  <2>4. ~found.changed => /\ found.lowX = Far /\ found.highX = 0
                          /\ found.lowY = Far /\ found.highY = 0
    BY <1>2 DEF NothingFound
  <2>5. line.xstart \in Columns /\ line.xend \in Columns /\ line.xstart <= line.xend
    BY <1>3, <1>5
  <2>6. Grown.lowX \in Columns /\ Grown.lowX <= line.xstart /\ Grown.lowX <= found.lowX
    BY <2>1, <2>2, <2>3, <2>5
  <2>7. Grown.highX \in Columns /\ line.xend <= Grown.highX /\ found.highX <= Grown.highX
    BY <2>1, <2>2, <2>3, <2>5
  <2>8. Grown.lowY \in Rows /\ Grown.lowY <= row /\ Grown.lowY <= found.lowY
    BY <1>1, <2>1, <2>2, <2>3
  <2>9. Grown.highY \in Rows /\ Grown.highY = row
    BY <1>1, <1>2, <2>1, <2>2, <2>3, <2>4
  <2>10. /\ Grown.lowX \in Nat /\ Grown.highX \in Nat /\ Grown.lowY \in Nat
         /\ line.xstart \in Nat /\ line.xend \in Nat /\ row \in Nat
         /\ found.lowX \in Nat /\ found.highX \in Nat
         /\ found.lowY \in Nat /\ found.highY \in Nat
    BY <1>1, <2>2, <2>3, <2>5, <2>6, <2>7, <2>8
  <2>11. ASSUME NEW p \in Cells, InFound(p) \/ InLine(p)
         PROVE  /\ Grown.lowX <= X(p) /\ X(p) <= Grown.highX
                /\ Grown.lowY <= Y(p) /\ Y(p) <= Grown.highY
    <3>1. X(p) \in Nat /\ Y(p) \in Nat
      BY <2>2, PlaceOf
    <3>2. CASE InLine(p)
      <4>1. Y(p) = row /\ line.xstart <= X(p) /\ X(p) <= line.xend
        BY <3>2 DEF InLine
      <4>2. QED BY <3>1, <4>1, <2>6, <2>7, <2>8, <2>9, <2>10
    <3>3. CASE InFound(p)
      <4>1. /\ found.highY < row
            /\ found.lowX <= X(p) /\ X(p) <= found.highX
            /\ found.lowY <= Y(p) /\ Y(p) <= found.highY
        BY <3>3, <1>2 DEF InFound
      <4>2. QED BY <3>1, <4>1, <2>6, <2>7, <2>8, <2>9, <2>10
    <3>4. QED BY <2>11, <3>2, <3>3
  <2>12. Grown \in [lowX : Columns \cup {Far}, highX : Columns,
                    lowY : Rows \cup {Far}, highY : Rows, changed : BOOLEAN]
    BY <2>1, <2>6, <2>7, <2>8, <2>9
  <2>13. Grown.lowX <= Grown.highX /\ Grown.lowY <= Grown.highY /\ Grown.highY <= row
    BY <2>5, <2>6, <2>7, <2>8, <2>9, <2>10
  <2>14. QED BY <2>1, <2>6, <2>8, <2>11, <2>12, <2>13
<1>6. QED BY <1>4, <1>5

\* The end of a row, and of the frame: what was found is what is reported.
LEMMA EndRowStep == Inv /\ EndRow => Inv'
<1> SUFFICES ASSUME Inv, EndRow PROVE Inv'
  OBVIOUS
<1>1. /\ UNCHANGED <<mac, fb_c, incremental, vpPixelSize, palette, frame_to_send,
                     dirty_cursor, client>>
      /\ pc = "copy" /\ vpPixelSize \in Depths /\ word' = 0 /\ line' = CleanLine
  BY DEF EndRow
<1>2. /\ 0 \in Columns /\ 0 \in Rows /\ 0 \in 0 .. Width /\ row \in Rows /\ ~lineChanged'
      /\ line' \in [xstart : Columns \cup {-1}, xend : Columns \cup {-1}]
  BY <1>1, SizeAssumption DEF Columns, Rows, CleanLine, lineChanged, Inv, TypeOK
<1>3. Palette'
  BY <1>1 DEF Inv, Palette, palette, client, EndRow
<1>4. Body'
  <2>1. pc' \in {"copy", "colourmap"}
    BY <1>1 DEF EndRow
  <2>2. QED BY <1>1, <2>1 DEF Inv, Body, BodyFillsRect, client
<1>5. \A p \in Stale' : primed' => p \in Cells /\ (InFound(p) \/ InLine(p))
  BY <1>1 DEF Inv, Covered, Stale, client
<1>6. CASE row + 1 < Height
  <2>1. row' = row + 1 /\ found' = Grown /\ UNCHANGED <<last_dirty, pc>>
    BY <1>6 DEF EndRow
  <2>2. row' \in Rows /\ row < row'
    BY <1>2, <1>6, <2>1, SizeAssumption DEF Rows
  <2>3. TypeOK'
    <3>1. found' \in [lowX : Columns \cup {Far}, highX : Columns,
                      lowY : Rows \cup {Far}, highY : Rows, changed : BOOLEAN]
      BY <1>1, <2>1, GrownRectangle
    <3>2. QED BY <1>1, <1>2, <2>1, <2>2, <3>1 DEF Inv, TypeOK, mac, palette, client
  <2>4. Progress'
    <3>1. 0 <= WordsPerRow
      BY <1>1, WordAssumption, SizeAssumption DEF WordsPerRow
    <3>2. QED BY <1>1, <1>2, <2>1, <3>1 DEF Progress, WordsPerRow
  <2>5. Rectangles'
    <3>1. Grown.changed => Grown.highY < row'
      BY <1>1, <1>2, <2>2, GrownRectangle DEF Rows
    <3>2. QED BY <1>1, <2>1, <3>1, GrownRectangle DEF Inv, Rectangles
  <2>6. Covered'
    <3>1. SUFFICES ASSUME primed', NEW p \in Stale' PROVE InFound(p)'
      BY <1>1, <2>1 DEF Covered
    <3>2. p \in Cells /\ (InFound(p) \/ InLine(p))
      BY <1>5, <3>1
    <3>3. QED BY <1>1, <2>1, <3>2, GrownRectangle DEF InFound
  <2>7. QED BY <1>3, <1>4, <2>3, <2>4, <2>5, <2>6 DEF Inv
<1>7. CASE ~(row + 1 < Height)
  <2>1. /\ row' = 0 /\ found' = NothingFound /\ pc' = "colourmap"
        /\ last_dirty' = DirtyRect(Grown)
    BY <1>7 DEF EndRow
  <2>2. /\ last_dirty' \in [x1 : Columns, x2 : Columns, y1 : Rows, y2 : Rows]
        /\ last_dirty'.x1 <= last_dirty'.x2 /\ last_dirty'.y1 <= last_dirty'.y2
    BY <1>1, <1>2, <2>1, GrownRectangle DEF DirtyRect
  <2>3. TypeOK'
    <3>1. found' \in [lowX : Columns \cup {Far}, highX : Columns,
                      lowY : Rows \cup {Far}, highY : Rows, changed : BOOLEAN]
      BY <1>2, <2>1 DEF NothingFound
    <3>2. QED BY <1>1, <1>2, <2>1, <2>2, <3>1 DEF Inv, TypeOK, mac, palette, client
  <2>4. Progress'
    BY <1>1, <2>1 DEF Progress
  <2>5. Rectangles'
    BY <2>1, <2>2 DEF Rectangles, NothingFound
  <2>6. Covered'
    <3>1. SUFFICES ASSUME primed', NEW p \in Stale' PROVE InDirtyRect(p)'
      BY <1>1, <2>1 DEF Covered
    <3>2. p \in Cells /\ (InFound(p) \/ InLine(p))
      BY <1>5, <3>1
    <3>3. QED BY <1>1, <2>1, <3>2, GrownRectangle DEF InDirtyRect, DirtyRect
  <2>7. QED BY <1>3, <1>4, <2>3, <2>4, <2>5, <2>6 DEF Inv
<1>8. QED BY <1>6, <1>7

\* The colour map goes out when a change of the table is on record.
LEMMA SendColourmapStep == Inv /\ SendColourmap => Inv'
<1> SUFFICES ASSUME Inv, SendColourmap PROVE Inv'
  OBVIOUS
<1>1. /\ UNCHANGED <<mac, fb_c, incremental, vpPixelSize, clut_hash, vnc_clut, chunk, copying,
                     dirty_cursor, rect, got, view, primed>>
      /\ pc = "colourmap" /\ pc' = "header"
      /\ IF clut_changed
           THEN cmap' = vnc_clut /\ clut_changed' = FALSE /\ recoloured' = TRUE
           ELSE UNCHANGED <<cmap, clut_changed, recoloured>>
  BY DEF SendColourmap
<1>2. TypeOK'
  <2>1. /\ cmap \in [Chunks -> Colours \cup {-1}] /\ vnc_clut \in [Chunks -> Colours \cup {-1}]
        /\ clut_changed \in BOOLEAN /\ recoloured \in BOOLEAN
    BY DEF Inv, TypeOK
  <2>2. cmap' \in [Chunks -> Colours \cup {-1}]
    BY <1>1, <2>1
  <2>3. clut_changed' \in BOOLEAN /\ recoloured' \in BOOLEAN
    BY <1>1, <2>1
  <2>4. QED BY <1>1, <2>2, <2>3 DEF Inv, TypeOK, mac, copying
<1>3. Progress' /\ Rectangles'
  BY <1>1 DEF Inv, Progress, Rectangles, copying
<1>4. Body'
  BY <1>1 DEF Inv, Body, BodyFillsRect
<1>5. Palette'
  <2>1. ~clut_changed' /\ clut_hash' # NoHash
    BY <1>1 DEF Inv, Palette, TypeOK
  <2>2. cmap' = vnc_clut'
    BY <1>1 DEF Inv, Palette
  <2>3. QED BY <1>1, <2>1, <2>2 DEF Palette
<1>6. Covered'
  BY <1>1 DEF Inv, Covered, Stale, InDirtyRect, copying
<1>7. QED BY <1>2, <1>3, <1>4, <1>5, <1>6 DEF Inv


\* The rectangle reported lies on the screen and is at least one pixel wide and high.
LEMMA DirtySize ==
  ASSUME Inv
  PROVE  /\ last_dirty.x1 \in Columns /\ last_dirty.x2 \in Columns
         /\ last_dirty.y1 \in Rows /\ last_dirty.y2 \in Rows
         /\ FB_RECT_WIDTH(last_dirty) \in 1 .. Width
         /\ FB_RECT_HEIGHT(last_dirty) \in 1 .. Height
         /\ Cell(last_dirty.x1, last_dirty.y1) \in Cells
<1>1. /\ last_dirty.x1 \in Columns /\ last_dirty.x2 \in Columns
      /\ last_dirty.y1 \in Rows /\ last_dirty.y2 \in Rows
      /\ last_dirty.x1 <= last_dirty.x2 /\ last_dirty.y1 <= last_dirty.y2
  BY DEF Inv, TypeOK, Rectangles
<1>2. FB_RECT_WIDTH(last_dirty) \in 1 .. Width /\ FB_RECT_HEIGHT(last_dirty) \in 1 .. Height
  BY <1>1, SizeAssumption DEF FB_RECT_WIDTH, FB_RECT_HEIGHT, Columns, Rows
<1>3. QED BY <1>1, <1>2, CellOf

\* The header announces the rectangle reported, and the dirty cursor starts at its
\* corner; or the whole screen.
LEMMA SendHeaderStep == Inv /\ SendHeader => Inv'
<1> SUFFICES ASSUME Inv, SendHeader PROVE Inv'
  OBVIOUS
<1>1. /\ UNCHANGED <<mac, fb_c, vpPixelSize, palette, copying, view, cmap, primed, recoloured>>
      /\ pc = "header" /\ pc' = "body"
      /\ incremental' = (incremental /\ ~SendWhole)
      /\ rect' = Announced(incremental') /\ got' = 0
      /\ dirty_cursor' = IF incremental' THEN CursorReset ELSE dirty_cursor
  BY DEF SendHeader
<1>2. incremental' \in BOOLEAN /\ (incremental' => incremental)
  BY <1>1
<1>3. last_dirty' = last_dirty /\ row' = row /\ word' = word /\ line' = line /\ found' = found
  BY <1>1 DEF copying
<1>4. TypeOK'
  <2>1. rect' \in [x : Columns, y : Rows, w : 1 .. Width, h : 1 .. Height]
    BY <1>1, DirtySize, SizeAssumption DEF Announced, WholeScreen, Columns, Rows
  <2>2. dirty_cursor' \in [offset : Nat, number_of_increments : 0 .. Height]
    BY <1>1, DirtySize, SizeAssumption DEF CursorReset, Cells, Inv, TypeOK
  <2>3. got' \in 0 .. Width * Height
    BY <1>1, SizeAssumption
  <2>4. QED BY <1>1, <1>2, <2>1, <2>2, <2>3 DEF Inv, TypeOK, mac, palette, copying
<1>5. Progress' /\ Rectangles'
  BY <1>1 DEF Inv, Progress, Rectangles, copying
<1>6. Body'
  <2>1. CASE incremental'
    <3>1. rect' = Announced(TRUE)'
      BY <1>1, <1>3, <2>1 DEF Announced
    <3>2. /\ dirty_cursor'.number_of_increments = 0
          /\ dirty_cursor'.offset = Cell(last_dirty.x1, last_dirty.y1 + 0)
          /\ 0 <= FB_RECT_HEIGHT(last_dirty)
          /\ 0 * FB_RECT_WIDTH(last_dirty) = 0
      <4>1. last_dirty.y1 + 0 = last_dirty.y1
        BY DirtySize DEF Rows
      <4>2. QED BY <1>1, <2>1, <4>1, DirtySize DEF CursorReset
    <3>3. primed'
      BY <1>1, <1>2, <2>1 DEF Inv, Body
    <3>4. QED BY <1>1, <1>3, <2>1, <3>1, <3>2, <3>3 DEF Body, BodyFillsRect
  <2>2. CASE ~incremental'
    BY <1>1, <1>2, <2>2 DEF Body, BodyFillsRect, Announced
  <2>3. QED BY <2>1, <2>2
<1>7. Palette'
  BY <1>1 DEF Inv, Palette, palette
<1>8. Covered'
  <2>1. SUFFICES ASSUME primed', NEW p \in Stale'
                 PROVE  /\ InDirtyRect(p)'
                        /\ incremental' => Y(p) >= last_dirty'.y1 + dirty_cursor'.number_of_increments
    BY <1>1 DEF Covered
  <2>2. p \in Cells /\ InDirtyRect(p)
    BY <1>1, <2>1 DEF Inv, Covered, Stale, copying
  <2>3. incremental' => dirty_cursor'.number_of_increments = 0
    BY <1>1 DEF CursorReset
  <2>4. Y(p) \in Rows /\ last_dirty.y1 \in Rows
    BY <2>2, PlaceOf, DirtySize
  <2>5. QED BY <1>3, <2>2, <2>3, <2>4 DEF InDirtyRect, Rows
<1>9. QED BY <1>4, <1>5, <1>6, <1>7, <1>8 DEF Inv

\* What Transmit does to the view, with columns and rows by name.
LEMMA Painted ==
  ASSUME NEW offset, NEW n, Transmit(offset, n)
  PROVE  /\ view' = [p \in Cells |->
                       IF /\ rect.x <= X(p) /\ X(p) < rect.x + rect.w
                          /\ rect.y <= Y(p) /\ Y(p) < rect.y + rect.h
                          /\ (Y(p) - rect.y) * rect.w + (X(p) - rect.x) \in got .. got + n - 1
                         THEN frame_to_send[offset + ((Y(p) - rect.y) * rect.w + (X(p) - rect.x)) - got]
                         ELSE view[p]]
         /\ got' = got + n
BY DEF Transmit, X, Y

\* After a whole frame the client shows frame_to_send, whatever it showed before.
LEMMA SendFrameStep == Inv /\ SendFrame => Inv'
<1> SUFFICES ASSUME Inv, SendFrame PROVE Inv'
  OBVIOUS
<1>1. /\ UNCHANGED <<mac, fb_c, incremental, vpPixelSize, palette, copying, dirty_cursor,
                     rect, cmap, recoloured>>
      /\ pc = "body" /\ ~incremental /\ pc' = "idle" /\ primed' = TRUE
      /\ Transmit(0, Width * Height)
  BY DEF SendFrame
<1>2. /\ rect = WholeScreen /\ got = 0
      /\ frame_to_send \in [Cells -> Pixels]
      /\ Width \in Nat \ {0} /\ Height \in Nat \ {0}
  BY <1>1, SizeAssumption DEF Inv, Body, TypeOK
<1>3. rect.x = 0 /\ rect.y = 0 /\ rect.w = Width /\ rect.h = Height
  BY <1>2 DEF WholeScreen
<1>4. got' = Width * Height
  BY <1>1, <1>2, Painted
<1>5. view' = frame_to_send
  <2>1. ASSUME NEW p \in Cells
        PROVE  /\ rect.x <= X(p) /\ X(p) < rect.x + rect.w
               /\ rect.y <= Y(p) /\ Y(p) < rect.y + rect.h
               /\ (Y(p) - rect.y) * rect.w + (X(p) - rect.x) = p
               /\ p \in got .. got + Width * Height - 1
               /\ 0 + p - got = p
    <3>1. X(p) \in 0 .. Width - 1 /\ Y(p) \in 0 .. Height - 1 /\ Y(p) * Width + X(p) = p
      BY PlaceOf DEF Columns, Rows, Cell
    <3>2. p \in 0 .. Width * Height - 1
      BY DEF Cells
    <3>3. QED BY <1>2, <1>3, <3>1, <3>2
  <2>2. view' = [p \in Cells |-> frame_to_send[p]]
    BY <1>1, <2>1, Painted
  <2>3. QED BY <1>2, <2>2
<1>6. TypeOK'
  <2>1. got' \in 0 .. Width * Height /\ view' \in [Cells -> Pixels]
    BY <1>2, <1>4, <1>5
  <2>2. QED BY <1>1, <2>1 DEF Inv, TypeOK, mac, palette, copying
<1>7. Progress' /\ Rectangles'
  BY <1>1 DEF Inv, Progress, Rectangles, copying
<1>8. Body'
  BY <1>1, <1>3, <1>4 DEF Inv, Body, BodyFillsRect
<1>9. Palette'
  BY <1>1 DEF Inv, Palette, palette
<1>10. Covered'
  BY <1>1, <1>5 DEF Covered, Stale, copying
<1>11. QED BY <1>6, <1>7, <1>8, <1>9, <1>10 DEF Inv

\* A row of the dirty rectangle goes out through the dirty cursor: the client paints
\* the cells of that row in that rectangle, each as frame_to_send has it, and no other.
LEMMA PaintedRow ==
  ASSUME Inv, pc = "body", incremental, fb_more_dirty,
         Transmit(dirty_cursor.offset, FB_RECT_WIDTH(last_dirty))
  PROVE  view' = [p \in Cells |->
                    IF InDirtyRect(p) /\ Y(p) = last_dirty.y1 + dirty_cursor.number_of_increments
                      THEN frame_to_send[p] ELSE view[p]]
<1> DEFINE x1 == last_dirty.x1
           y1 == last_dirty.y1
           w == FB_RECT_WIDTH(last_dirty)
           k == dirty_cursor.number_of_increments
           Sent(p) == /\ rect.x <= X(p) /\ X(p) < rect.x + rect.w
                      /\ rect.y <= Y(p) /\ Y(p) < rect.y + rect.h
                      /\ (Y(p) - rect.y) * rect.w + (X(p) - rect.x) \in got .. got + w - 1
           Source(p) == dirty_cursor.offset + ((Y(p) - rect.y) * rect.w + (X(p) - rect.x)) - got
<1>1. /\ x1 \in Nat /\ y1 \in Nat /\ last_dirty.x2 \in Nat /\ last_dirty.y2 \in Nat
      /\ w \in Nat \ {0} /\ k \in Nat
      /\ Width \in Nat /\ last_dirty.x2 = x1 + w - 1
  <2>1. k \in Nat
    BY SizeAssumption DEF Inv, TypeOK
  <2>2. QED BY <2>1, DirtySize, SizeAssumption DEF Columns, Rows, FB_RECT_WIDTH
<1>2. /\ rect.x = x1 /\ rect.y = y1 /\ rect.w = w
      /\ rect.h = last_dirty.y2 + 1 - y1
      /\ got = k * w
      /\ dirty_cursor.offset = (y1 + k) * Width + x1
  BY DEF Inv, Body, Announced, Cell, FB_RECT_HEIGHT
<1>3. ASSUME NEW p \in Cells
      PROVE  /\ Sent(p) <=> InDirtyRect(p) /\ Y(p) = y1 + k
             /\ Sent(p) => Source(p) = p
  <2>1. X(p) \in Nat /\ Y(p) \in Nat /\ Y(p) * Width + X(p) = p
    BY PlaceOf DEF Columns, Rows, Cell
  <2> HIDE DEF w, k
  <2>2. InDirtyRect(p) <=> /\ rect.x <= X(p) /\ X(p) < rect.x + rect.w
                           /\ rect.y <= Y(p) /\ Y(p) < rect.y + rect.h
    BY <1>1, <1>2, <2>1 DEF InDirtyRect
  <2>3. ASSUME InDirtyRect(p)
        PROVE  (Y(p) - y1) * w + (X(p) - x1) \in k * w .. k * w + w - 1 <=> Y(p) = y1 + k
    <3> DEFINE a == Y(p) - y1
               b == X(p) - x1
    <3>1. a \in Nat /\ b \in 0 .. w - 1
      BY <1>1, <2>1, <2>3 DEF InDirtyRect
    <3>2. a * w \in Nat /\ k * w \in Nat
      BY <1>1, <3>1
    <3>3. a = k => a * w + b \in k * w .. k * w + w - 1
      BY <1>1, <3>1, <3>2
    <3>4. a < k => a * w + w <= k * w
      BY <1>1, <3>1
    <3>5. k < a => k * w + w <= a * w
      BY <1>1, <3>1
    <3>6. a * w + b \in k * w .. k * w + w - 1 => a = k
      BY <1>1, <3>1, <3>2, <3>4, <3>5
    <3>7. a = k <=> Y(p) = y1 + k
      BY <1>1, <2>1
    <3>8. QED BY <3>3, <3>6, <3>7
  <2>4. Sent(p) <=> InDirtyRect(p) /\ Y(p) = y1 + k
    BY <1>2, <2>2, <2>3
  <2>5. ASSUME Y(p) = y1 + k PROVE Source(p) = p
    <3>1. (Y(p) - y1) * w = k * w /\ k * w \in Nat /\ Y(p) * Width = (y1 + k) * Width
      BY <1>1, <2>5
    <3>2. (y1 + k) * Width \in Nat
      BY <1>1
    <3>3. QED BY <1>1, <1>2, <2>1, <3>1, <3>2
  <2>6. QED BY <2>4, <2>5
<1>4. view' = [p \in Cells |-> IF Sent(p) THEN frame_to_send[Source(p)] ELSE view[p]]
  BY Painted
<1> HIDE DEF Sent, Source
<1>5. QED BY <1>3, <1>4

\* A row of the dirty rectangle goes out: the cells of it are no longer stale.
LEMMA SendRowStep == Inv /\ SendRow => Inv'
<1> SUFFICES ASSUME Inv, SendRow PROVE Inv'
  OBVIOUS
<1> DEFINE w == FB_RECT_WIDTH(last_dirty)
           h == FB_RECT_HEIGHT(last_dirty)
           k == dirty_cursor.number_of_increments
<1>1. /\ UNCHANGED <<mac, fb_c, pc, incremental, vpPixelSize, palette, copying,
                     rect, cmap, primed, recoloured>>
      /\ pc = "body" /\ incremental /\ k < h
      /\ Transmit(dirty_cursor.offset, w)
      /\ dirty_cursor' = Advanced
  BY DEF SendRow, fb_more_dirty
<1>2. /\ w \in 1 .. Width /\ h \in 1 .. Height /\ k \in Nat
      /\ Width \in Nat \ {0} /\ Height \in Nat \ {0}
      /\ last_dirty.y1 \in Nat /\ last_dirty.x1 \in Nat
      /\ dirty_cursor.offset \in Nat
  <2>1. k \in Nat /\ dirty_cursor.offset \in Nat
    BY SizeAssumption DEF Inv, TypeOK
  <2>2. QED BY <2>1, DirtySize, SizeAssumption DEF Columns, Rows
<1>3. /\ dirty_cursor'.number_of_increments = k + 1
      /\ dirty_cursor'.offset = dirty_cursor.offset + Width
      /\ dirty_cursor' = [offset |-> dirty_cursor.offset + Width, number_of_increments |-> k + 1]
  BY <1>1 DEF Advanced
<1>4. got = k * w /\ rect = Announced(TRUE)
      /\ dirty_cursor.offset = Cell(last_dirty.x1, last_dirty.y1 + k)
  BY <1>1 DEF Inv, Body
<1>5. last_dirty' = last_dirty /\ frame_to_send' = frame_to_send
  BY <1>1 DEF copying
<1>6. got' = (k + 1) * w /\ got' \in 0 .. Width * Height
  <2>1. got' = k * w + w
    BY <1>1, <1>4, Painted
  <2> HIDE DEF w, h, k
  <2>2. (k + 1) * w = k * w + w /\ (k + 1) * w \in Nat
    BY <1>2
  <2>3. (k + 1) * w <= h * w
    BY <1>1, <1>2
  <2>4. h * w <= Width * Height
    BY <1>2
  <2>5. QED BY <1>2, <2>1, <2>2, <2>3, <2>4
<1>7. view' = [p \in Cells |-> IF InDirtyRect(p) /\ Y(p) = last_dirty.y1 + k
                                 THEN frame_to_send[p] ELSE view[p]]
  BY <1>1, PaintedRow DEF fb_more_dirty
<1>8. TypeOK'
  <2>1. view' \in [Cells -> Pixels]
    BY <1>7 DEF Inv, TypeOK
  <2>2. dirty_cursor' \in [offset : Nat, number_of_increments : 0 .. Height]
    BY <1>1, <1>2, <1>3
  <2>3. QED BY <1>1, <1>6, <2>1, <2>2 DEF Inv, TypeOK, mac, palette, copying
<1>9. Progress' /\ Rectangles'
  BY <1>1 DEF Inv, Progress, Rectangles, copying
<1>10. Body'
  <2>1. k + 1 <= h
    BY <1>1, <1>2
  <2>2. dirty_cursor'.offset = Cell(last_dirty.x1, last_dirty.y1 + (k + 1))
    <3> DEFINE y == last_dirty.y1 + k
    <3>1. y \in Nat /\ last_dirty.y1 + (k + 1) = y + 1
      BY <1>2
    <3> HIDE DEF y, k
    <3>2. (y + 1) * Width = y * Width + Width /\ y * Width \in Nat
      BY <1>2, <3>1
    <3>3. QED BY <1>2, <1>3, <1>4, <3>1, <3>2 DEF Cell, y
  <2>3. rect' = Announced(TRUE)'
    BY <1>1, <1>4, <1>5 DEF Announced
  <2>4. primed'
    BY <1>1 DEF Inv, Body
  <2>5. QED BY <1>1, <1>3, <1>5, <1>6, <2>1, <2>2, <2>3, <2>4 DEF Body, BodyFillsRect
<1>11. Palette'
  BY <1>1 DEF Inv, Palette, palette
<1>12. Covered'
  <2>1. SUFFICES ASSUME primed', NEW p \in Stale'
                 PROVE  InDirtyRect(p)' /\ Y(p) >= last_dirty'.y1 + dirty_cursor'.number_of_increments
    BY <1>1 DEF Covered
  <2>2. p \in Cells /\ view'[p] # frame_to_send[p]
    BY <1>5, <2>1 DEF Stale
  <2>3. p \in Stale /\ ~(InDirtyRect(p) /\ Y(p) = last_dirty.y1 + k)
    BY <1>7, <2>2 DEF Stale
  <2>4. InDirtyRect(p) /\ Y(p) >= last_dirty.y1 + k
    BY <1>1, <2>1, <2>3 DEF Inv, Covered
  <2>5. Y(p) \in Nat
    BY <2>2, PlaceOf DEF Rows
  <2>6. QED BY <1>2, <1>3, <1>5, <2>3, <2>4, <2>5 DEF InDirtyRect
<1>13. QED BY <1>8, <1>9, <1>10, <1>11, <1>12 DEF Inv

\* When the dirty cursor has passed the last row nothing is stale, and the client has
\* as many pixels as the header announced.
LEMMA EndBodyStep == Inv /\ EndBody => Inv'
<1> SUFFICES ASSUME Inv, EndBody PROVE Inv'
  OBVIOUS
<1> DEFINE k == dirty_cursor.number_of_increments
<1>1. /\ UNCHANGED <<mac, fb_c, incremental, vpPixelSize, palette, copying, dirty_cursor, client>>
      /\ pc = "body" /\ incremental /\ pc' = "idle" /\ ~(k < FB_RECT_HEIGHT(last_dirty))
  BY DEF EndBody, fb_more_dirty
<1>2. k = FB_RECT_HEIGHT(last_dirty)
  <2>1. k <= FB_RECT_HEIGHT(last_dirty) /\ k \in Nat
    BY <1>1, SizeAssumption DEF Inv, Body, TypeOK
  <2>2. QED BY <1>1, <2>1, DirtySize
<1>3. TypeOK'
  BY <1>1 DEF Inv, TypeOK, mac, palette, copying, client
<1>4. Progress' /\ Rectangles'
  BY <1>1 DEF Inv, Progress, Rectangles, copying
<1>5. Body'
  <2>1. got = rect.w * rect.h
    <3>1. /\ got = k * FB_RECT_WIDTH(last_dirty)
          /\ rect.w = FB_RECT_WIDTH(last_dirty) /\ rect.h = FB_RECT_HEIGHT(last_dirty)
      BY <1>1 DEF Inv, Body, Announced
    <3>2. QED BY <1>2, <3>1, DirtySize
  <2>2. QED BY <1>1, <2>1 DEF Inv, Body, BodyFillsRect, client
<1>6. Palette'
  BY <1>1 DEF Inv, Palette, palette, client
<1>7. Covered'
  <2>1. SUFFICES ASSUME primed, NEW p \in Stale PROVE FALSE
    BY <1>1 DEF Covered, Stale, copying, client
  <2>2. InDirtyRect(p) /\ Y(p) >= last_dirty.y1 + k /\ p \in Cells
    BY <1>1, <2>1 DEF Inv, Covered, Stale
  <2>3. Y(p) \in Nat /\ last_dirty.y1 \in Nat /\ last_dirty.y2 \in Nat
    BY <2>2, PlaceOf, DirtySize DEF Rows
  <2>4. QED BY <1>2, <2>2, <2>3 DEF InDirtyRect, FB_RECT_HEIGHT
<1>8. QED BY <1>3, <1>4, <1>5, <1>6, <1>7 DEF Inv

\* A step that changes nothing.
LEMMA Stutter == Inv /\ UNCHANGED vars => Inv'
<1> SUFFICES ASSUME Inv, UNCHANGED vars PROVE Inv'
  OBVIOUS
<1>1. UNCHANGED <<mac, fb_c, pc, incremental, vpPixelSize, palette, copying, dirty_cursor, client>>
  BY DEF vars
<1>2. TypeOK'
  BY <1>1 DEF Inv, TypeOK, mac, palette, copying, client
<1>3. Progress' /\ Rectangles'
  BY <1>1 DEF Inv, Progress, Rectangles, copying, WordsPerRow, lineChanged
<1>4. Body'
  BY <1>1 DEF Inv, Body, BodyFillsRect, Announced, copying, client
<1>5. Palette'
  BY <1>1 DEF Inv, Palette, palette, client
<1>6. Covered'
  BY <1>1 DEF Inv, Covered, Stale, InFound, InLine, InDirtyRect, lineChanged, copying, client
<1>7. QED BY <1>2, <1>3, <1>4, <1>5, <1>6 DEF Inv

(***************************************************************************)
(* Every state of a session satisfies Inv: every operation of fb_update,   *)
(* fb_update_clut and vnc_evt_update_request preserves it, and so does     *)
(* whatever the Mac does between two of them.                              *)
(***************************************************************************)
THEOREM Invariance == Spec => []Inv
<1>1. Init => Inv
  BY Start
<1>2. Inv /\ [Next]_vars => Inv'
  <2> SUFFICES ASSUME Inv, [Next]_vars PROVE Inv'
    OBVIOUS
  <2>1. CASE Answer
    BY <2>1, GetVideoInfoStep, HashClutStep, FetchChunkStep, EndOfSession, CopyWordStep,
       StoreWordStep, EndRowStep, SendColourmapStep, SendHeaderStep, SendFrameStep,
       SendRowStep, EndBodyStep DEF Answer, RefuseDepth
  <2>2. CASE ConnectionFails
    BY <2>2, EndOfSession DEF ConnectionFails
  <2>3. CASE Closed \/ UNCHANGED vars
    BY <2>3, Stutter DEF Closed
  <2>4. QED BY <2>1, <2>2, <2>3, MacStep, RequestStep DEF Next
<1>3. QED BY <1>1, <1>2, PTL DEF Spec

(***************************************************************************)
(* Every variable keeps its type: the words copied and the rectangle       *)
(* reported (frame_buffer.c) never leave the screen.                       *)
(***************************************************************************)
THEOREM TypeCorrect == Spec => []TypeOK
<1>1. Inv => TypeOK
  BY DEF Inv
<1>2. QED BY <1>1, Invariance, PTL

(***************************************************************************)
(* Between answers a client that has had a whole frame shows exactly       *)
(* frame_to_send, for every size of screen and every depth: fb_update      *)
(* (frame_buffer.c) never loses a word it has stored, and the dirty cursor *)
(* never skips or misplaces a row.                                         *)
(***************************************************************************)
THEOREM Mirrored == Spec => []ClientMirrors
<1>1. Inv => ClientMirrors
  <2>1. SUFFICES ASSUME Inv, pc = "idle", primed PROVE view = frame_to_send
    BY DEF ClientMirrors
  <2>2. view \in [Cells -> Pixels] /\ frame_to_send \in [Cells -> Pixels]
    BY <2>1 DEF Inv, TypeOK
  <2>3. \A p \in Cells : view[p] = frame_to_send[p]
    BY <2>1 DEF Inv, Covered, Stale
  <2>4. QED BY <2>2, <2>3
<1>2. QED BY <1>1, Invariance, PTL

(***************************************************************************)
(* A body has as many pixels as its header announced (vnc_upd_send_hdr_raw *)
(* and the loop over the dirty cursor in session.c), for every rectangle.  *)
(***************************************************************************)
THEOREM BodiesFit == Spec => []BodyFillsRect
<1>1. Inv => BodyFillsRect
  BY DEF Inv, Body
<1>2. QED BY <1>1, Invariance, PTL

(***************************************************************************)
(* Pixels never go out before the colour map they are meant for            *)
(* (vnc_evt_update_request of session.c).                                  *)
(***************************************************************************)
THEOREM ColoursFirst == Spec => []ColoursBeforePixels
<1>1. Inv => ColoursBeforePixels
  BY DEF Inv, Palette, ColoursBeforePixels
<1>2. QED BY <1>1, Invariance, PTL

====

# A verification project for minivnc

minivnc is a VNC server for A/UX, Apple's Unix for 68k Macintoshes. It has two
parts: a daemon, `vncd` (`src/app/`), which serves one VNC client at a time, and
a kernel driver, `/dev/fb0` (`src/kernel/src/fb.c`), through which the daemon
reads the screen, its depth and its colour table and injects mouse and key
events. This directory holds TLA+ models of the parts with interesting
behaviour, the TLC runs that check them, and TLAPS proofs of every invariant that
a passing run checks.

## Inventory

| Component | Source | State it keeps | Operations | What makes it right | Status |
|---|---|---|---|---|---|
| message framing | `app/session.c:200-344` | `recv_buf`, `src`, `len`, `messageInProgress`, `msg_dst` | receive, fast loop, slow loop, dispatch, encoding fragments | each message of the client is handled once, whole, in order, and none is left waiting | `MessageFraming` |
| framebuffer update | `app/frame_buffer.c`, `app/session.c:472-559` | `frame_to_send`, `last_dirty`, `dirty_cursor`, `vp` | `fb_update`, row copiers, header, body | the client's picture becomes the Mac's | `FrameUpdate` |
| colour table | `app/frame_buffer.c:78-112`, `kernel/src/fb.c:135-186, 563-608` | `clut_hash`, `clut_changed`, `vnc_clut`; `fb_c` in the driver | hash, 32 chunks, colour map message | the client's colours become the Mac's; colours are sent before pixels | `FrameUpdate` |
| listener | `app/main.c`, `app/inittab.line` | the listening socket | socket, bind, listen, accept, respawn | clients keep being served | `Listener` |
| session life cycle | `app/session.c:46-198` | `sock`, `fb_fd`, the frame | open, initialise, handshake, cleanup | a session gives back what it took; the message loop starts with the first message; client and daemon never wait for each other | `Listener` |
| keyboard | `app/keyboard_mess.c`, `app/session.c:352-444` | none of its own: the keyboard mode is asked for at each event | key down, key up, in ARAW and ASCII modes | what is typed arrives; no key stays down | `Keyboard` |
| keyboard layout | `app/kchr.c` | reverse tables of the KCHR | load, look up a character | the keys found for a character produce it | `Kchr` |
| mouse | `kernel/src/fb.c:191-325`, `app/session.c:456-470` | `mouse_x`, `mouse_y`, `mouse_button`, the Mac's low-memory globals | move, press, release | the Mac's pointer and button follow the client's, whoever has the devices | `Mouse` |
| lookup tables | `app/luts.c`, `lutgen/` | constant | expansion of 1, 2, 4-bit pixels | each pixel becomes the byte QuickDraw means | `VideoMemory` |
| driver: modes, mapping | `kernel/src/fb.c:38-131, 386-455, 539-561` | `fb_vp` | mode list, FB_MODE, FB_PHYS | what the daemon reads is what was mapped | `VideoMemory`; FB_MODE also in `FrameUpdate`; `fb_read`, `fb_write` and two ioctls only `fbtest` uses left out |
| CRC | `kernel/src/crc32.h` | constant table | hash of a colour table | a changed table has another hash | `Crc32` |
| MacRoman table | `app/macroman.c` | constant | keysym to character | a pure switch | its result is part of a keysym in `Keyboard` |
| timer, fbtest, scripts | `app/timer.c`, `kernel/src/fbtest.c` | | | | left out |

How they interact: everything in the daemon is one thread of control. `main`
calls `listener`, which calls `handle_session` for each client in turn; the
session's message loop calls a handler for each message; the handlers for keys,
pointer and updates call the driver through ioctls, and `fb_update` reads the
screen's memory directly, through a mapping the driver makes. Errors leave a
handler with `longjmp` to the cleanup of `handle_session`. The concurrency is
outside: the client sends when it likes and TCP cuts its stream where it likes;
the Mac draws, changes colours and depth and switches its input devices while
the daemon is in the middle of an update; `init` starts the daemon again when it
ends.

What is hard here, and therefore what the properties are about, is listed under
"hazards" in `PROJECT.json`: messages cut up by `recv`, values that outlive the
message they came from, the screen changing while it is copied, the depth and
the colour table changing between two ioctls, the inclusive dirty rectangle, the
order of colour map, header and body, and what is left behind when one step of
setting up a session fails, keys whose codes overlap with what the user holds or
with a change of the keyboard's mode, mouse interrupts in the middle of the
driver, and the layout of a pixel's bits on the way from the card to the client.

## Modules

### ClientStream, MessageFraming, MessageDecoder

`ClientStream` is the client's side: a script is a sequence of messages, each
with a size and a starting position in the byte stream. A byte is its position;
only where the daemon looks at a byte (the type, the 16-bit word at offset 2,
the pixel format) does the model say what it holds.

`MessageFraming` is `vnc_readAndHandleMessages` and `vnc_handleMessageFragments`.
`src` is a position in the stream, `msg_dst` an offset in `messageInProgress`,
and `messageInProgress` records for each of the 20 bytes of the union which byte
of the stream it was copied from, so "whole and in order" can be said exactly.
The word that `numberOfEncodings` overlays is kept separately, because the code
decrements it, and because it keeps what an earlier message left there. `len` is
defined, not stored: `recv_buf` always holds what lies between `src` and `rcvd`.
Its actions are the steps of the code:

| Action | Code |
|---|---|
| `Recv`, `RecvFail` | `recvw` in `vnc_readAndHandleMessages`, and the test of `msg_dst` at session.c:223 |
| `FastMessage`, `FastExit` | the fast loop, 225-240 |
| `LoopEnd`, `ReadType`, `Illegal`, `Copy` | the slow loop, 255-296 |
| `Dispatch`, `DispatchEncoding` | 296-312, `vnc_evt_encoding_fragment` |

A handler either returns or jumps to the cleanup; what it does is elsewhere.

`MessageDecoder` is the abstract specification: bytes arrive, and a message is
handled as soon as it is complete. `MessageFraming` implements it with
`arrived <- rcvd, done <- Len(handled), open <- (pc # "closed")`; the
property `ImplementsDecoder` is the whole of its specification, fairness
included.

### FrameUpdate

One answer to an update request after another, next to a Mac that draws, sets
colours and changes its depth at any moment (action `Mac`), and a client that
paints what it gets. `pc` follows `fb_update` and `vnc_evt_update_request`:

| Actions | Code |
|---|---|
| `GetVideoInfo` | `fb_get_video_info`; `FB_MODE` refuses a mode beyond the driver's table |
| `HashClut`, `FetchChunk` | `fb_update_clut` and `fb_getCLUTFor`, `FB_CLUT_HASH`, `FB_CLUT_CHUNK` in the driver |
| `RefuseDepth`, `CopyWord`, `StoreWord`, `EndRow` | the row loop of `fb_update` and `fb_copy_1_row` .. `fb_copy_8_row` |
| `SendColourmap`, `SendHeader`, `SendFrame`, `SendRow`, `EndBody` | `vnc_upd_send_colourmap`, `vnc_upd_send_hdr_raw`, `vnc_send_body_raw` with the dirty cursor |

The grain is one word of a row, the unit the copiers compare and store; between
two words the Mac may do anything. `fb_copy_8_row` reads the screen twice, which
the compiler may or may not merge: both are allowed. A word read when the depth
is not the one asked for may be anything. `screen`, `frame_to_send` and `view`
are the picture as 8-bit pixels, so the expansion of low depths is the identity
at this level; how many pixels a word has depends on the depth, and one copier
stands for all four. A colour table is a sequence of `NumChunks` chunks, its hash
the table itself: CRC collisions are not modelled. What memory `malloc` returns
is a parameter. Screens do not change their resolution and are a whole number of
words wide (`WordAssumption`). `MaxChanges` bounds how often the Mac changes
anything, on top of a bound for each kind of change.

### VideoMemory

What `FrameUpdate` takes as given: the bits. `Open` and `Phys` are the driver's
side, the mode list made at `open` and the mapping made once per session at the
size of the first mode with eight bits or more. `GetVideoInfo`, `CopyTurn` and
`EndRow` are `fb_update` with the Mac at rest: one turn of a row copier's loop at
a time, with the bytes of the row, the lookup table of the depth, the store as
the 68k makes it (`StoreOf`), and the columns that end up in `xstart` and `xend`.
`frame_to_send` is a row of pixels for each row of the screen. The tables are
computed by the generator's rule (`Entry`, `Number`), whose output `luts.c` is. A card
is a function from mode to depth and bytes of a row; a card may list modes the
driver does not keep, or have a gap in its list. `RowsExpanded` compares with
`QuickDrawPixel`, which takes the bits of a pixel straight out of video memory.

### Crc32

`fb_crc32buf`, run side by side on two tables that differ in one or two
consecutive octets. A 32-bit word is the set of its one bits. `fb_crc_32_tab` is
computed from the polynomial; the 256 numbers of `crc32.h` are its values.
`MCScreen` puts both modules into one run: a behaviour is one of either.

### Mouse

A pointer event in the driver, one access to shared memory at a time, because the
Mac's own mouse and the cursor task interrupt it anywhere. `PokeTemp`, `PokeRaw`,
`ReadButton`, `SetButton` and `PostEvent` are `fb_ui_mouse`, used while the Mac
environment has the devices; `Move` and `Call` are the rest of
`fb_move_mouse_to`, for whoever else receives the mouse. `SwitchDevices` and
`SwitchMode` are programs taking and leaving the devices between two events: the
system call itself is not preempted. The receiver adds up the movements it gets,
six bits each; the cursor task takes a difference between `MTEMP` and `RAWMOUSE`
for a movement to be sped up. `env` says who got the last event, and `touched`,
`raced` and `lost` remember interruptions after which less is claimed. `y` is
treated like `x` and left out.

### Listener

The daemon's life with its descriptor table: `open`, `accept` and `socket` take
the lowest free descriptor, as Unix does, and `close` frees whatever the number
stands for, also when it is the wrong one. `Respawn` is `init`, or somebody who
starts `vncd` by hand; it chooses whether descriptor 0 is open (`stdin`), because
`inittab.line` redirects only 1 and 2 and nothing else in the repository opens 0:
the listening socket is 3 or 0 accordingly. `Die` is a return
from `main` or a signal. A client is away, in the queue, connected, or stranded:
connected to a descriptor the daemon has forgotten; a cleanup that closes the
listening socket turns away those in the queue. `frame_to_send` is whether the
session has a frame, `frames` how many the process has: a leak is one too many, a
second free one too few. The handshake is in it byte by
byte, a byte being its position in what the client sends: `Send` is one of the
three messages of the daemon, `RecvVersion` and `RecvInit` are one `recv` each,
which returns what has arrived, and `FirstByte` is where the message loop takes
its first byte for a type. `ClientSends` lets any number of bytes arrive, as long
as the client has been told what they answer. `whole` and `openFailed` remember
whether the version came in one piece and whether the driver once did not open.

### Kchr, Keyboard

`Kchr` is `kchr.c` as operators: the three reverse tables `kchr_load` builds of a
layout, and `kchr_keys_for_char`. A layout is a record instead of the bytes of
the resource. The loops that keep the first entry they find are a `Min` or a
`CHOOSE` of the first place. `Translate`, the forward reading, is external: the
Mac's event manager as the code relies on it, with dead keys.

`Keyboard` extends it with a client, the handlers and the Mac. `KeyDown` and
`KeyUp` are a key event up to the point where `vnc_evt_key` has asked for the
mode and found the codes; `do_key` is one ioctl, and the driver hands the code to
whoever receives the keyboard at that moment: in ARAW mode the receiver keeps
track of the keys that are down and reads the layout, in ASCII mode it takes the
code for a character, NUL for none. Between any two steps programs may set the mode
(`SetMode`) and the user another layout (`SetLayout`), which forgets a pending dead
key; `NewSession` ends a session with whatever keys down and loads the layout
again. `RAW` stands for every mode the daemon does not support, `ASCII` also for
MAC, which it treats alike.

`meant` is what the user typed, `disturbed` whether something changed while keys
were down or went unnoticed, and `careful` whether the user has typed one
character at a time, holding only modifiers the Mac's key needs, too, and, of the
keys that are no characters, only those that do nothing by themselves (`Silent`).
`NothingStuck` is claimed as long as nothing is disturbed, `TypedAsMeant` only for
the careful. What happens after a disturbance is not claimed, because it does go
wrong: the codes of a key event go out one ioctl at a time without another look
at the mode (session.c:431), and the end of a session lets go of nothing.

## Runs

| Run | Question | Result |
|---|---|---|
| `message_framing` | every script of at most two messages out of ten kinds, `recv` returning any number of bytes up to 13 | all hold |
| `pasted_text` | the same with cut text in it | `SrcAtMessages` fails |
| `frame_update` | 4 x 3 pixels, depths 4 and 8, two drawings at any moment | all hold |
| `depth_colours` | 2 x 1 pixels, depths 4, 8, 16 and a mode the driver does not know, two chunks of colours; three changes, of which one drawing, two of depth, three of colour at most | all hold while no colour is used twice |
| `colour_reverts` | two changes, the second back to the first colour | `ClutConverges` fails |
| `whole_frame` | one change of colour during incremental updates | `WholeAfterClutChange` fails |
| `listener` | two clients, five faults of any kind, the handshake in any parts, descriptor 0 open at the start or not | all hold |
| `open_fails` | the driver may fail to open | `SessionReleases` fails |
| `typing` | six characters, of which two are typed, and Shift, in any overlap, on two layouts in three modes, with two changes of mode, layout or session | all hold |
| `foreign_keys` | Shift held for a character the Mac has without it | `TypedWhateverHeld` fails |
| `mouse` | a client that moves between two places and clicks, one action of the real mouse, two switches of devices or mode | all hold |
| `screen` | five cards in all their modes, 12 x 2 pixels, sixteen patterns, two updates; all changes of one octet, and some of two, in tables of five | all hold |

Bounds. `SESS_RECV_BUFF_LEN` is 13 instead of 256: less than one pixel format
(20), one more than a SetEncodings with two encodings, enough for two of the
messages of the fast loop, so messages straddle buffers and share them in every
way. Two messages are enough to see what one leaves behind for the next; that
more make no difference is what the proofs say. A 4 x 3 screen has a dirty
rectangle that may be one row or column, half the screen or more, and its corner
anywhere; with words of two pixels at depth 8 the rectangle also covers pixels
that did not change. Two drawings are enough for one to come before and one
after a row is copied; colours need two changes to hide one behind another, and
a third to see that the next change repairs things. With five faults every
kind may come twice in a row or mix with two others. Two characters are enough
for the first to leave a dead key or a modifier behind for the second, and two
changes for a layout to be chosen and loaded by the next session. The layouts
have a letter with and without Shift, one that takes a dead key, with Option (US)
or without modifiers (French), and completing letters with and without Shift.
A version has its twelve bytes. The two places of the mouse are 30 apart, almost the
furthest six bits can tell in both directions, and with a real movement in
between a distance gets out of their range, so losses happen; the client may go to and
fro as often as it likes. The patterns of `screen` are such that every pair of
neighbouring pixels and both nibbles of a byte take many values; 12 columns are
one and a half turns at one bit, so the last columns are never copied, and three
turns or more at the other depths. One of its cards has a gap after its 8-bit
mode, one has no deep mode, one lists more modes than the driver keeps.
Five octets stand for 2048: equal octets on both sides are an invertible step of
the CRC, so what follows a difference can neither hide nor undo it; only what
is in the register when the difference comes could matter, and it does not since
the CRC is linear.
`MaxTyped` counts characters that arrive: Shift, and keysyms without a character,
come on top of them. Layouts whose first
place of character 0 is a dead key are left out (`IsLayout`): there every keysym
without a character would press it.

The runs that fail show where the code and what its comments or documentation
say of it part:

* **Pasted text** (session.c:274). Only the eight bytes of the ClientCutText
  header are consumed. What the user pasted is then parsed as messages.
* **A colour changed and changed back** (frame_buffer.c:88). The hash belongs to
  the table before the chunks are fetched; a change in between that is undone
  later is never noticed, and the client keeps the wrong colour.
* **No whole frame after a colour change** (session.c:508). `clut_changed` is
  reset by `vnc_upd_send_colourmap` before `vnc_upd_send_hdr_raw` looks at it.
  Pixels and colours are right all the same; only the intended whole-frame
  update does not take place.
* **The wrong descriptor** (session.c:59). If `/dev/fb0` does not open, the
  cleanup runs with `sess.sock` still 0: it closes 0, and the client's descriptor
  stays open. `AtMostOneOrphan` bounds what is left behind: 0 is the lowest
  descriptor, so it is the next one handed out. Worse is a daemon started without a
  descriptor 0: there 0 is the listening socket, and once it is closed the daemon
  lives on with `accept` returning -1 for ever, so that `init` has no reason to start
  it again. `ListenerKept` says in both directions when that is: after the first
  failed open of such a daemon, and never else. Whether `init` leaves 0 closed is
  not in the repository; `inittab.line` does not open it.
* **Modifiers that are down already** (session.c:393). The keys of a character are
  pressed on top of what the user holds. A character that takes Shift on the
  client's keyboard and none on the Mac's becomes the shifted one.

A failing `listen` (main.c:58) is reported and ignored: the daemon then goes
through sessions on descriptor -1, one after another, for `accept` fails at
once. `listener` lets that happen: the sessions give back what they take, but
nobody can connect, so `ListenerKept` is about daemons whose `listen` worked.
`FirstMessageFirst` says how far a version in two parts (session.c:150) puts the
message loop off: the type it reads first may be the ClientInit byte, never a
character of the version, which would be an illegal message.

## Fairness

`MessageFraming`: weak fairness of the parser (nothing in it waits) and of
`recv` (TCP delivers what was sent). `FrameUpdate`: weak fairness of the answer
(the daemon is a process the system keeps running) and of the client's next
request; none of the Mac, none of failures. `Listener`: weak fairness of the
daemon and of init; each connected client hangs up some day. The last is an
assumption about users: the daemon has no timeout, and one silent client keeps
all others out for as long as it likes. `Keyboard` states safety only and has no
fairness; its runs do not check for deadlock, as the user stops
typing at the bounds. `Mouse`: weak fairness of the system call, which comes to
its end, and of the cursor task, which the vertical retrace runs; none of the
client, the real mouse and the programs that switch devices. `VideoMemory` and
`Crc32` state safety only.

## Proofs

Each module `M` with behaviour has its proofs in `MProofs`. Everything is proved for
all values of the constants that satisfy the assumptions named below; the bounds
(`MaxDraws`, `MaxFaults`, `MaxTyped`, ...) are among those constants, so no theorem
depends on how long a behaviour is. Each `Invariance` is that of an inductive
invariant `Inv`, proved with one lemma per action; where a run's invariant is not a
conjunct of it, it follows from it.

| Module | Theorems | State |
|---|---|---|
| `MessageFramingProofs` | `Invariance`, `TypeCorrect`, `AlwaysInOrder`, `AlwaysAtMessages`, `AlwaysWholeMessage`, `AlwaysNothingWithheld`, `Implements` | all invariants of `message_framing`, and the safety part of `ImplementsDecoder` |
| `FrameUpdateProofs` | `Invariance`, `TypeCorrect`, `Mirrored`, `BodiesFit`, `ColoursFirst` | all invariants of `frame_update` and `depth_colours` |
| `ListenerProofs` | `Invariance`, `TypeCorrect`, `OneOrphan`, `StillListening`, `StartsWithFirst`, `NoStandoff` | all invariants of `listener` |
| `KchrProofs` | `Reversal` | what `kchr_keys_for_char` finds for a character produces it |
| `KeyboardProofs` | `Invariance`, `TypeCorrect`, `NeverStuck`, `TypedRight` | all invariants of `typing` |
| `MouseProofs` | `Invariance`, `TypeCorrect`, `Alternating`, `ButtonRight`, `PointerRight` | all invariants of `mouse` |
| `VideoMemoryProofs` | `Invariance`, `TypeCorrect`, `AlwaysMapped`, `Faithful`, `SpanExact` | the invariants of `screen` about pixels |
| `Crc32Proofs` | `Invariance`, `AlwaysSeen` | the invariant of `screen` about colours |

### Message framing

None of the properties but the types is inductive: between two messages they say
nothing of what is in `messageInProgress`. `Bookkeeping` says it for every state:
the number of messages handled tells which message is being read; the bytes up to
`msg_dst` are its first bytes (`ReadingStruct`), or, in a SetEncodings whose header
is complete, the header and part of the encoding that `numberOfEncodings` counts
down to (`ReadingEncoding`); and in each case `src` is the byte after the last one
copied. The proof rests on facts about scripts (`Layout`, `Starts`, `Ends`,
`Positions`): starting positions grow strictly, so a position determines its
message. Those about the sum of sizes are assumed of scripts in `IsScript`, which
TLC evaluates for the scripts of the runs (`ScriptsAssumption`). `Implements` then
maps each step to one of the decoder or to a stutter: `Recv` to `Arrive`,
`FastMessage`, `Dispatch` and the last `DispatchEncoding` to `HandleNext`, `RecvFail`
to `HangUp`, `Illegal` to `Reject`, and all the rest to nothing.

The theorems are under `NothingPasted` (no ClientCutText has text), without which
`pasted_text` shows them false.

### Framebuffer update

`ClientMirrors` speaks of the moments between two answers only, so what matters is
where a difference is on record meanwhile. `Covered` says it: every cell the client
does not show as it is in `frame_to_send` is in the span of the row being copied or
the rectangle found so far, then in the rectangle reported, then in a row of it the
dirty cursor has still to reach. To keep that, `Progress` says that the span ends
before the next word, `Rectangles` that the found rectangle lies in rows already
copied and the reported one is never empty (the inclusive corners), `Body` that
cursor, announced rectangle and pixels received agree on the rows gone out, and
`Palette` that the client's colours are those fetched last unless `clut_changed`.
Since cells are numbered, the geometry is a set of lemmas of its own (`PlaceOf`,
`CellOf`, `WordOf`).

Assumed: a screen of at least one pixel, a whole number of words wide
(`WordAssumption`), and what the constants are.

### Listener

`Descriptors` says what is open at each stage, and that closing what a session has
always leads back to `AtRest`, the table of a daemon between two sessions. Started
with a descriptor 0, it has the listener in 3, and once the driver has failed to open
0 may be missing and a client be left in 4. Started without, it has the listener in
0, until the driver first fails to open: then there is none, and a client may be left in 3.
This is why a wrong `close` leaves one descriptor behind and never two, and why
only the second kind of daemon can lose its socket (`StillListening`). `Handshake` counts:
how many messages have gone out and how many bytes have been taken at each step, and
that no byte arrives before what it answers; `NeverBothWait` and
`FirstMessageFirst` follow from it.

Assumed: a descriptor table of more than five (`ListenerAssumption`); A/UX has tens.
Nothing is assumed of descriptor 0.

### Keyboard

`Reversal` is about `kchr.c` alone, for every layout and every character but NUL:
there are keys for just the characters that the layout produces, and one key, or a
dead key and another, pressed with the modifiers found, produce the character when
the Mac has no dead key pending.

`NothingStuck` needs `Released`: every press among the codes still to be sent is
followed by its release or belongs to a key the client holds (`Settled`), and so is
every key that is down (`Covered`). As what a key event releases is computed again
when the key is let go, it also needs `Loaded`, that the table is that of some
layout.

`TypedAsMeant` needs a second invariant, `ToCome`, inductive relative to the first
one: what the user means is what the programs have, followed by what the codes still
to be sent will give them. `Coming` spells this out for the three cases there are, no
stroke of a key that is not a modifier, one, or two of which the first is a dead
key, with the modifiers that will be down when each code arrives (`DownAt`) and the
dead key that is pending then. A key event establishes it by `Reversal`; `do_key`
takes the first code away and keeps it.

Assumed: `IsLayout`, what layouts are like (their tables can be reached with the
five modifiers that have key codes, dead keys are told apart by their places, their
completors are characters of some key, and character 0 is not a dead key where
`kchr.c` finds it first), and that modifier keys do nothing by themselves. TLC
evaluates both for the layouts of the runs.

### Mouse

`Clicks` relates MBSTATE to the last event posted at each step of `fb_ui_mouse`,
`Way` keeps the two ways of an event apart, `Untouched` says what an event has done
so far if nothing has interrupted it, and `Movement` that the receiver's pointer is
where the driver remembers it and what is about to be sent is the distance to the
client's.

### VideoMemory

`Mapping` says that what is mapped are the rows of a mode with at least eight bits,
and with `CardAssumption` (rows get no shorter with the depth) this is enough for every
mode of fewer bits. `Copied` says how far a row has come, `Dirty` that the span
encloses what differs and that a store with a difference is at either end of it;
`PixelsFit`, a part of `TypeOK`, needs the bits that are taken apart below (`Fits`).
The rest is arithmetic: each entry of a table, stored in the byte order of the 68k, is
taken apart into bits (`LutOne` and its like), once for every depth.

### Crc32

The registers of the two tables are equal until the change, then different for
ever. That equal octets keep a difference is `SameOctetKept`; that a change of one or
two octets makes one is `ChangedOctetsSeen`. Both rest on two facts about
`fb_crc_32_tab`: different indices give entries with different high octets
(`TableInjective`), and the register after an octet tells which entry was used and
what the register was before, but for its low octet (`UpdateInjective`). Each is shown bit by bit from the polynomial, by running the
eight steps of the division backwards (`StepBack`).

### Only model-checked

Liveness (`EveryMessageHandled`, `FrameConverges`, `ClutConverges`,
`WaitingClientsServed`, `CursorFollows`) and the fairness part of
`ImplementsDecoder`: liveness under fairness is out of the prover's reach. The runs
that fail show counterexamples, so there is nothing to prove about their properties.

## Plan

Done: the message loop, its abstract decoder and its refinement; the framebuffer
update with the colour table; the listener with the handshake; the keyboard and
its layouts; the mouse; mode list, mapping, row copiers and lookup tables; the
CRC; and proofs of every invariant. To do, in this order:

1. An abstract mirror, with "mark" and "send" for steps, that `FrameUpdate`
   implements, and one of a life cycle for `Listener`, each with its safety proved.
2. How far `TypedWhateverHeld` is off when it fails: what a character can become
   with the modifiers that are held.
3. A screen that changes its resolution during a session (session.c:497), and
   `kchr_load` chunk by chunk while the layout changes.

## Not modelled

* The timer: diagnostics, whose result is printed in code that is commented out.
* `fbtest.c`, which prints what each ioctl returns, and FB_MOUSE_STATE and
  FB_UI_DEVICES, which only it uses; `fb_read`, `fb_write` and `fb_select` of the
  driver, which nothing here calls.
* The slot manager behind `fb_get_vpblock`: a mode is there or not.
* The entries of `macroman.c` and the keycodes of special keys: data, with nothing
  in the code to compare them with. Keypad digits 8 and 9 come out one code too
  low (keyboard_mess.c:103); no property speaks of codes.
* Short writes (`sendw`, session.c:115): on a blocking socket they take a caught
  signal, which the daemon does not have.
* The bytes of a KCHR resource and of the messages' payloads, host names, logging.
* Build and installation scripts.

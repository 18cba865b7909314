------------------------------ MODULE Listener ------------------------------
(***************************************************************************)
(* The life of the daemon: init starts it and starts it again (inittab),   *)
(* listener (app/main.c) accepts one client after another, and             *)
(* handle_session (app/session.c) takes what a session needs, two file     *)
(* descriptors and the memory of the frame, goes through the handshake     *)
(* with the client, and gives everything back.  What goes on after the     *)
(* handshake is in MessageFraming, FrameUpdate, Keyboard and Mouse.        *)
(*                                                                         *)
(* A byte is its position in what the client sends: VERSION bytes of text, *)
(* the ClientInit byte, then messages.                                     *)
(***************************************************************************)
EXTENDS Integers, FiniteSets, Sequences

CONSTANTS
  Clients,
  NFDS,           \* the size of the descriptor table, which never fills up
  Backlog,        \* how many clients the system lets wait to be accepted
  VERSION,        \* the length of a protocol version, 12
  MaxFaults       \* how many things go wrong in all (a bound)

ASSUME ListenerAssumption ==
  /\ NFDS \in Nat /\ NFDS > 5
  /\ Backlog \in Nat \ {0}
  /\ VERSION \in Nat \ {0}
  /\ MaxFaults \in Nat

VARIABLES
  pc,         \* where the daemon is
  fds,        \* what each descriptor stands for
  listening,  \* the listener's socket is bound and listens
  queue,      \* the clients waiting to be accepted
  where,      \* where each client is
  clisock,    \* as in listener
  serving,    \* the client behind clisock, if any
  sock, fb_fd,   \* sess.sock and sess.fb_fd
  frame_to_send, \* the session has a frame: sess.fb.frame_to_send is not NULL
  frames,     \* how many frames are allocated
  arrived,    \* how many bytes of the handshake have come from the client
  taken,      \* how many of them recv has returned
  told,       \* how many of its three messages the daemon has sent
  whole,      \* recv has returned the whole version (for the properties)
  stdin,      \* descriptor 0 was open when the daemon started
  openFailed, \* the driver has failed to open (for the properties)
  faults      \* how many things have gone wrong (bounded)

net == <<listening, queue, where>>
accepted == <<clisock, serving>>
session == <<sock, fb_fd, frame_to_send, frames>>
handshake == <<arrived, taken, told, whole>>
vars == <<pc, fds, net, accepted, session, handshake, stdin, openFailed, faults>>

-----------------------------------------------------------------------------

FDs == 0 .. NFDS - 1

Nobody == "nobody"

\* What is open when the daemon starts.  inittab.line redirects descriptors 1 and 2;
\* 0 is what init leaves there, or the terminal of whoever starts vncd by hand.
StandardFds(zero) ==
  [n \in FDs |-> IF n \in {1, 2} \/ (n = 0 /\ zero) THEN "standard" ELSE "free"]

FreeFds == {n \in FDs : fds[n] = "free"}

\* The lowest free descriptor.
Lowest == CHOOSE n \in FreeFds : \A m \in FreeFds : n <= m

Listener(f) == \E n \in FDs : f[n] = "listener"

Listens == listening /\ Listener(fds)

Fault == faults < MaxFaults /\ faults' = faults + 1

\* Everybody's connection is gone.
Disconnected == queue' = <<>> /\ where' = [c \in Clients |-> "away"]

NoSession ==
  /\ clisock' = -1 /\ serving' = Nobody
  /\ sock' = 0 /\ fb_fd' = 0 /\ frame_to_send' = FALSE /\ frames' = 0
  /\ arrived' = 0 /\ taken' = 0 /\ told' = 0 /\ whole' = FALSE

Init ==
  /\ pc = "down"
  /\ fds = [n \in FDs |-> "free"]
  /\ listening = FALSE
  /\ queue = <<>>
  /\ where = [c \in Clients |-> "away"]
  /\ clisock = -1 /\ serving = Nobody
  /\ sock = 0 /\ fb_fd = 0
  /\ frame_to_send = FALSE /\ frames = 0
  /\ arrived = 0 /\ taken = 0 /\ told = 0 /\ whole = FALSE
  /\ stdin = FALSE /\ openFailed = FALSE
  /\ faults = 0

-----------------------------------------------------------------------------
\* init starts vncd, or somebody by hand, and main gets as far as listener.
Respawn ==
  /\ pc = "down"
  /\ pc' = "socket"
  /\ stdin' \in BOOLEAN
  /\ fds' = StandardFds(stdin')
  /\ openFailed' = FALSE
  /\ UNCHANGED <<net, accepted, session, handshake, faults>>

\* The daemon dies or returns from main: the system closes all it had.
Die ==
  /\ pc' = "down"
  /\ fds' = [n \in FDs |-> "free"]
  /\ listening' = FALSE
  /\ Disconnected /\ NoSession
  /\ UNCHANGED <<stdin, openFailed>>

Crash == pc # "down" /\ Fault /\ Die

\* socket or bind fails.
SetupFails == pc \in {"socket", "bind"} /\ Fault /\ Die

MakeSocket ==
  /\ pc = "socket"
  /\ fds' = [fds EXCEPT ![Lowest] = "listener"]
  /\ pc' = "bind"
  /\ UNCHANGED <<net, accepted, session, handshake, stdin, openFailed, faults>>

\* bind and listen; when listen fails listener says so and goes on.
BindAndListen ==
  /\ pc = "bind"
  /\ pc' = "accept"
  /\ \/ listening' = TRUE /\ UNCHANGED faults
     \/ Fault /\ UNCHANGED listening
  /\ UNCHANGED <<fds, queue, where, accepted, session, handshake, stdin, openFailed>>

-----------------------------------------------------------------------------
Accept ==
  /\ pc = "accept"
  /\ Listens /\ queue # <<>>
  /\ fds' = [fds EXCEPT ![Lowest] = "client"]
  /\ clisock' = Lowest
  /\ serving' = Head(queue)
  /\ where' = [where EXCEPT ![Head(queue)] = "connected"]
  /\ queue' = Tail(queue)
  /\ pc' = "open"
  /\ UNCHANGED <<listening, session, handshake, stdin, openFailed, faults>>

\* accept returns -1, which is handed on all the same.
NothingAccepted ==
  /\ clisock' = -1 /\ serving' = Nobody
  /\ pc' = "open"
  /\ UNCHANGED <<fds, net, session, handshake, stdin, openFailed>>

AcceptInterrupted == pc = "accept" /\ Fault /\ NothingAccepted

AcceptBroken ==
  /\ pc = "accept"
  /\ ~Listens
  /\ NothingAccepted
  /\ UNCHANGED faults

-----------------------------------------------------------------------------
\* Mutant: the client's socket is not stored in the session.
SocketNotStored ==
  /\ pc = "open"
  /\ fds' = [fds EXCEPT ![Lowest] = "framebuffer"]
  /\ fb_fd' = Lowest
  /\ sock' = 0
  /\ pc' = "init"
  /\ UNCHANGED <<net, accepted, frame_to_send, frames, handshake, stdin, openFailed, faults>>

\* handle_session has its descriptor of the framebuffer driver.
OpenFramebuffer ==
  /\ pc = "open"
  /\ fds' = [fds EXCEPT ![Lowest] = "framebuffer"]
  /\ fb_fd' = Lowest
  /\ sock' = clisock
  /\ pc' = "init"
  /\ UNCHANGED <<net, accepted, frame_to_send, frames, handshake, stdin, openFailed, faults>>

\* The jump to cleanup comes before sess.sock is set: it is still 0.
OpenFails ==
  /\ pc = "open"
  /\ Fault
  /\ sock' = 0
  /\ fb_fd' = -1
  /\ openFailed' = TRUE
  /\ pc' = "cleanup"
  /\ UNCHANGED <<fds, net, accepted, frame_to_send, frames, handshake, stdin>>

\* fb->frame_to_send = malloc(fb->frame_size)
AllocateFrame == frame_to_send' = TRUE /\ frames' = frames + 1

\* fb_init, session_setupVideoInfo and kchr_load; an ioctl may fail before the
\* frame is allocated or after it.
InitSession ==
  /\ pc = "init"
  /\ \/ AllocateFrame /\ pc' = "sendVersion" /\ UNCHANGED faults
     \/ (AllocateFrame \/ UNCHANGED <<frame_to_send, frames>>) /\ pc' = "cleanup" /\ Fault
  /\ UNCHANGED <<fds, net, accepted, sock, fb_fd, handshake, stdin, openFailed>>

-----------------------------------------------------------------------------
\* Mutant: ClientInit is waited for before the security type is sent.
SecurityLate ==
  [sendVersion |-> "recvVersion", recvVersion |-> "recvInit", recvInit |-> "sendSecurity",
   sendSecurity |-> "sendInit", sendInit |-> "first"]

\* The five steps of the handshake, and the first byte of a message.
Following ==
  [sendVersion |-> "recvVersion", recvVersion |-> "sendSecurity", sendSecurity |-> "recvInit",
   recvInit |-> "sendInit", sendInit |-> "first"]

Sending == {"sendVersion", "sendSecurity", "sendInit"}
Receiving == {"recvVersion", "recvInit", "first", "messages"}

ClientThere == sock # -1 /\ serving # Nobody /\ where[serving] = "connected"

\* One of the daemon's messages; that the client is gone may not show yet.
Send ==
  /\ pc \in Sending
  /\ sock # -1
  /\ told' = told + 1
  /\ pc' = Following[pc]
  /\ UNCHANGED <<fds, net, accepted, session, arrived, taken, whole,
                 stdin, openFailed, faults>>

\* Mutant: the newline is not counted as part of the version.
WithoutNewline == VERSION - 1

VersionAsked == VERSION

\* recv returns what has arrived, and at most what it was asked for.
RecvVersion ==
  /\ pc = "recvVersion"
  /\ arrived > 0
  /\ taken' = IF arrived < VersionAsked THEN arrived ELSE VersionAsked
  /\ whole' = (arrived >= VERSION)
  /\ pc' = Following[pc]
  /\ UNCHANGED <<fds, net, accepted, session, arrived, told, stdin, openFailed, faults>>

RecvInit ==
  /\ pc = "recvInit"
  /\ arrived > taken
  /\ taken' = taken + 1
  /\ pc' = Following[pc]
  /\ UNCHANGED <<fds, net, accepted, session, arrived, told, whole,
                 stdin, openFailed, faults>>

\* The message loop takes its first byte for the type of a message: no character
\* of a version is one, but a ClientInit of 0 is that of SetPixelFormat.
FirstByte ==
  /\ pc = "first"
  /\ arrived > taken
  /\ \/ taken >= VERSION /\ pc' = "messages"
     \/ taken <= VERSION /\ pc' = "cleanup"
  /\ UNCHANGED <<fds, net, accepted, session, handshake, stdin, openFailed, faults>>

-----------------------------------------------------------------------------
\* Mutant: a recv of no bytes is not taken for the end.
OnlyOnError == sock = -1

\* A recv fails or finds the end of the stream, or a send fails.
ConnectionOver ==
  \/ sock = -1
  \/ ~ClientThere /\ (pc \in Receiving => arrived = taken \/ pc = "messages")

SessionOver ==
  /\ pc \in Sending \cup Receiving
  /\ ConnectionOver
  /\ pc' = "cleanup"
  /\ UNCHANGED <<fds, net, accepted, session, handshake, stdin, openFailed, faults>>

\* session_err: an illegal message, a refused pixel format, an ioctl that fails.
SessionErr ==
  /\ pc = "messages"
  /\ Fault
  /\ pc' = "cleanup"
  /\ UNCHANGED <<fds, net, accepted, session, handshake, stdin, openFailed>>

Without(n, f) == [m \in FDs |-> IF m = n THEN "free" ELSE f[m]]

\* Mutant: the framebuffer driver is not closed.
ReleasedButDriver == Without(sock, fds)

\* close(sess.sock), close(sess.fb_fd)
Released == Without(fb_fd, Without(sock, fds))

\* Mutant: fb_free is not called.
FramesKept == frames

\* free(fb->frame_to_send)
FramesFreed == IF frame_to_send THEN frames - 1 ELSE frames

\* Where a client is when what Cleanup closes is closed: it sees its connection
\* closed only if it was its descriptor that was, and those that wait to be accepted
\* are turned away only if the listener's was.
WhereAfter(c) ==
  CASE where[c] = "connected" /\ c = serving -> IF clisock = sock THEN "away" ELSE "stranded"
    [] where[c] = "queued" /\ ~Listener(Released) -> "away"
    [] OTHER -> where[c]

\* The cleanup, and the way back to accept, where the next session starts from
\* nothing (memset).
Cleanup ==
  /\ pc = "cleanup"
  /\ frames' = FramesFreed
  /\ fds' = Released
  /\ where' = [c \in Clients |-> WhereAfter(c)]
  /\ queue' = IF Listener(Released) THEN queue ELSE <<>>
  /\ serving' = Nobody /\ clisock' = -1
  /\ sock' = 0 /\ fb_fd' = 0 /\ frame_to_send' = FALSE
  /\ arrived' = 0 /\ taken' = 0 /\ told' = 0 /\ whole' = FALSE
  /\ pc' = "accept"
  /\ UNCHANGED <<listening, stdin, openFailed, faults>>

-----------------------------------------------------------------------------
\* Connecting takes no more than a daemon that listens and room in its queue.
Connect(c) ==
  /\ where[c] = "away"
  /\ Listens /\ Len(queue) < Backlog
  /\ where' = [where EXCEPT ![c] = "queued"]
  /\ queue' = Append(queue, c)
  /\ UNCHANGED <<pc, fds, listening, accepted, session, handshake,
                 stdin, openFailed, faults>>

HangUp(c) ==
  /\ where[c] \in {"connected", "stranded"}
  /\ where' = [where EXCEPT ![c] = "away"]
  /\ serving' = IF serving = c THEN Nobody ELSE serving
  /\ UNCHANGED <<pc, fds, listening, queue, clisock, session, handshake,
                 stdin, openFailed, faults>>

\* How far a client gets before it waits for the daemon: each of its messages
\* answers one of the daemon's.
MaySend == IF told = 0 THEN 0 ELSE VERSION + told - 1

\* Bytes of the handshake, or the first message, arrive.
ClientSends ==
  /\ ClientThere
  /\ arrived < MaySend
  /\ arrived' \in arrived + 1 .. MaySend
  /\ UNCHANGED <<pc, fds, net, accepted, session, taken, told, whole,
                 stdin, openFailed, faults>>

-----------------------------------------------------------------------------

Daemon ==
  \/ Respawn
  \/ MakeSocket
  \/ BindAndListen
  \/ Accept
  \/ AcceptBroken
  \/ OpenFramebuffer
  \/ OpenFails
  \/ InitSession
  \/ Send
  \/ RecvVersion
  \/ RecvInit
  \/ FirstByte
  \/ SessionOver
  \/ Cleanup

Next ==
  \/ Daemon
  \/ Crash
  \/ SetupFails
  \/ AcceptInterrupted
  \/ SessionErr
  \/ \E c \in Clients : Connect(c) \/ HangUp(c)
  \/ ClientSends

(***************************************************************************)
(* The system runs the daemon, and whoever has a session ends it some day: *)
(* the daemon itself has no timeout.  Nobody has to connect.               *)
(***************************************************************************)
Spec ==
  /\ Init /\ [][Next]_vars
  /\ WF_vars(Daemon)
  /\ \A c \in Clients : WF_vars(HangUp(c))

-----------------------------------------------------------------------------
\* Every variable has its type; in particular there is never more than one frame, and
\* none is freed twice.
TypeOK ==
  /\ pc \in {"down", "socket", "bind", "accept", "open", "init", "cleanup"}
             \cup Sending \cup Receiving
  /\ fds \in [FDs -> {"free", "standard", "listener", "client", "framebuffer"}]
  /\ listening \in BOOLEAN
  /\ queue \in Seq(Clients) /\ Len(queue) <= Backlog
  /\ where \in [Clients -> {"away", "queued", "connected", "stranded"}]
  /\ clisock \in FDs \cup {-1} /\ serving \in Clients \cup {Nobody}
  /\ sock \in FDs \cup {-1} /\ fb_fd \in FDs \cup {-1}
  /\ frame_to_send \in BOOLEAN /\ frames \in 0 .. 1
  /\ arrived \in 0 .. VERSION + 2 /\ taken \in 0 .. arrived
  /\ told \in 0 .. 3
  /\ whole \in BOOLEAN /\ stdin \in BOOLEAN /\ openFailed \in BOOLEAN
  /\ faults \in 0 .. MaxFaults

Orphans == {n \in FDs : fds[n] \in {"client", "framebuffer"}}

(***************************************************************************)
(* "The session is responsible for all the resources that pertain to a     *)
(* user connection" (README.md:79): between two sessions nothing is left   *)
(* of the ones before, however they ended (the cleanup of handle_session,  *)
(* session.c:90-94).                                                       *)
(***************************************************************************)
SessionReleases == pc = "accept" => frames = 0 /\ Orphans = {}

(***************************************************************************)
(* What the cleanup does leave behind.  Only when the framebuffer driver   *)
(* could not be opened does handle_session close descriptor 0 in place of  *)
(* the client's (session.c:54-60), and that never costs more than one      *)
(* descriptor for the life of the process: from then on 0 is what accept   *)
(* or open returns, or, when 0 was the listening socket, accept returns    *)
(* nothing any more.                                                       *)
(***************************************************************************)
AtMostOneOrphan ==
  pc = "accept" =>
    /\ frames = 0
    /\ Cardinality(Orphans) <= IF openFailed THEN 1 ELSE 0

(***************************************************************************)
(* "This fires up a socket listener, and for each connection, fires up a   *)
(* session" (README.md:78): a daemon that waits in accept, and whose       *)
(* listen did not fail, is one a client can connect to (main.c:63-67),     *)
(* however its sessions have ended.  The exception is a daemon started     *)
(* without a descriptor 0, so that the listening socket is 0: once the     *)
(* framebuffer driver has failed to open, the cleanup has closed it        *)
(* (session.c:54-60, 90-94), and it never listens again.                   *)
(***************************************************************************)
ListenerKept ==
  pc = "accept" /\ listening => (Listens <=> stdin \/ ~openFailed)

(***************************************************************************)
(* The message loop starts with the client's first message, unless the     *)
(* version came in two parts (each recv of the handshake takes what there  *)
(* is, session.c:146-166).  Even then no part of the version is taken for  *)
(* a message: only the ClientInit byte is, when all but the version's      *)
(* newline had come.                                                       *)
(***************************************************************************)
FirstMessageFirst ==
  pc = "messages" => taken = VERSION + 1 \/ (~whole /\ taken = VERSION)

(***************************************************************************)
(* Client and daemon never wait for each other: where the daemon is in     *)
(* recv with nothing to read, the client has been told what it answers     *)
(* next, however the version was cut (session.c:78-83).                    *)
(***************************************************************************)
NeverBothWait ==
  pc \in Receiving \ {"messages"} /\ arrived = taken /\ ClientThere => arrived < MaySend

(***************************************************************************)
(* A client that waits its turn gets it, or is turned away, as sessions    *)
(* end (main.c:63-67): no failure of one session leaves it waiting for     *)
(* ever.                                                                   *)
(***************************************************************************)
WaitingClientsServed ==
  \A c \in Clients : where[c] = "queued" ~> where[c] # "queued"
=============================================================================

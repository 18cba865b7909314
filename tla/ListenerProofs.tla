-------------------------- MODULE ListenerProofs --------------------------
(***************************************************************************)
(* The safety of the daemon's life cycle (app/main.c, handle_session of    *)
(* app/session.c) for any number of clients, any length of the queue and   *)
(* of a protocol version, and any number of faults.  It rests on one thing *)
(* about the system: the descriptor table has room for six.                *)
(***************************************************************************)
EXTENDS Listener, FiniteSetTheorems, TLAPS

\* The descriptors of a daemon between two sessions, or what they would be with those
\* of the session closed.  One that was started with a descriptor 0 listens in 3, and
\* once the framebuffer driver has failed to open perhaps has no 0 any more, and a
\* client's in 4.  One that was started without listens in 0, until the driver fails to
\* open: then that is closed, and 3 may be a client's.
AtRest(f) ==
  /\ f[1] = "standard" /\ f[2] = "standard"
  /\ stdin =>
       /\ f[3] = "listener"
       /\ f[0] = "standard" \/ (openFailed /\ f[0] = "free")
       /\ f[4] = "free" \/ (f[4] = "client" /\ f[0] = "free")
  /\ ~stdin =>
       /\ ~openFailed => f[0] = "listener" /\ f[3] = "free"
       /\ openFailed => f[0] = "free" /\ f[3] \in {"free", "client"}
       /\ f[4] = "free"
  /\ \A n \in FDs : n > 4 => f[n] = "free"

\* The session has what it will give back.
InSession == pc \in {"init", "cleanup"} \cup Sending \cup Receiving

\* The listening socket, when it is made.
FirstFree == IF stdin THEN 3 ELSE 0

\* What is open at each stage.  Whatever happens in a session, closing what it has
\* leads back to AtRest: for a driver that failed to open, what it "has" is descriptor
\* 0.
Descriptors ==
  /\ pc \in {"socket", "bind"} => ~openFailed
  /\ pc = "socket" => fds = StandardFds(stdin)
  /\ pc = "bind" => fds = [StandardFds(stdin) EXCEPT ![FirstFree] = "listener"]
  /\ pc = "accept" => AtRest(fds)
  /\ pc = "open" =>
       /\ clisock \in IF stdin THEN {-1, 0, 4} ELSE {-1, 3}
       /\ clisock # -1 => fds[clisock] = "client"
       /\ AtRest(Without(clisock, fds))
  /\ InSession => AtRest(Released)

\* A frame is allocated only in a session, which knows of it.
Frames ==
  /\ frame_to_send => frames = 1
  /\ ~frame_to_send => frames = 0
  /\ pc \in {"down", "socket", "bind", "accept", "open", "init"} => ~frame_to_send

\* How far each side is in the handshake: the daemon has sent as many messages, and
\* taken as many bytes, as it is steps into it.  Only the version may come in parts.
Handshake ==
  /\ arrived <= MaySend
  /\ pc \in {"down", "socket", "bind", "accept", "open", "init", "sendVersion"} =>
       arrived = 0 /\ taken = 0 /\ told = 0 /\ ~whole
  /\ pc = "recvVersion" => told = 1 /\ taken = 0 /\ ~whole
  /\ pc = "sendSecurity" => told = 1
  /\ pc \in {"recvInit", "sendInit"} => told = 2
  /\ pc \in {"first", "messages"} => told = 3
  /\ pc \in {"sendSecurity", "recvInit"} =>
       taken \in 1 .. VERSION /\ (whole <=> taken = VERSION)
  /\ pc \in {"sendInit", "first", "messages"} =>
       taken \in 2 .. VERSION + 1 /\ (whole <=> taken = VERSION + 1)
  /\ pc = "messages" => taken >= VERSION

\* The inductive invariant.
Inv == TypeOK /\ Descriptors /\ Frames /\ Handshake

-----------------------------------------------------------------------------
\* The descriptors that come up by number.
LEMMA Numbers ==
  /\ {-1, 0, 1, 2, 3, 4, 5} \subseteq FDs \cup {-1} /\ -1 \notin FDs
  /\ \A n \in FDs : n \in Nat
BY ListenerAssumption DEF FDs

\* The lowest free descriptor, where it is known which it is.
LEMMA LowestIs ==
  ASSUME NEW n \in FreeFds, \A m \in FreeFds : n <= m
  PROVE  Lowest = n
<1>1. \A m \in FreeFds : m \in Nat
  BY Numbers DEF FreeFds
<1>2. \A k \in FreeFds : (\A m \in FreeFds : k <= m) => k = n
  BY <1>1
<1>3. QED BY <1>2 DEF Lowest

\* A daemon that has descriptor 5 free is handed the lowest one that is.
LEMMA LowestIsFree ==
  ASSUME 5 \in FreeFds
  PROVE  Lowest \in FreeFds /\ \A m \in FreeFds : Lowest <= m
<1>1. \A m \in FreeFds : m \in Nat
  BY Numbers DEF FreeFds
<1>2. PICK n \in FreeFds : \A m \in {0, 1, 2, 3, 4, 5} \cap FreeFds : n <= m
  OBVIOUS
<1>3. \A m \in FreeFds : n <= m
  BY <1>1, <1>2
<1>4. QED BY <1>3, LowestIs

\* Closing a descriptor frees it and no other; closing -1 does nothing.
LEMMA WithoutIs ==
  ASSUME NEW f \in [FDs -> {"free", "standard", "listener", "client", "framebuffer"}], NEW n
  PROVE  /\ Without(n, f) \in [FDs -> {"free", "standard", "listener", "client", "framebuffer"}]
         /\ \A m \in FDs : Without(n, f)[m] = IF m = n THEN "free" ELSE f[m]
         /\ n \notin FDs => Without(n, f) = f
BY DEF Without

\* Out of a session nothing of one is left.
LEMMA AllZero ==
  ASSUME NoSession, pc' \in {"down", "accept"}
  PROVE  Frames' /\ Handshake'
BY DEF NoSession, Frames, Handshake, MaySend

\* The invariant holds before init has started the daemon.
LEMMA Start == Init => Inv
<1> SUFFICES ASSUME Init PROVE Inv
  OBVIOUS
<1> USE DEF Init
<1>1. TypeOK
  <2>1. pc = "down" /\ frames \in 0 .. 1 /\ told \in 0 .. 3
    OBVIOUS
  <2>2. arrived \in 0 .. VERSION + 2 /\ taken \in 0 .. arrived /\ faults \in 0 .. MaxFaults
    BY ListenerAssumption
  <2>3. queue \in Seq(Clients) /\ Len(queue) <= Backlog
    BY ListenerAssumption
  <2>4. clisock \in FDs \cup {-1} /\ sock \in FDs \cup {-1} /\ fb_fd \in FDs \cup {-1}
    BY Numbers
  <2>5. /\ listening \in BOOLEAN /\ frame_to_send \in BOOLEAN /\ whole \in BOOLEAN
        /\ stdin \in BOOLEAN /\ openFailed \in BOOLEAN
    OBVIOUS
  <2>6. QED BY <2>1, <2>2, <2>3, <2>4, <2>5 DEF TypeOK
<1>2. Descriptors
  BY DEF Descriptors, InSession, Sending, Receiving
<1>3. Frames /\ Handshake
  BY DEF Frames, Handshake, MaySend
<1>4. QED BY <1>1, <1>2, <1>3 DEF Inv

\* init starts the daemon.
LEMMA RespawnStep == Inv /\ Respawn => Inv'
<1> SUFFICES ASSUME Inv, Respawn PROVE Inv'
  OBVIOUS
<1> USE DEF Respawn
<1>1. TypeOK'
  <2>1. pc' = "socket" /\ stdin' \in BOOLEAN /\ openFailed' \in BOOLEAN
    OBVIOUS
  <2>2. fds' \in [FDs -> {"free", "standard", "listener", "client", "framebuffer"}]
    BY DEF StandardFds
  <2>3. QED BY <2>1, <2>2 DEF Inv, TypeOK, net, accepted, session, handshake
<1>2. Descriptors'
  BY DEF Descriptors, InSession, Sending, Receiving
<1>3. Frames'
  BY DEF Inv, Frames, session
<1>4. Handshake'
  BY DEF Inv, Handshake, handshake, MaySend
<1>5. QED BY <1>1, <1>2, <1>3, <1>4 DEF Inv

\* The daemon dies, at any moment: the system closes all it had.
LEMMA DieStep ==
  ASSUME Inv, Die, Fault
  PROVE  Inv'
<1>1. TypeOK'
  <2>1. faults' \in 0 .. MaxFaults
    BY ListenerAssumption DEF Fault, Inv, TypeOK
  <2>2. queue' \in Seq(Clients) /\ Len(queue') <= Backlog
    BY ListenerAssumption DEF Die, Disconnected
  <2>3. arrived' \in 0 .. VERSION + 2 /\ taken' \in 0 .. arrived'
    BY ListenerAssumption DEF Die, NoSession
  <2>4. clisock' \in FDs \cup {-1} /\ sock' \in FDs \cup {-1} /\ fb_fd' \in FDs \cup {-1}
    BY Numbers DEF Die, NoSession
  <2>5. /\ fds' \in [FDs -> {"free", "standard", "listener", "client", "framebuffer"}]
        /\ where' \in [Clients -> {"away", "queued", "connected", "stranded"}]
    BY DEF Die, Disconnected
  <2>6. /\ pc' = "down" /\ serving' \in Clients \cup {Nobody}
        /\ frames' \in 0 .. 1 /\ told' \in 0 .. 3
    BY DEF Die, NoSession
  <2>7. /\ listening' \in BOOLEAN /\ whole' \in BOOLEAN /\ frame_to_send' \in BOOLEAN
        /\ stdin' \in BOOLEAN /\ openFailed' \in BOOLEAN
    BY DEF Die, NoSession, Inv, TypeOK
  <2>8. QED BY <2>1, <2>2, <2>3, <2>4, <2>5, <2>6, <2>7 DEF TypeOK
<1>2. Descriptors'
  BY DEF Die, Descriptors, InSession, Sending, Receiving
<1>3. Frames' /\ Handshake'
  BY AllZero DEF Die
<1>4. QED BY <1>1, <1>2, <1>3 DEF Inv

\* The listening socket is descriptor 3, or 0 when that is free.
LEMMA MakeSocketStep == Inv /\ MakeSocket => Inv'
<1> SUFFICES ASSUME Inv, MakeSocket PROVE Inv'
  OBVIOUS
<1>1. /\ pc = "socket" /\ pc' = "bind" /\ fds' = [fds EXCEPT ![Lowest] = "listener"]
      /\ UNCHANGED <<net, accepted, session, handshake, stdin, openFailed, faults>>
  BY DEF MakeSocket
<1>2. fds = StandardFds(stdin) /\ stdin \in BOOLEAN
  BY <1>1 DEF Inv, Descriptors, TypeOK
<1>3. Lowest = FirstFree
  <2>1. FirstFree \in FreeFds
    BY <1>2, Numbers DEF FreeFds, StandardFds, FirstFree
  <2>2. ASSUME NEW m \in FreeFds PROVE FirstFree <= m
    BY <1>2, Numbers DEF FreeFds, StandardFds, FirstFree
  <2>3. QED BY <2>1, <2>2, LowestIs
<1>4. TypeOK'
  <2>1. FirstFree \in FDs
    BY Numbers DEF FirstFree
  <2>2. QED
    BY <1>1, <1>3, <2>1 DEF Inv, TypeOK, net, accepted, session, handshake
<1>5. Descriptors'
  <2>1. ~openFailed'
    BY <1>1 DEF Inv, Descriptors
  <2>2. (fds = [StandardFds(stdin) EXCEPT ![FirstFree] = "listener"])'
    BY <1>1, <1>2, <1>3 DEF FirstFree, StandardFds
  <2>3. QED BY <1>1, <2>1, <2>2 DEF Descriptors, InSession, Sending, Receiving
<1>6. Frames' /\ Handshake'
  BY <1>1 DEF Inv, Frames, Handshake, session, handshake, MaySend
<1>7. QED BY <1>4, <1>5, <1>6 DEF Inv

\* bind and listen, which may fail.
LEMMA BindAndListenStep == Inv /\ BindAndListen => Inv'
<1> SUFFICES ASSUME Inv, BindAndListen PROVE Inv'
  OBVIOUS
<1>1. /\ pc = "bind" /\ pc' = "accept"
      /\ UNCHANGED <<fds, queue, where, accepted, session, handshake, stdin, openFailed>>
  BY DEF BindAndListen
<1>2. TypeOK'
  <2>1. listening' \in BOOLEAN
    BY DEF BindAndListen, Inv, TypeOK
  <2>2. faults' \in 0 .. MaxFaults
    BY ListenerAssumption DEF BindAndListen, Fault, Inv, TypeOK
  <2>3. QED BY <1>1, <2>1, <2>2 DEF Inv, TypeOK, accepted, session, handshake
<1>3. Descriptors'
  <2>1. fds = [StandardFds(stdin) EXCEPT ![FirstFree] = "listener"] /\ stdin \in BOOLEAN
    BY <1>1 DEF Inv, Descriptors, TypeOK
  <2>2. \A n \in FDs : fds[n] = IF n = FirstFree THEN "listener" ELSE StandardFds(stdin)[n]
    BY <2>1 DEF StandardFds
  <2>3. /\ fds[1] = "standard" /\ fds[2] = "standard"
        /\ \A n \in FDs : n > 4 => fds[n] = "free"
    BY <2>2, Numbers DEF StandardFds, FirstFree
  <2>4. stdin => fds[0] = "standard" /\ fds[3] = "listener" /\ fds[4] = "free"
    BY <2>2, Numbers DEF StandardFds, FirstFree
  <2>5. ~stdin => fds[0] = "listener" /\ fds[3] = "free" /\ fds[4] = "free"
    BY <2>2, Numbers DEF StandardFds, FirstFree
  <2>6. AtRest(fds)'
    <3>1. ~openFailed
      BY <1>1 DEF Inv, Descriptors
    <3>2. QED BY <1>1, <2>3, <2>4, <2>5, <3>1 DEF AtRest
  <2>7. QED BY <1>1, <2>6 DEF Descriptors, InSession, Sending, Receiving
<1>4. Frames' /\ Handshake'
  BY <1>1 DEF Inv, Frames, Handshake, session, handshake, MaySend
<1>5. QED BY <1>2, <1>3, <1>4 DEF Inv

\* A client's descriptor is 4, or 0 when that is free; for a daemon that listens in 0
\* it is 3.
LEMMA AcceptStep == Inv /\ Accept => Inv'
<1> SUFFICES ASSUME Inv, Accept PROVE Inv'
  OBVIOUS
<1>1. /\ pc = "accept" /\ pc' = "open" /\ queue # <<>> /\ Listener(fds)
      /\ fds' = [fds EXCEPT ![Lowest] = "client"] /\ clisock' = Lowest
      /\ serving' = Head(queue) /\ queue' = Tail(queue)
      /\ where' = [where EXCEPT ![Head(queue)] = "connected"]
      /\ UNCHANGED <<listening, session, handshake, stdin, openFailed, faults>>
  BY DEF Accept, Listens
<1>2. /\ AtRest(fds)
      /\ fds \in [FDs -> {"free", "standard", "listener", "client", "framebuffer"}]
      /\ stdin \in BOOLEAN
  BY <1>1 DEF Inv, Descriptors, TypeOK
<1>3. Lowest \in (IF stdin THEN {0, 4} ELSE {3}) /\ fds[Lowest] = "free"
  <2>1. 5 \in FreeFds
    BY <1>2, Numbers DEF AtRest, FreeFds
  <2>2. Lowest \in Nat /\ fds[Lowest] = "free" /\ \A m \in FreeFds : Lowest <= m
    BY <2>1, LowestIsFree, Numbers DEF FreeFds
  <2>3. CASE stdin
    <3>1. Lowest \notin {1, 2, 3}
      BY <1>2, <2>2, <2>3 DEF AtRest
    <3>2. Lowest <= 4
      BY <1>2, <2>2, <2>3, Numbers DEF AtRest, FreeFds
    <3>3. QED BY <2>2, <2>3, <3>1, <3>2
  <2>4. CASE ~stdin
    <3>1. fds[0] = "listener" /\ fds[3] = "free"
      <4>1. PICK n \in FDs : fds[n] = "listener"
        BY <1>1 DEF Listener
      <4>2. n \in Nat /\ n \notin {1, 2, 4} /\ ~(n > 4)
        BY <1>2, <2>4, <4>1, Numbers DEF AtRest
      <4>3. n = 0 \/ n = 3
        BY <4>2
      <4>4. QED BY <1>2, <2>4, <4>1, <4>3 DEF AtRest
    <3>2. Lowest \notin {0, 1, 2}
      BY <1>2, <2>2, <3>1 DEF AtRest
    <3>3. Lowest <= 3
      BY <2>2, <3>1, Numbers DEF FreeFds
    <3>4. QED BY <2>2, <2>4, <3>2, <3>3
  <2>5. QED BY <1>2, <2>3, <2>4
<1>4. Lowest \in FDs
  BY <1>3, Numbers
<1>5. TypeOK'
  <2>1. queue \in Seq(Clients) /\ Len(queue) <= Backlog
    BY DEF Inv, TypeOK
  <2>2. /\ Head(queue) \in Clients /\ Tail(queue) \in Seq(Clients)
        /\ Len(Tail(queue)) <= Backlog
    BY <1>1, <2>1, ListenerAssumption
  <2>3. /\ fds' \in [FDs -> {"free", "standard", "listener", "client", "framebuffer"}]
        /\ where' \in [Clients -> {"away", "queued", "connected", "stranded"}]
    BY <1>1, <1>2, <2>2 DEF Inv, TypeOK
  <2>4. QED BY <1>1, <1>4, <2>2, <2>3 DEF Inv, TypeOK, session, handshake
<1>6. Descriptors'
  <2>1. fds'[Lowest] = "client"
    BY <1>1, <1>2, <1>4
  <2>2. Without(Lowest, fds') = fds
    BY <1>1, <1>2, <1>3 DEF Without
  <2>3. AtRest(Without(clisock, fds))'
    BY <1>1, <1>2, <2>2 DEF AtRest, Without
  <2>4. QED BY <1>1, <1>3, <2>1, <2>3 DEF Descriptors, InSession, Sending, Receiving
<1>7. Frames' /\ Handshake'
  BY <1>1 DEF Inv, Frames, Handshake, session, handshake, MaySend
<1>8. QED BY <1>5, <1>6, <1>7 DEF Inv

\* accept returns -1.
LEMMA NothingAcceptedStep ==
  ASSUME Inv, pc = "accept", NothingAccepted, faults' \in 0 .. MaxFaults
  PROVE  Inv'
<1>1. TypeOK'
  BY DEF NothingAccepted, Inv, TypeOK, net, session, handshake
<1>2. Descriptors'
  <2>1. AtRest(fds) /\ Without(-1, fds) = fds
    BY WithoutIs, Numbers DEF Inv, Descriptors, TypeOK
  <2>2. AtRest(Without(clisock, fds))'
    BY <2>1 DEF NothingAccepted, AtRest, Without
  <2>3. QED BY <2>2 DEF NothingAccepted, Descriptors, InSession, Sending, Receiving
<1>3. Frames' /\ Handshake'
  BY DEF NothingAccepted, Inv, Frames, Handshake, session, handshake, MaySend
<1>4. QED BY <1>1, <1>2, <1>3 DEF Inv


\* The driver's descriptor is the first that is free.
LEMMA OpenFramebufferStep == Inv /\ OpenFramebuffer => Inv'
<1> SUFFICES ASSUME Inv, OpenFramebuffer PROVE Inv'
  OBVIOUS
<1>1. /\ pc = "open" /\ pc' = "init"
      /\ fds' = [fds EXCEPT ![Lowest] = "framebuffer"]
      /\ fb_fd' = Lowest /\ sock' = clisock
      /\ UNCHANGED <<net, accepted, frame_to_send, frames, handshake, stdin, openFailed, faults>>
  BY DEF OpenFramebuffer
<1>2. /\ fds \in [FDs -> {"free", "standard", "listener", "client", "framebuffer"}]
      /\ clisock \in {-1, 0, 3, 4} /\ (clisock # -1 => fds[clisock] = "client")
      /\ AtRest(Without(clisock, fds))
  BY <1>1 DEF Inv, Descriptors, TypeOK
<1>3. Lowest \in FDs /\ fds[Lowest] = "free"
  <2>1. fds[5] = "free"
    BY <1>2, Numbers, WithoutIs DEF AtRest
  <2>2. 5 \in FreeFds
    BY <2>1, Numbers DEF FreeFds
  <2>3. QED BY <2>2, LowestIsFree DEF FreeFds
<1>4. Lowest \in FDs /\ clisock \in FDs \cup {-1}
  BY <1>2, <1>3, Numbers
<1>5. TypeOK'
  <2>1. fds' \in [FDs -> {"free", "standard", "listener", "client", "framebuffer"}]
    BY <1>1, <1>2
  <2>2. QED BY <1>1, <1>4, <2>1 DEF Inv, TypeOK, net, accepted, handshake
<1>6. Descriptors'
  <2>1. Without(Lowest, Without(clisock, fds')) = Without(clisock, fds)
    BY <1>1, <1>2, <1>3, <1>4 DEF Without
  <2>2. AtRest(Released)'
    BY <1>1, <1>2, <2>1 DEF AtRest, Released, Without
  <2>3. QED BY <1>1, <2>2 DEF Descriptors
<1>7. Frames' /\ Handshake'
  BY <1>1 DEF Inv, Frames, Handshake, handshake, MaySend
<1>8. QED BY <1>5, <1>6, <1>7 DEF Inv

\* The driver does not open: descriptor 0 takes the place of the client's.
LEMMA OpenFailsStep == Inv /\ OpenFails => Inv'
<1> SUFFICES ASSUME Inv, OpenFails PROVE Inv'
  OBVIOUS
<1>1. /\ pc = "open" /\ pc' = "cleanup" /\ sock' = 0 /\ fb_fd' = -1 /\ openFailed' = TRUE
      /\ UNCHANGED <<fds, net, accepted, frame_to_send, frames, handshake, stdin>>
  BY DEF OpenFails
<1>2. /\ fds \in [FDs -> {"free", "standard", "listener", "client", "framebuffer"}]
      /\ clisock \in {-1, 0, 3, 4} /\ (clisock # -1 => fds[clisock] = "client")
      /\ AtRest(Without(clisock, fds))
  BY <1>1 DEF Inv, Descriptors, TypeOK
<1>3. TypeOK'
  <2>1. sock' \in FDs \cup {-1} /\ fb_fd' \in FDs \cup {-1} /\ openFailed' \in BOOLEAN
    BY <1>1, Numbers
  <2>2. faults' \in 0 .. MaxFaults
    BY ListenerAssumption DEF OpenFails, Fault, Inv, TypeOK
  <2>3. QED BY <1>1, <2>1, <2>2 DEF Inv, TypeOK, net, accepted, handshake
<1>4. Descriptors'
  <2>1. Released' = Without(0, fds)
    BY <1>1, <1>2, WithoutIs, Numbers DEF Released
  <2>2. /\ Without(0, fds)[0] = "free" /\ Without(0, fds)[1] = "standard"
        /\ Without(0, fds)[2] = "standard"
    BY <1>2, Numbers DEF AtRest, Without
  <2>3. \A n \in FDs : n > 4 => Without(0, fds)[n] = "free"
    BY <1>2 DEF AtRest, Without
  <2>4. stdin => Without(0, fds)[3] = "listener" /\ Without(0, fds)[4] \in {"free", "client"}
    BY <1>2, <1>3, Numbers DEF AtRest, Without
  <2>5. ~stdin => Without(0, fds)[3] \in {"free", "client"} /\ Without(0, fds)[4] = "free"
    <3>1. ASSUME ~stdin PROVE clisock \in {-1, 3}
      BY <1>1, <3>1 DEF Inv, Descriptors
    <3>2. /\ \A n \in FDs : Without(clisock, fds)[n] = IF n = clisock THEN "free" ELSE fds[n]
          /\ \A n \in FDs : Without(0, fds)[n] = IF n = 0 THEN "free" ELSE fds[n]
      BY <1>2, WithoutIs
    <3>3. ASSUME ~stdin
          PROVE  Without(clisock, fds)[3] \in {"free", "client"} /\ Without(clisock, fds)[4] = "free"
      BY <1>2, <3>3 DEF AtRest
    <3>4. QED BY <1>2, <3>1, <3>2, <3>3, Numbers
  <2>6. AtRest(Released)'
    BY <1>1, <2>1, <2>2, <2>3, <2>4, <2>5 DEF AtRest
  <2>7. QED BY <1>1, <2>6 DEF Descriptors
<1>5. Frames' /\ Handshake'
  BY <1>1 DEF Inv, Frames, Handshake, handshake, MaySend
<1>6. QED BY <1>3, <1>4, <1>5 DEF Inv

\* Within a session the descriptors it has stay its own.
LEMMA SameDescriptors ==
  ASSUME Inv, InSession, UNCHANGED <<fds, net, accepted, sock, fb_fd, stdin, openFailed>>,
         InSession'
  PROVE  Descriptors'
<1>1. AtRest(Released)'
  BY DEF Inv, Descriptors, AtRest, Released, Without
<1>2. QED BY <1>1 DEF Descriptors, InSession, Sending, Receiving

\* fb_init and what follows it, which may fail before or after the frame is allocated.
LEMMA InitSessionStep == Inv /\ InitSession => Inv'
<1> SUFFICES ASSUME Inv, InitSession PROVE Inv'
  OBVIOUS
<1>1. /\ pc = "init" /\ pc' \in {"sendVersion", "cleanup"}
      /\ AllocateFrame \/ UNCHANGED <<frame_to_send, frames>>
      /\ UNCHANGED <<fds, net, accepted, sock, fb_fd, handshake, stdin, openFailed>>
  BY DEF InitSession
<1>2. TypeOK'
  <2>1. frame_to_send' \in BOOLEAN /\ frames' \in 0 .. 1
    <3>1. frames = 0 /\ frame_to_send \in BOOLEAN
      BY <1>1 DEF Inv, Frames, TypeOK
    <3>2. CASE AllocateFrame
      BY <3>1, <3>2 DEF AllocateFrame
    <3>3. CASE UNCHANGED <<frame_to_send, frames>>
      BY <3>1, <3>3
    <3>4. QED BY <1>1, <3>2, <3>3
  <2>2. faults' \in 0 .. MaxFaults
    BY ListenerAssumption DEF InitSession, Fault, Inv, TypeOK
  <2>3. QED BY <1>1, <2>1, <2>2 DEF Inv, TypeOK, net, accepted, handshake, Sending, Receiving
<1>3. Descriptors'
  BY <1>1, SameDescriptors DEF InSession, Sending, Receiving
<1>4. Frames'
  BY <1>1 DEF Inv, Frames, AllocateFrame
<1>5. Handshake'
  BY <1>1 DEF Inv, Handshake, handshake, MaySend
<1>6. QED BY <1>2, <1>3, <1>4, <1>5 DEF Inv

\* One of the daemon's three messages.
LEMMA SendStep == Inv /\ Send => Inv'
<1> SUFFICES ASSUME Inv, Send PROVE Inv'
  OBVIOUS
<1>1. /\ pc \in Sending /\ told' = told + 1 /\ pc' = Following[pc]
      /\ UNCHANGED <<fds, net, accepted, session, arrived, taken, whole,
                     stdin, openFailed, faults>>
  BY DEF Send
<1>2. \/ pc = "sendVersion" /\ pc' = "recvVersion" /\ told = 0
      \/ pc = "sendSecurity" /\ pc' = "recvInit" /\ told = 1
      \/ pc = "sendInit" /\ pc' = "first" /\ told = 2
  BY <1>1 DEF Sending, Following, Inv, Handshake
<1>3. TypeOK'
  BY <1>1, <1>2 DEF Inv, TypeOK, net, accepted, session, Receiving
<1>4. Descriptors'
  BY <1>1, <1>2, SameDescriptors DEF InSession, Sending, Receiving, session
<1>5. Frames'
  BY <1>1, <1>2 DEF Inv, Frames, session
<1>6. Handshake'
  <2>1. arrived <= MaySend' /\ MaySend' \in Nat
    BY <1>1, <1>2, ListenerAssumption DEF Inv, Handshake, MaySend, TypeOK
  <2>2. QED BY <1>1, <1>2, <2>1 DEF Inv, Handshake
<1>7. QED BY <1>3, <1>4, <1>5, <1>6 DEF Inv

\* What there is of the version is taken for all of it.
LEMMA RecvVersionStep == Inv /\ RecvVersion => Inv'
<1> SUFFICES ASSUME Inv, RecvVersion PROVE Inv'
  OBVIOUS
<1>1. /\ pc = "recvVersion" /\ pc' = "sendSecurity" /\ arrived > 0
      /\ taken' = (IF arrived < VERSION THEN arrived ELSE VERSION)
      /\ whole' = (arrived >= VERSION)
      /\ UNCHANGED <<fds, net, accepted, session, arrived, told, stdin, openFailed, faults>>
  BY DEF RecvVersion, Following, VersionAsked
<1>2. arrived \in Nat /\ VERSION \in Nat \ {0}
  BY ListenerAssumption DEF Inv, TypeOK
<1>3. taken' \in 1 .. VERSION /\ taken' \in 0 .. arrived
  BY <1>1, <1>2
<1>4. whole' <=> taken' = VERSION
  <2>1. arrived >= VERSION <=> taken' = VERSION
    BY <1>1, <1>2
  <2>2. QED BY <1>1, <2>1, Zenon
<1>5. whole' \in BOOLEAN
  BY <1>1
<1>6. TypeOK'
  BY <1>1, <1>3, <1>5 DEF Inv, TypeOK, net, accepted, session, Sending
<1>7. Descriptors'
  BY <1>1, SameDescriptors DEF InSession, Sending, Receiving, session
<1>8. Frames'
  BY <1>1 DEF Inv, Frames, session
<1>9. Handshake'
  BY <1>1, <1>3, <1>4 DEF Inv, Handshake, MaySend
<1>10. QED BY <1>6, <1>7, <1>8, <1>9 DEF Inv

\* The ClientInit byte, or the rest of the version in its place.
LEMMA RecvInitStep == Inv /\ RecvInit => Inv'
<1> SUFFICES ASSUME Inv, RecvInit PROVE Inv'
  OBVIOUS
<1>1. /\ pc = "recvInit" /\ pc' = "sendInit" /\ arrived > taken /\ taken' = taken + 1
      /\ UNCHANGED <<fds, net, accepted, session, arrived, told, whole,
                     stdin, openFailed, faults>>
  BY DEF RecvInit, Following
<1>2. /\ taken \in 1 .. VERSION /\ (whole <=> taken = VERSION)
      /\ arrived \in Nat /\ VERSION \in Nat /\ taken \in Nat
  BY <1>1, ListenerAssumption DEF Inv, Handshake, TypeOK
<1>3. taken' \in 2 .. VERSION + 1 /\ taken' \in 0 .. arrived
  BY <1>1, <1>2
<1>4. whole' <=> taken' = VERSION + 1
  BY <1>1, <1>2
<1>5. TypeOK'
  BY <1>1, <1>3 DEF Inv, TypeOK, net, accepted, session, Sending
<1>6. Descriptors'
  BY <1>1, SameDescriptors DEF InSession, Sending, Receiving, session
<1>7. Frames'
  BY <1>1 DEF Inv, Frames, session
<1>8. Handshake'
  BY <1>1, <1>3, <1>4 DEF Inv, Handshake, MaySend
<1>9. QED BY <1>5, <1>6, <1>7, <1>8 DEF Inv

\* The message loop looks at its first byte.
LEMMA FirstByteStep == Inv /\ FirstByte => Inv'
<1> SUFFICES ASSUME Inv, FirstByte PROVE Inv'
  OBVIOUS
<1>1. /\ pc = "first" /\ pc' \in {"messages", "cleanup"}
      /\ pc' = "messages" => taken >= VERSION
      /\ UNCHANGED <<fds, net, accepted, session, handshake, stdin, openFailed, faults>>
  BY DEF FirstByte
<1>2. TypeOK'
  BY <1>1 DEF Inv, TypeOK, net, accepted, session, handshake, Receiving
<1>3. Descriptors'
  BY <1>1, SameDescriptors DEF InSession, Sending, Receiving, session
<1>4. Frames' /\ Handshake'
  BY <1>1 DEF Inv, Frames, Handshake, session, handshake, MaySend
<1>5. QED BY <1>2, <1>3, <1>4 DEF Inv

\* A session is over, for whatever reason.
LEMMA EndOfSession ==
  ASSUME Inv, InSession, pc' = "cleanup", faults' \in 0 .. MaxFaults,
         UNCHANGED <<fds, net, accepted, session, handshake, stdin, openFailed>>
  PROVE  Inv'
<1>1. TypeOK'
  BY DEF Inv, TypeOK, net, accepted, session, handshake
<1>2. Descriptors'
  BY SameDescriptors DEF InSession, session
<1>3. Frames' /\ Handshake'
  BY DEF Inv, Frames, Handshake, session, handshake, MaySend
<1>4. QED BY <1>1, <1>2, <1>3 DEF Inv

\* The cleanup of handle_session.
LEMMA CleanupStep == Inv /\ Cleanup => Inv'
<1> SUFFICES ASSUME Inv, Cleanup PROVE Inv'
  OBVIOUS
<1>1. /\ pc = "cleanup" /\ pc' = "accept" /\ fds' = Released /\ frames' = FramesFreed
      /\ serving' = Nobody /\ clisock' = -1 /\ sock' = 0 /\ fb_fd' = 0
      /\ frame_to_send' = FALSE
      /\ arrived' = 0 /\ taken' = 0 /\ told' = 0 /\ whole' = FALSE
      /\ UNCHANGED <<listening, stdin, openFailed, faults>>
  BY DEF Cleanup
<1>2. frames' = 0
  BY <1>1 DEF FramesFreed, Inv, Frames, TypeOK
<1>3. TypeOK'
  <2>1. where' \in [Clients -> {"away", "queued", "connected", "stranded"}]
    <3>1. ASSUME NEW c \in Clients
          PROVE  WhereAfter(c) \in {"away", "queued", "connected", "stranded"}
      <4>1. where[c] \in {"away", "queued", "connected", "stranded"}
        BY DEF Inv, TypeOK
      <4>2. QED BY <4>1, Zenon DEF WhereAfter
    <3>2. where' = [c \in Clients |-> WhereAfter(c)]
      BY DEF Cleanup
    <3>3. QED BY <3>1, <3>2
  <2>2. fds' \in [FDs -> {"free", "standard", "listener", "client", "framebuffer"}]
    BY <1>1, WithoutIs DEF Released, Inv, TypeOK
  <2>3. arrived' \in 0 .. VERSION + 2 /\ taken' \in 0 .. arrived' /\ told' \in 0 .. 3
    BY <1>1, ListenerAssumption
  <2>4. clisock' \in FDs \cup {-1} /\ sock' \in FDs \cup {-1} /\ fb_fd' \in FDs \cup {-1}
    BY <1>1, Numbers
  <2>5. queue' \in Seq(Clients) /\ Len(queue') <= Backlog
    BY ListenerAssumption DEF Cleanup, Inv, TypeOK
  <2>6. frame_to_send' \in BOOLEAN /\ whole' \in BOOLEAN /\ serving' \in Clients \cup {Nobody}
    BY <1>1
  <2>7. QED
    BY <1>1, <1>2, <2>1, <2>2, <2>3, <2>4, <2>5, <2>6 DEF Inv, TypeOK
<1>4. Descriptors'
  <2>1. AtRest(Released)
    BY <1>1 DEF Inv, Descriptors, InSession
  <2>2. AtRest(fds)'
    BY <1>1, <2>1 DEF AtRest
  <2>3. QED BY <1>1, <2>2 DEF Descriptors, InSession, Sending, Receiving
<1>5. Frames' /\ Handshake'
  BY <1>1, <1>2 DEF Frames, Handshake, MaySend
<1>6. QED BY <1>3, <1>4, <1>5 DEF Inv

\* The clients come and go, and send: none of it changes what the daemon has.
LEMMA ClientStep ==
  ASSUME Inv, UNCHANGED <<pc, fds, clisock, session, taken, told, whole, stdin, openFailed, faults>>,
         queue' \in Seq(Clients), Len(queue') <= Backlog, UNCHANGED listening,
         where' \in [Clients -> {"away", "queued", "connected", "stranded"}],
         serving' \in Clients \cup {Nobody},
         arrived' = arrived \/ arrived' \in arrived + 1 .. MaySend
  PROVE  Inv'
<1>1. MaySend \in 0 .. VERSION + 2 /\ arrived \in Nat /\ taken \in 0 .. arrived
      /\ (told = 0 => MaySend = 0) /\ arrived <= MaySend
  BY ListenerAssumption DEF MaySend, Inv, TypeOK, Handshake
<1>2. arrived' \in 0 .. VERSION + 2 /\ taken \in 0 .. arrived' /\ arrived' <= MaySend
      /\ (told = 0 => arrived' = arrived)
  BY <1>1, ListenerAssumption
<1>3. TypeOK'
  BY <1>2 DEF Inv, TypeOK, session
<1>4. Descriptors'
  <2>1. UNCHANGED <<pc, fds, clisock, sock, fb_fd, stdin, openFailed>>
    BY DEF session
  <2>2. Without(clisock, fds)' = Without(clisock, fds) /\ Released' = Released
    BY <2>1 DEF Released, Without
  <2>3. /\ AtRest(fds) => AtRest(fds)'
        /\ AtRest(Without(clisock, fds)) => AtRest(Without(clisock, fds))'
        /\ AtRest(Released) => AtRest(Released)'
    BY <2>1, <2>2 DEF AtRest
  <2>4. StandardFds(stdin)' = StandardFds(stdin) /\ FirstFree' = FirstFree
    BY <2>1 DEF StandardFds, FirstFree
  <2>5. InSession' => InSession
    BY <2>1 DEF InSession
  <2>6. (pc = "socket" => fds = StandardFds(stdin))'
    BY <2>1, <2>4 DEF Inv, Descriptors
  <2>7. (pc = "bind" => fds = [StandardFds(stdin) EXCEPT ![FirstFree] = "listener"])'
    BY <2>1, <2>4 DEF Inv, Descriptors
  <2>8. /\ (pc = "accept" => AtRest(fds))'
        /\ (InSession => AtRest(Released))'
    BY <2>1, <2>3, <2>5 DEF Inv, Descriptors
  <2>9. (pc = "open" =>
          /\ clisock \in IF stdin THEN {-1, 0, 4} ELSE {-1, 3}
          /\ clisock # -1 => fds[clisock] = "client"
          /\ AtRest(Without(clisock, fds)))'
    BY <2>1, <2>3 DEF Inv, Descriptors
  <2>10. (pc \in {"socket", "bind"} => ~openFailed)'
    BY <2>1 DEF Inv, Descriptors
  <2>11. QED
    BY <2>6, <2>7, <2>8, <2>9, <2>10 DEF Descriptors
<1>5. Frames'
  BY DEF Inv, Frames, session
<1>6. Handshake'
  BY <1>2 DEF Inv, Handshake, MaySend
<1>7. QED BY <1>3, <1>4, <1>5, <1>6 DEF Inv

(***************************************************************************)
(* Every state of the daemon satisfies Inv, whatever fails and whenever it *)
(* is killed: every step of main, listener, handle_session and its cleanup *)
(* preserves it.                                                           *)
(***************************************************************************)
THEOREM Invariance == Spec => []Inv
<1>1. Init => Inv
  BY Start
<1>2. Inv /\ [Next]_vars => Inv'
  <2> SUFFICES ASSUME Inv, [Next]_vars PROVE Inv'
    OBVIOUS
  <2>1. faults \in 0 .. MaxFaults /\ (Fault => faults' \in 0 .. MaxFaults)
    BY ListenerAssumption DEF Inv, TypeOK, Fault
  <2>2. CASE Daemon
    <3>1. CASE SessionOver
      BY <3>1, <2>1, EndOfSession DEF SessionOver, InSession
    <3>2. CASE AcceptBroken
      BY <3>2, <2>1, NothingAcceptedStep DEF AcceptBroken
    <3>3. QED
      BY <2>2, <3>1, <3>2, RespawnStep, MakeSocketStep, BindAndListenStep, AcceptStep,
         OpenFramebufferStep, OpenFailsStep, InitSessionStep, SendStep, RecvVersionStep,
         RecvInitStep, FirstByteStep, CleanupStep DEF Daemon
  <2>3. CASE Crash \/ SetupFails
    BY <2>3, DieStep DEF Crash, SetupFails
  <2>4. CASE AcceptInterrupted
    BY <2>4, <2>1, NothingAcceptedStep DEF AcceptInterrupted
  <2>5. CASE SessionErr
    BY <2>5, <2>1, EndOfSession DEF SessionErr, InSession, Receiving
  <2>6. ASSUME NEW c \in Clients, Connect(c) PROVE Inv'
    <3>1. queue' \in Seq(Clients) /\ Len(queue') <= Backlog
      BY <2>6, ListenerAssumption DEF Connect, Inv, TypeOK
    <3>2. where' \in [Clients -> {"away", "queued", "connected", "stranded"}]
      BY <2>6 DEF Connect, Inv, TypeOK
    <3>3. QED BY <2>6, <3>1, <3>2, ClientStep DEF Connect, Inv, TypeOK, accepted, handshake
  <2>7. ASSUME NEW c \in Clients, HangUp(c) PROVE Inv'
    <3>1. /\ where' \in [Clients -> {"away", "queued", "connected", "stranded"}]
          /\ serving' \in Clients \cup {Nobody}
      BY <2>7 DEF HangUp, Inv, TypeOK
    <3>2. QED BY <2>7, <3>1, ClientStep DEF HangUp, Inv, TypeOK, handshake
  <2>8. CASE ClientSends
    BY <2>8, ClientStep DEF ClientSends, Inv, TypeOK, net, accepted
  <2>9. CASE UNCHANGED vars
    BY <2>9, ClientStep DEF vars, Inv, TypeOK, net, accepted, handshake
  <2>10. QED BY <2>2, <2>3, <2>4, <2>5, <2>6, <2>7, <2>8, <2>9 DEF Next
<1>3. QED BY <1>1, <1>2, PTL DEF Spec

(***************************************************************************)
(* Every variable keeps its type; in particular listener and               *)
(* handle_session never use a descriptor outside the table, and there is   *)
(* never more than one frame.                                              *)
(***************************************************************************)
THEOREM TypeCorrect == Spec => []TypeOK
<1>1. Inv => TypeOK
  BY DEF Inv
<1>2. QED BY <1>1, Invariance, PTL

(***************************************************************************)
(* The sessions of one process, however many and however they end, leave   *)
(* at most one descriptor behind, and none unless the framebuffer driver   *)
(* failed to open (the cleanup of handle_session).                         *)
(***************************************************************************)
THEOREM OneOrphan == Spec => []AtMostOneOrphan
<1>1. Inv => AtMostOneOrphan
  <2>1. SUFFICES ASSUME Inv, pc = "accept"
                 PROVE  /\ frames = 0
                        /\ Cardinality(Orphans) <= IF openFailed THEN 1 ELSE 0
    BY DEF AtMostOneOrphan
  <2>2. AtRest(fds) /\ frames = 0
    BY <2>1 DEF Inv, Descriptors, Frames
  <2>3. PICK o : o = IF stdin THEN 4 ELSE 3
    OBVIOUS
  <2>4. ASSUME NEW n \in Orphans PROVE n = o
    <3>1. n \in FDs /\ fds[n] \in {"client", "framebuffer"} /\ n \in Nat
      BY Numbers DEF Orphans
    <3>2. n \notin {0, 1, 2} /\ ~(n > 4)
      BY <2>2, <3>1 DEF AtRest
    <3>3. CASE stdin
      BY <2>2, <2>3, <3>1, <3>2, <3>3 DEF AtRest
    <3>4. CASE ~stdin
      BY <2>2, <2>3, <3>1, <3>2, <3>4 DEF AtRest
    <3>5. QED BY <3>3, <3>4
  <2>6. CASE openFailed
    <3>1. Orphans \subseteq {o}
      BY <2>4
    <3>2. IsFiniteSet({o}) /\ Cardinality({o}) = 1
      BY FS_Singleton
    <3>3. Cardinality(Orphans) <= 1
      BY <3>1, <3>2, FS_Subset
    <3>4. QED BY <2>2, <2>6, <3>3
  <2>7. CASE ~openFailed
    <3>1. Orphans = {}
      BY <2>2, <2>3, <2>4, <2>7 DEF AtRest, Orphans
    <3>2. QED BY <2>2, <2>7, <3>1, FS_EmptySet
  <2>8. QED BY <2>6, <2>7
<1>2. QED BY <1>1, Invariance, PTL

(***************************************************************************)
(* Only a daemon started without a descriptor 0 ever closes its listening  *)
(* socket, and it does so when the framebuffer driver first fails to open  *)
(* (session.c:54-60, 90-94).  Every other daemon that waits in accept, and *)
(* whose listen worked, can be connected to, whatever the sessions before  *)
(* went through.                                                           *)
(***************************************************************************)
THEOREM StillListening == Spec => []ListenerKept
<1>1. Inv => ListenerKept
  <2>1. SUFFICES ASSUME Inv, pc = "accept", listening
                 PROVE  Listens <=> stdin \/ ~openFailed
    BY DEF ListenerKept
  <2>2. AtRest(fds)
    BY <2>1 DEF Inv, Descriptors
  <2>3. CASE stdin \/ ~openFailed
    <3>1. PICK n \in {0, 3} : fds[n] = "listener"
      BY <2>2, <2>3 DEF AtRest
    <3>2. QED BY <2>1, <2>3, <3>1, Numbers DEF Listens, Listener
  <2>4. CASE ~stdin /\ openFailed
    <3>1. ASSUME NEW n \in FDs PROVE fds[n] # "listener"
      <4>1. n \in Nat
        BY Numbers
      <4>2. n \in {0, 1, 2, 3, 4} \/ n > 4
        BY <4>1
      <4>3. QED BY <2>2, <2>4, <4>2 DEF AtRest
    <3>2. QED BY <2>4, <3>1 DEF Listens, Listener
  <2>5. QED BY <2>3, <2>4
<1>2. QED BY <1>1, Invariance, PTL

(***************************************************************************)
(* However the bytes of the handshake arrive, the message loop starts with *)
(* the client's first message, or with its ClientInit byte when a version  *)
(* came in parts (session.c).                                              *)
(***************************************************************************)
THEOREM StartsWithFirst == Spec => []FirstMessageFirst
<1>1. Inv => FirstMessageFirst
  <2>1. SUFFICES ASSUME Inv, pc = "messages"
                 PROVE  taken = VERSION + 1 \/ (~whole /\ taken = VERSION)
    BY DEF FirstMessageFirst
  <2>2. taken \in 2 .. VERSION + 1 /\ (whole <=> taken = VERSION + 1) /\ taken >= VERSION
    BY <2>1 DEF Inv, Handshake
  <2>3. taken = VERSION + 1 \/ taken = VERSION
    BY <2>2, ListenerAssumption
  <2>4. QED BY <2>2, <2>3, ListenerAssumption
<1>2. QED BY <1>1, Invariance, PTL

(***************************************************************************)
(* Wherever the daemon waits in a recv of the handshake, or for the first  *)
(* message, with nothing to read, the client still has something to send:  *)
(* they never wait for each other (session.c).                             *)
(***************************************************************************)
THEOREM NoStandoff == Spec => []NeverBothWait
<1>1. Inv => NeverBothWait
  <2>1. SUFFICES ASSUME Inv, pc \in {"recvVersion", "recvInit", "first"}, arrived = taken
                 PROVE  arrived < MaySend
    BY DEF NeverBothWait, Receiving
  <2>2. CASE pc = "recvVersion"
    BY <2>1, <2>2, ListenerAssumption DEF Inv, Handshake, MaySend
  <2>3. CASE pc = "recvInit"
    BY <2>1, <2>3, ListenerAssumption DEF Inv, Handshake, MaySend
  <2>4. CASE pc = "first"
    BY <2>1, <2>4, ListenerAssumption DEF Inv, Handshake, MaySend
  <2>5. QED BY <2>1, <2>2, <2>3, <2>4
<1>2. QED BY <1>1, Invariance, PTL

====

--------------------------- MODULE MessageDecoder ---------------------------
(***************************************************************************)
(* What the message loop of app/session.c promises, without its buffers:   *)
(* bytes arrive, each message is handled once, in order, as soon as it is  *)
(* complete and before the session waits for more bytes, and the session   *)
(* ends only when the connection does, when a handler gives up, or when a  *)
(* message of no known type begins.                                        *)
(***************************************************************************)
EXTENDS ClientStream

CONSTANT Scripts

VARIABLES
  script,   \* what the client sends
  arrived,  \* how many bytes of it have arrived
  done,     \* how many of its messages have been handled
  open      \* the session goes on

dvars == <<script, arrived, done, open>>

Init ==
  /\ script \in Scripts
  /\ arrived = 0
  /\ done = 0
  /\ open = TRUE

\* The message after the ones handled; only meaningful when there is one.
Upcoming == script.msgs[done + 1]

MoreToCome == done < Len(script.msgs)

\* The next message is complete, or known to be none.
Complete == MoreToCome /\ Upcoming.type \in KnownTypes /\ script.start[done + 2] <= arrived

Unknown == MoreToCome /\ Upcoming.type \notin KnownTypes /\ script.start[done + 1] < arrived

Arrive ==
  /\ open
  /\ ~Complete /\ ~Unknown
  /\ arrived' \in arrived + 1 .. Total(script)
  /\ UNCHANGED <<script, done, open>>

\* Whether the session goes on after the message has been handled.
MayGoOn(m) ==
  CASE m.type = "SetPixelFormat" -> {m.good}
    [] m.type \in {"SetEncodings", "ClientCutText"} -> {TRUE}
    [] OTHER -> BOOLEAN

HandleNext ==
  /\ open
  /\ Complete
  /\ done' = done + 1
  /\ open' \in MayGoOn(Upcoming)
  /\ UNCHANGED <<script, arrived>>

Reject ==
  /\ open
  /\ Unknown
  /\ open' = FALSE
  /\ UNCHANGED <<script, arrived, done>>

\* The connection fails or the client hangs up while the session waits.
HangUp ==
  /\ open
  /\ ~Complete /\ ~Unknown
  /\ open' = FALSE
  /\ UNCHANGED <<script, arrived, done>>

Next == Arrive \/ HandleNext \/ Reject \/ HangUp

SafetySpec == Init /\ [][Next]_dvars

Spec ==
  /\ SafetySpec
  /\ WF_dvars(Arrive) /\ WF_dvars(HandleNext \/ Reject)
=============================================================================

----------------------------- MODULE EventCalls -----------------------------
(***************************************************************************)
(* What a socket handler promises its callers: a call of send() has its    *)
(* event handled by the other side at most once, gets the answer to that   *)
(* event and to no other, and ends.  It may fail once a socket has been    *)
(* closed; without that only a call made before the other side was seen to *)
(* answer may.  AdHocSocket.tla implements it.                             *)
(***************************************************************************)
CONSTANTS
  Calls,   \* calls of send(), each with its own event
  NoCall   \* not a call

VARIABLES
  caller,   \* per call: "idle", "waiting", "answered", "failed"
  answer,   \* the call whose answer came back
  handler,  \* per event: "none", "running", "done"
  early,    \* the calls made before any answer had come on the primary socket
  up,       \* such an answer has come
  closed    \* one of the two sides has closed its socket

callVars == <<caller, answer, handler, early, up, closed>>

CallsInit ==
  /\ caller = [c \in Calls |-> "idle"]
  /\ answer = [c \in Calls |-> NoCall]
  /\ handler = [c \in Calls |-> "none"]
  /\ early = {} /\ up = FALSE /\ closed = FALSE

Call(c) ==
  /\ caller[c] = "idle"
  /\ caller' = [caller EXCEPT ![c] = "waiting"]
  /\ early' = IF up THEN early ELSE early \cup {c}
  /\ UNCHANGED <<answer, handler, up, closed>>

\* The event of a call that has failed may still be on its way.
Handle(c) ==
  /\ caller[c] \in {"waiting", "failed"} /\ handler[c] = "none"
  /\ handler' = [handler EXCEPT ![c] = "running"]
  /\ UNCHANGED <<caller, answer, early, up, closed>>

Finish(c) ==
  /\ handler[c] = "running"
  /\ handler' = [handler EXCEPT ![c] = "done"]
  /\ UNCHANGED <<caller, answer, early, up, closed>>

Answer(c) ==
  /\ caller[c] = "waiting" /\ handler[c] = "done"
  /\ caller' = [caller EXCEPT ![c] = "answered"]
  /\ answer' = [answer EXCEPT ![c] = c]
  /\ up' \in {up, TRUE}
  /\ UNCHANGED <<handler, early, closed>>

Fail(c) ==
  /\ caller[c] = "waiting"
  /\ closed \/ c \in early
  /\ caller' = [caller EXCEPT ![c] = "failed"]
  /\ UNCHANGED <<answer, handler, early, up, closed>>

Close ==
  /\ closed' = TRUE
  /\ UNCHANGED <<caller, answer, handler, early, up>>

CallsNext ==
  Close \/ \E c \in Calls : Call(c) \/ Handle(c) \/ Finish(c) \/ Answer(c) \/ Fail(c)

Ended(c) == caller[c] \in {"answered", "failed"}

CallsSafety == CallsInit /\ [][CallsNext]_callVars

\* A call ends.
CallsSpec == /\ CallsSafety
             /\ \A c \in Calls : (caller[c] = "waiting" ~> Ended(c))
=============================================================================

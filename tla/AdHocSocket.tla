----------------------------- MODULE AdHocSocket ----------------------------
(***************************************************************************)
(* AdHocSocketHandler of src/common/communication/common.h: two handlers   *)
(* connected by a primary socket.  Threads of one side call send(); on the *)
(* other side receive_multi() reads the primary socket and an acceptor     *)
(* thread takes the connections send() makes when the primary is busy.     *)
(* Any side may close() its handler at any time; on the listening side the *)
(* caller then waits for receive_multi().                                  *)
(*                                                                         *)
(* connect() is behind: both primary sockets are open and the endpoint's   *)
(* file is removed.  Every call of send() is on a thread of its own.       *)
(***************************************************************************)
EXTENDS Integers, Sequences

CONSTANTS
  Calls,   \* calls of send(), each with its own event
  NoCall,
  Within   \* per call: the event during whose handling it is made, or NoCall

ASSUME SocketAssumption ==
  /\ NoCall \notin Calls
  /\ Within \in [Calls -> Calls \cup {NoCall}]

VARIABLES
  \* the sending side
  pc,                   \* per call: where send() is
  write_mutex_,         \* the call that holds it, or NoCall
  sent_first_event_,
  answer,               \* per call: the call whose answer it returned
  \* the sockets
  open,                 \* nobody has closed the primary socket
  primaryDown, primaryUp, \* what is on the primary socket, both ways
  backlog, dropped,     \* connections not accepted, and those never to be
  secondaryUp,          \* connections with an answer on them
  \* the listening side
  listener,             \* where receive_multi() is
  currently_listening_,
  acceptor_,            \* it exists: the endpoint takes connections
  acceptorThread,       \* "waiting", or in its handler: "connected", then "accepted"
  accepted,             \* the connection its handler has and no thread yet
  threads,              \* connections with a thread that has not ended
  handler,              \* per event: "none", "running", "done"
  closer,               \* close() on this side: "idle", "spinning", "returned"
  early                 \* auxiliary: calls made before sent_first_event_

sendVars == <<pc, write_mutex_, sent_first_event_, answer, early>>
wireVars == <<primaryDown, primaryUp, backlog, dropped, secondaryUp>>
connectionVars == <<accepted, threads>>
listenVars == <<listener, currently_listening_, acceptor_, acceptorThread, connectionVars>>
vars == <<sendVars, open, wireVars, listenVars, handler, closer>>

TypeOK ==
  /\ pc \in [Calls -> {"idle", "locked", "primary", "connecting", "secondary", "refused",
                       "locking", "answered", "failed"}]
  /\ write_mutex_ \in Calls \cup {NoCall}
  /\ sent_first_event_ \in BOOLEAN
  /\ answer \in [Calls -> Calls \cup {NoCall}]
  /\ open \in BOOLEAN
  /\ primaryDown \in Seq(Calls) /\ primaryUp \in Seq(Calls)
  /\ backlog \subseteq Calls /\ dropped \subseteq Calls /\ secondaryUp \subseteq Calls
  /\ listener \in {"off", "entered", "reading", "handling", "stopping", "stopped",
                   "joining", "joined", "returned"}
  /\ currently_listening_ \in BOOLEAN /\ acceptor_ \in BOOLEAN
  /\ acceptorThread \in {"none", "waiting", "connected", "accepted", "undefined"}
  /\ accepted \subseteq Calls /\ threads \subseteq Calls
  /\ handler \in [Calls -> {"none", "running", "done"}]
  /\ closer \in {"idle", "spinning", "returned"}
  /\ early \subseteq Calls

Init ==
  /\ pc = [c \in Calls |-> "idle"]
  /\ write_mutex_ = NoCall /\ sent_first_event_ = FALSE
  /\ answer = [c \in Calls |-> NoCall]
  /\ open = TRUE
  /\ primaryDown = <<>> /\ primaryUp = <<>>
  /\ backlog = {} /\ dropped = {} /\ secondaryUp = {}
  /\ listener = "off" /\ currently_listening_ = FALSE
  /\ acceptor_ = FALSE /\ acceptorThread = "none"
  /\ accepted = {} /\ threads = {}
  /\ handler = [c \in Calls |-> "none"]
  /\ closer = "idle"
  /\ early = {}

-----------------------------------------------------------------------------
(* send().                                                                 *)

Goto(c, label) == pc' = [pc EXCEPT ![c] = label]

\* Mutant: every call uses the primary socket.
TryLockAlways(c) ==
  /\ write_mutex_' = c
  /\ Goto(c, "locked")

\* The try_to_lock at the beginning.
TryLock(c) ==
  \/ /\ write_mutex_ = NoCall
     /\ write_mutex_' = c
     /\ Goto(c, "locked")
  \/ /\ write_mutex_ # NoCall
     /\ Goto(c, "connecting")
     /\ UNCHANGED write_mutex_

\* A call made by the handler of another event is made while that runs.
Send(c) ==
  /\ pc[c] = "idle"
  /\ Within[c] # NoCall => handler[Within[c]] = "running"
  /\ TryLock(c)
  /\ early' = IF sent_first_event_ THEN early ELSE early \cup {c}
  /\ UNCHANGED <<sent_first_event_, answer, open, wireVars, listenVars, handler, closer>>

\* With the mutex the callback writes the event to the primary socket.
WritePrimary(c) ==
  /\ pc[c] = "locked" /\ open
  /\ primaryDown' = Append(primaryDown, c)
  /\ Goto(c, "primary")
  /\ UNCHANGED <<write_mutex_, sent_first_event_, answer, early, open, primaryUp,
                 backlog, dropped, secondaryUp, listenVars, handler, closer>>

\* Mutant: the mutex is released and the answer left on the socket.
PrimaryReturnsUnread(c) ==
  /\ pc[c] = "primary" /\ primaryUp # <<>>
  /\ answer' = [answer EXCEPT ![c] = Head(primaryUp)]
  /\ sent_first_event_' = TRUE
  /\ write_mutex_' = NoCall
  /\ Goto(c, "answered")
  /\ UNCHANGED <<early, open, wireVars, listenVars, handler, closer>>

PrimaryReturns(c) ==
  /\ pc[c] = "primary" /\ primaryUp # <<>>
  /\ answer' = [answer EXCEPT ![c] = Head(primaryUp)]
  /\ primaryUp' = Tail(primaryUp)
  /\ sent_first_event_' = TRUE
  /\ write_mutex_' = NoCall
  /\ Goto(c, "answered")
  /\ UNCHANGED <<early, open, primaryDown, backlog, dropped, secondaryUp,
                 listenVars, handler, closer>>

\* The socket was closed: writing to it or reading from it throws.  The
\* exception releases the mutex and leaves send().
PrimaryThrows(c) ==
  /\ pc[c] \in {"locked", "primary"} /\ ~open
  /\ write_mutex_' = NoCall
  /\ Goto(c, "failed")
  /\ UNCHANGED <<sent_first_event_, answer, early, open, wireVars, listenVars,
                 handler, closer>>

\* A connection of its own; the event is written to it at once.
Connect(c) ==
  /\ pc[c] = "connecting"
  /\ \/ /\ acceptor_
        /\ backlog' = backlog \cup {c}
        /\ Goto(c, "secondary")
     \/ /\ ~acceptor_
        /\ Goto(c, "refused")
        /\ UNCHANGED backlog
  /\ UNCHANGED <<write_mutex_, sent_first_event_, answer, early, open, primaryDown,
                 primaryUp, dropped, secondaryUp, listenVars, handler, closer>>

SecondaryReturns(c) ==
  /\ pc[c] = "secondary" /\ c \in secondaryUp
  /\ answer' = [answer EXCEPT ![c] = c]
  /\ secondaryUp' = secondaryUp \ {c}
  /\ Goto(c, "answered")
  /\ UNCHANGED <<write_mutex_, sent_first_event_, early, open, primaryDown,
                 primaryUp, backlog, dropped, listenVars, handler, closer>>

\* The handler of exceptions covers the callback too.
SecondaryThrows(c) ==
  /\ pc[c] = "secondary" /\ c \in dropped
  /\ dropped' = dropped \ {c}
  /\ Goto(c, "refused")
  /\ UNCHANGED <<write_mutex_, sent_first_event_, answer, early, open, primaryDown,
                 primaryUp, backlog, secondaryUp, listenVars, handler, closer>>

\* Nobody listens: either not yet, and the call waits for the primary socket,
\* or no longer, and the exception leaves send().
Refused(c) ==
  /\ pc[c] = "refused"
  /\ Goto(c, IF sent_first_event_ THEN "failed" ELSE "locking")
  /\ UNCHANGED <<write_mutex_, sent_first_event_, answer, early, open, wireVars,
                 listenVars, handler, closer>>

Lock(c) ==
  /\ pc[c] = "locking"
  /\ write_mutex_ = NoCall
  /\ write_mutex_' = c
  /\ Goto(c, "locked")
  /\ UNCHANGED <<sent_first_event_, answer, early, open, wireVars, listenVars,
                 handler, closer>>

Sender(c) == WritePrimary(c) \/ PrimaryReturns(c) \/ PrimaryThrows(c) \/ Connect(c)
               \/ SecondaryReturns(c) \/ SecondaryThrows(c) \/ Refused(c) \/ Lock(c)

-----------------------------------------------------------------------------
(* receive_multi().                                                        *)

receive_multi ==
  /\ listener = "off"
  /\ listener' = "entered"
  /\ currently_listening_' = TRUE
  /\ UNCHANGED <<sendVars, open, wireVars, acceptor_, acceptorThread, connectionVars, handler, closer>>

\* The acceptor is recreated and its thread started.
StartAccepting ==
  /\ listener = "entered"
  /\ listener' = "reading"
  /\ acceptor_' = TRUE
  /\ acceptorThread' = "waiting"
  /\ UNCHANGED <<sendVars, open, wireVars, currently_listening_, connectionVars, handler, closer>>

\* What is on the socket may still be read after it was closed by the peer.
ReadPrimary ==
  /\ listener = "reading" /\ primaryDown # <<>>
  /\ listener' = "handling"
  /\ primaryDown' = Tail(primaryDown)
  /\ handler' = [handler EXCEPT ![Head(primaryDown)] = "running"]
  /\ UNCHANGED <<sendVars, open, primaryUp, backlog, dropped, secondaryUp,
                 currently_listening_, acceptor_, acceptorThread, connectionVars, closer>>

\* The calls made by the handler of c have ended.
NestedEnded(c) ==
  \A n \in Calls : Within[n] = c => pc[n] \in {"idle", "answered", "failed"}

\* The answer is written; on a closed socket that ends the loop.
AnswerPrimary(c) ==
  /\ listener = "handling"
  /\ handler[c] = "running" /\ NestedEnded(c) /\ pc[c] # "secondary"
  /\ handler' = [handler EXCEPT ![c] = "done"]
  /\ \/ open /\ listener' = "reading" /\ primaryUp' = Append(primaryUp, c)
     \/ ~open /\ listener' = "stopping" /\ UNCHANGED primaryUp
  /\ UNCHANGED <<sendVars, open, primaryDown, backlog, dropped, secondaryUp,
                 currently_listening_, acceptor_, acceptorThread, connectionVars, closer>>

ReadThrows ==
  /\ listener = "reading" /\ ~open
  /\ listener' = "stopping"
  /\ UNCHANGED <<sendVars, open, wireVars, currently_listening_, acceptor_,
                 acceptorThread, connectionVars, handler, closer>>

\* A connection is taken by the acceptor's handler ...
Accept(c) ==
  /\ acceptorThread = "waiting" /\ acceptor_
  /\ c \in backlog
  /\ backlog' = backlog \ {c}
  /\ accepted' = {c}
  /\ acceptorThread' = "connected"
  /\ UNCHANGED <<sendVars, open, primaryDown, primaryUp, dropped, secondaryUp,
                 listener, currently_listening_, acceptor_, threads, handler, closer>>

\* active_secondary_requests_mutex; the other threads that take it let it go again
\* in the same step.
MutexFree == listener # "stopped"

\* ... which waits for the mutex of the threads and starts one ...
StartThread(c) ==
  /\ acceptorThread = "connected" /\ c \in accepted
  /\ MutexFree
  /\ accepted' = {}
  /\ threads' = threads \cup {c}
  /\ acceptorThread' = "accepted"
  /\ UNCHANGED <<sendVars, open, wireVars, listener, currently_listening_, acceptor_,
                 handler, closer>>

\* ... and calls async_accept again.  With an acceptor that was destroyed meanwhile
\* that is undefined: in a context that is stopped nothing may come of it, or
\* anything else may, and then nothing more is said of this thread.
AcceptAgain ==
  /\ acceptorThread = "accepted"
  /\ \/ acceptorThread' = "waiting"
     \/ ~acceptor_ /\ acceptorThread' = "undefined"
  /\ UNCHANGED <<sendVars, open, wireVars, listener, currently_listening_,
                 acceptor_, connectionVars, handler, closer>>

\* The thread of a connection reads the event ...
ReadSecondary(c) ==
  /\ c \in threads /\ handler[c] = "none"
  /\ handler' = [handler EXCEPT ![c] = "running"]
  /\ UNCHANGED <<sendVars, open, wireVars, listenVars, closer>>

\* ... and answers it, and ends; it is not part of the loop.
AnswerSecondary(c) ==
  /\ c \in threads
  /\ handler[c] = "running" /\ NestedEnded(c)
  /\ handler' = [handler EXCEPT ![c] = "done"]
  /\ secondaryUp' = secondaryUp \cup {c}
  /\ threads' = threads \ {c}
  /\ UNCHANGED <<sendVars, open, primaryDown, primaryUp, backlog, dropped,
                 listener, currently_listening_, acceptor_, acceptorThread, accepted, closer>>

\* Mutant: connections not yet accepted are left as they are.
StopAcceptingLeaves ==
  /\ listener = "stopping"
  /\ listener' = "stopped"
  /\ acceptor_' = FALSE
  /\ UNCHANGED <<sendVars, open, wireVars, currently_listening_, acceptorThread,
                 connectionVars, handler, closer>>

\* After the loop: the mutex is locked, the context stopped and the acceptor
\* destroyed, which drops the connections it had not accepted.
StopAccepting ==
  /\ listener = "stopping"
  /\ listener' = "stopped"
  /\ acceptor_' = FALSE
  /\ dropped' = dropped \cup backlog
  /\ backlog' = {}
  /\ UNCHANGED <<sendVars, open, primaryDown, primaryUp, secondaryUp, currently_listening_,
                 acceptorThread, connectionVars, handler, closer>>

\* The flag is cleared; with the scope the mutex is left.
ClearFlag ==
  /\ listener = "stopped"
  /\ listener' = "joining"
  /\ currently_listening_' = FALSE
  /\ UNCHANGED <<sendVars, open, wireVars, acceptor_, acceptorThread, connectionVars,
                 handler, closer>>

\* Mutant: the acceptor's thread is not waited for.
JoinAcceptorDetaches ==
  /\ listener = "joining"
  /\ listener' = "joined"
  /\ UNCHANGED <<sendVars, open, wireVars, currently_listening_, acceptor_, acceptorThread,
                 connectionVars, handler, closer>>

\* The destructors of the locals run in the reverse order of their declarations:
\* first the acceptor's thread is joined, which may still start one, ...
JoinAcceptor ==
  /\ listener = "joining"
  /\ acceptorThread = "waiting"
  /\ listener' = "joined"
  /\ acceptorThread' = "none"
  /\ UNCHANGED <<sendVars, open, wireVars, currently_listening_, acceptor_, connectionVars,
                 handler, closer>>

\* ... then those of the connections.
JoinThreads ==
  /\ listener = "joined"
  /\ threads = {}
  /\ listener' = "returned"
  /\ UNCHANGED <<sendVars, open, wireVars, currently_listening_, acceptor_, acceptorThread,
                 connectionVars, handler, closer>>

Listener == StartAccepting \/ ReadPrimary \/ (\E c \in Calls : AnswerPrimary(c))
              \/ ReadThrows \/ StopAccepting \/ ClearFlag \/ JoinAcceptor \/ JoinThreads

Acceptor == (\E c \in Calls : Accept(c) \/ StartThread(c)) \/ AcceptAgain

Connection(c) == ReadSecondary(c) \/ AnswerSecondary(c)

-----------------------------------------------------------------------------
(* close(), on the listening side and on the other.                        *)

CloseSocket ==
  /\ closer = "idle"
  /\ closer' = "spinning"
  /\ open' = FALSE
  /\ UNCHANGED <<sendVars, wireVars, listenVars, handler>>

CloseReturns ==
  /\ closer = "spinning"
  /\ ~currently_listening_
  /\ closer' = "returned"
  /\ UNCHANGED <<sendVars, open, wireVars, listenVars, handler>>

PeerCloses ==
  /\ open
  /\ open' = FALSE
  /\ UNCHANGED <<sendVars, wireVars, listenVars, handler, closer>>

Next ==
  \/ \E c \in Calls : Send(c) \/ Sender(c) \/ Connection(c)
  \/ receive_multi \/ Listener \/ Acceptor
  \/ CloseSocket \/ CloseReturns \/ PeerCloses

Spec == Init /\ [][Next]_vars

\* Every thread runs, handlers end once the calls they make have, and the
\* listening side does call receive_multi(); nothing makes a call or a close.
FairSpec ==
  /\ Spec
  /\ WF_vars(receive_multi) /\ WF_vars(Listener) /\ WF_vars(Acceptor)
  /\ WF_vars(CloseReturns)
  /\ \A c \in Calls : WF_vars(Sender(c)) /\ WF_vars(Connection(c))
-----------------------------------------------------------------------------
\* The event of c is on the primary socket, as a request or as its answer, or
\* is being handled by the loop.
OnDown(c) == \E i \in DOMAIN primaryDown : primaryDown[i] = c
InLoop(c) == listener = "handling" /\ handler[c] = "running" /\ pc[c] # "secondary"
OnUp(c) == \E i \in DOMAIN primaryUp : primaryUp[i] = c

OnPrimary(c) == OnDown(c) \/ InLoop(c) \/ OnUp(c)

\* write_mutex_ makes the primary socket a place for one event at a time: it is
\* held exactly while a call is using the socket, and as long as that is open,
\* only the event of the call that has written to it is anywhere on it.
PrimaryIsExclusive ==
  /\ \A c \in Calls : pc[c] \in {"locked", "primary"} <=> write_mutex_ = c
  /\ open => /\ \A c \in Calls : pc[c] = "primary" <=> OnPrimary(c)
             /\ Len(primaryDown) + Len(primaryUp) <= 1

\* The state of receive_multi() and of its acceptor go together.
ListenerInv ==
  /\ currently_listening_
       <=> listener \in {"entered", "reading", "handling", "stopping", "stopped"}
  /\ acceptor_ <=> listener \in {"reading", "handling", "stopping"}
  /\ acceptorThread = "none" <=> listener \in {"off", "entered", "joined", "returned"}
  /\ accepted # {} <=> acceptorThread = "connected"
  /\ listener \in {"off", "entered", "returned"} => threads = {}
  /\ listener \in {"stopping", "stopped", "joining", "joined", "returned"} => ~open
  /\ ~acceptor_ => backlog = {}

\* What is left on a closed socket is that of one call too, and no call that
\* still uses it finds another's.
LineInv ==
  /\ Len(primaryDown) + Len(primaryUp) <= 1
  /\ \A c \in Calls :
       /\ OnPrimary(c) => pc[c] = "primary" \/ (pc[c] = "failed" /\ ~open)
       /\ OnPrimary(c) => \A d \in Calls : OnPrimary(d) \/ pc[d] = "primary" => c = d
       /\ OnDown(c) => handler[c] = "none"
       /\ OnUp(c) => handler[c] = "done"

\* An event is in one place, and its handler has run as far as that says.
EventInv ==
  /\ backlog \cap dropped = {} /\ accepted \cap threads = {}
  /\ (backlog \cup dropped) \cap (accepted \cup threads) = {}
  /\ \A c \in accepted : accepted = {c}
  /\ \A c \in Calls :
       /\ pc[c] \in {"idle", "locked", "connecting", "refused", "locking"} => handler[c] = "none"
       /\ handler[c] = "running" /\ pc[c] # "secondary" => listener = "handling"
       /\ pc[c] = "secondary" =>
            handler[c] = "done" \/ c \in backlog \cup dropped \cup accepted \cup threads
       /\ c \in threads => pc[c] = "secondary" /\ handler[c] # "done"
       /\ c \in backlog \cup dropped \cup accepted => pc[c] = "secondary" /\ handler[c] = "none"
       /\ c \in secondaryUp => pc[c] = "secondary" /\ handler[c] = "done"

\* A call that finds nobody listening was made early, or comes after a close.
EarlyInv ==
  /\ sent_first_event_ \/ primaryUp # <<>> => listener \notin {"off", "entered"}
  /\ ~sent_first_event_ => \A c \in Calls : pc[c] # "idle" => c \in early
  /\ dropped # {} => ~open
  /\ \A c \in Calls : pc[c] = "refused" => ~open \/ c \in early

\* Inductive.
SocketInv ==
  TypeOK /\ PrimaryIsExclusive /\ ListenerInv /\ LineInv /\ EventInv /\ EarlyInv

\* close() and receive_multi() both end: the threads that are joined do not wait
\* for anything the closed socket would have brought.  Of the thread that used the
\* acceptor after its end nothing is claimed.
ListenerReturns ==
  (listener = "reading" /\ ~open) ~> (listener = "returned" \/ acceptorThread = "undefined")

\* Nothing that uses the locals of receive_multi() outlives it: when it has
\* returned, its acceptor's thread has ended and with it the threads of all
\* connections, the one included that waited for the mutex when the loop ended.
NothingOutlivesListener ==
  listener = "returned" =>
    /\ acceptorThread = "none" /\ accepted = {} /\ threads = {}
    /\ \A c \in Calls : pc[c] = "secondary" => c \in dropped \/ handler[c] = "done"

\* common.h:615-617 says of close(): "If another thread is currently calling
\* `receive_multi()`, we'll spinlock until that function has exited."
CloseWaitsForListener ==
  [][closer' # closer /\ closer' = "returned" => listener \in {"off", "returned"}]_vars

-----------------------------------------------------------------------------
Caller(label) ==
  CASE label \in {"idle", "answered", "failed"} -> label
    [] OTHER -> "waiting"

Abstract == INSTANCE EventCalls WITH
  caller <- [c \in Calls |-> Caller(pc[c])],
  up <- sent_first_event_,
  closed <- ~open

\* send() implements EventCalls.tla: at most one handling per event, each call
\* its own answer, no failure of a late call while the sockets are open.
CallsImplemented == Abstract!CallsSpec
=============================================================================

--------------------------- MODULE InstanceSockets ---------------------------
(***************************************************************************)
(* The sockets every plugin instance has for its audio thread: the map of  *)
(* Vst3Sockets (src/common/communication/vst3.h) or of ClapSockets         *)
(* (clap.h), in the plugin's half ("native") and in the Wine half.  An     *)
(* instance is constructed by the Wine half, in which a thread of its own  *)
(* listens; then the plugin's half connects, audio calls are made, and     *)
(* both halves remove the sockets.  A CLAP instance has a second socket    *)
(* for callbacks, on which the plugin's half listens.                      *)
(*                                                                         *)
(* The callers, which decide when an instance is made and destroyed, are   *)
(* not in this repository; they do what the comments on these functions    *)
(* say, and the two halves remove an instance in either order.  What       *)
(* happens on one socket is in AdHocSocket.tla.                            *)
(***************************************************************************)
EXTENDS Naturals, Sequences

CONSTANTS Instances, NoInstance

Sides == {"native", "wine"}

VARIABLES
  format,     \* "vst3" or "clap"
  main,       \* per instance: the plugin half's thread that makes it
  listener,   \* per side and instance: the thread that listens
  at,         \* per side and instance: connections connect() has made
  sockets,    \* per side: the instances in the map
  mutex,      \* per side: the instance whose function holds it
  acceptors,  \* <<instance, socket>> that take connections
  backlog,    \* connections not yet accepted
  open,       \* per side: connected sockets this side has not closed
  removing,   \* per side and instance: 0, or the sockets closed and one more
  early       \* auxiliary: removed before its threads were receiving

vars == <<format, main, listener, at, sockets, mutex, acceptors, backlog, open, removing, early>>

TypeOK ==
  /\ format \in {"vst3", "clap"}
  /\ main \in [Instances -> {"none", "constructing", "connecting", "ready", "calling",
                             "destroying", "gone"}]
  /\ listener \in [Sides -> [Instances -> {"none", "starting", "latched", "connected",
                             "receiving", "handling", "stopped", "lost"}]]
  /\ at \in [Sides -> [Instances -> 0..2]]
  /\ sockets \in [Sides -> SUBSET Instances]
  /\ mutex \in [Sides -> Instances \cup {NoInstance}]
  /\ acceptors \subseteq Instances \X {"control", "callback", "refused"}
  /\ backlog \subseteq Instances \X {"control", "callback"}
  /\ open \in [Sides -> SUBSET (Instances \X {"control", "callback"})]
  /\ removing \in [Sides -> [Instances -> 0..4]]
  /\ early \subseteq Instances

Init ==
  /\ format \in {"vst3", "clap"}
  /\ main = [i \in Instances |-> "none"]
  /\ listener = [s \in Sides |-> [i \in Instances |-> "none"]]
  /\ at = [s \in Sides |-> [i \in Instances |-> 0]]
  /\ sockets = [s \in Sides |-> {}]
  /\ mutex = [s \in Sides |-> NoInstance]
  /\ acceptors = {} /\ backlog = {}
  /\ open = [s \in Sides |-> {}]
  /\ removing = [s \in Sides |-> [i \in Instances |-> 0]]
  /\ early = {}
-----------------------------------------------------------------------------
\* Mutant: the sockets the other way round.
LinksReversed == IF format = "vst3" THEN <<"control">> ELSE <<"callback", "control">>

\* The sockets of an instance, in the order in which connect() and close() of
\* ClapAudioThreadSockets take them.
Links == IF format = "vst3" THEN <<"control">> ELSE <<"control", "callback">>

\* The constructor's listen argument: the Wine half listens for control messages
\* and the plugin's half for callbacks.
ListenedBy(s) == IF s = "wine" THEN "control" ELSE "callback"

Free(s) == mutex[s] = NoInstance

\* try_emplace(): the socket this side listens on takes connections from now on.
Emplace(s, i) ==
  /\ sockets' = [sockets EXCEPT ![s] = @ \cup {i}]
  /\ acceptors' = IF \E k \in DOMAIN Links : Links[k] = ListenedBy(s)
                  THEN acceptors \cup {<<i, ListenedBy(s)>>} ELSE acceptors

\* One socket's connect(): accept() waits for a connection and removes the
\* endpoint, connect() fails if there is no endpoint.
ConnectSocket(s, i) ==
  LET link == <<i, Links[at[s][i] + 1]>>
  IN /\ at' = [at EXCEPT ![s][i] = @ + 1]
     /\ open' = [open EXCEPT ![s] = @ \cup {link}]
     /\ \/ /\ link[2] = ListenedBy(s) /\ link \in backlog
           /\ backlog' = backlog \ {link}
           /\ acceptors' = acceptors \ {link}
        \/ /\ link[2] # ListenedBy(s) /\ link \in acceptors
           /\ backlog' = backlog \cup {link}
           /\ UNCHANGED acceptors
        \/ /\ link[2] # ListenedBy(s) /\ link \notin acceptors
           /\ acceptors' = acceptors \cup {<<i, "refused">>}
           /\ UNCHANGED backlog

\* It is the last socket of the instance that is connected.
LastSocket(s, i) == at[s][i] + 1 = Len(Links)

\* The host asks for an instance; the Wine half makes it and starts a thread in
\* add_audio_processor_and_listen() or add_audio_thread_and_listen_control().
Construct(i) ==
  /\ main[i] = "none"
  /\ main' = [main EXCEPT ![i] = "constructing"]
  /\ listener' = [listener EXCEPT !["wine"][i] = "starting"]
  /\ UNCHANGED <<format, at, sockets, mutex, acceptors, backlog, open, removing, early>>

WineEmplace(i) ==
  /\ listener["wine"][i] = "starting" /\ i \notin sockets["wine"] /\ Free("wine")
  /\ Emplace("wine", i)
  /\ UNCHANGED <<format, main, listener, at, mutex, backlog, open, removing, early>>

\* Mutant: the latch is set when the connection is there.
LatchReadyLate(i) == i \in sockets["wine"] /\ at["wine"][i] > 0

\* When the latch is set and Construct is answered.
LatchReady(i) == i \in sockets["wine"]

\* socket_listening_latch.set_value(): the plugin's half gets its answer, and
\* enters add_audio_processor_and_connect() or starts a thread in
\* add_audio_thread_and_listen_callback().
SetLatch(i) ==
  /\ listener["wine"][i] = "starting" /\ LatchReady(i)
  /\ listener' = [listener EXCEPT !["wine"][i] = "latched"]
  /\ main' = [main EXCEPT ![i] = "connecting"]
  /\ UNCHANGED <<format, at, sockets, mutex, acceptors, backlog, open, removing, early>>

WineConnect(i) ==
  /\ listener["wine"][i] = "latched"
  /\ ConnectSocket("wine", i)
  /\ listener' = IF LastSocket("wine", i) THEN [listener EXCEPT !["wine"][i] = "connected"]
                 ELSE listener
  /\ UNCHANGED <<format, main, sockets, mutex, removing, early>>

\* With VST3 the mutex is held until the connection is made.
NativeEmplace(i) ==
  /\ main[i] = "connecting" /\ i \notin sockets["native"] /\ Free("native")
  /\ Emplace("native", i)
  /\ mutex' = IF format = "vst3" THEN [mutex EXCEPT !["native"] = i] ELSE mutex
  /\ UNCHANGED <<format, main, listener, at, backlog, open, removing, early>>

\* The instance is there once the plugin's half has connected.
NativeConnect(i) ==
  /\ main[i] = "connecting" /\ i \in sockets["native"]
  /\ ConnectSocket("native", i)
  /\ IF LastSocket("native", i)
     THEN /\ main' = [main EXCEPT ![i] = "ready"]
          /\ IF format = "vst3"
             THEN mutex' = [mutex EXCEPT !["native"] = NoInstance] /\ UNCHANGED listener
             ELSE listener' = [listener EXCEPT !["native"][i] = "connected"] /\ UNCHANGED mutex
     ELSE UNCHANGED <<main, mutex, listener>>
  /\ UNCHANGED <<format, sockets, removing, early>>

\* at(instance_id) throws if the sockets were removed, and receive_messages()
\* begins otherwise.
Receive(s, i) ==
  /\ listener[s][i] = "connected"
  /\ listener' = [listener EXCEPT ![s][i] = IF i \in sockets[s] THEN "receiving" ELSE "lost"]
  /\ UNCHANGED <<format, main, at, sockets, mutex, acceptors, backlog, open, removing, early>>

\* Both ends of the socket this side listens on are open.
Usable(s, i) == \A t \in Sides : <<i, ListenedBy(s)>> \in open[t]

\* receive_multi() ends on the exception of a closed socket.  That its flag is cleared
\* before its threads have ended is in AdHocSocket.tla; here it is one step, because no
\* audio call comes from one of these.
ReceiveEnds(s, i) ==
  /\ listener[s][i] = "receiving" /\ ~Usable(s, i)
  /\ listener' = [listener EXCEPT ![s][i] = "stopped"]
  /\ UNCHANGED <<format, main, at, sockets, mutex, acceptors, backlog, open, removing, early>>

\* send_audio_processor_message(), send_audio_thread_control_message().
AudioCall(i) ==
  /\ main[i] = "ready" /\ i \in sockets["native"]
  /\ main' = [main EXCEPT ![i] = "calling"]
  /\ UNCHANGED <<format, listener, at, sockets, mutex, acceptors, backlog, open, removing, early>>

\* A request is handled; in CLAP its handler may make a callback.
Handle(s, i) ==
  /\ listener[s][i] = "receiving" /\ Usable(s, i)
  /\ IF s = "wine" THEN main[i] = "calling" ELSE listener["wine"][i] = "handling"
  /\ listener' = [listener EXCEPT ![s][i] = "handling"]
  /\ UNCHANGED <<format, main, at, sockets, mutex, acceptors, backlog, open, removing, early>>

Answer(s, i) ==
  /\ listener[s][i] = "handling"
  /\ s = "wine" => listener["native"][i] # "handling"
  /\ listener' = [listener EXCEPT ![s][i] = "receiving"]
  /\ main' = IF s = "wine" THEN [main EXCEPT ![i] = "ready"] ELSE main
  /\ UNCHANGED <<format, at, sockets, mutex, acceptors, backlog, open, removing, early>>

\* The host destroys an instance while no audio call of it runs.
Destroy(i) ==
  /\ main[i] = "ready"
  /\ main' = [main EXCEPT ![i] = "destroying"]
  /\ early' = IF \A s \in Sides : listener[s][i] \in {"none", "receiving"} /\
                                  (s = "wine" => listener[s][i] # "none")
              THEN early ELSE early \cup {i}
  /\ UNCHANGED <<format, listener, at, sockets, mutex, acceptors, backlog, open, removing>>
-----------------------------------------------------------------------------
(* remove_audio_processor(), remove_audio_thread().                        *)

\* Mutant: only the first socket is closed.
CloseFirst(s, i, k) == [open EXCEPT ![s] = @ \ {<<i, Links[1]>>}]

CloseSocket(s, i, k) == [open EXCEPT ![s] = @ \ {<<i, Links[k]>>}]

\* Mutant: close() does not wait.
ListeningIgnored(s, i, k) == FALSE

\* currently_listening_ of a socket.
Listening(s, i, k) ==
  Links[k] = ListenedBy(s) /\ listener[s][i] \in {"receiving", "handling"}

\* The mutex is taken for all of it, and the first socket closed.
Remove(s, i) ==
  /\ main[i] = "destroying" /\ removing[s][i] = 0
  /\ Free(s) /\ i \in sockets[s]
  /\ mutex' = [mutex EXCEPT ![s] = i]
  /\ open' = CloseSocket(s, i, 1)
  /\ removing' = [removing EXCEPT ![s][i] = 1]
  /\ UNCHANGED <<format, main, listener, at, sockets, acceptors, backlog, early>>

\* close() waits for receive_multi() and is then called for the next socket.
RemoveNext(s, i) ==
  /\ removing[s][i] \in 1..(Len(Links) - 1)
  /\ ~Listening(s, i, removing[s][i])
  /\ removing' = [removing EXCEPT ![s][i] = @ + 1]
  /\ open' = CloseSocket(s, i, removing[s][i] + 1)
  /\ UNCHANGED <<format, main, listener, at, sockets, mutex, acceptors, backlog, early>>

RemoveWaited(s, i) ==
  /\ removing[s][i] = Len(Links)
  /\ ~Listening(s, i, removing[s][i])
  /\ removing' = [removing EXCEPT ![s][i] = @ + 1]
  /\ UNCHANGED <<format, main, listener, at, sockets, mutex, acceptors, backlog, open, early>>

\* Mutant: sockets that are gone are erased again.
EraseAgain(s, i) ==
  /\ removing[s][i] > Len(Links)
  /\ sockets' = [sockets EXCEPT ![s] = @ \ {i}]
  /\ mutex' = [mutex EXCEPT ![s] = NoInstance]
  /\ removing' = [removing EXCEPT ![s][i] = @ + 1]
  /\ UNCHANGED <<format, main, listener, at, acceptors, backlog, open, early>>

Erase(s, i) ==
  /\ removing[s][i] = Len(Links) + 1
  /\ sockets' = [sockets EXCEPT ![s] = @ \ {i}]
  /\ mutex' = [mutex EXCEPT ![s] = NoInstance]
  /\ removing' = [removing EXCEPT ![s][i] = @ + 1]
  /\ main' = IF \A t \in Sides : removing'[t][i] = Len(Links) + 2
             THEN [main EXCEPT ![i] = "gone"] ELSE main
  /\ UNCHANGED <<format, listener, at, acceptors, backlog, open, early>>

\* The threads of an instance: the one of the plugin's half that makes it, those
\* that listen, and those that remove it.
Make(i) == NativeEmplace(i) \/ NativeConnect(i)

Serve(s, i) == Receive(s, i) \/ ReceiveEnds(s, i) \/ Answer(s, i)

Listen(i) == WineEmplace(i) \/ SetLatch(i) \/ WineConnect(i) \/ Serve("wine", i)

RemoveSteps(s, i) == Remove(s, i) \/ RemoveNext(s, i) \/ RemoveWaited(s, i) \/ Erase(s, i)

Next ==
  \E i \in Instances :
    \/ Construct(i) \/ AudioCall(i) \/ Destroy(i)
    \/ Make(i) \/ Listen(i) \/ Serve("native", i)
    \/ \E s \in Sides : Handle(s, i) \/ RemoveSteps(s, i)

Spec == Init /\ [][Next]_vars
-----------------------------------------------------------------------------
\* Nobody connects to a socket that does not listen yet (the latch, "otherwise it
\* can be that the native plugin already tries to connect", vst3.h).
ConnectFindsListener == \A i \in Instances : <<i, "refused">> \notin acceptors

\* The sockets of a thread that receives are in the map: remove() waits for it.
\* An instance removed before its threads were receiving has no such protection.
ReceivingHasSocket ==
  \A s \in Sides, i \in Instances \ early :
    listener[s][i] # "lost" /\ (listener[s][i] \in {"receiving", "handling"} => i \in sockets[s])

\* How far an instance has come: it is not removed before it was made, and what
\* receives in its threads is answered before it is.
LifeInv(i) ==
  /\ main[i] = "none" <=> listener["wine"][i] = "none"
  /\ main[i] = "constructing" <=> listener["wine"][i] = "starting"
  /\ main[i] \notin {"none", "constructing", "connecting"} => at["native"][i] = Len(Links)
  /\ main[i] = "connecting" => at["native"][i] < Len(Links)
  /\ format = "vst3" \/ at["native"][i] < Len(Links) => listener["native"][i] = "none"
  /\ listener["wine"][i] \in {"none", "starting"} => at["wine"][i] = 0
  /\ listener["wine"][i] = "latched" => at["wine"][i] < Len(Links)
  /\ \A s \in Sides : listener[s][i] = "handling" => main[i] = "calling"

\* Each half makes its connections in the order in which the other one waits for
\* them, and a socket that is still to be connected takes connections.
ConnectionInv(i) ==
  /\ at["native"][i] = 0 => at["wine"][i] = 0 /\ <<i, "control">> \notin backlog
  /\ at["native"][i] = 2 => at["wine"][i] = 2
  /\ <<i, "callback">> \in backlog => at["wine"][i] = 2
  /\ at["native"][i] > 0 \/ i \in sockets["native"] => main[i] \notin {"none", "constructing"}
  /\ main[i] = "connecting" /\ at["native"][i] > 0 => i \in sockets["native"]
  /\ i \in sockets["wine"] /\ at["wine"][i] = 0 => <<i, "control">> \in acceptors
  /\ i \in sockets["native"] /\ at["native"][i] < 2 /\ format = "clap"
       => <<i, "callback">> \in acceptors

\* The sockets are in the map until they are erased, which, unless the removal came
\* too early, waits until the thread that listens has stopped.
RemovalInv(i) ==
  \A s \in Sides :
    /\ removing[s][i] > 0 => main[i] \in {"destroying", "gone"}
    /\ removing[s][i] <= Len(Links) + 2
    /\ listener[s][i] \notin {"none", "starting"} /\ removing[s][i] < Len(Links) + 2
         => i \in sockets[s]
    /\ i \notin early =>
         /\ main[i] \in {"destroying", "gone"} =>
              listener[s][i] \in {"none", "receiving", "stopped"}
         /\ \A k \in DOMAIN Links :
              Links[k] = ListenedBy(s) /\ removing[s][i] > k
                => listener[s][i] \in {"none", "stopped"}

\* Inductive.
InstanceInv ==
  /\ TypeOK /\ ConnectFindsListener /\ ReceivingHasSocket
  /\ \A i \in Instances : LifeInv(i) /\ ConnectionInv(i) /\ RemovalInv(i)

\* A thread of some instance can take a step that no host has to ask for.  There
\* are finitely many of these until a host asks for more.
SomeThreadMoves ==
  \E i \in Instances :
    ENABLED (Make(i) \/ Listen(i) \/ Serve("native", i) \/ \E s \in Sides : RemoveSteps(s, i))

\* Each half accepts one connection while it makes the other, and waits for the
\* other half under a mutex: no instance is stuck on the way to being ready.
InstanceComesUp ==
  (\E i \in Instances : main[i] \in {"constructing", "connecting"}) => SomeThreadMoves

\* remove() waits for the receiving thread under the mutex: it is not stuck either,
\* in both halves and whichever begins.
RemovalEnds == (\E i \in Instances : main[i] = "destroying") => SomeThreadMoves
=============================================================================

-------------------------- MODULE AdHocSocketProofs -------------------------
(***************************************************************************)
(* AdHocSocket.tla for any number of calls, nested in any way: SocketInv   *)
(* is an inductive invariant, and every step implements one of             *)
(* EventCalls.tla or stutters.                                             *)
(***************************************************************************)
EXTENDS AdHocSocket, SequenceTheorems, TLAPS

-----------------------------------------------------------------------------
(* A socket that holds at most one event.                                  *)

\* Writing to a socket that holds nothing puts the event there alone.
LEMMA WriteToEmpty ==
  ASSUME NEW S, NEW q \in Seq(S), NEW c \in S, Len(q) = 0
  PROVE  Append(q, c) \in Seq(S) /\ Append(q, c) = <<c>>
BY EmptySeq, AppendProperties

\* Reading from a socket that holds one event leaves nothing.
LEMMA ReadTheOnly ==
  ASSUME NEW S, NEW q \in Seq(S), q # <<>>, Len(q) <= 1
  PROVE  Len(q) = 1 /\ Head(q) \in S /\ Head(q) = q[1] /\ Tail(q) = <<>>
<1>1. Len(q) \in Nat \ {0}
  BY EmptySeq, Zenon
<1>2. Len(q) = 1
  BY <1>1
<1>3. Tail(q) \in Seq(S) /\ Len(Tail(q)) = 0 /\ Head(q) \in S
  BY <1>2, HeadTailProperties
<1>4. Tail(q) = <<>>
  BY <1>3, EmptySeq
<1> QED
  BY <1>2, <1>3, <1>4

-----------------------------------------------------------------------------
(* SocketInv holds initially ...                                           *)

LEMMA InitInv == Init => SocketInv
<1> SUFFICES ASSUME Init PROVE SocketInv
  OBVIOUS
<1>1. /\ primaryDown \in Seq(Calls) /\ Len(primaryDown) = 0
      /\ primaryUp \in Seq(Calls) /\ Len(primaryUp) = 0
  BY EmptySeq DEF Init
<1>2. TypeOK
  BY <1>1 DEF Init, TypeOK
<1>3. DOMAIN primaryDown = {} /\ DOMAIN primaryUp = {}
  BY <1>1, LenProperties
<1>4. \A c \in Calls : ~OnPrimary(c)
  BY <1>3 DEF Init, OnPrimary, OnDown, OnUp, InLoop
<1>5. PrimaryIsExclusive /\ LineInv
  BY <1>1, <1>3, <1>4, SocketAssumption DEF Init, PrimaryIsExclusive, LineInv, OnDown, OnUp
<1>6. ListenerInv /\ EventInv /\ EarlyInv
  BY DEF Init, ListenerInv, EventInv, EarlyInv
<1> QED
  BY <1>2, <1>5, <1>6 DEF SocketInv

-----------------------------------------------------------------------------
(* ... and is preserved by every step of send(), ...                       *)

\* Writing the event: write_mutex_ is held, so the open socket is empty.
LEMMA WritePrimaryStep ==
  ASSUME SocketInv, NEW c \in Calls, WritePrimary(c)
  PROVE  SocketInv'
<1> USE DEF SocketInv, TypeOK, Goto
<1>1. /\ pc[c] = "locked" /\ open /\ handler[c] = "none"
      /\ primaryDown' = Append(primaryDown, c)
      /\ pc' = [pc EXCEPT ![c] = "primary"]
      /\ UNCHANGED <<write_mutex_, sent_first_event_, answer, early, open, primaryUp, backlog,
                     dropped, secondaryUp, listenVars, handler, closer>>
  BY DEF WritePrimary, EventInv
<1>2. \A d \in Calls : ~OnPrimary(d)
  BY <1>1, SocketAssumption DEF PrimaryIsExclusive
<1>3. Len(primaryDown) = 0 /\ Len(primaryUp) = 0
  BY <1>2, LenProperties, ElementOfSeq DEF OnPrimary, OnDown, OnUp
<1>4. primaryDown' \in Seq(Calls) /\ primaryDown' = <<c>>
  BY <1>1, <1>3, WriteToEmpty
<1>5. \A d \in Calls : (OnDown(d)' <=> d = c) /\ ~OnUp(d)' /\ ~InLoop(d)'
  BY <1>1, <1>2, <1>4 DEF OnPrimary, OnDown, OnUp, InLoop, listenVars, connectionVars
<1>6. TypeOK'
  BY <1>1, <1>4 DEF listenVars, connectionVars
<1>7. PrimaryIsExclusive' /\ LineInv'
  BY <1>1, <1>3, <1>4, <1>5, SocketAssumption
     DEF PrimaryIsExclusive, LineInv, OnPrimary, listenVars, connectionVars
<1>8. ListenerInv' /\ EventInv' /\ EarlyInv'
  BY <1>1 DEF ListenerInv, EventInv, EarlyInv, listenVars, connectionVars
<1> QED
  BY <1>6, <1>7, <1>8

\* Reading the answer: it is that of the call that holds write_mutex_, and
\* the socket is empty after it.
LEMMA PrimaryReturnsStep ==
  ASSUME SocketInv, NEW c \in Calls, PrimaryReturns(c)
  PROVE  SocketInv' /\ handler[c] = "done" /\ Head(primaryUp) = c
<1> USE DEF SocketInv, TypeOK, Goto
<1>1. /\ pc[c] = "primary" /\ primaryUp # <<>>
      /\ answer' = [answer EXCEPT ![c] = Head(primaryUp)]
      /\ primaryUp' = Tail(primaryUp)
      /\ sent_first_event_' = TRUE
      /\ write_mutex_' = NoCall
      /\ pc' = [pc EXCEPT ![c] = "answered"]
      /\ UNCHANGED <<early, open, primaryDown, backlog, dropped, secondaryUp, listenVars,
                     handler, closer>>
  BY DEF PrimaryReturns
<1>2. Len(primaryDown) = 0 /\ Len(primaryUp) = 1 /\ Head(primaryUp) \in Calls
      /\ Head(primaryUp) = primaryUp[1] /\ primaryUp' = <<>>
  BY <1>1, ReadTheOnly, LenProperties DEF LineInv
<1>3. OnUp(Head(primaryUp))
  BY <1>2, LenProperties DEF OnUp
<1>4. Head(primaryUp) = c /\ handler[c] = "done"
  BY <1>1, <1>2, <1>3 DEF LineInv, OnPrimary
<1>5. \A d \in Calls : ~OnPrimary(d)'
  <2>1. \A d \in Calls : ~OnDown(d)' /\ ~OnUp(d)'
    BY <1>1, <1>2, EmptySeq, LenProperties DEF OnDown, OnUp
  <2>2. \A d \in Calls : ~InLoop(d)'
    BY <1>1, <1>3, <1>4 DEF LineInv, OnPrimary, InLoop, listenVars, connectionVars
  <2> QED
    BY <2>1, <2>2 DEF OnPrimary
<1>6. TypeOK'
  BY <1>1, <1>2, EmptySeq, SocketAssumption DEF listenVars, connectionVars
<1>7. \A d \in Calls : pc'[d] \notin {"locked", "primary"}
  BY <1>1 DEF PrimaryIsExclusive
<1>8. PrimaryIsExclusive' /\ LineInv'
  <2>1. primaryDown' = primaryDown /\ Len(primaryDown') = 0 /\ Len(primaryUp') = 0
    BY <1>1, <1>2, EmptySeq
  <2>2. PrimaryIsExclusive'
    BY <1>1, <1>5, <1>7, <2>1, SocketAssumption DEF PrimaryIsExclusive
  <2>3. LineInv'
    BY <1>5, <2>1 DEF LineInv, OnPrimary
  <2> QED
    BY <2>2, <2>3
<1>9. ListenerInv' /\ EventInv' /\ EarlyInv'
  BY <1>1, <1>2, <1>4 DEF ListenerInv, EventInv, EarlyInv, listenVars, connectionVars
<1> QED
  BY <1>4, <1>6, <1>8, <1>9

\* The other steps of a thread that sends leave the primary socket alone.
LEMMA SenderStep ==
  ASSUME SocketInv, NEW c \in Calls, Send(c) \/ Sender(c)
  PROVE  SocketInv'
<1> USE DEF SocketInv, TypeOK, PrimaryIsExclusive, ListenerInv, LineInv, EventInv, EarlyInv,
            OnPrimary, OnDown, OnUp, InLoop, Goto, wireVars, listenVars, connectionVars
<1>1. CASE Send(c)
  BY <1>1, SocketAssumption DEF Send, TryLock
<1>2. CASE PrimaryThrows(c)
  BY <1>2, SocketAssumption DEF PrimaryThrows
<1>3. CASE Connect(c)
  BY <1>3 DEF Connect
<1>4. CASE SecondaryReturns(c)
  BY <1>4 DEF SecondaryReturns
<1>5. CASE SecondaryThrows(c)
  BY <1>5 DEF SecondaryThrows
<1>6. CASE Refused(c)
  BY <1>6 DEF Refused
<1>7. CASE Lock(c)
  BY <1>7, SocketAssumption DEF Lock
<1> QED
  BY <1>1, <1>2, <1>3, <1>4, <1>5, <1>6, <1>7, WritePrimaryStep, PrimaryReturnsStep DEF Sender

-----------------------------------------------------------------------------
(* ... of receive_multi() and the threads it starts, ...                   *)

\* Taking an event off the socket: the loop handles nothing else, the socket
\* is empty.
LEMMA ReadPrimaryStep ==
  ASSUME SocketInv, ReadPrimary
  PROVE  /\ SocketInv'
         /\ Head(primaryDown) \in Calls /\ handler[Head(primaryDown)] = "none"
         /\ pc[Head(primaryDown)] \in {"primary", "failed"}
<1> DEFINE c == Head(primaryDown)
<1> USE DEF SocketInv, TypeOK
<1>1. /\ listener = "reading" /\ primaryDown # <<>>
      /\ listener' = "handling" /\ primaryDown' = Tail(primaryDown)
      /\ handler' = [handler EXCEPT ![c] = "running"]
      /\ UNCHANGED <<sendVars, open, primaryUp, backlog, dropped, secondaryUp,
                     currently_listening_, acceptor_, acceptorThread, connectionVars, closer>>
  BY DEF ReadPrimary
<1>2. Len(primaryDown) = 1 /\ Len(primaryUp) = 0 /\ c \in Calls
      /\ c = primaryDown[1] /\ primaryDown' = <<>>
  BY <1>1, ReadTheOnly, LenProperties DEF LineInv
<1>3. OnDown(c)
  BY <1>2, LenProperties DEF OnDown
<1> HIDE DEF c
<1>4. handler[c] = "none" /\ pc[c] \in {"primary", "failed"} /\ (pc[c] = "failed" => ~open)
  BY <1>2, <1>3 DEF LineInv, OnPrimary
<1>5. \A d \in Calls : ~OnDown(d)' /\ ~OnUp(d)' /\ (InLoop(d)' <=> d = c)
  <2>1. \A d \in Calls : ~OnDown(d)' /\ ~OnUp(d)'
    BY <1>1, <1>2, EmptySeq, LenProperties DEF OnDown, OnUp
  <2>2. \A d \in Calls : InLoop(d)' <=> d = c
    BY <1>1, <1>2, <1>4 DEF InLoop, EventInv, sendVars
  <2> QED
    BY <2>1, <2>2
<1>6. \A d \in Calls : OnPrimary(d) \/ pc[d] = "primary" => d = c
  BY <1>2, <1>3 DEF LineInv, OnPrimary
<1>7. TypeOK'
  BY <1>1, <1>2, EmptySeq DEF sendVars, connectionVars
<1>8. PrimaryIsExclusive' /\ LineInv'
  <2>1. Len(primaryDown') = 0 /\ Len(primaryUp') = 0
    BY <1>1, <1>2, EmptySeq
  <2>2. \A d \in Calls : OnPrimary(d)' <=> d = c
    BY <1>5 DEF OnPrimary
  <2>3. PrimaryIsExclusive'
    <3>1. \A d \in Calls : pc'[d] \in {"locked", "primary"} <=> write_mutex_' = d
      BY <1>1 DEF PrimaryIsExclusive, sendVars
    <3>2. open => \A d \in Calls : pc[d] = "primary" <=> d = c
      BY <1>2, <1>4, <1>6
    <3> QED
      BY <1>1, <2>1, <2>2, <3>1, <3>2 DEF PrimaryIsExclusive, sendVars
  <2>4. LineInv'
    BY <1>1, <1>4, <1>5, <1>6, <2>1, <2>2 DEF LineInv, sendVars
  <2> QED
    BY <2>3, <2>4
<1>9. ListenerInv' /\ EventInv' /\ EarlyInv'
  BY <1>1, <1>2, <1>4 DEF ListenerInv, EventInv, EarlyInv, sendVars, connectionVars
<1> QED
  BY <1>2, <1>4, <1>7, <1>8, <1>9 DEF c

\* Writing the answer: it is the only thing on the socket.
LEMMA AnswerPrimaryStep ==
  ASSUME SocketInv, NEW c \in Calls, AnswerPrimary(c)
  PROVE  SocketInv'
<1> USE DEF SocketInv, TypeOK
<1>1. /\ listener = "handling" /\ handler[c] = "running" /\ pc[c] # "secondary"
      /\ handler' = [handler EXCEPT ![c] = "done"]
      /\ \/ open /\ listener' = "reading" /\ primaryUp' = Append(primaryUp, c)
         \/ ~open /\ listener' = "stopping" /\ UNCHANGED primaryUp
      /\ UNCHANGED <<sendVars, open, primaryDown, backlog, dropped, secondaryUp,
                     currently_listening_, acceptor_, acceptorThread, connectionVars, closer>>
  BY DEF AnswerPrimary
<1>2. InLoop(c)
  BY <1>1 DEF InLoop
<1>3. \A d \in Calls : OnPrimary(d) \/ pc[d] = "primary" => d = c
  BY <1>2 DEF LineInv, OnPrimary
<1>4. Len(primaryDown) = 0 /\ Len(primaryUp) = 0
  BY <1>1, <1>3, LenProperties, ElementOfSeq DEF LineInv, OnPrimary, OnDown, OnUp
<1>5. /\ primaryUp' \in Seq(Calls)
      /\ primaryUp' = IF open THEN <<c>> ELSE primaryUp
  BY <1>1, <1>4, WriteToEmpty
<1>6. \A d \in Calls : ~OnDown(d)' /\ ~InLoop(d)' /\ (OnUp(d)' <=> open /\ d = c)
  BY <1>1, <1>4, <1>5, LenProperties DEF OnDown, OnUp, InLoop, sendVars
<1>7. TypeOK'
  BY <1>1, <1>5 DEF sendVars, connectionVars
<1>8. PrimaryIsExclusive' /\ LineInv'
  BY <1>1, <1>2, <1>3, <1>4, <1>5, <1>6
     DEF PrimaryIsExclusive, LineInv, OnPrimary, sendVars
<1>9. ListenerInv' /\ EventInv' /\ EarlyInv'
  <2>1. \A d \in Calls : handler[d] = "running" /\ pc[d] # "secondary" => d = c
    BY <1>1, <1>3 DEF OnPrimary, InLoop
  <2> QED
    BY <1>1, <2>1 DEF ListenerInv, EventInv, EarlyInv, sendVars, connectionVars
<1> QED
  BY <1>7, <1>8, <1>9

\* The connections not accepted are dropped: the socket is closed by then.
LEMMA StopAcceptingStep ==
  ASSUME SocketInv, StopAccepting
  PROVE  SocketInv'
<1> USE DEF SocketInv, TypeOK
<1>1. /\ listener = "stopping" /\ listener' = "stopped"
      /\ acceptor_' = FALSE
      /\ dropped' = dropped \cup backlog /\ backlog' = {}
      /\ UNCHANGED <<sendVars, open, primaryDown, primaryUp, secondaryUp,
                     currently_listening_, acceptorThread, connectionVars, handler, closer>>
  BY DEF StopAccepting
<1>2. ~open
  BY <1>1 DEF ListenerInv
<1>3. \A d \in Calls : (OnDown(d)' <=> OnDown(d)) /\ (OnUp(d)' <=> OnUp(d)) /\ ~InLoop(d)'
  BY <1>1 DEF OnDown, OnUp, InLoop
<1>4. TypeOK' /\ PrimaryIsExclusive' /\ LineInv'
  BY <1>1, <1>2, <1>3 DEF PrimaryIsExclusive, LineInv, OnPrimary, sendVars, connectionVars
<1>5. ListenerInv' /\ EventInv' /\ EarlyInv'
  BY <1>1, <1>2 DEF ListenerInv, EventInv, EarlyInv, sendVars, connectionVars
<1> QED
  BY <1>4, <1>5

\* The other steps leave the primary socket alone.
LEMMA ListeningStep ==
  ASSUME SocketInv,
         receive_multi \/ Listener \/ Acceptor \/ (\E c \in Calls : Connection(c))
  PROVE  SocketInv'
<1> USE DEF SocketInv, TypeOK, PrimaryIsExclusive, ListenerInv, LineInv, EventInv, EarlyInv,
            OnPrimary, OnDown, OnUp, InLoop, sendVars, wireVars, listenVars, connectionVars
<1>1. CASE receive_multi
  BY <1>1 DEF receive_multi
<1>2. CASE StartAccepting
  BY <1>2 DEF StartAccepting
<1>3. CASE ReadThrows
  BY <1>3 DEF ReadThrows
<1>4. CASE ClearFlag
  <2>1. TypeOK'
    BY <1>4 DEF ClearFlag
  <2>2. PrimaryIsExclusive' /\ LineInv'
    BY <1>4 DEF ClearFlag
  <2>3. ListenerInv'
    BY <1>4 DEF ClearFlag
  <2>4. EventInv'
    BY <1>4 DEF ClearFlag
  <2>5. EarlyInv'
    BY <1>4 DEF ClearFlag
  <2> QED
    BY <2>1, <2>2, <2>3, <2>4, <2>5
<1>5. CASE JoinAcceptor
  <2>1. TypeOK' /\ PrimaryIsExclusive' /\ LineInv'
    BY <1>5 DEF JoinAcceptor
  <2>2. ListenerInv' /\ EventInv' /\ EarlyInv'
    BY <1>5 DEF JoinAcceptor
  <2> QED
    BY <2>1, <2>2
<1>6. CASE JoinThreads
  BY <1>6 DEF JoinThreads
<1>7. ASSUME NEW c \in Calls, Accept(c) PROVE SocketInv'
  BY <1>7 DEF Accept
<1>8. ASSUME NEW c \in Calls, StartThread(c) PROVE SocketInv'
  BY <1>8 DEF StartThread
<1>9. CASE AcceptAgain
  BY <1>9 DEF AcceptAgain
<1>10. ASSUME NEW c \in Calls, ReadSecondary(c) PROVE SocketInv'
  BY <1>10 DEF ReadSecondary
<1>11. ASSUME NEW c \in Calls, AnswerSecondary(c) PROVE SocketInv'
  BY <1>11 DEF AnswerSecondary
<1> QED
  BY <1>1, <1>2, <1>3, <1>4, <1>5, <1>6, <1>7, <1>8, <1>9, <1>10, <1>11,
     ReadPrimaryStep, AnswerPrimaryStep, StopAcceptingStep DEF Listener, Acceptor, Connection

-----------------------------------------------------------------------------
(* ... and of close().                                                     *)

\* Whoever closes the socket, and whenever, what is on it stays what it was.
LEMMA ClosingStep ==
  ASSUME SocketInv, CloseSocket \/ CloseReturns \/ PeerCloses
  PROVE  SocketInv'
<1> USE DEF SocketInv, TypeOK
<1>1. /\ open' = open \/ open' = FALSE
      /\ closer' \in {"idle", "spinning", "returned"}
      /\ UNCHANGED <<sendVars, wireVars, listenVars, handler>>
  BY DEF CloseSocket, CloseReturns, PeerCloses
<1>2. \A d \in Calls :
        (OnDown(d)' <=> OnDown(d)) /\ (OnUp(d)' <=> OnUp(d)) /\ (InLoop(d)' <=> InLoop(d))
  BY <1>1 DEF OnDown, OnUp, InLoop, sendVars, wireVars, listenVars, connectionVars
<1>3. CASE open' = open
  BY <1>1, <1>2, <1>3 DEF PrimaryIsExclusive, ListenerInv, LineInv, EventInv, EarlyInv,
                          OnPrimary, sendVars, wireVars, listenVars, connectionVars
<1>4. CASE open' = FALSE
  <2>1. TypeOK' /\ PrimaryIsExclusive'
    BY <1>1, <1>4 DEF PrimaryIsExclusive, sendVars, wireVars, listenVars, connectionVars
  <2>2. LineInv'
    BY <1>1, <1>2, <1>4 DEF LineInv, OnPrimary, sendVars, wireVars
  <2>3. ListenerInv' /\ EventInv' /\ EarlyInv'
    BY <1>1, <1>4 DEF ListenerInv, EventInv, EarlyInv, sendVars, wireVars, listenVars, connectionVars
  <2> QED
    BY <2>1, <2>2, <2>3
<1> QED
  BY <1>1, <1>3, <1>4

LEMMA InvStep == SocketInv /\ [Next]_vars => SocketInv'
<1> SUFFICES ASSUME SocketInv, [Next]_vars PROVE SocketInv'
  OBVIOUS
<1>1. CASE UNCHANGED vars
  BY <1>1 DEF vars, sendVars, wireVars, listenVars, connectionVars, SocketInv, TypeOK, PrimaryIsExclusive,
              ListenerInv, LineInv, EventInv, EarlyInv, OnPrimary, OnDown, OnUp, InLoop
<1> QED
  BY <1>1, SenderStep, ListeningStep, ClosingStep DEF Next

\* The state of the sockets, of receive_multi() and of the calls go together in
\* every reachable state (TypeOK among it).
THEOREM SocketsConsistent == Spec => []SocketInv
BY InitInv, InvStep, PTL DEF Spec

\* One event at a time is on an open primary socket, that of the call that holds
\* write_mutex_ (send(), receive_multi()).
THEOREM OneEventOnPrimary == Spec => []PrimaryIsExclusive
<1>1. SocketInv => PrimaryIsExclusive
  BY DEF SocketInv
<1> QED
  BY <1>1, SocketsConsistent, PTL

\* When receive_multi() has returned, no thread that it started is left to use its
\* locals, and each connection has been dropped or answered.
THEOREM ThreadsEndFirst == Spec => []NothingOutlivesListener
<1>1. SocketInv => NothingOutlivesListener
  BY DEF SocketInv, ListenerInv, EventInv, NothingOutlivesListener
<1> QED
  BY <1>1, SocketsConsistent, PTL

-----------------------------------------------------------------------------
(* The refinement.                                                         *)

\* What a call is to its caller when it is at `label' in send().
LEMMA CallerStates ==
  /\ Caller("idle") = "idle" /\ Caller("answered") = "answered" /\ Caller("failed") = "failed"
  /\ \A l \in {"locked", "primary", "connecting", "secondary", "refused", "locking"} :
       Caller(l) = "waiting"
BY DEF Caller

\* A step that leaves what the caller sees leaves the abstract state.
LEMMA SameCallers ==
  ASSUME SocketInv, NEW c \in Calls, NEW l, pc' = [pc EXCEPT ![c] = l], Caller(l) = Caller(pc[c])
  PROVE  [d \in Calls |-> Caller(pc[d])]' = [d \in Calls |-> Caller(pc[d])]
BY DEF SocketInv, TypeOK

\* A step of a call changes what its own caller sees and nothing else.
LEMMA OneCaller ==
  ASSUME SocketInv, NEW c \in Calls, NEW l, pc' = [pc EXCEPT ![c] = l]
  PROVE  [d \in Calls |-> Caller(pc[d])]'
           = [[d \in Calls |-> Caller(pc[d])] EXCEPT ![c] = Caller(l)]
BY DEF SocketInv, TypeOK

LEMMA InitImplements == Init => Abstract!CallsInit
BY CallerStates DEF Init, Abstract!CallsInit

LEMMA SenderImplements ==
  ASSUME SocketInv, NEW c \in Calls, Send(c) \/ Sender(c)
  PROVE  Abstract!CallsNext \/ UNCHANGED Abstract!callVars
<1> USE CallerStates DEF SocketInv, TypeOK, Goto, sendVars, wireVars, listenVars, connectionVars
<1>1. CASE Send(c)
  <2>1. Abstract!Call(c)
    BY <1>1, OneCaller DEF Send, TryLock, Abstract!Call
  <2> QED
    BY <2>1 DEF Abstract!CallsNext
<1>2. CASE WritePrimary(c)
  BY <1>2, SameCallers DEF WritePrimary, Abstract!callVars
<1>3. CASE PrimaryReturns(c)
  <2>1. handler[c] = "done" /\ Head(primaryUp) = c
    BY <1>3, PrimaryReturnsStep
  <2>2. Abstract!Answer(c)
    BY <1>3, <2>1, OneCaller DEF PrimaryReturns, Abstract!Answer
  <2> QED
    BY <2>2 DEF Abstract!CallsNext
<1>4. CASE PrimaryThrows(c)
  <2>1. Abstract!Fail(c)
    BY <1>4, OneCaller DEF PrimaryThrows, Abstract!Fail
  <2> QED
    BY <2>1 DEF Abstract!CallsNext
<1>5. CASE Connect(c)
  BY <1>5, SameCallers DEF Connect, Abstract!callVars
<1>6. CASE SecondaryReturns(c)
  <2>1. handler[c] = "done"
    BY <1>6 DEF SecondaryReturns, EventInv
  <2>2. Abstract!Answer(c)
    BY <1>6, <2>1, OneCaller DEF SecondaryReturns, Abstract!Answer
  <2> QED
    BY <2>2 DEF Abstract!CallsNext
<1>7. CASE SecondaryThrows(c)
  BY <1>7, SameCallers DEF SecondaryThrows, Abstract!callVars
<1>8. CASE Refused(c)
  <2>1. CASE sent_first_event_
    <3>1. Abstract!Fail(c)
      BY <1>8, <2>1, OneCaller DEF Refused, EarlyInv, Abstract!Fail
    <3> QED
      BY <3>1 DEF Abstract!CallsNext
  <2>2. CASE ~sent_first_event_
    BY <1>8, <2>2, SameCallers DEF Refused, Abstract!callVars
  <2> QED
    BY <2>1, <2>2
<1>9. CASE Lock(c)
  BY <1>9, SameCallers DEF Lock, Abstract!callVars
<1> QED
  BY <1>1, <1>2, <1>3, <1>4, <1>5, <1>6, <1>7, <1>8, <1>9 DEF Sender

\* Every step of the listening side begins or ends the handling of one event,
\* or is not seen by any caller.
LEMMA ListeningImplements ==
  ASSUME SocketInv,
         receive_multi \/ Listener \/ Acceptor \/ (\E c \in Calls : Connection(c))
  PROVE  Abstract!CallsNext \/ UNCHANGED Abstract!callVars
<1> USE DEF SocketInv, TypeOK, sendVars, wireVars, listenVars, connectionVars
<1>1. CASE receive_multi \/ StartAccepting \/ ReadThrows \/ StopAccepting \/ ClearFlag
             \/ JoinAcceptor \/ JoinThreads \/ AcceptAgain
  BY <1>1 DEF receive_multi, StartAccepting, ReadThrows, StopAccepting, ClearFlag,
              JoinAcceptor, JoinThreads, AcceptAgain, Abstract!callVars
<1>2. CASE ReadPrimary
  <2> DEFINE c == Head(primaryDown)
  <2>1. c \in Calls /\ handler[c] = "none" /\ pc[c] \in {"primary", "failed"}
    BY <1>2, ReadPrimaryStep
  <2>2. Abstract!Handle(c)
    BY <1>2, <2>1, CallerStates DEF ReadPrimary, Abstract!Handle
  <2> QED
    BY <2>1, <2>2 DEF Abstract!CallsNext
<1>3. ASSUME NEW c \in Calls, AnswerPrimary(c) \/ AnswerSecondary(c)
      PROVE  Abstract!CallsNext
  <2>1. Abstract!Finish(c)
    BY <1>3 DEF AnswerPrimary, AnswerSecondary, Abstract!Finish
  <2> QED
    BY <2>1 DEF Abstract!CallsNext
<1>4. ASSUME NEW c \in Calls, ReadSecondary(c)
      PROVE  Abstract!CallsNext
  <2>1. Abstract!Handle(c)
    BY <1>4, CallerStates DEF ReadSecondary, EventInv, Abstract!Handle
  <2> QED
    BY <2>1 DEF Abstract!CallsNext
<1>5. ASSUME NEW c \in Calls, Accept(c) \/ StartThread(c)
      PROVE  UNCHANGED Abstract!callVars
  BY <1>5 DEF Accept, StartThread, Abstract!callVars
<1> QED
  BY <1>1, <1>2, <1>3, <1>4, <1>5 DEF Listener, Acceptor, Connection

LEMMA ClosingImplements ==
  ASSUME CloseSocket \/ CloseReturns \/ PeerCloses
  PROVE  Abstract!CallsNext \/ UNCHANGED Abstract!callVars
<1> USE DEF sendVars, wireVars, listenVars, connectionVars
<1>1. CASE CloseSocket \/ PeerCloses
  BY <1>1 DEF CloseSocket, PeerCloses, Abstract!Close, Abstract!CallsNext
<1>2. CASE CloseReturns
  BY <1>2 DEF CloseReturns, Abstract!callVars
<1> QED
  BY <1>1, <1>2

\* send() and receive_multi() implement EventCalls.tla, but for that a call ends:
\* an event is handled at most once, a call gets the answer to its own event, and
\* none fails that was made late and with the sockets open.
THEOREM SocketImplementsCalls == Spec => Abstract!CallsSafety
<1>1. SocketInv /\ [Next]_vars => [Abstract!CallsNext]_Abstract!callVars
  <2> SUFFICES ASSUME SocketInv, [Next]_vars
               PROVE  Abstract!CallsNext \/ UNCHANGED Abstract!callVars
    OBVIOUS
  <2>1. CASE UNCHANGED vars
    BY <2>1 DEF vars, sendVars, Abstract!callVars
  <2> QED
    BY <2>1, SenderImplements, ListeningImplements, ClosingImplements DEF Next
<1> QED
  BY <1>1, InitImplements, SocketsConsistent, PTL DEF Spec, Abstract!CallsSafety
=============================================================================

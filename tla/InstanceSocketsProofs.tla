----------------------- MODULE InstanceSocketsProofs ------------------------
(***************************************************************************)
(* InstanceSockets.tla for any set of instances: InstanceInv is inductive. *)
(***************************************************************************)
EXTENDS InstanceSockets, TLAPS

\* The initial states: no instance has been made.
LEMMA InitInv == Init => InstanceInv
BY DEF Init, InstanceInv, TypeOK, Sides, Links, ConnectFindsListener, ReceivingHasSocket,
       LifeInv, ConnectionInv, RemovalInv

\* Every step leaves a state of the right type.
LEMMA TypeStep == InstanceInv /\ [Next]_vars => TypeOK'
<1> SUFFICES ASSUME InstanceInv, [Next]_vars PROVE TypeOK'
  OBVIOUS
<1> USE DEF InstanceInv, TypeOK, Sides, Links, LifeInv, RemovalInv
<1>1. ASSUME NEW i \in Instances, Construct(i) PROVE TypeOK'
  BY <1>1 DEF Construct
<1>2. ASSUME NEW i \in Instances, WineEmplace(i) PROVE TypeOK'
  BY <1>2 DEF WineEmplace, Emplace
<1>3. ASSUME NEW i \in Instances, SetLatch(i) PROVE TypeOK'
  BY <1>3 DEF SetLatch, LatchReady
<1>4. ASSUME NEW i \in Instances, WineConnect(i) PROVE TypeOK'
  <2>1. Len(Links) \in {1, 2} /\ Links[at["wine"][i] + 1] \in {"control", "callback"}
    BY <1>4 DEF WineConnect
  <2>2. at' \in [Sides -> [Instances -> 0..2]]
    BY <1>4, <2>1 DEF WineConnect, ConnectSocket
  <2>3. /\ acceptors' \subseteq Instances \X {"control", "callback", "refused"}
        /\ backlog' \subseteq Instances \X {"control", "callback"}
        /\ open' \in [Sides -> SUBSET (Instances \X {"control", "callback"})]
    BY <1>4, <2>1 DEF WineConnect, ConnectSocket
  <2>4. /\ UNCHANGED <<format, main, sockets, mutex, removing, early>>
        /\ UNCHANGED listener \/ listener' = [listener EXCEPT !["wine"][i] = "connected"]
    BY <1>4 DEF WineConnect
  <2> QED
    BY <2>2, <2>3, <2>4
<1>5. ASSUME NEW i \in Instances, NativeEmplace(i) PROVE TypeOK'
  BY <1>5 DEF NativeEmplace, Emplace
<1>6. ASSUME NEW i \in Instances, NativeConnect(i) PROVE TypeOK'
  <2>1. Len(Links) \in {1, 2} /\ Links[at["native"][i] + 1] \in {"control", "callback"}
    BY <1>6 DEF NativeConnect
  <2>2. at' \in [Sides -> [Instances -> 0..2]]
    BY <1>6, <2>1 DEF NativeConnect, ConnectSocket
  <2>3. /\ acceptors' \subseteq Instances \X {"control", "callback", "refused"}
        /\ backlog' \subseteq Instances \X {"control", "callback"}
        /\ open' \in [Sides -> SUBSET (Instances \X {"control", "callback"})]
    BY <1>6, <2>1 DEF NativeConnect, ConnectSocket
  <2>4. /\ UNCHANGED <<format, sockets, removing, early>>
        /\ \E m \in {"connecting", "ready"} : main' = [main EXCEPT ![i] = m]
        /\ \E m \in {mutex["native"], NoInstance} : mutex' = [mutex EXCEPT !["native"] = m]
        /\ UNCHANGED listener \/ listener' = [listener EXCEPT !["native"][i] = "connected"]
    BY <1>6 DEF NativeConnect
  <2> QED
    BY <2>2, <2>3, <2>4
<1>7. ASSUME NEW s \in Sides, NEW i \in Instances, Serve(s, i) PROVE TypeOK'
  <2>1. /\ UNCHANGED <<format, at, sockets, mutex, acceptors, backlog, open, removing, early>>
        /\ UNCHANGED main \/ main' = [main EXCEPT ![i] = "ready"]
        /\ \E l \in {"receiving", "lost", "stopped"} : listener' = [listener EXCEPT ![s][i] = l]
    BY <1>7 DEF Serve, Receive, ReceiveEnds, Answer
  <2> QED
    BY <2>1
<1>8. ASSUME NEW i \in Instances, AudioCall(i) PROVE TypeOK'
  BY <1>8 DEF AudioCall
<1>9. ASSUME NEW s \in Sides, NEW i \in Instances, Handle(s, i) PROVE TypeOK'
  BY <1>9 DEF Handle
<1>10. ASSUME NEW i \in Instances, Destroy(i) PROVE TypeOK'
  BY <1>10 DEF Destroy
<1>11. ASSUME NEW s \in Sides, NEW i \in Instances, RemoveSteps(s, i) PROVE TypeOK'
  <2>1. removing[s][i] \in 0 .. Len(Links) + 1 /\ Len(Links) \in {1, 2}
    BY <1>11 DEF RemoveSteps, Remove, RemoveNext, RemoveWaited, Erase
  <2>2. removing' = [removing EXCEPT ![s][i] = removing[s][i] + 1]
    BY <1>11 DEF RemoveSteps, Remove, RemoveNext, RemoveWaited, Erase
  <2>3. removing' \in [Sides -> [Instances -> 0..4]]
    BY <2>1, <2>2
  <2>4. /\ open' \in [Sides -> SUBSET (Instances \X {"control", "callback"})]
        /\ sockets' \in [Sides -> SUBSET Instances]
    BY <1>11 DEF RemoveSteps, Remove, RemoveNext, RemoveWaited, Erase, CloseSocket
  <2>5. /\ mutex' \in [Sides -> Instances \cup {NoInstance}]
        /\ \E m \in {main[i], "gone"} : main' = [main EXCEPT ![i] = m]
    BY <1>11 DEF RemoveSteps, Remove, RemoveNext, RemoveWaited, Erase
  <2>6. UNCHANGED <<format, listener, at, acceptors, backlog, early>>
    BY <1>11 DEF RemoveSteps, Remove, RemoveNext, RemoveWaited, Erase
  <2> QED
    BY <2>3, <2>4, <2>5, <2>6
<1>12. CASE UNCHANGED vars
  BY <1>12 DEF vars
<1> QED
  BY <1>1, <1>2, <1>3, <1>4, <1>5, <1>6, <1>7, <1>8, <1>9, <1>10, <1>11, <1>12 DEF Next, Make, Listen

\* The two halves and the threads of an instance stay in step on how far it is.
LEMMA LifeStep == InstanceInv /\ [Next]_vars => (\A j \in Instances : LifeInv(j))'
<1> SUFFICES ASSUME InstanceInv, [Next]_vars PROVE (\A j \in Instances : LifeInv(j))'
  OBVIOUS
<1> USE DEF InstanceInv, TypeOK, Sides, Links
<1>1. ASSUME NEW i \in Instances, Construct(i) PROVE (\A j \in Instances : LifeInv(j))'
  BY <1>1 DEF Construct, LifeInv, ListenedBy
<1>2. ASSUME NEW i \in Instances, WineEmplace(i) PROVE (\A j \in Instances : LifeInv(j))'
  BY <1>2 DEF WineEmplace, Emplace, LifeInv, ListenedBy
<1>3. ASSUME NEW i \in Instances, SetLatch(i) PROVE (\A j \in Instances : LifeInv(j))'
  <2>1. /\ listener["wine"][i] = "starting" /\ UNCHANGED <<format, at>>
        /\ listener' = [listener EXCEPT !["wine"][i] = "latched"]
        /\ main' = [main EXCEPT ![i] = "connecting"]
    BY <1>3 DEF SetLatch
  <2>2. at["wine"][i] = 0 /\ main[i] = "constructing"
    BY <2>1 DEF LifeInv
  <2>3. at["native"][i] = 0
    <3>1. ConnectionInv(i) /\ at["native"][i] \in 0..2
      OBVIOUS
    <3>2. ~(at["native"][i] > 0)
      BY <2>2, <3>1 DEF ConnectionInv
    <3> QED
      BY <3>1, <3>2
  <2>4. Len(Links) > 0
    OBVIOUS
  <2>5. LifeInv(i)'
    BY <2>1, <2>2, <2>3, <2>4 DEF LifeInv
  <2>6. \A j \in Instances \ {i} : LifeInv(j)'
    BY <2>1 DEF LifeInv
  <2> QED
    BY <2>5, <2>6
<1>4. ASSUME NEW i \in Instances, WineConnect(i) PROVE (\A j \in Instances : LifeInv(j))'
  BY <1>4 DEF WineConnect, ConnectSocket, LastSocket, LifeInv, ListenedBy
<1>5. ASSUME NEW i \in Instances, NativeEmplace(i) PROVE (\A j \in Instances : LifeInv(j))'
  BY <1>5 DEF NativeEmplace, Emplace, LifeInv, ListenedBy
<1>6. ASSUME NEW i \in Instances, NativeConnect(i) PROVE (\A j \in Instances : LifeInv(j))'
  BY <1>6 DEF NativeConnect, ConnectSocket, LastSocket, LifeInv, ListenedBy
<1>7. ASSUME NEW s \in Sides, NEW i \in Instances, Serve(s, i) PROVE (\A j \in Instances : LifeInv(j))'
  BY <1>7 DEF Serve, Receive, ReceiveEnds, Answer, LifeInv, ListenedBy
<1>8. ASSUME NEW i \in Instances, AudioCall(i) PROVE (\A j \in Instances : LifeInv(j))'
  BY <1>8 DEF AudioCall, LifeInv, ListenedBy
<1>9. ASSUME NEW s \in Sides, NEW i \in Instances, Handle(s, i) PROVE (\A j \in Instances : LifeInv(j))'
  BY <1>9 DEF Handle, LifeInv, ListenedBy
<1>10. ASSUME NEW i \in Instances, Destroy(i) PROVE (\A j \in Instances : LifeInv(j))'
  BY <1>10 DEF Destroy, LifeInv, ListenedBy
<1>11. ASSUME NEW s \in Sides, NEW i \in Instances, RemoveSteps(s, i) PROVE (\A j \in Instances : LifeInv(j))'
  <2>1. /\ main[i] \in {"destroying", "gone"}
        /\ \E m \in {main[i], "gone"} : main' = [main EXCEPT ![i] = m]
        /\ UNCHANGED <<format, listener, at>>
    BY <1>11 DEF RemoveSteps, Remove, RemoveNext, RemoveWaited, Erase, RemovalInv
  <2> QED
    BY <2>1 DEF LifeInv
<1>12. CASE UNCHANGED vars
  BY <1>12 DEF vars, LifeInv, ListenedBy
<1> QED
  BY <1>1, <1>2, <1>3, <1>4, <1>5, <1>6, <1>7, <1>8, <1>9, <1>10, <1>11, <1>12 DEF Next, Make, Listen

\* A connection finds its endpoint, whichever half is ahead of the other.
LEMMA ConnectionStep == InstanceInv /\ [Next]_vars => (ConnectFindsListener /\ \A j \in Instances : ConnectionInv(j))'
<1> SUFFICES ASSUME InstanceInv, [Next]_vars PROVE (ConnectFindsListener /\ \A j \in Instances : ConnectionInv(j))'
  OBVIOUS
<1> USE DEF InstanceInv, TypeOK, Sides, Links
<1>1. ASSUME NEW i \in Instances, Construct(i) PROVE (ConnectFindsListener /\ \A j \in Instances : ConnectionInv(j))'
  BY <1>1 DEF Construct, ListenedBy, LifeInv, ConnectionInv, RemovalInv, ConnectFindsListener
<1>2. ASSUME NEW i \in Instances, WineEmplace(i) PROVE (ConnectFindsListener /\ \A j \in Instances : ConnectionInv(j))'
  BY <1>2 DEF WineEmplace, Emplace, ListenedBy, LifeInv, ConnectionInv, RemovalInv, ConnectFindsListener
<1>3. ASSUME NEW i \in Instances, SetLatch(i) PROVE (ConnectFindsListener /\ \A j \in Instances : ConnectionInv(j))'
  BY <1>3 DEF SetLatch, LatchReady, ListenedBy, LifeInv, ConnectionInv, RemovalInv, ConnectFindsListener
<1>4. ASSUME NEW i \in Instances, WineConnect(i) PROVE (ConnectFindsListener /\ \A j \in Instances : ConnectionInv(j))'
  <2>1. at["wine"][i] < Len(Links) /\ at' = [at EXCEPT !["wine"][i] = @ + 1]
    BY <1>4 DEF WineConnect, ConnectSocket, LifeInv
  <2>2. UNCHANGED <<format, main, sockets>>
    BY <1>4 DEF WineConnect
  <2>3. CASE at["wine"][i] = 0
    <3>1. /\ <<i, "control">> \in backlog /\ backlog' = backlog \ {<<i, "control">>}
          /\ acceptors' = acceptors \ {<<i, "control">>}
      BY <1>4, <2>3 DEF WineConnect, ConnectSocket, ListenedBy
    <3> QED
      BY <2>1, <2>2, <2>3, <3>1 DEF ConnectionInv, ConnectFindsListener
  <2>4. CASE at["wine"][i] = 1
    <3>1. format = "clap" /\ at["native"][i] = 1
      <4>1. Len(Links) = 2 => format = "clap"
        OBVIOUS
      <4>2. Len(Links) \in {1, 2}
        OBVIOUS
      <4>3. at["native"][i] \notin {0, 2}
        <5>1. ConnectionInv(i)
          OBVIOUS
        <5> QED
          BY <2>4, <5>1 DEF ConnectionInv
      <4> QED
        BY <2>1, <2>4, <4>1, <4>2, <4>3
    <3>2. <<i, "callback">> \in acceptors
      <4>1. Len(Links) = 2
        BY <3>1
      <4>2. LifeInv(i) /\ ConnectionInv(i)
        OBVIOUS
      <4>3. main[i] = "connecting"
        BY <3>1, <4>1, <4>2 DEF LifeInv, ConnectionInv
      <4>4. i \in sockets["native"] /\ at["native"][i] < 2
        BY <3>1, <4>2, <4>3 DEF ConnectionInv
      <4> QED
        BY <3>1, <4>2, <4>4 DEF ConnectionInv
    <3>3. backlog' = backlog \cup {<<i, "callback">>} /\ UNCHANGED acceptors
      BY <1>4, <2>4, <3>1, <3>2 DEF WineConnect, ConnectSocket, ListenedBy
    <3> QED
      BY <2>1, <2>2, <2>4, <3>1, <3>3 DEF ConnectionInv, ConnectFindsListener
  <2> QED
    BY <2>1, <2>3, <2>4
<1>5. ASSUME NEW i \in Instances, NativeEmplace(i) PROVE (ConnectFindsListener /\ \A j \in Instances : ConnectionInv(j))'
  BY <1>5 DEF NativeEmplace, Emplace, ListenedBy, LifeInv, ConnectionInv, RemovalInv, ConnectFindsListener
<1>6. ASSUME NEW i \in Instances, NativeConnect(i) PROVE (ConnectFindsListener /\ \A j \in Instances : ConnectionInv(j))'
  <2>1. /\ main[i] = "connecting" /\ i \in sockets["native"] /\ at["native"][i] < Len(Links)
        /\ at' = [at EXCEPT !["native"][i] = @ + 1] /\ UNCHANGED <<format, sockets>>
        /\ \E m \in {"connecting", "ready"} : main' = [main EXCEPT ![i] = m]
    BY <1>6 DEF NativeConnect, ConnectSocket, LastSocket, LifeInv
  <2>2. CASE at["native"][i] = 0
    <3>1. at["wine"][i] = 0 /\ i \in sockets["wine"]
      <4>1. at["wine"][i] = 0 /\ listener["wine"][i] \notin {"none", "starting"}
        BY <2>1, <2>2 DEF LifeInv, ConnectionInv
      <4>2. removing["wine"][i] = 0
        BY <2>1 DEF RemovalInv
      <4>3. Len(Links) \in {1, 2}
        OBVIOUS
      <4> QED
        BY <4>1, <4>2, <4>3 DEF RemovalInv
    <3>2. <<i, "control">> \in acceptors
      BY <3>1 DEF ConnectionInv
    <3>3. backlog' = backlog \cup {<<i, "control">>} /\ UNCHANGED acceptors
      BY <1>6, <2>2, <3>2 DEF NativeConnect, ConnectSocket, ListenedBy
    <3> QED
      BY <2>1, <2>2, <3>1, <3>3 DEF ConnectionInv, ConnectFindsListener
  <2>3. CASE at["native"][i] = 1
    <3>1. format = "clap"
      BY <2>1, <2>3
    <3>2. /\ <<i, "callback">> \in backlog /\ backlog' = backlog \ {<<i, "callback">>}
          /\ acceptors' = acceptors \ {<<i, "callback">>}
      BY <1>6, <2>3, <3>1 DEF NativeConnect, ConnectSocket, ListenedBy
    <3>3. at["wine"][i] = 2
      BY <3>2 DEF ConnectionInv
    <3> QED
      BY <2>1, <2>3, <3>1, <3>2, <3>3 DEF ConnectionInv, ConnectFindsListener
  <2> QED
    BY <2>1, <2>2, <2>3
<1>7. ASSUME NEW s \in Sides, NEW i \in Instances, Serve(s, i) PROVE (ConnectFindsListener /\ \A j \in Instances : ConnectionInv(j))'
  BY <1>7 DEF Serve, Receive, ReceiveEnds, Answer, ListenedBy, LifeInv, ConnectionInv, RemovalInv, ConnectFindsListener
<1>8. ASSUME NEW i \in Instances, AudioCall(i) PROVE (ConnectFindsListener /\ \A j \in Instances : ConnectionInv(j))'
  BY <1>8 DEF AudioCall, ListenedBy, LifeInv, ConnectionInv, RemovalInv, ConnectFindsListener
<1>9. ASSUME NEW s \in Sides, NEW i \in Instances, Handle(s, i) PROVE (ConnectFindsListener /\ \A j \in Instances : ConnectionInv(j))'
  BY <1>9 DEF Handle, ListenedBy, LifeInv, ConnectionInv, RemovalInv, ConnectFindsListener
<1>10. ASSUME NEW i \in Instances, Destroy(i) PROVE (ConnectFindsListener /\ \A j \in Instances : ConnectionInv(j))'
  BY <1>10 DEF Destroy, ListenedBy, LifeInv, ConnectionInv, RemovalInv, ConnectFindsListener
<1>11. ASSUME NEW s \in Sides, NEW i \in Instances, RemoveSteps(s, i) PROVE (ConnectFindsListener /\ \A j \in Instances : ConnectionInv(j))'
  BY <1>11 DEF RemoveSteps, Remove, RemoveNext, RemoveWaited, Erase, ListenedBy, LifeInv, ConnectionInv, RemovalInv, ConnectFindsListener
<1>12. CASE UNCHANGED vars
  BY <1>12 DEF vars, ListenedBy, LifeInv, ConnectionInv, RemovalInv, ConnectFindsListener
<1> QED
  BY <1>1, <1>2, <1>3, <1>4, <1>5, <1>6, <1>7, <1>8, <1>9, <1>10, <1>11, <1>12 DEF Next, Make, Listen

\* The sockets are erased after the thread that listens has left them.
LEMMA RemovalStep == InstanceInv /\ [Next]_vars => (ReceivingHasSocket /\ \A j \in Instances : RemovalInv(j))'
<1> SUFFICES ASSUME InstanceInv, [Next]_vars PROVE (ReceivingHasSocket /\ \A j \in Instances : RemovalInv(j))'
  OBVIOUS
<1> USE DEF InstanceInv, TypeOK, Sides, Links
<1>1. ASSUME NEW i \in Instances, Construct(i) PROVE (ReceivingHasSocket /\ \A j \in Instances : RemovalInv(j))'
  BY <1>1 DEF Construct, ListenedBy, Listening, LifeInv, RemovalInv, ReceivingHasSocket
<1>2. ASSUME NEW i \in Instances, WineEmplace(i) PROVE (ReceivingHasSocket /\ \A j \in Instances : RemovalInv(j))'
  BY <1>2 DEF WineEmplace, Emplace, ListenedBy, Listening, LifeInv, RemovalInv, ReceivingHasSocket
<1>3. ASSUME NEW i \in Instances, SetLatch(i) PROVE (ReceivingHasSocket /\ \A j \in Instances : RemovalInv(j))'
  BY <1>3 DEF SetLatch, LatchReady, ListenedBy, Listening, LifeInv, RemovalInv, ReceivingHasSocket
<1>4. ASSUME NEW i \in Instances, WineConnect(i) PROVE (ReceivingHasSocket /\ \A j \in Instances : RemovalInv(j))'
  <2>1. /\ UNCHANGED <<format, main, sockets, removing, early>>
        /\ listener["wine"][i] = "latched"
        /\ UNCHANGED listener \/ listener' = [listener EXCEPT !["wine"][i] = "connected"]
    BY <1>4 DEF WineConnect
  <2> QED
    BY <2>1 DEF ListenedBy, LifeInv, RemovalInv, ReceivingHasSocket
<1>5. ASSUME NEW i \in Instances, NativeEmplace(i) PROVE (ReceivingHasSocket /\ \A j \in Instances : RemovalInv(j))'
  BY <1>5 DEF NativeEmplace, Emplace, ListenedBy, Listening, LifeInv, RemovalInv, ReceivingHasSocket
<1>6. ASSUME NEW i \in Instances, NativeConnect(i) PROVE (ReceivingHasSocket /\ \A j \in Instances : RemovalInv(j))'
  <2>1. /\ UNCHANGED <<format, sockets, removing, early>>
        /\ main[i] = "connecting" /\ i \in sockets["native"]
        /\ \E m \in {"connecting", "ready"} : main' = [main EXCEPT ![i] = m]
        /\ UNCHANGED listener \/ listener' = [listener EXCEPT !["native"][i] = "connected"]
    BY <1>6 DEF NativeConnect
  <2>2. removing["native"][i] = 0
    BY <2>1 DEF RemovalInv
  <2> QED
    BY <2>1, <2>2 DEF ListenedBy, LifeInv, RemovalInv, ReceivingHasSocket
<1>7. ASSUME NEW s \in Sides, NEW i \in Instances, Serve(s, i) PROVE (ReceivingHasSocket /\ \A j \in Instances : RemovalInv(j))'
  BY <1>7 DEF Serve, Receive, ReceiveEnds, Answer, ListenedBy, Listening, LifeInv, RemovalInv, ReceivingHasSocket
<1>8. ASSUME NEW i \in Instances, AudioCall(i) PROVE (ReceivingHasSocket /\ \A j \in Instances : RemovalInv(j))'
  BY <1>8 DEF AudioCall, ListenedBy, Listening, LifeInv, RemovalInv, ReceivingHasSocket
<1>9. ASSUME NEW s \in Sides, NEW i \in Instances, Handle(s, i) PROVE (ReceivingHasSocket /\ \A j \in Instances : RemovalInv(j))'
  BY <1>9 DEF Handle, ListenedBy, Listening, LifeInv, RemovalInv, ReceivingHasSocket
<1>10. ASSUME NEW i \in Instances, Destroy(i) PROVE (ReceivingHasSocket /\ \A j \in Instances : RemovalInv(j))'
  BY <1>10 DEF Destroy, ListenedBy, Listening, LifeInv, RemovalInv, ReceivingHasSocket
<1>11. ASSUME NEW s \in Sides, NEW i \in Instances, RemoveSteps(s, i) PROVE (ReceivingHasSocket /\ \A j \in Instances : RemovalInv(j))'
  <2>1. /\ UNCHANGED <<format, listener, at, early>>
        /\ removing[s][i] \in 0 .. Len(Links) + 1
        /\ removing' = [removing EXCEPT ![s][i] = removing[s][i] + 1]
        /\ IF removing[s][i] = Len(Links) + 1
           THEN sockets' = [sockets EXCEPT ![s] = @ \ {i}] ELSE UNCHANGED sockets
        /\ main[i] \in {"destroying", "gone"}
        /\ \E m \in {main[i], "gone"} : main' = [main EXCEPT ![i] = m]
    BY <1>11 DEF RemoveSteps, Remove, RemoveNext, RemoveWaited, Erase, RemovalInv
  <2>2. \A k \in DOMAIN Links :
          k = removing[s][i] /\ Links[k] = ListenedBy(s)
            => listener[s][i] \notin {"receiving", "handling"}
    BY <1>11 DEF RemoveSteps, Remove, RemoveNext, RemoveWaited, Erase, Listening
  <2>3. RemovalInv(i)'
    BY <2>1, <2>2 DEF RemovalInv, ListenedBy
  <2>4. \A j \in Instances \ {i} : RemovalInv(j)'
    BY <2>1 DEF RemovalInv
  <2>5. ASSUME NEW j \in Instances, j \notin early, NEW t \in Sides,
               listener[t][j] \in {"receiving", "handling"}, j \notin sockets'[t]
        PROVE  FALSE
    <3>1. j = i /\ t = s /\ removing[s][i] = Len(Links) + 1
      BY <2>1, <2>5 DEF ReceivingHasSocket
    <3>2. s = "native" => format # "vst3"
      BY <2>1, <2>5, <3>1 DEF LifeInv
    <3>3. \E k \in DOMAIN Links : Links[k] = ListenedBy(s) /\ Len(Links) + 1 > k
      BY <3>2 DEF ListenedBy
    <3>4. i \notin early /\ listener[s][i] \in {"receiving", "handling"}
      BY <2>1, <2>5, <3>1
    <3>5. RemovalInv(i)
      OBVIOUS
    <3> QED
      BY <3>1, <3>3, <3>4, <3>5 DEF RemovalInv
  <2>6. ReceivingHasSocket'
    BY <2>1, <2>5 DEF ReceivingHasSocket
  <2> QED
    BY <2>3, <2>4, <2>6
<1>12. CASE UNCHANGED vars
  BY <1>12 DEF vars, ListenedBy, Listening, LifeInv, RemovalInv, ReceivingHasSocket
<1> QED
  BY <1>1, <1>2, <1>3, <1>4, <1>5, <1>6, <1>7, <1>8, <1>9, <1>10, <1>11, <1>12 DEF Next, Make, Listen

-----------------------------------------------------------------------------
\* The invariant is inductive.
LEMMA InvStep == InstanceInv /\ [Next]_vars => InstanceInv'
BY TypeStep, LifeStep, ConnectionStep, RemovalStep DEF InstanceInv

\* However many instances come and go, with any of their threads between any two
\* steps, both maps, the endpoints and the threads agree on how far each one is.
THEOREM InstancesConsistent == Spec => []InstanceInv
BY InitInv, InvStep, PTL DEF Spec

\* vst3.h: with the latch, nobody connects to a socket nobody listens on.
THEOREM NobodyRefused == Spec => []ConnectFindsListener
<1>1. InstanceInv => ConnectFindsListener
  BY DEF InstanceInv
<1> QED
  BY <1>1, InstancesConsistent, PTL

\* remove() waits for the thread that receives, so that the sockets it uses are in
\* the map as long as it does.
THEOREM NoSocketLost == Spec => []ReceivingHasSocket
<1>1. InstanceInv => ReceivingHasSocket
  BY DEF InstanceInv
<1> QED
  BY <1>1, InstancesConsistent, PTL
=============================================================================

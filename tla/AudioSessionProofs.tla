------------------------- MODULE AudioSessionProofs -------------------------
(***************************************************************************)
(* AudioSession.tla for every plugin, every number of blocks and every     *)
(* number of calls: IInv is an inductive invariant.                        *)
(***************************************************************************)
EXTENDS AudioSession, SequenceTheorems, TLAPS

-----------------------------------------------------------------------------
(* Queues of messages.                                                     *)

\* Posting a message adds its block to those of its type, and no other.
LEMMA BlocksAppend ==
  ASSUME NEW S, NEW q \in Seq(S), NEW m \in S, NEW t
  PROVE  BlocksIn(Append(q, m), t)
           = BlocksIn(q, t) \cup (IF m.type = t THEN {m.block} ELSE {})
<1>1. /\ Len(Append(q, m)) = Len(q) + 1
      /\ \A i \in 1 .. Len(q) : Append(q, m)[i] = q[i]
      /\ Append(q, m)[Len(q) + 1] = m
  BY AppendProperties
<1>2. Len(q) \in Nat
  BY LenProperties
<1> QED
  BY <1>1, <1>2 DEF BlocksIn

\* Taking the head of a queue removes its block, and no other.
LEMMA BlocksTail ==
  ASSUME NEW S, NEW q \in Seq(S), q # <<>>, NEW t
  PROVE  BlocksIn(q, t)
           = BlocksIn(Tail(q), t) \cup (IF Head(q).type = t THEN {Head(q).block} ELSE {})
<1>1. /\ Len(Tail(q)) = Len(q) - 1
      /\ \A i \in 1 .. Len(Tail(q)) : Tail(q)[i] = q[i + 1]
      /\ Head(q) = q[1]
  BY HeadTailProperties
<1>2. Len(q) \in Nat /\ Len(q) > 0
  BY LenProperties, EmptySeq
<1>3. ASSUME NEW b \in BlocksIn(q, t)
      PROVE  b \in BlocksIn(Tail(q), t) \cup (IF Head(q).type = t THEN {Head(q).block} ELSE {})
  <2>1. PICK i \in 1 .. Len(q) : q[i].type = t /\ b = q[i].block
    BY <1>3 DEF BlocksIn
  <2>2. CASE i = 1
    BY <2>1, <2>2, <1>1
  <2>3. CASE i # 1
    <3>1. i - 1 \in 1 .. Len(Tail(q)) /\ Tail(q)[i - 1] = q[i]
      BY <2>3, <1>1, <1>2
    <3> QED
      BY <3>1, <2>1 DEF BlocksIn
  <2> QED
    BY <2>2, <2>3
<1>4. ASSUME NEW b \in BlocksIn(Tail(q), t)
      PROVE  b \in BlocksIn(q, t)
  <2>1. PICK i \in 1 .. Len(Tail(q)) : Tail(q)[i].type = t /\ b = Tail(q)[i].block
    BY <1>4 DEF BlocksIn
  <2>2. i + 1 \in 1 .. Len(q) /\ Tail(q)[i] = q[i + 1]
    BY <1>1, <1>2
  <2> QED
    BY <2>1, <2>2 DEF BlocksIn
<1>5. Head(q).type = t => Head(q).block \in BlocksIn(q, t)
  BY <1>1, <1>2 DEF BlocksIn
<1> QED
  BY <1>3, <1>4, <1>5

\* An empty queue has no blocks, and its blocks ascend.
LEMMA EmptyQueue == \A t : BlocksIn(<<>>, t) = {} /\ Ascending(<<>>, t)
BY DEF BlocksIn, Ascending

\* A queue still ascends after a message that is newer than all before it.
LEMMA AscendingAppend ==
  ASSUME NEW S, NEW q \in Seq(S), NEW m \in S, NEW t, Ascending(q, t),
         m.type = t => \A b \in BlocksIn(q, t) : b < m.block
  PROVE  Ascending(Append(q, m), t)
<1>1. /\ Len(Append(q, m)) = Len(q) + 1
      /\ \A i \in 1 .. Len(q) : Append(q, m)[i] = q[i]
      /\ Append(q, m)[Len(q) + 1] = m
  BY AppendProperties
<1>2. Len(q) \in Nat
  BY LenProperties
<1>3. \A i \in 1 .. Len(q) : q[i].type = t => q[i].block \in BlocksIn(q, t)
  BY DEF BlocksIn
<1> QED
  BY <1>1, <1>2, <1>3 DEF Ascending

\* A message of another type changes nothing.
LEMMA OtherAppend ==
  ASSUME NEW S, NEW q \in Seq(S), NEW m \in S, NEW t, Ascending(q, t), m.type # t
  PROVE  BlocksIn(Append(q, m), t) = BlocksIn(q, t) /\ Ascending(Append(q, m), t)
<1>1. BlocksIn(Append(q, m), t)
        = BlocksIn(q, t) \cup (IF m.type = t THEN {m.block} ELSE {})
  BY BlocksAppend
<1>2. Ascending(Append(q, m), t)
  BY AscendingAppend
<1> QED
  BY <1>1, <1>2

\* The tail of an ascending queue ascends and is newer than the head.
LEMMA AscendingTail ==
  ASSUME NEW S, NEW q \in Seq(S), q # <<>>, NEW t, Ascending(q, t)
  PROVE  /\ Ascending(Tail(q), t)
         /\ Head(q).type = t => \A b \in BlocksIn(Tail(q), t) : Head(q).block < b
<1>1. /\ Len(Tail(q)) = Len(q) - 1
      /\ \A i \in 1 .. Len(Tail(q)) : Tail(q)[i] = q[i + 1]
      /\ Head(q) = q[1]
  BY HeadTailProperties
<1>2. Len(q) \in Nat /\ Len(q) > 0
  BY LenProperties, EmptySeq
<1>3. \A i \in 1 .. Len(Tail(q)) : i + 1 \in 1 .. Len(q) /\ 1 < i + 1
  BY <1>1, <1>2
<1>4. Ascending(Tail(q), t)
  BY <1>1, <1>2, <1>3 DEF Ascending
<1>5. ASSUME Head(q).type = t, NEW b \in BlocksIn(Tail(q), t)
      PROVE  Head(q).block < b
  <2>1. PICK i \in 1 .. Len(Tail(q)) : Tail(q)[i].type = t /\ b = Tail(q)[i].block
    BY <1>5 DEF BlocksIn
  <2>2. q[i + 1].type = t /\ b = q[i + 1].block /\ q[1].type = t
    BY <2>1, <1>1, <1>5
  <2> QED
    BY <2>2, <1>1, <1>2, <1>3 DEF Ascending
<1> QED
  BY <1>4, <1>5

-----------------------------------------------------------------------------
(* Type correctness, with what the drain loop needs.                       *)

TypeInv == TypeOK /\ DrainInv

\* The initial state is of the right type.
LEMMA InitType == Init => TypeInv
<1> SUFFICES ASSUME Init PROVE TypeInv
  OBVIOUS
<1>1. LinkTypeOK
  BY ConversionAssumption, EmptySeq DEF Init, LinkInit, LinkTypeOK
<1>2. /\ paramResolvers \in [ParamIds -> 0 .. MaxCalls]
      /\ wanted \in [ParamIds -> Values]
  BY ConversionAssumption, SessionAssumption DEF Init
<1>3. /\ promises \in Seq(Promise) /\ Len(promises) = 0
      /\ toWorklet \in Seq(WorkletMessage) /\ toMain \in Seq(MainMessage)
  BY EmptySeq DEF Init
<1>4. /\ _ready \in BOOLEAN /\ portOpen \in BOOLEAN
      /\ loadState \in {"booting", "polling", "ready"}
      /\ vm \in {"running", "stopped"}
  BY DEF Init
<1>5. /\ _pendingOutput \in 0 .. MaxBlocks /\ posted \in 0 .. MaxBlocks
      /\ played \in 0 .. MaxBlocks /\ sets \in 0 .. MaxSets
  BY SessionAssumption DEF Init
<1>6. DrainInv
  BY <1>3 DEF Init, LinkInit, DrainInv
<1> QED
  BY <1>1, <1>2, <1>3, <1>4, <1>5, <1>6 DEF TypeInv, TypeOK

\* Taking from and adding to a queue keeps its type.
LEMMA QueueTypes ==
  ASSUME NEW S, NEW q \in Seq(S)
  PROVE  /\ q # <<>> => Head(q) \in S /\ Tail(q) \in Seq(S)
         /\ \A m \in S : Append(q, m) \in Seq(S) /\ Append(q, m) # <<>>
         /\ <<>> \in Seq(S)
BY HeadTailProperties, AppendProperties, EmptySeq

\* A step of the guest keeps the types.
LEMMA GuestType == TypeInv /\ Guest => TypeInv'
<1> SUFFICES ASSUME TypeInv, Guest PROVE TypeInv'
  OBVIOUS
<1> USE DEF TypeInv, TypeOK, LinkTypeOK, DrainInv, Guest, audioVars, portVars, paramVars
<1>1. /\ requests # <<>> => Head(requests) \in Request /\ Tail(requests) \in Seq(Request)
      /\ \A m \in Reply : Append(replies, m) \in Seq(Reply) /\ Append(replies, m) # <<>>
  BY QueueTypes
<1>2. LogReply \in Reply
  BY DEF Reply
<1>3. CASE HostLoad
  BY <1>1, <1>2, <1>3 DEF HostLoad, TakeRequest
<1>4. CASE HostLoadFails
  BY <1>1, <1>4 DEF HostLoadFails
<1>5. CASE process_block
  <2>1. Head(requests) \in Request /\ Head(requests).type = "process"
    BY <1>1, <1>5 DEF process_block, TakeRequest
  <2>2. Head(requests).block \in Blocks
    BY <2>1 DEF Request, LoadRequest
  <2>3. [type |-> "processResp", block |-> Head(requests).block] \in Reply
    BY <2>2 DEF Reply
  <2> QED
    BY <1>1, <1>5, <2>3 DEF process_block, TakeRequest
<1>6. CASE handle_set_param
  <2>1. Head(requests) \in Request /\ Head(requests).type = "setParam"
    BY <1>1, <1>6 DEF handle_set_param, TakeRequest
  <2>2. Head(requests).id \in ParamIds /\ Head(requests).value \in Values
    BY <2>1 DEF Request, LoadRequest
  <2>3. params' \in [ParamIds -> Values]
    BY <1>6, <2>2, ConversionAssumption DEF handle_set_param
  <2> QED
    BY <1>1, <1>6, <2>3 DEF handle_set_param, TakeRequest
<1>7. CASE handle_get_param
  <2>1. Head(requests) \in Request /\ Head(requests).type = "getParam"
    BY <1>1, <1>7 DEF handle_get_param, TakeRequest
  <2>2. Head(requests).id \in ParamIds
    BY <2>1 DEF Request, LoadRequest
  <2>3. [type |-> "getParamResp", id |-> Head(requests).id,
         value |-> params[Head(requests).id]] \in Reply
    BY <2>2 DEF Reply
  <2> QED
    BY <1>1, <1>7, <2>3 DEF handle_get_param, TakeRequest
<1> QED
  BY <1>3, <1>4, <1>5, <1>6, <1>7 DEF HostStep

\* A step of the serial listener keeps the types.
LEMMA ListenerType == TypeInv /\ (ListenerBegins \/ drainAndDispatch) => TypeInv'
<1> SUFFICES ASSUME TypeInv, ListenerBegins \/ drainAndDispatch PROVE TypeInv'
  OBVIOUS
<1> USE DEF TypeInv, TypeOK, LinkTypeOK, DrainInv, audioVars, portVars, paramVars
<1>1. CASE ListenerBegins
  BY <1>1 DEF ListenerBegins, ReplyBegins
<1>2. CASE drainAndDispatch
  <2>1. /\ Head(replies) \in Reply /\ Tail(replies) \in Seq(Reply)
        /\ \A m \in WorkletMessage : Append(toWorklet, m) \in Seq(WorkletMessage)
    BY <1>2, QueueTypes DEF drainAndDispatch, DispatchReply
  <2>2. LinkTypeOK' /\ partial' = FALSE
    BY <1>2, <2>1 DEF drainAndDispatch, DispatchReply
  <2>3. CASE Head(replies).type = "processResp"
    <3>1. Head(replies).block \in Blocks
      BY <2>1, <2>3 DEF Reply, LogReply
    <3>2. toWorklet' \in Seq(WorkletMessage)
      BY <1>2, <2>1, <2>3, <3>1 DEF drainAndDispatch, PostToWorklet, WorkletMessage
    <3> QED
      BY <1>2, <2>2, <2>3, <3>2 DEF drainAndDispatch
  <2>4. CASE Head(replies).type = "getParamResp"
    <3>1. Head(replies).id \in ParamIds /\ Head(replies).value \in Values
      BY <2>1, <2>4 DEF Reply, LogReply
    <3> DEFINE p == paramResolvers[Head(replies).id]
    <3>2. /\ promises' = IF p = 0 THEN promises
                         ELSE [promises EXCEPT ![p] = Settled(promises[p], Head(replies).value)]
          /\ paramResolvers' = [paramResolvers EXCEPT ![Head(replies).id] = 0]
          /\ UNCHANGED toWorklet
      BY <1>2, <2>4 DEF drainAndDispatch, ResolveParam
    <3>3. Len(promises) \in Nat /\ p \in 0 .. MaxCalls /\ p <= Len(promises)
      BY <3>1, LenProperties
    <3>4. promises' \in Seq(Promise) /\ Len(promises') = Len(promises)
      <4>1. CASE p = 0
        BY <4>1, <3>2
      <4>2. CASE p # 0
        <5>1. p \in 1 .. Len(promises) /\ p \in DOMAIN promises /\ promises[p] \in Promise
          BY <4>2, <3>3, ElementOfSeq, LenProperties, SessionAssumption
        <5> DEFINE e == Settled(promises[p], Head(replies).value)
        <5>2. e \in Promise
          BY <5>1, <3>1 DEF Promise, Settled
        <5>3. promises' = [promises EXCEPT ![p] = e]
          BY <3>2, <4>2
        <5> HIDE DEF e, p
        <5> QED
          BY <5>1, <5>2, <5>3, ExceptSeq
      <4> QED
        BY <4>1, <4>2
    <3>5. paramResolvers' \in [ParamIds -> 0 .. MaxCalls]
      BY <3>2, <3>1, SessionAssumption
    <3>6. \A id \in ParamIds : paramResolvers'[id] <= Len(promises')
      BY <3>2, <3>1, <3>4, <3>3
    <3> QED
      BY <1>2, <2>2, <3>2, <3>4, <3>5, <3>6 DEF drainAndDispatch
  <2>5. CASE Head(replies).type = "log"
    BY <1>2, <2>2, <2>5 DEF drainAndDispatch
  <2> QED
    BY <1>2, <2>3, <2>4, <2>5 DEF drainAndDispatch
<1> QED
  BY <1>1, <1>2

\* A step of the page or of the audio thread keeps the types.
LEMMA PageType ==
  /\ TypeInv
  /\ \/ _onMessage \/ process \/ EmulatorReady \/ Poll \/ onWorkletMessage \/ dispose
     \/ \E id \in ParamIds, v \in SetValues : setParam(id, v)
     \/ \E id \in ParamIds : getParam(id)
  => TypeInv'
<1> SUFFICES ASSUME TypeInv,
                    \/ _onMessage \/ process \/ EmulatorReady \/ Poll
                    \/ onWorkletMessage \/ dispose
                    \/ \E id \in ParamIds, v \in SetValues : setParam(id, v)
                    \/ \E id \in ParamIds : getParam(id)
             PROVE  TypeInv'
  OBVIOUS
<1> USE DEF TypeInv, TypeOK, LinkTypeOK, DrainInv, audioVars, portVars, paramVars, linkVars
<1>1. /\ \A m \in Request : Append(requests, m) \in Seq(Request)
      /\ \A m \in MainMessage : Append(toMain, m) \in Seq(MainMessage)
      /\ \A m \in WorkletMessage : Append(toWorklet, m) \in Seq(WorkletMessage)
      /\ toMain # <<>> => Head(toMain) \in MainMessage /\ Tail(toMain) \in Seq(MainMessage)
      /\ toWorklet # <<>> => /\ Head(toWorklet) \in WorkletMessage
                             /\ Tail(toWorklet) \in Seq(WorkletMessage)
      /\ <<>> \in Seq(MainMessage)
  BY QueueTypes
<1>2. [type |-> "ready"] \in MainMessage /\ [type |-> "ready"] \in WorkletMessage
  BY DEF MainMessage, WorkletMessage
<1>3. CASE _onMessage
  <2>1. CASE Head(toWorklet).type = "ready"
    BY <1>1, <1>2, <1>3, <2>1 DEF _onMessage, PostToMain
  <2>2. CASE Head(toWorklet).type = "processResp"
    <3>1. Head(toWorklet).block \in 0 .. MaxBlocks
      BY <1>1, <1>3, <2>2, SessionAssumption DEF _onMessage, WorkletMessage
    <3> QED
      BY <1>1, <1>3, <2>2, <3>1 DEF _onMessage
  <2> QED
    BY <1>3, <2>1, <2>2 DEF _onMessage
<1>4. CASE process
  <2>1. posted' \in 1 .. MaxBlocks /\ [type |-> "process", block |-> posted'] \in MainMessage
    BY <1>4, SessionAssumption DEF process, MainMessage
  <2>2. toMain' \in Seq(MainMessage)
    BY <1>1, <1>4, <2>1 DEF process, PostToMain
  <2> QED
    BY <1>4, <2>1, <2>2, SessionAssumption DEF process
<1>5. CASE EmulatorReady
  BY <1>1, <1>5 DEF EmulatorReady, Send, Request
<1>6. CASE Poll
  BY <1>1, <1>2, <1>6 DEF Poll, PostToWorklet
<1>7. CASE onWorkletMessage
  <2>1. CASE Head(toMain).type = "process"
    <3>1. [type |-> "process", block |-> Head(toMain).block] \in Request
      BY <1>1, <1>7, <2>1 DEF onWorkletMessage, MainMessage, Request
    <3> QED
      BY <1>1, <1>7, <2>1, <3>1 DEF onWorkletMessage, Send
  <2>2. CASE Head(toMain).type # "process"
    BY <1>1, <1>7, <2>2 DEF onWorkletMessage
  <2> QED
    BY <2>1, <2>2
<1>8. CASE dispose
  BY <1>1, <1>8 DEF dispose
<1>9. ASSUME NEW id \in ParamIds, NEW v \in SetValues, setParam(id, v)
      PROVE  TypeInv'
  <2>1. v \in Values /\ ToFloat[v] \in Values
    BY ConversionAssumption, SessionAssumption
  <2>2. [type |-> "setParam", id |-> id, value |-> v] \in Request
    BY <2>1 DEF Request
  <2>3. wanted' \in [ParamIds -> Values] /\ sets' \in 0 .. MaxSets
    BY <1>9, <2>1, SessionAssumption DEF setParam
  <2> QED
    BY <1>1, <1>9, <2>2, <2>3 DEF setParam, Send
<1>10. ASSUME NEW id \in ParamIds, getParam(id)
       PROVE  TypeInv'
  <2> DEFINE call == [id |-> id, state |-> "pending", shared |-> OnLine(id),
                      expect |-> wanted[id], got |-> Initial[id]]
  <2>1. OnLine(id) \in BOOLEAN
    BY DEF OnLine
  <2>2. call \in Promise
    BY <2>1, ConversionAssumption DEF Promise
  <2>3. [type |-> "getParam", id |-> id] \in Request
    BY DEF Request
  <2>4. Len(promises) \in Nat /\ Len(promises) < MaxCalls /\ promises' = Append(promises, call)
    BY <1>10, LenProperties DEF getParam
  <2> HIDE DEF call
  <2>5. promises' \in Seq(Promise) /\ Len(promises') = Len(promises) + 1
    BY <2>2, <2>4, AppendProperties
  <2>6. /\ paramResolvers' \in [ParamIds -> 0 .. MaxCalls]
        /\ \A i \in ParamIds : paramResolvers'[i] <= Len(promises')
    BY <1>10, <2>4, <2>5, SessionAssumption DEF getParam
  <2>7. requests' \in Seq(Request) /\ UNCHANGED <<replies, partial, host, params, dispatched>>
    BY <1>1, <1>10, <2>3 DEF getParam, Send
  <2> QED
    BY <1>10, <2>5, <2>6, <2>7 DEF getParam
<1> QED
  BY <1>3, <1>4, <1>5, <1>6, <1>7, <1>8, <1>9, <1>10

\* No step of the session leaves the types.
LEMMA TypeStep == TypeInv /\ [Next]_vars => TypeInv'
<1>1. TypeInv /\ UNCHANGED vars => TypeInv'
  BY DEF TypeInv, TypeOK, LinkTypeOK, DrainInv, vars, linkVars, audioVars,
         portVars, paramVars
<1> QED
  BY <1>1, GuestType, ListenerType, PageType DEF Next

\* Every variable keeps its type, under every interleaving.
THEOREM TypeCorrect == Spec => []TypeOK
<1>1. TypeInv => TypeOK
  BY DEF TypeInv
<1> QED
  BY InitType, TypeStep, <1>1, PTL DEF Spec

-----------------------------------------------------------------------------
(* LOAD is the first frame.                                                *)

\* Until the host has read LOAD no step puts anything else anywhere.
LEMMA LoadStep == TypeInv /\ LoadInv /\ [Next]_vars => LoadInv'
<1> SUFFICES ASSUME TypeInv, LoadInv, [Next]_vars, host' = "starting"
             PROVE  /\ requests' = IF loadState' = "booting" THEN <<>> ELSE <<LoadRequest>>
                    /\ replies' = <<>> /\ ~partial'
                    /\ loadState' # "ready" /\ ~_ready'
                    /\ toWorklet' = <<>> /\ toMain' = <<>>
  BY DEF LoadInv
<1> USE DEF linkVars, audioVars, portVars, paramVars
<1>1. ASSUME host = "starting"
      PROVE  /\ requests = IF loadState = "booting" THEN <<>> ELSE <<LoadRequest>>
             /\ replies = <<>> /\ ~partial
             /\ loadState # "ready" /\ ~_ready
             /\ toWorklet = <<>> /\ toMain = <<>>
  BY <1>1 DEF LoadInv
<1>2. CASE Guest
  <2>1. ~HostLoad /\ ~HostLoadFails
    BY DEF HostLoad, HostLoadFails
  <2> QED
    BY <1>2, <2>1 DEF Guest, HostStep, process_block, handle_set_param, handle_get_param
<1>3. CASE EmulatorReady
  <2>1. host = "starting" /\ requests = <<>> /\ requests' = Append(<<>>, LoadRequest)
    BY <1>1, <1>3 DEF EmulatorReady, Send
  <2>2. requests' = <<LoadRequest>>
    BY <2>1
  <2> QED
    BY <1>1, <1>3, <2>1, <2>2 DEF EmulatorReady, Send
<1>4. CASE _onMessage \/ process \/ onWorkletMessage \/ Poll \/ dispose
  BY <1>1, <1>4 DEF _onMessage, process, onWorkletMessage, Poll, dispose, Send
<1>5. CASE (\E id \in ParamIds, v \in SetValues : setParam(id, v))
             \/ (\E id \in ParamIds : getParam(id))
  BY <1>1, <1>5 DEF setParam, getParam, Send
<1>6. CASE ListenerBegins \/ drainAndDispatch
  BY <1>1, <1>6 DEF ListenerBegins, drainAndDispatch, ReplyBegins, DispatchReply
<1>7. CASE UNCHANGED vars
  BY <1>1, <1>7 DEF vars
<1> QED
  BY <1>2, <1>3, <1>4, <1>5, <1>6, <1>7 DEF Next

\* Nothing is on the line before the page sends LOAD.
LEMMA InitLoad == Init => LoadInv
BY DEF Init, LinkInit, LoadInv

\* The first frame the host reads is LOAD, whoever writes when.
THEOREM LoadIsFirst == Spec => []LoadFirst
<1>1. LoadInv => LoadFirst
  BY DEF LoadInv, LoadFirst
<1> QED
  BY InitType, InitLoad, TypeStep, LoadStep, <1>1, PTL DEF Spec

-----------------------------------------------------------------------------
(* The order of the audio blocks.                                          *)

AudioInv == OrderInv /\ NoBlockLost

\* Blocks are numbers.
LEMMA BlockNumbers ==
  TypeInv => /\ MainBlocks \subseteq Nat /\ DownBlocks \subseteq Nat
             /\ UpBlocks \subseteq Nat /\ BackBlocks \subseteq Nat
             /\ posted \in Nat /\ played \in Nat /\ _pendingOutput \in Nat
<1> SUFFICES ASSUME TypeInv
             PROVE  /\ MainBlocks \subseteq Nat /\ DownBlocks \subseteq Nat
                    /\ UpBlocks \subseteq Nat /\ BackBlocks \subseteq Nat
                    /\ posted \in Nat /\ played \in Nat /\ _pendingOutput \in Nat
  OBVIOUS
<1> USE DEF TypeInv, TypeOK, LinkTypeOK, BlocksIn
<1>1. MainBlocks \subseteq Nat
  <2>1. \A r \in MainMessage : r.type = "process" => r.block \in Nat
    BY SessionAssumption DEF MainMessage
  <2> QED
    BY <2>1, ElementOfSeq DEF MainBlocks
<1>2. DownBlocks \subseteq Nat
  <2>1. \A r \in Request : r.type = "process" => r.block \in Nat
    BY SessionAssumption DEF Request, LoadRequest
  <2> QED
    BY <2>1, ElementOfSeq DEF DownBlocks
<1>3. UpBlocks \subseteq Nat
  <2>1. \A r \in Reply : r.type = "processResp" => r.block \in Nat
    BY SessionAssumption DEF Reply, LogReply
  <2> QED
    BY <2>1, ElementOfSeq DEF UpBlocks
<1>4. BackBlocks \subseteq Nat
  <2>1. \A r \in WorkletMessage : r.type = "processResp" => r.block \in Nat
    BY SessionAssumption DEF WorkletMessage
  <2> QED
    BY <2>1, ElementOfSeq DEF BackBlocks
<1>5. posted \in Nat /\ played \in Nat /\ _pendingOutput \in Nat
  BY SessionAssumption
<1> QED
  BY <1>1, <1>2, <1>3, <1>4, <1>5

\* The audio thread takes a message: a reply leaves the pipeline as the
\* pending output, "ready" changes nothing.
LEMMA AudioOnMessage == TypeInv /\ AudioInv /\ _onMessage => AudioInv'
<1> SUFFICES ASSUME TypeInv, AudioInv, _onMessage PROVE AudioInv'
  OBVIOUS
<1> USE DEF linkVars
<1>1. /\ toWorklet \in Seq(WorkletMessage) /\ toMain \in Seq(MainMessage)
      /\ toWorklet # <<>> /\ toWorklet' = Tail(toWorklet)
      /\ Ascending(toWorklet, "processResp")
      /\ UNCHANGED <<requests, replies, posted, played, portOpen>>
      /\ \/ /\ Head(toWorklet).type = "ready"
            /\ PostToMain([type |-> "ready"]) /\ UNCHANGED _pendingOutput
         \/ /\ Head(toWorklet).type = "processResp"
            /\ _pendingOutput' = Head(toWorklet).block /\ UNCHANGED toMain
  BY DEF _onMessage, TypeInv, TypeOK, AudioInv, OrderInv, QueuesAscend
<1>2. /\ Ascending(toWorklet', "processResp")
      /\ BackBlocks = BackBlocks' \cup (IF Head(toWorklet).type = "processResp"
                                        THEN {Head(toWorklet).block} ELSE {})
      /\ Head(toWorklet).type = "processResp" =>
           \A b \in BackBlocks' : Head(toWorklet).block < b
  BY <1>1, BlocksTail, AscendingTail DEF BackBlocks
<1>3. MainBlocks' = MainBlocks /\ Ascending(toMain', "process")
  <2>1. CASE toMain' = toMain
    BY <2>1 DEF MainBlocks, AudioInv, OrderInv, QueuesAscend
  <2> DEFINE m == [type |-> "ready"]
  <2>2. m \in MainMessage /\ m.type # "process"
    BY DEF MainMessage
  <2>3. toMain' = toMain \/ toMain' = Append(toMain, m)
    BY <1>1 DEF PostToMain
  <2> HIDE DEF m
  <2>4. CASE toMain' = Append(toMain, m)
    <3>1. Ascending(toMain, "process")
      BY DEF AudioInv, OrderInv, QueuesAscend
    <3>2. toMain \in Seq(MainMessage)
      BY <1>1
    <3>3. /\ BlocksIn(Append(toMain, m), "process") = BlocksIn(toMain, "process")
          /\ Ascending(Append(toMain, m), "process")
      BY <2>2, <3>1, <3>2, OtherAppend
    <3> QED
      BY <2>4, <3>3 DEF MainBlocks
  <2> QED
    BY <2>1, <2>3, <2>4
<1>4. DownBlocks' = DownBlocks /\ UpBlocks' = UpBlocks
  BY <1>1 DEF DownBlocks, UpBlocks
<1>5. QueuesAscend'
  BY <1>1, <1>2, <1>3 DEF QueuesAscend, AudioInv, OrderInv
<1>6. StagesAscend'
  BY <1>2, <1>3, <1>4 DEF StagesAscend, Below, AudioInv, OrderInv
<1>7. EndsAscend' /\ NoBlockLost'
  <2>1. CASE Head(toWorklet).type = "ready"
    <3>1. BackBlocks' = BackBlocks /\ _pendingOutput' = _pendingOutput
      BY <1>1, <1>2, <2>1
    <3> QED
      BY <1>1, <1>3, <1>4, <3>1 DEF EndsAscend, NoBlockLost, InFlight, Returned, AudioInv, OrderInv
  <2>2. CASE Head(toWorklet).type = "processResp"
    <3> DEFINE b == Head(toWorklet).block
    <3>1. /\ BackBlocks = BackBlocks' \cup {b} /\ \A n \in BackBlocks' : b < n
          /\ _pendingOutput' = b
      BY <1>1, <1>2, <2>2
    <3> HIDE DEF b
    <3>2. /\ \A n \in DownBlocks \cup UpBlocks \cup MainBlocks : b < n
          /\ played < b /\ _pendingOutput < b /\ b <= posted
      BY <3>1 DEF AudioInv, OrderInv, StagesAscend, EndsAscend, Below, InFlight
    <3>3. EndsAscend'
      <4>1. /\ posted' = posted /\ played' = played
            /\ InFlight' \subseteq InFlight /\ \A n \in InFlight' : b < n
        BY <1>1, <1>3, <1>4, <3>1, <3>2 DEF InFlight
      <4> QED
        BY <4>1, <3>1, <3>2 DEF EndsAscend, AudioInv, OrderInv
    <3>4. NoBlockLost'
      <4> SUFFICES ASSUME portOpen, NEW n \in 1 .. posted
                   PROVE  n \in InFlight' \/ n <= played \/ n <= b
        BY <1>1, <3>1 DEF NoBlockLost, Returned
      <4>1. n \in InFlight \/ n <= played \/ n <= _pendingOutput
        BY DEF NoBlockLost, Returned, AudioInv
      <4>2. n \in InFlight => n \in InFlight' \/ n = b
        BY <1>3, <1>4, <3>1 DEF InFlight
      <4>3. b \in Nat
        BY <3>1, BlockNumbers
      <4> QED
        BY <4>1, <4>2, <4>3, <3>2, BlockNumbers
    <3> QED
      BY <3>3, <3>4
  <2> QED
    BY <1>1, <2>1, <2>2
<1> QED
  BY <1>5, <1>6, <1>7 DEF AudioInv, OrderInv

\* process() puts a block newer than all others in the first queue and takes
\* the pending one, which is older than all others, out of the pipeline.
LEMMA AudioProcess == TypeInv /\ AudioInv /\ process => AudioInv'
<1> SUFFICES ASSUME TypeInv, AudioInv, process PROVE AudioInv'
  OBVIOUS
<1> USE DEF linkVars
<1> DEFINE n == posted + 1
           m == [type |-> "process", block |-> n]
<1>1. /\ toMain \in Seq(MainMessage) /\ m \in MainMessage
      /\ n \in Nat /\ posted' = n
      /\ m.type = "process" /\ m.block = n
  <2>1. n \in 1 .. MaxBlocks /\ posted' = n
    BY SessionAssumption DEF process, TypeInv, TypeOK
  <2> QED
    BY <2>1, SessionAssumption DEF TypeInv, TypeOK, MainMessage
<1>2. /\ toMain' = IF portOpen THEN Append(toMain, m) ELSE toMain
      /\ played' = IF _pendingOutput # 0 THEN _pendingOutput ELSE played
      /\ _pendingOutput' = 0
      /\ UNCHANGED <<requests, replies, toWorklet, portOpen>>
  BY <1>1 DEF process, PostToMain
<1> HIDE DEF m
<1>3. \A b \in InFlight : b < n
  BY BlockNumbers DEF AudioInv, OrderInv, EndsAscend, InFlight
<1>4. /\ MainBlocks' = IF portOpen THEN MainBlocks \cup {n} ELSE MainBlocks
      /\ Ascending(toMain', "process")
  <2>1. Ascending(toMain, "process")
    BY DEF AudioInv, OrderInv, QueuesAscend
  <2>2. BlocksIn(Append(toMain, m), "process")
          = BlocksIn(toMain, "process") \cup (IF m.type = "process" THEN {m.block} ELSE {})
    BY <1>1, BlocksAppend
  <2>3. \A b \in BlocksIn(toMain, "process") : b < m.block
    BY <1>1, <1>3 DEF InFlight, MainBlocks
  <2>4. Ascending(Append(toMain, m), "process")
    BY <1>1, <2>1, <2>3, AscendingAppend
  <2> QED
    BY <1>1, <1>2, <2>1, <2>2, <2>4 DEF MainBlocks
<1>5. DownBlocks' = DownBlocks /\ UpBlocks' = UpBlocks /\ BackBlocks' = BackBlocks
  BY <1>2 DEF DownBlocks, UpBlocks, BackBlocks
<1> HIDE DEF n
<1>6. QueuesAscend'
  BY <1>2, <1>4 DEF QueuesAscend, AudioInv, OrderInv
<1>7. StagesAscend'
  BY <1>3, <1>4, <1>5 DEF StagesAscend, Below, AudioInv, OrderInv, InFlight
<1>8. posted \in Nat /\ n = posted + 1 /\ played \in Nat /\ _pendingOutput \in Nat
      /\ played <= posted /\ _pendingOutput <= posted
      /\ (_pendingOutput # 0 => played < _pendingOutput)
  BY BlockNumbers DEF n, AudioInv, OrderInv, EndsAscend
<1>9. /\ InFlight \subseteq InFlight' /\ InFlight' \subseteq InFlight \cup {n}
      /\ portOpen => n \in InFlight'
      /\ InFlight \subseteq Nat
  BY <1>4, <1>5, BlockNumbers DEF InFlight
<1>10. EndsAscend'
  <2>1. ASSUME NEW b \in InFlight'
        PROVE  played' < b /\ _pendingOutput' < b /\ b <= posted'
    <3>1. CASE b = n
      BY <3>1, <1>1, <1>2, <1>8
    <3>2. CASE b \in InFlight
      <4>1. played < b /\ _pendingOutput < b /\ b <= posted /\ b \in Nat
        BY <3>2, <1>9 DEF AudioInv, OrderInv, EndsAscend
      <4> QED
        BY <4>1, <1>1, <1>2, <1>8
    <3> QED
      BY <2>1, <3>1, <3>2, <1>9
  <2>2. played' <= posted' /\ _pendingOutput' <= posted' /\ _pendingOutput' = 0
    BY <1>1, <1>2, <1>8
  <2> QED
    BY <2>1, <2>2 DEF EndsAscend
<1>11. NoBlockLost'
  <2> SUFFICES ASSUME portOpen, NEW b \in 1 .. n
               PROVE  b \in InFlight' \/ b <= played' \/ b <= _pendingOutput'
    BY <1>1, <1>2 DEF NoBlockLost, Returned
  <2>1. CASE b = n
    BY <2>1, <1>9
  <2>2. CASE b # n
    <3>1. b \in 1 .. posted
      BY <2>2, <1>8
    <3>2. b \in InFlight \/ b <= played \/ b <= _pendingOutput
      BY <3>1 DEF NoBlockLost, Returned, AudioInv
    <3> QED
      BY <3>1, <3>2, <1>2, <1>8, <1>9
  <2> QED
    BY <2>1, <2>2
<1> QED
  BY <1>6, <1>7, <1>10, <1>11 DEF AudioInv, OrderInv

\* A step that leaves the four stages, their order and both ends alone.
LEMMA AudioUnchanged ==
  ASSUME AudioInv, QueuesAscend',
         MainBlocks' = MainBlocks, DownBlocks' = DownBlocks,
         UpBlocks' = UpBlocks, BackBlocks' = BackBlocks,
         UNCHANGED <<posted, played, _pendingOutput>>, portOpen' => portOpen
  PROVE  AudioInv'
BY DEF AudioInv, OrderInv, StagesAscend, EndsAscend, NoBlockLost, Returned, InFlight, Below

\* LOAD and the parameter frames pass through the queues as if not there.
LEMMA AudioControl ==
  /\ TypeInv /\ AudioInv
  /\ \/ EmulatorReady \/ Poll
     \/ \E id \in ParamIds, v \in SetValues : setParam(id, v)
     \/ \E id \in ParamIds : getParam(id)
     \/ ListenerBegins
  => AudioInv'
<1> USE DEF linkVars, audioVars, portVars
<1>1. ASSUME TypeInv, AudioInv, NEW m \in Request, m.type # "process", Send(m),
             UNCHANGED <<audioVars, portVars>>
      PROVE  AudioInv'
  <2>1. requests \in Seq(Request) /\ Ascending(requests, "process")
    BY <1>1 DEF TypeInv, TypeOK, LinkTypeOK, AudioInv, OrderInv, QueuesAscend
  <2>2. /\ BlocksIn(Append(requests, m), "process") = BlocksIn(requests, "process")
        /\ Ascending(Append(requests, m), "process")
    BY <1>1, <2>1, OtherAppend
  <2>3. DownBlocks' = DownBlocks /\ Ascending(requests', "process")
    BY <1>1, <2>2 DEF Send, DownBlocks
  <2>4. MainBlocks' = MainBlocks /\ UpBlocks' = UpBlocks /\ BackBlocks' = BackBlocks
    BY <1>1 DEF Send, MainBlocks, UpBlocks, BackBlocks
  <2>5. QueuesAscend'
    BY <1>1, <2>3 DEF Send, QueuesAscend, AudioInv, OrderInv
  <2> QED
    BY <1>1, <2>3, <2>4, <2>5, AudioUnchanged
<1> SUFFICES ASSUME TypeInv, AudioInv,
                    \/ EmulatorReady \/ Poll
                    \/ \E id \in ParamIds, v \in SetValues : setParam(id, v)
                    \/ \E id \in ParamIds : getParam(id)
                    \/ ListenerBegins
             PROVE  AudioInv'
  OBVIOUS
<1>2. CASE EmulatorReady
  <2>1. LoadRequest \in Request /\ LoadRequest.type # "process"
    BY DEF Request, LoadRequest
  <2>2. Send(LoadRequest) /\ UNCHANGED <<audioVars, portVars>>
    BY <1>2 DEF EmulatorReady
  <2> QED
    BY <2>1, <2>2, <1>1
<1>3. CASE Poll
  <2> DEFINE m == [type |-> "ready"]
  <2>1. m \in WorkletMessage /\ m.type # "processResp"
    BY DEF WorkletMessage
  <2>2. toWorklet' = IF portOpen THEN Append(toWorklet, m) ELSE toWorklet
    BY <1>3 DEF Poll, PostToWorklet
  <2> HIDE DEF m
  <2>3. toWorklet \in Seq(WorkletMessage) /\ Ascending(toWorklet, "processResp")
    BY DEF TypeInv, TypeOK, AudioInv, OrderInv, QueuesAscend
  <2>4. /\ BlocksIn(Append(toWorklet, m), "processResp") = BlocksIn(toWorklet, "processResp")
        /\ Ascending(Append(toWorklet, m), "processResp")
    BY <2>1, <2>3, OtherAppend
  <2>5. BackBlocks' = BackBlocks /\ Ascending(toWorklet', "processResp")
    BY <2>2, <2>3, <2>4 DEF BackBlocks
  <2>6. MainBlocks' = MainBlocks /\ UpBlocks' = UpBlocks /\ DownBlocks' = DownBlocks
    BY <1>3 DEF Poll, MainBlocks, UpBlocks, DownBlocks
  <2>7. QueuesAscend' /\ UNCHANGED <<posted, played, _pendingOutput, portOpen>>
    BY <1>3, <2>5 DEF Poll, QueuesAscend, AudioInv, OrderInv
  <2> QED
    BY <2>5, <2>6, <2>7, AudioUnchanged
<1>4. ASSUME NEW id \in ParamIds, NEW v \in SetValues, setParam(id, v)
      PROVE  AudioInv'
  <2> DEFINE m == [type |-> "setParam", id |-> id, value |-> v]
  <2>1. m \in Request /\ m.type # "process"
    BY SessionAssumption DEF Request
  <2>2. Send(m) /\ UNCHANGED <<audioVars, portVars>>
    BY <1>4 DEF setParam
  <2> HIDE DEF m
  <2> QED
    BY <2>1, <2>2, <1>1
<1>5. ASSUME NEW id \in ParamIds, getParam(id)
      PROVE  AudioInv'
  <2> DEFINE m == [type |-> "getParam", id |-> id]
  <2>1. m \in Request /\ m.type # "process"
    BY DEF Request
  <2>2. Send(m) /\ UNCHANGED <<audioVars, portVars>>
    BY <1>5 DEF getParam
  <2> HIDE DEF m
  <2> QED
    BY <2>1, <2>2, <1>1
<1>6. CASE ListenerBegins
  <2>1. UNCHANGED <<requests, replies, toMain, toWorklet, portOpen, posted, played, _pendingOutput>>
    BY <1>6 DEF ListenerBegins, ReplyBegins
  <2> QED
    BY <2>1, AudioUnchanged
       DEF MainBlocks, DownBlocks, UpBlocks, BackBlocks, QueuesAscend, AudioInv, OrderInv
<1> QED
  BY <1>2, <1>3, <1>4, <1>5, <1>6

\* The oldest block of the first queue moves to the end of the second.
LEMMA AudioForward == TypeInv /\ AudioInv /\ onWorkletMessage => AudioInv'
<1> SUFFICES ASSUME TypeInv, AudioInv, onWorkletMessage PROVE AudioInv'
  OBVIOUS
<1> USE DEF linkVars, audioVars
<1>1. /\ toMain \in Seq(MainMessage) /\ toMain # <<>> /\ toMain' = Tail(toMain)
      /\ requests \in Seq(Request)
      /\ Ascending(toMain, "process") /\ Ascending(requests, "process")
      /\ UNCHANGED <<toWorklet, posted, played, _pendingOutput, portOpen>>
  BY DEF onWorkletMessage, TypeInv, TypeOK, LinkTypeOK, AudioInv, OrderInv, QueuesAscend
<1>2. /\ Ascending(toMain', "process")
      /\ MainBlocks = MainBlocks' \cup (IF Head(toMain).type = "process"
                                        THEN {Head(toMain).block} ELSE {})
      /\ Head(toMain).type = "process" => \A b \in MainBlocks' : Head(toMain).block < b
      /\ Head(toMain) \in MainMessage
  BY <1>1, BlocksTail, AscendingTail, HeadTailProperties DEF MainBlocks
<1>3. BackBlocks' = BackBlocks
  BY <1>1 DEF BackBlocks
<1>4. CASE Head(toMain).type # "process"
  <2>1. UNCHANGED <<requests, replies>> /\ MainBlocks' = MainBlocks
    BY <1>2, <1>4 DEF onWorkletMessage
  <2>2. QueuesAscend' /\ DownBlocks' = DownBlocks /\ UpBlocks' = UpBlocks
    BY <1>1, <1>2, <2>1 DEF QueuesAscend, DownBlocks, UpBlocks, AudioInv, OrderInv
  <2> QED
    BY <1>1, <1>3, <2>1, <2>2, AudioUnchanged
<1>5. CASE Head(toMain).type = "process"
  <2> DEFINE b == Head(toMain).block
             m == [type |-> "process", block |-> b]
  <2>1. m \in Request /\ m.type = "process" /\ m.block = b
    BY <1>2, <1>5 DEF MainMessage, Request
  <2>2. requests' = Append(requests, m) /\ replies' = replies
    BY <1>5 DEF onWorkletMessage, Send
  <2> HIDE DEF m
  <2>3. MainBlocks = MainBlocks' \cup {b} /\ \A n \in MainBlocks' : b < n
    BY <1>2, <1>5
  <2> HIDE DEF b
  <2>4. \A n \in DownBlocks \cup UpBlocks \cup BackBlocks : n < b
    BY <2>3 DEF AudioInv, OrderInv, StagesAscend, Below
  <2>5. BlocksIn(Append(requests, m), "process")
          = BlocksIn(requests, "process") \cup (IF m.type = "process" THEN {m.block} ELSE {})
    BY <1>1, <2>1, BlocksAppend
  <2>6. \A n \in BlocksIn(requests, "process") : n < m.block
    BY <2>1, <2>4 DEF DownBlocks
  <2>7. Ascending(requests', "process") /\ DownBlocks' = DownBlocks \cup {b}
    BY <1>1, <2>1, <2>2, <2>5, <2>6, AscendingAppend DEF DownBlocks
  <2>8. UpBlocks' = UpBlocks /\ QueuesAscend'
    BY <1>1, <1>2, <2>2, <2>7 DEF UpBlocks, QueuesAscend, AudioInv, OrderInv
  <2>9. StagesAscend'
    BY <1>3, <2>3, <2>4, <2>7, <2>8 DEF StagesAscend, Below, AudioInv, OrderInv
  <2>10. InFlight' = InFlight
    BY <1>3, <2>3, <2>7, <2>8 DEF InFlight
  <2>11. EndsAscend' /\ NoBlockLost'
    BY <1>1, <2>10 DEF EndsAscend, NoBlockLost, Returned, AudioInv, OrderInv
  <2> QED
    BY <2>8, <2>9, <2>11 DEF AudioInv, OrderInv
<1> QED
  BY <1>4, <1>5

\* The guest takes a request and appends at most one reply: a block moves from
\* the second queue to the third, everything else passes as if not there.
LEMMA AudioGuest == TypeInv /\ LoadInv /\ AudioInv /\ Guest => AudioInv'
<1> SUFFICES ASSUME TypeInv, LoadInv, AudioInv, Guest PROVE AudioInv'
  OBVIOUS
<1> USE DEF audioVars, portVars
<1>1. /\ requests \in Seq(Request) /\ replies \in Seq(Reply)
      /\ Ascending(requests, "process") /\ Ascending(replies, "processResp")
  BY DEF TypeInv, TypeOK, LinkTypeOK, AudioInv, OrderInv, QueuesAscend
<1>2. /\ UNCHANGED <<toMain, toWorklet, portOpen, posted, played, _pendingOutput>>
      /\ MainBlocks' = MainBlocks /\ BackBlocks' = BackBlocks
  BY DEF Guest, MainBlocks, BackBlocks
<1>3. requests # <<>> /\ requests' = Tail(requests)
  BY DEF Guest, HostStep, HostLoad, HostLoadFails, process_block, handle_set_param,
         handle_get_param, TakeRequest
<1>4. /\ Ascending(requests', "process")
      /\ DownBlocks = DownBlocks' \cup (IF Head(requests).type = "process"
                                        THEN {Head(requests).block} ELSE {})
      /\ Head(requests).type = "process" => \A b \in DownBlocks' : Head(requests).block < b
      /\ Head(requests) \in Request
  BY <1>1, <1>3, BlocksTail, AscendingTail, HeadTailProperties DEF DownBlocks
<1>5. CASE process_block
  <2> DEFINE b == Head(requests).block
             m == [type |-> "processResp", block |-> b]
  <2>1. Head(requests).type = "process" /\ replies' = Append(replies, m)
    BY <1>5 DEF process_block, TakeRequest
  <2>2. m \in Reply /\ m.type = "processResp" /\ m.block = b
    BY <1>4, <2>1 DEF Request, LoadRequest, Reply
  <2> HIDE DEF m
  <2>3. DownBlocks = DownBlocks' \cup {b} /\ \A n \in DownBlocks' : b < n
    BY <1>4, <2>1
  <2> HIDE DEF b
  <2>4. /\ \A n \in UpBlocks \cup BackBlocks : n < b
        /\ \A n \in MainBlocks : b < n
    BY <2>3 DEF AudioInv, OrderInv, StagesAscend, Below
  <2>5. BlocksIn(Append(replies, m), "processResp")
          = BlocksIn(replies, "processResp")
              \cup (IF m.type = "processResp" THEN {m.block} ELSE {})
    BY <1>1, <2>2, BlocksAppend
  <2>6. \A n \in BlocksIn(replies, "processResp") : n < m.block
    BY <2>2, <2>4 DEF UpBlocks
  <2>7. Ascending(replies', "processResp") /\ UpBlocks' = UpBlocks \cup {b}
    BY <1>1, <2>1, <2>2, <2>5, <2>6, AscendingAppend DEF UpBlocks
  <2>8. QueuesAscend'
    BY <1>2, <1>4, <2>7 DEF QueuesAscend, AudioInv, OrderInv
  <2>9. StagesAscend'
    BY <1>2, <2>3, <2>4, <2>7 DEF StagesAscend, Below, AudioInv, OrderInv
  <2>10. InFlight' = InFlight
    BY <1>2, <2>3, <2>7 DEF InFlight
  <2>11. EndsAscend' /\ NoBlockLost'
    BY <1>2, <2>10 DEF EndsAscend, NoBlockLost, Returned, AudioInv, OrderInv
  <2> QED
    BY <2>8, <2>9, <2>11 DEF AudioInv, OrderInv
<1>6. CASE HostLoad \/ HostLoadFails \/ handle_set_param \/ handle_get_param
  <2>1. Head(requests).type # "process"
    <3>1. CASE HostLoad \/ handle_set_param \/ handle_get_param
      BY <3>1 DEF HostLoad, handle_set_param, handle_get_param, TakeRequest
    <3>2. CASE HostLoadFails
      BY <1>3, <3>2 DEF HostLoadFails, LoadInv, LoadRequest
    <3> QED
      BY <1>6, <3>1, <3>2
  <2>2. DownBlocks' = DownBlocks
    BY <1>4, <2>1
  <2>3. UpBlocks' = UpBlocks /\ Ascending(replies', "processResp")
    <3>1. CASE replies' = replies
      BY <1>1, <3>1 DEF UpBlocks
    <3>2. ASSUME NEW m \in Reply, m.type # "processResp", replies' = Append(replies, m)
          PROVE  UpBlocks' = UpBlocks /\ Ascending(replies', "processResp")
      <4>1. /\ BlocksIn(Append(replies, m), "processResp") = BlocksIn(replies, "processResp")
            /\ Ascending(Append(replies, m), "processResp")
        BY <1>1, <3>2, OtherAppend
      <4> QED
        BY <3>2, <4>1 DEF UpBlocks
    <3>3. CASE HostLoad
      BY <3>2, <3>3 DEF HostLoad, Reply, LogReply
    <3>4. CASE handle_get_param
      <4> DEFINE m == [type |-> "getParamResp", id |-> Head(requests).id,
                       value |-> params[Head(requests).id]]
      <4>1. Head(requests).id \in ParamIds
        BY <1>4, <3>4 DEF handle_get_param, TakeRequest, Request, LoadRequest
      <4>2. m \in Reply /\ m.type # "processResp" /\ replies' = Append(replies, m)
        BY <3>4, <4>1 DEF handle_get_param, Reply, TypeInv, TypeOK, LinkTypeOK
      <4> QED
        BY <3>2, <4>2
    <3>5. CASE HostLoadFails \/ handle_set_param
      BY <3>1, <3>5 DEF HostLoadFails, handle_set_param
    <3> QED
      BY <1>6, <3>3, <3>4, <3>5
  <2>4. QueuesAscend'
    BY <1>2, <1>4, <2>3 DEF QueuesAscend, AudioInv, OrderInv
  <2> QED
    BY <1>2, <2>2, <2>3, <2>4, AudioUnchanged
<1> QED
  BY <1>5, <1>6 DEF Guest, HostStep

\* The oldest block of the third queue moves to the end of the fourth, or is
\* dropped at a closed port.
LEMMA AudioDrain == TypeInv /\ AudioInv /\ drainAndDispatch => AudioInv'
<1> SUFFICES ASSUME TypeInv, AudioInv, drainAndDispatch PROVE AudioInv'
  OBVIOUS
<1> USE DEF linkVars, audioVars
<1>1. /\ replies \in Seq(Reply) /\ replies # <<>> /\ replies' = Tail(replies)
      /\ toWorklet \in Seq(WorkletMessage)
      /\ Ascending(replies, "processResp") /\ Ascending(toWorklet, "processResp")
      /\ UNCHANGED <<toMain, requests, posted, played, _pendingOutput, portOpen>>
  BY DEF drainAndDispatch, DispatchReply, TypeInv, TypeOK, LinkTypeOK, DrainInv,
         AudioInv, OrderInv, QueuesAscend
<1>2. /\ Ascending(replies', "processResp")
      /\ UpBlocks = UpBlocks' \cup (IF Head(replies).type = "processResp"
                                    THEN {Head(replies).block} ELSE {})
      /\ Head(replies).type = "processResp" => \A b \in UpBlocks' : Head(replies).block < b
      /\ Head(replies) \in Reply
  BY <1>1, BlocksTail, AscendingTail, HeadTailProperties DEF UpBlocks
<1>3. MainBlocks' = MainBlocks /\ DownBlocks' = DownBlocks
  BY <1>1 DEF MainBlocks, DownBlocks
<1>4. CASE Head(replies).type # "processResp"
  <2>1. toWorklet' = toWorklet /\ UpBlocks' = UpBlocks
    BY <1>2, <1>4 DEF drainAndDispatch
  <2>2. QueuesAscend' /\ BackBlocks' = BackBlocks
    BY <1>1, <1>2, <2>1 DEF QueuesAscend, BackBlocks, AudioInv, OrderInv
  <2> QED
    BY <1>1, <1>3, <2>1, <2>2, AudioUnchanged
<1>5. CASE Head(replies).type = "processResp"
  <2> DEFINE b == Head(replies).block
             m == [type |-> "processResp", block |-> b]
  <2>1. m \in WorkletMessage /\ m.type = "processResp" /\ m.block = b
    BY <1>2, <1>5 DEF WorkletMessage, Reply, LogReply
  <2>2. toWorklet' = IF portOpen THEN Append(toWorklet, m) ELSE toWorklet
    BY <1>5 DEF drainAndDispatch, PostToWorklet
  <2> HIDE DEF m
  <2>3. UpBlocks = UpBlocks' \cup {b} /\ \A n \in UpBlocks' : b < n
    BY <1>2, <1>5
  <2> HIDE DEF b
  <2>4. /\ \A n \in BackBlocks : n < b
        /\ \A n \in DownBlocks \cup MainBlocks : b < n
    BY <2>3 DEF AudioInv, OrderInv, StagesAscend, Below
  <2>5. BlocksIn(Append(toWorklet, m), "processResp")
          = BlocksIn(toWorklet, "processResp")
              \cup (IF m.type = "processResp" THEN {m.block} ELSE {})
    BY <1>1, <2>1, BlocksAppend
  <2>6. \A n \in BlocksIn(toWorklet, "processResp") : n < m.block
    BY <2>1, <2>4 DEF BackBlocks
  <2>7. Ascending(Append(toWorklet, m), "processResp")
    BY <1>1, <2>1, <2>6, AscendingAppend
  <2>8. /\ Ascending(toWorklet', "processResp")
        /\ BackBlocks' = IF portOpen THEN BackBlocks \cup {b} ELSE BackBlocks
    BY <1>1, <2>1, <2>2, <2>5, <2>7 DEF BackBlocks
  <2>9. QueuesAscend'
    BY <1>1, <1>2, <2>8 DEF QueuesAscend, AudioInv, OrderInv
  <2>10. StagesAscend'
    BY <1>3, <2>3, <2>4, <2>8 DEF StagesAscend, Below, AudioInv, OrderInv
  <2>11. InFlight' \subseteq InFlight /\ (portOpen => InFlight' = InFlight)
    BY <1>3, <2>3, <2>8 DEF InFlight
  <2>12. EndsAscend' /\ NoBlockLost'
    BY <1>1, <2>11 DEF EndsAscend, NoBlockLost, Returned, AudioInv, OrderInv
  <2> QED
    BY <2>9, <2>10, <2>12 DEF AudioInv, OrderInv
<1> QED
  BY <1>4, <1>5

\* dispose may empty the first queue; nothing is promised of lost blocks then.
LEMMA AudioDispose == TypeInv /\ AudioInv /\ dispose => AudioInv'
<1> SUFFICES ASSUME TypeInv, AudioInv, dispose PROVE AudioInv'
  OBVIOUS
<1> USE DEF linkVars, audioVars
<1>1. /\ UNCHANGED <<requests, replies, toWorklet, posted, played, _pendingOutput>>
      /\ ~portOpen' /\ toMain' \in {<<>>, toMain}
  BY DEF dispose
<1>2. MainBlocks' \subseteq MainBlocks /\ Ascending(toMain', "process")
  BY <1>1, EmptyQueue DEF MainBlocks, AudioInv, OrderInv, QueuesAscend
<1>3. DownBlocks' = DownBlocks /\ UpBlocks' = UpBlocks /\ BackBlocks' = BackBlocks
  BY <1>1 DEF DownBlocks, UpBlocks, BackBlocks
<1>4. QueuesAscend'
  BY <1>1, <1>2 DEF QueuesAscend, AudioInv, OrderInv
<1>5. StagesAscend'
  BY <1>2, <1>3 DEF StagesAscend, Below, AudioInv, OrderInv
<1>6. EndsAscend' /\ NoBlockLost'
  BY <1>1, <1>2, <1>3 DEF EndsAscend, InFlight, NoBlockLost, AudioInv, OrderInv
<1> QED
  BY <1>4, <1>5, <1>6 DEF AudioInv, OrderInv

\* Every step keeps the order of the blocks and loses none.
LEMMA AudioStep == TypeInv /\ LoadInv /\ AudioInv /\ [Next]_vars => AudioInv'
<1>1. AudioInv /\ UNCHANGED vars => AudioInv'
  BY AudioUnchanged
     DEF vars, linkVars, audioVars, portVars, MainBlocks, DownBlocks, UpBlocks,
         BackBlocks, QueuesAscend, AudioInv, OrderInv
<1> QED
  BY <1>1, AudioOnMessage, AudioProcess, AudioControl, AudioForward, AudioGuest,
     AudioDrain, AudioDispose DEF Next

\* A new session has no blocks.
LEMMA InitAudio == Init => AudioInv
<1> SUFFICES ASSUME Init PROVE AudioInv
  OBVIOUS
<1>1. MainBlocks = {} /\ DownBlocks = {} /\ UpBlocks = {} /\ BackBlocks = {}
  BY EmptyQueue DEF Init, LinkInit, MainBlocks, DownBlocks, UpBlocks, BackBlocks
<1>2. QueuesAscend
  BY EmptyQueue DEF Init, LinkInit, QueuesAscend
<1>3. StagesAscend /\ EndsAscend
  BY <1>1 DEF Init, StagesAscend, EndsAscend, InFlight, Below
<1>4. NoBlockLost
  BY DEF Init, NoBlockLost
<1> QED
  BY <1>2, <1>3, <1>4 DEF AudioInv, OrderInv

\* However the three threads interleave, a block is on its way or has come
\* back, until dispose.
THEOREM NoBlockIsLost == Spec => []NoBlockLost
<1>1. AudioInv => NoBlockLost
  BY DEF AudioInv
<1> QED
  BY InitType, InitLoad, InitAudio, TypeStep, LoadStep, AudioStep, <1>1, PTL DEF Spec

\* What is written to the output is newer than all that was written before and
\* was posted by an earlier call of process().
THEOREM OutputInOrder == Spec => PlaysInOrder
<1>1. TypeInv /\ AudioInv /\ [Next]_vars
        => (posted' # posted /\ _pendingOutput # 0 => played < played' /\ played' <= posted)
  <2> SUFFICES ASSUME TypeInv, AudioInv, [Next]_vars, posted' # posted, _pendingOutput # 0
               PROVE  played < played' /\ played' <= posted
    OBVIOUS
  <2>1. process
    BY DEF Next, _onMessage, EmulatorReady, Poll, onWorkletMessage, setParam, getParam,
           dispose, Guest, ListenerBegins, drainAndDispatch, audioVars, vars
  <2> QED
    BY <2>1 DEF process, AudioInv, OrderInv, EndsAscend
<1> QED
  BY InitType, InitLoad, InitAudio, TypeStep, LoadStep, AudioStep, <1>1, PTL
     DEF Spec, PlaysInOrder

-----------------------------------------------------------------------------
(* No resolver is orphaned.                                                *)

\* Appending keeps what was asked and adds what the message asks.
LEMMA AskedAppend ==
  ASSUME NEW S, NEW q \in Seq(S), NEW m \in S, NEW t, NEW id
  PROVE  /\ Asked(q, t, id) => Asked(Append(q, m), t, id)
         /\ m.type = t /\ m.id = id => Asked(Append(q, m), t, id)
<1>1. /\ Len(Append(q, m)) = Len(q) + 1
      /\ \A i \in 1 .. Len(q) : Append(q, m)[i] = q[i]
      /\ Append(q, m)[Len(q) + 1] = m
  BY AppendProperties
<1>2. Len(q) \in Nat
  BY LenProperties
<1> QED
  BY <1>1, <1>2 DEF Asked

\* Taking the head can only remove what the head asked.
LEMMA AskedTail ==
  ASSUME NEW S, NEW q \in Seq(S), q # <<>>, NEW t, NEW id, Asked(q, t, id)
  PROVE  Asked(Tail(q), t, id) \/ (Head(q).type = t /\ Head(q).id = id)
<1>1. /\ Len(Tail(q)) = Len(q) - 1
      /\ \A i \in 1 .. Len(Tail(q)) : Tail(q)[i] = q[i + 1]
      /\ Head(q) = q[1]
  BY HeadTailProperties
<1>2. Len(q) \in Nat /\ Len(q) > 0
  BY LenProperties, EmptySeq
<1>3. PICK i \in 1 .. Len(q) : q[i].type = t /\ q[i].id = id
  BY DEF Asked
<1>4. CASE i = 1
  BY <1>1, <1>3, <1>4
<1>5. CASE i # 1
  <2>1. i - 1 \in 1 .. Len(Tail(q)) /\ Tail(q)[i - 1] = q[i]
    BY <1>1, <1>2, <1>5
  <2> QED
    BY <1>3, <2>1 DEF Asked
<1> QED
  BY <1>4, <1>5

\* A step of the guest turns the question at the head into its answer.
LEMMA ResolverGuest ==
  ASSUME TypeInv, LoadInv, Guest, NEW id \in ParamIds, OnLine(id)
  PROVE  OnLine(id)'
<1>1. /\ requests \in Seq(Request) /\ replies \in Seq(Reply)
      /\ requests # <<>> /\ requests' = Tail(requests) /\ Head(requests) \in Request
  BY HeadTailProperties
     DEF TypeInv, TypeOK, LinkTypeOK, Guest, HostStep, HostLoad, HostLoadFails,
         process_block, handle_set_param, handle_get_param, TakeRequest
<1>2. Asked(replies, "getParamResp", id) => Asked(replies', "getParamResp", id)
  <2>1. ASSUME NEW m \in Reply, replies' = Append(replies, m)
        PROVE  Asked(replies, "getParamResp", id) => Asked(replies', "getParamResp", id)
    BY <1>1, <2>1, AskedAppend
  <2>2. CASE HostLoad
    BY <2>1, <2>2 DEF HostLoad, Reply
  <2>3. CASE process_block
    <3>1. [type |-> "processResp", block |-> Head(requests).block] \in Reply
      BY <1>1, <2>3 DEF process_block, TakeRequest, Request, LoadRequest, Reply
    <3> QED
      BY <2>1, <2>3, <3>1 DEF process_block
  <2>4. CASE handle_get_param
    <3>1. [type |-> "getParamResp", id |-> Head(requests).id,
           value |-> params[Head(requests).id]] \in Reply
      BY <1>1, <2>4 DEF handle_get_param, TakeRequest, Request, LoadRequest, Reply,
                        TypeInv, TypeOK, LinkTypeOK
    <3> QED
      BY <2>1, <2>4, <3>1 DEF handle_get_param
  <2>5. CASE HostLoadFails \/ handle_set_param
    BY <2>5 DEF HostLoadFails, handle_set_param
  <2> QED
    BY <2>2, <2>3, <2>4, <2>5 DEF Guest, HostStep
<1>3. CASE Asked(requests, "getParam", id)
  <2>1. CASE Asked(Tail(requests), "getParam", id)
    BY <1>1, <2>1 DEF OnLine
  <2>2. CASE Head(requests).type = "getParam" /\ Head(requests).id = id
    <3>1. handle_get_param
      BY <2>2 DEF Guest, HostStep, HostLoad, HostLoadFails, process_block,
                  handle_set_param, TakeRequest, LoadInv, LoadRequest
    <3> DEFINE m == [type |-> "getParamResp", id |-> id, value |-> params[id]]
    <3>2. m \in Reply /\ m.type = "getParamResp" /\ m.id = id
      BY DEF Reply, TypeInv, TypeOK, LinkTypeOK
    <3>3. replies' = Append(replies, m)
      BY <2>2, <3>1 DEF handle_get_param
    <3> HIDE DEF m
    <3>4. Asked(Append(replies, m), "getParamResp", id)
      BY <1>1, <3>2, AskedAppend
    <3> QED
      BY <3>3, <3>4 DEF OnLine
  <2> QED
    BY <1>1, <1>3, <2>1, <2>2, AskedTail
<1> QED
  BY <1>2, <1>3 DEF OnLine

\* No step orphans a resolver.
LEMMA ResolverStep ==
  TypeInv /\ LoadInv /\ ResolverHasAnswer /\ [Next]_vars => ResolverHasAnswer'
<1> SUFFICES ASSUME TypeInv, LoadInv, ResolverHasAnswer, [Next]_vars,
                    NEW id \in ParamIds, paramResolvers'[id] # 0
             PROVE  OnLine(id)'
  BY DEF ResolverHasAnswer
<1> USE DEF paramVars, linkVars
<1>1. /\ requests \in Seq(Request) /\ replies \in Seq(Reply)
      /\ paramResolvers \in [ParamIds -> 0 .. MaxCalls]
      /\ paramResolvers[id] # 0 => OnLine(id)
  BY DEF TypeInv, TypeOK, LinkTypeOK, ResolverHasAnswer
<1>2. ASSUME UNCHANGED <<paramResolvers, replies>>,
             requests' = requests \/ \E m \in Request : requests' = Append(requests, m)
      PROVE  OnLine(id)'
  <2>1. OnLine(id)
    BY <1>1, <1>2
  <2>2. Asked(requests, "getParam", id) => Asked(requests', "getParam", id)
    BY <1>1, <1>2, AskedAppend
  <2> QED
    BY <1>2, <2>1, <2>2 DEF OnLine
<1>3. CASE _onMessage \/ process \/ Poll \/ dispose \/ ListenerBegins \/ UNCHANGED vars
  BY <1>2, <1>3 DEF _onMessage, process, Poll, dispose, ListenerBegins, ReplyBegins, vars
<1>4. CASE EmulatorReady
  BY <1>2, <1>4 DEF EmulatorReady, Send, Request
<1>5. CASE onWorkletMessage
  <2>1. toMain \in Seq(MainMessage) /\ toMain # <<>> /\ Head(toMain) \in MainMessage
    BY <1>5, HeadTailProperties DEF onWorkletMessage, TypeInv, TypeOK
  <2>2. Head(toMain).type = "process" =>
          [type |-> "process", block |-> Head(toMain).block] \in Request
    BY <2>1 DEF MainMessage, Request
  <2> QED
    BY <1>2, <1>5, <2>2 DEF onWorkletMessage, Send
<1>6. ASSUME NEW i \in ParamIds, NEW v \in SetValues, setParam(i, v)
      PROVE  OnLine(id)'
  <2>1. [type |-> "setParam", id |-> i, value |-> v] \in Request
    BY SessionAssumption DEF Request
  <2> QED
    BY <1>2, <1>6, <2>1 DEF setParam, Send
<1>7. ASSUME NEW i \in ParamIds, getParam(i)
      PROVE  OnLine(id)'
  <2> DEFINE m == [type |-> "getParam", id |-> i]
  <2>1. m \in Request /\ m.type = "getParam" /\ m.id = i
    BY DEF Request
  <2>2. requests' = Append(requests, m) /\ replies' = replies
    BY <1>7 DEF getParam, Send
  <2> HIDE DEF m
  <2>3. CASE id = i
    <3>1. Asked(Append(requests, m), "getParam", id)
      BY <1>1, <2>1, <2>3, AskedAppend
    <3> QED
      BY <2>2, <3>1 DEF OnLine
  <2>4. CASE id # i
    <3>1. paramResolvers'[id] = paramResolvers[id]
      BY <1>1, <1>7, <2>4 DEF getParam
    <3>2. OnLine(id)
      BY <1>1, <3>1
    <3>3. Asked(requests, "getParam", id) => Asked(Append(requests, m), "getParam", id)
      BY <1>1, <2>1, AskedAppend
    <3> QED
      BY <2>2, <3>2, <3>3 DEF OnLine
  <2> QED
    BY <2>3, <2>4
<1>8. CASE Guest
  <2>1. OnLine(id)
    BY <1>1, <1>8 DEF Guest
  <2> QED
    BY <1>8, <2>1, ResolverGuest
<1>9. CASE drainAndDispatch
  <2>1. /\ replies # <<>> /\ replies' = Tail(replies) /\ requests' = requests
        /\ Head(replies) \in Reply
    BY <1>9, HeadTailProperties
       DEF drainAndDispatch, DispatchReply, TypeInv, TypeOK, LinkTypeOK, DrainInv
  <2>2. paramResolvers'[id] = paramResolvers[id]
        /\ ~(Head(replies).type = "getParamResp" /\ Head(replies).id = id)
    <3>1. CASE Head(replies).type = "getParamResp"
      BY <1>1, <1>9, <3>1 DEF drainAndDispatch, ResolveParam
    <3>2. CASE Head(replies).type # "getParamResp"
      BY <1>9, <3>2 DEF drainAndDispatch
    <3> QED
      BY <3>1, <3>2
  <2>3. OnLine(id)
    BY <1>1, <2>2
  <2>4. Asked(replies, "getParamResp", id) => Asked(Tail(replies), "getParamResp", id)
    BY <1>1, <2>1, <2>2, AskedTail
  <2> QED
    BY <2>1, <2>3, <2>4 DEF OnLine
<1> QED
  BY <1>3, <1>4, <1>5, <1>6, <1>7, <1>8, <1>9 DEF Next

\* Whatever the application calls and whenever, a registered resolver has its
\* question or an answer for its id on the line.
THEOREM NoResolverOrphaned == Spec => []ResolverHasAnswer
<1>1. Init => ResolverHasAnswer
  BY DEF Init, ResolverHasAnswer
<1> QED
  BY InitType, InitLoad, <1>1, TypeStep, LoadStep, ResolverStep, PTL DEF Spec
-----------------------------------------------------------------------------
(* What a question on the line will be answered with.                      *)

\* A frame behind a place of the queue does not change what is read there.
LEMMA ReadsAppend ==
  ASSUME NEW S, NEW q \in Seq(S), NEW m \in S, NEW now, NEW id, NEW v,
         NEW k \in 1 .. Len(q) + 1
  PROVE  Reads(Append(q, m), now, k, id, v) <=> Reads(q, now, k, id, v)
<1>1. /\ Len(q) \in Nat /\ Len(Append(q, m)) = Len(q) + 1
      /\ \A i \in 1 .. Len(q) : Append(q, m)[i] = q[i]
  BY AppendProperties, LenProperties
<1>2. SetsBefore(Append(q, m), k, id) = SetsBefore(q, k, id)
  BY <1>1 DEF SetsBefore
<1>3. \A j \in SetsBefore(q, k, id) : Append(q, m)[j] = q[j]
  BY <1>1 DEF SetsBefore
<1> QED
  BY <1>2, <1>3 DEF Reads

\* Behind a setParam frame for the id its value is read, behind another one what
\* was read before it.
LEMMA ReadsBehind ==
  ASSUME NEW S, NEW q \in Seq(S), NEW m \in S, NEW now, NEW id, NEW v,
         Reads(q, now, Len(q) + 1, id, v)
  PROVE  Reads(Append(q, m), now, Len(q) + 2, id,
               IF m.type = "setParam" /\ m.id = id THEN ToFloat[m.value] ELSE v)
<1> DEFINE r == Append(q, m)
           n == Len(q) + 1
<1>1. /\ Len(q) \in Nat /\ Len(r) = n /\ r[n] = m
      /\ \A i \in 1 .. Len(q) : r[i] = q[i]
  BY AppendProperties, LenProperties
<1> HIDE DEF r
<1>2. CASE m.type = "setParam" /\ m.id = id
  <2>1. n \in SetsBefore(r, n + 1, id) /\ \A l \in SetsBefore(r, n + 1, id) : l <= n
    BY <1>1, <1>2 DEF SetsBefore
  <2>2. Reads(r, now, n + 1, id, ToFloat[m.value])
    BY <1>1, <2>1 DEF Reads
  <2> QED
    BY <1>1, <1>2, <2>2 DEF r
<1>3. CASE ~(m.type = "setParam" /\ m.id = id)
  <2>1. SetsBefore(r, n + 1, id) = SetsBefore(q, n, id)
    BY <1>1, <1>3 DEF SetsBefore
  <2>2. \A j \in SetsBefore(q, n, id) : r[j] = q[j]
    BY <1>1 DEF SetsBefore
  <2>3. Reads(r, now, n + 1, id, v)
    BY <2>1, <2>2 DEF Reads
  <2> QED
    BY <1>1, <1>3, <2>3 DEF r
<1> QED
  BY <1>2, <1>3

\* The host takes the first frame: the places move up, and what a setParam frame
\* said is now the plugin's value.
LEMMA ReadsTail ==
  ASSUME NEW S, NEW q \in Seq(S), q # <<>>, NEW now, NEW id, NEW v,
         NEW k \in 2 .. Len(q) + 1, Reads(q, now, k, id, v)
  PROVE  Reads(Tail(q),
               IF Head(q).type = "setParam" /\ Head(q).id = id THEN ToFloat[Head(q).value] ELSE now,
               k - 1, id, v)
<1> DEFINE t == Tail(q)
           then == IF Head(q).type = "setParam" /\ Head(q).id = id
                   THEN ToFloat[Head(q).value] ELSE now
<1>1. /\ Len(q) \in Nat /\ Len(q) > 0 /\ Len(t) = Len(q) - 1 /\ Head(q) = q[1]
      /\ \A i \in 1 .. Len(t) : t[i] = q[i + 1]
  BY HeadTailProperties, LenProperties, EmptySeq
<1> HIDE DEF t
<1>2. \A j \in SetsBefore(t, k - 1, id) : j + 1 \in SetsBefore(q, k, id) /\ t[j] = q[j + 1]
  BY <1>1 DEF SetsBefore
<1>3. \A j \in SetsBefore(q, k, id) : j # 1 => j - 1 \in SetsBefore(t, k - 1, id) /\ t[j - 1] = q[j]
  BY <1>1 DEF SetsBefore
<1>4. 1 \in SetsBefore(q, k, id) <=> Head(q).type = "setParam" /\ Head(q).id = id
  BY <1>1 DEF SetsBefore
<1>5. SetsBefore(q, k, id) \subseteq Int /\ SetsBefore(t, k - 1, id) \subseteq Int
  BY DEF SetsBefore
<1>6. CASE SetsBefore(t, k - 1, id) = {}
  <2>1. SetsBefore(q, k, id) \subseteq {1}
    BY <1>3, <1>6
  <2>2. v = then
    BY <1>1, <1>4, <2>1 DEF Reads
  <2> QED
    BY <1>6, <2>2 DEF Reads, t
<1>7. CASE SetsBefore(t, k - 1, id) # {}
  <2>1. PICK n \in SetsBefore(t, k - 1, id) : TRUE
    BY <1>7
  <2>2. n + 1 \in SetsBefore(q, k, id)
    BY <1>2, <2>1
  <2>3. PICK j \in SetsBefore(q, k, id) :
          (\A l \in SetsBefore(q, k, id) : l <= j) /\ v = ToFloat[q[j].value]
    BY <2>2 DEF Reads
  <2>4. j # 1
    <3>1. n \in Int /\ n >= 1 /\ n + 1 <= j
      BY <2>1, <2>2, <2>3 DEF SetsBefore
    <3> QED
      BY <3>1, <1>5
  <2>5. j - 1 \in SetsBefore(t, k - 1, id) /\ v = ToFloat[t[j - 1].value]
    BY <1>3, <2>3, <2>4
  <2>6. \A l \in SetsBefore(t, k - 1, id) : l <= j - 1
    BY <1>2, <1>5, <2>3
  <2> QED
    BY <2>5, <2>6 DEF Reads, t
<1> QED
  BY <1>6, <1>7

\* What ReadInv says of one id whose resolver is that of a call alone on the line.
AnswersAs(id, expect) ==
  /\ \A k \in 1 .. Len(requests) :
       requests[k].type = "getParam" /\ requests[k].id = id
         => Reads(requests, params[id], k, id, expect)
  /\ \A k \in 1 .. Len(replies) :
       replies[k].type = "getParamResp" /\ replies[k].id = id => replies[k].value = expect

\* And of the end of the line.
EndsAs(id, v) == Reads(requests, params[id], Len(requests) + 1, id, v)

\* A frame that asks nothing of the id goes on the line.
LEMMA AnswersAppend ==
  ASSUME requests \in Seq(Request), NEW m \in Request, requests' = Append(requests, m),
         UNCHANGED <<replies, params>>, NEW id, NEW expect,
         ~(m.type = "getParam" /\ m.id = id), AnswersAs(id, expect)
  PROVE  AnswersAs(id, expect)'
<1>1. /\ Len(requests) \in Nat /\ Len(requests') = Len(requests) + 1
      /\ \A i \in 1 .. Len(requests) : requests'[i] = requests[i]
      /\ requests'[Len(requests) + 1] = m
  BY AppendProperties, LenProperties
<1>2. ASSUME NEW k \in 1 .. Len(requests'), requests'[k].type = "getParam", requests'[k].id = id
      PROVE  Reads(requests', params'[id], k, id, expect)
  <2>1. k \in 1 .. Len(requests) /\ requests'[k] = requests[k]
    BY <1>1, <1>2
  <2>2. Reads(requests, params[id], k, id, expect)
    BY <1>2, <2>1 DEF AnswersAs
  <2> QED
    BY <2>1, <2>2, <1>1, ReadsAppend
<1> QED
  BY <1>2 DEF AnswersAs

\* The guest's steps keep what the end of the line has, and what is answered.
LEMMA AnswersGuest ==
  ASSUME TypeInv, LoadInv, Guest, NEW id \in ParamIds
  PROVE  /\ \A v : EndsAs(id, v) => EndsAs(id, v)'
         /\ \A v : AnswersAs(id, v) => AnswersAs(id, v)'
<1> DEFINE h == Head(requests)
           now == IF h.type = "setParam" /\ h.id = id THEN ToFloat[h.value] ELSE params[id]
<1>1. /\ requests \in Seq(Request) /\ replies \in Seq(Reply)
      /\ requests # <<>> /\ requests' = Tail(requests) /\ h \in Request
      /\ params \in [ParamIds -> Values]
  BY HeadTailProperties
     DEF TypeInv, TypeOK, LinkTypeOK, Guest, HostStep, HostLoad, HostLoadFails,
         process_block, handle_set_param, handle_get_param, TakeRequest
<1>2. params'[id] = now
  <2>1. CASE handle_set_param
    <3>1. h.type = "setParam" /\ params' = [params EXCEPT ![h.id] = ToFloat[h.value]]
      BY <2>1 DEF handle_set_param, TakeRequest
    <3> QED
      BY <1>1, <3>1
  <2>2. CASE HostLoadFails
    <3>1. requests = <<LoadRequest>>
      BY <1>1, <2>2 DEF HostLoadFails, LoadInv
    <3>2. h.type = "load"
      BY <3>1 DEF LoadRequest
    <3> QED
      BY <2>2, <3>2 DEF HostLoadFails
  <2>3. CASE HostLoad \/ process_block \/ handle_get_param
    BY <2>3 DEF HostLoad, process_block, handle_get_param, TakeRequest
  <2> QED
    BY <2>1, <2>2, <2>3 DEF Guest, HostStep
<1>3. /\ Len(requests) \in Nat /\ Len(requests) > 0 /\ Len(requests') = Len(requests) - 1
      /\ h = requests[1] /\ \A i \in 1 .. Len(requests') : requests'[i] = requests[i + 1]
  BY <1>1, HeadTailProperties, LenProperties, EmptySeq
<1>4. ASSUME NEW v, NEW k \in 2 .. Len(requests) + 1, Reads(requests, params[id], k, id, v)
      PROVE  Reads(requests', params'[id], k - 1, id, v)
  <2>1. Reads(Tail(requests), now, k - 1, id, v)
    BY <1>1, <1>4, ReadsTail
  <2> QED
    BY <1>1, <1>2, <2>1
<1> HIDE DEF now
<1>5. ASSUME NEW v, EndsAs(id, v) PROVE EndsAs(id, v)'
  <2>1. Reads(requests', params'[id], Len(requests) + 1 - 1, id, v)
    BY <1>3, <1>4, <1>5 DEF EndsAs
  <2>2. Len(requests) + 1 - 1 = Len(requests') + 1
    BY <1>3
  <2> QED
    BY <2>1, <2>2 DEF EndsAs
<1>6. ASSUME NEW v, AnswersAs(id, v) PROVE AnswersAs(id, v)'
  <2>1. ASSUME NEW k \in 1 .. Len(requests'), requests'[k].type = "getParam", requests'[k].id = id
        PROVE  Reads(requests', params'[id], k, id, v)
    <3>1. k + 1 \in 1 .. Len(requests) /\ requests'[k] = requests[k + 1]
      BY <1>3
    <3>2. Reads(requests, params[id], k + 1, id, v)
      BY <1>6, <2>1, <3>1 DEF AnswersAs
    <3>3. Reads(requests', params'[id], k + 1 - 1, id, v)
      BY <1>3, <1>4, <3>1, <3>2
    <3>4. k + 1 - 1 = k
      OBVIOUS
    <3> QED
      BY <3>3, <3>4
  <2>2. ASSUME NEW k \in 1 .. Len(replies'), replies'[k].type = "getParamResp", replies'[k].id = id
        PROVE  replies'[k].value = v
    <3>1. ASSUME NEW m \in Reply, replies' = Append(replies, m),
                 m.type = "getParamResp" /\ m.id = id => m.value = v
          PROVE  replies'[k].value = v
      <4>1. /\ Len(replies) \in Nat /\ Len(replies') = Len(replies) + 1
            /\ \A i \in 1 .. Len(replies) : replies'[i] = replies[i]
            /\ replies'[Len(replies) + 1] = m
        BY <1>1, <3>1, AppendProperties, LenProperties
      <4>2. CASE k = Len(replies) + 1
        BY <2>2, <3>1, <4>1, <4>2
      <4>3. CASE k # Len(replies) + 1
        <5>1. k \in 1 .. Len(replies) /\ replies'[k] = replies[k]
          BY <4>1, <4>3
        <5> QED
          BY <1>6, <2>2, <5>1 DEF AnswersAs
      <4> QED
        BY <4>2, <4>3
    <3>2. CASE HostLoad
      BY <3>1, <3>2 DEF HostLoad, Reply, LogReply
    <3>3. CASE process_block
      <4>1. [type |-> "processResp", block |-> h.block] \in Reply
        BY <1>1, <3>3 DEF process_block, TakeRequest, Request, LoadRequest, Reply
      <4> QED
        BY <3>1, <3>3, <4>1 DEF process_block
    <3>4. CASE handle_get_param
      <4> DEFINE m == [type |-> "getParamResp", id |-> h.id, value |-> params[h.id]]
      <4>1. h.type = "getParam" /\ m \in Reply
        BY <1>1, <3>4 DEF handle_get_param, TakeRequest, Request, LoadRequest, Reply
      <4>2. h.id = id => params[id] = v
        <5>1. ASSUME h.id = id PROVE Reads(requests, params[id], 1, id, v)
          BY <1>3, <1>6, <4>1, <5>1 DEF AnswersAs
        <5>2. SetsBefore(requests, 1, id) = {}
          BY DEF SetsBefore
        <5> QED
          BY <5>1, <5>2 DEF Reads
      <4>3. m.id = id => m.value = v
        BY <4>2
      <4>4. replies' = Append(replies, m)
        BY <3>4 DEF handle_get_param
      <4> QED
        BY <3>1, <4>1, <4>3, <4>4
    <3>5. CASE HostLoadFails \/ handle_set_param
      <4>1. UNCHANGED replies
        BY <3>5 DEF HostLoadFails, handle_set_param
      <4> QED
        BY <1>6, <2>2, <4>1 DEF AnswersAs
    <3> QED
      BY <3>2, <3>3, <3>4, <3>5 DEF Guest, HostStep
  <2> QED
    BY <2>1, <2>2 DEF AnswersAs
<1> QED
  BY <1>5, <1>6

\* ReadInv in these terms.
LEMMA ReadInvAs ==
  ReadInv <=> \A id \in ParamIds :
                /\ EndsAs(id, wanted[id])
                /\ paramResolvers[id] # 0 /\ ~promises[paramResolvers[id]].shared
                     => AnswersAs(id, promises[paramResolvers[id]].expect)
BY DEF ReadInv, EndsAs, AnswersAs

\* No step changes what a call that was alone on the line will be told.
LEMMA ReadStep ==
  TypeInv /\ LoadInv /\ ReadInv /\ ReadYourWrites /\ [Next]_vars => ReadInv'
<1> SUFFICES ASSUME TypeInv, LoadInv, ReadInv, [Next]_vars PROVE ReadInv'
  OBVIOUS
<1> DEFINE EndInv == \A id \in ParamIds : EndsAs(id, wanted[id])
           CallInv == \A id \in ParamIds :
                        paramResolvers[id] # 0 /\ ~promises[paramResolvers[id]].shared
                          => AnswersAs(id, promises[paramResolvers[id]].expect)
<1>0. /\ requests \in Seq(Request) /\ replies \in Seq(Reply)
      /\ paramResolvers \in [ParamIds -> 0 .. MaxCalls] /\ promises \in Seq(Promise)
      /\ \A id \in ParamIds : paramResolvers[id] <= Len(promises)
      /\ wanted \in [ParamIds -> Values] /\ EndInv /\ CallInv
  BY ReadInvAs DEF TypeInv, TypeOK, LinkTypeOK, DrainInv
<1> SUFFICES EndInv' /\ CallInv'
  BY DEF ReadInv, EndsAs, AnswersAs
<1> USE DEF paramVars, linkVars
<1>1. ASSUME NEW m \in Request, m.type \notin {"setParam", "getParam"},
             requests' = Append(requests, m), UNCHANGED <<replies, params, paramVars>>
      PROVE  EndInv' /\ CallInv'
  <2>1. ASSUME NEW id \in ParamIds PROVE EndsAs(id, wanted[id])'
    <3>1. Reads(requests', params[id], Len(requests) + 2, id, wanted[id])
      BY <1>0, <1>1, ReadsBehind DEF EndsAs
    <3>2. Len(requests') + 1 = Len(requests) + 2
      BY <1>0, <1>1, AppendProperties, LenProperties
    <3> QED
      BY <1>1, <3>1, <3>2 DEF EndsAs
  <2>2. ASSUME NEW id \in ParamIds, NEW v, AnswersAs(id, v) PROVE AnswersAs(id, v)'
    BY <1>0, <1>1, <2>2, AnswersAppend
  <2> QED
    BY <1>0, <1>1, <2>1, <2>2
<1>2. ASSUME UNCHANGED <<requests, replies, params, paramVars>> PROVE EndInv' /\ CallInv'
  BY <1>0, <1>2 DEF EndsAs, AnswersAs
<1>3. CASE _onMessage \/ process \/ Poll \/ dispose \/ ListenerBegins \/ UNCHANGED vars
  BY <1>2, <1>3 DEF _onMessage, process, Poll, dispose, ListenerBegins, ReplyBegins, vars
<1>4. CASE EmulatorReady
  BY <1>1, <1>4 DEF EmulatorReady, Send, Request, LoadRequest
<1>5. CASE onWorkletMessage
  <2>1. toMain \in Seq(MainMessage) /\ toMain # <<>> /\ Head(toMain) \in MainMessage
    BY <1>5, HeadTailProperties DEF onWorkletMessage, TypeInv, TypeOK
  <2>2. CASE Head(toMain).type = "process"
    <3>1. [type |-> "process", block |-> Head(toMain).block] \in Request
      BY <2>1, <2>2 DEF MainMessage, Request
    <3> QED
      BY <1>1, <1>5, <2>2, <3>1 DEF onWorkletMessage, Send
  <2>3. CASE Head(toMain).type # "process"
    BY <1>2, <1>5, <2>3 DEF onWorkletMessage
  <2> QED
    BY <2>2, <2>3
<1>6. ASSUME NEW i \in ParamIds, NEW x \in SetValues, setParam(i, x)
      PROVE  EndInv' /\ CallInv'
  <2> DEFINE m == [type |-> "setParam", id |-> i, value |-> x]
  <2>1. m \in Request
    BY SessionAssumption DEF Request
  <2>2. /\ requests' = Append(requests, m) /\ wanted' = [wanted EXCEPT ![i] = ToFloat[x]]
        /\ UNCHANGED <<replies, params, paramResolvers, promises>>
    BY <1>6 DEF setParam, Send
  <2>3. ASSUME NEW id \in ParamIds PROVE EndsAs(id, wanted[id])'
    <3>1. wanted'[id] = IF m.type = "setParam" /\ m.id = id THEN ToFloat[m.value] ELSE wanted[id]
      BY <1>0, <2>2
    <3>2. Reads(requests', params[id], Len(requests) + 2, id, wanted'[id])
      BY <1>0, <2>1, <2>2, <3>1, ReadsBehind DEF EndsAs
    <3>3. Len(requests') + 1 = Len(requests) + 2
      BY <1>0, <2>1, <2>2, AppendProperties, LenProperties
    <3> QED
      BY <2>2, <3>2, <3>3 DEF EndsAs
  <2>4. ASSUME NEW id \in ParamIds, NEW v, AnswersAs(id, v) PROVE AnswersAs(id, v)'
    <3>1. ~(m.type = "getParam" /\ m.id = id)
      OBVIOUS
    <3> HIDE DEF m
    <3> QED
      BY <1>0, <2>1, <2>2, <2>4, <3>1, AnswersAppend
  <2> QED
    BY <1>0, <2>2, <2>3, <2>4
<1>7. ASSUME NEW i \in ParamIds, getParam(i)
      PROVE  EndInv' /\ CallInv'
  <2> DEFINE m == [type |-> "getParam", id |-> i]
             n == Len(promises) + 1
  <2>1. m \in Request /\ m.type = "getParam" /\ m.id = i
    BY DEF Request
  <2>2. /\ requests' = Append(requests, m) /\ UNCHANGED <<replies, params, wanted>>
        /\ paramResolvers' = [paramResolvers EXCEPT ![i] = n]
        /\ promises' = Append(promises, [id |-> i, state |-> "pending", shared |-> OnLine(i),
                                         expect |-> wanted[i], got |-> Initial[i]])
    BY <1>7 DEF getParam, Send
  <2>3. /\ n \notin 0 .. Len(promises) /\ promises'[n].shared = OnLine(i)
        /\ promises'[n].expect = wanted[i]
        /\ \A p \in 1 .. Len(promises) : promises'[p] = promises[p]
    <3>1. OnLine(i) \in BOOLEAN
      BY DEF OnLine, Asked
    <3>2. [id |-> i, state |-> "pending", shared |-> OnLine(i),
           expect |-> wanted[i], got |-> Initial[i]] \in Promise
      BY <1>0, <3>1, ConversionAssumption DEF Promise
    <3> QED
      BY <1>0, <2>2, <3>2, AppendProperties, LenProperties
  <2> HIDE DEF m, n
  <2>4. /\ Len(requests) \in Nat /\ Len(requests') = Len(requests) + 1
        /\ \A k \in 1 .. Len(requests) : requests'[k] = requests[k]
    BY <1>0, <2>1, <2>2, AppendProperties, LenProperties
  <2>5. ASSUME NEW id \in ParamIds PROVE EndsAs(id, wanted[id])'
    <3>1. Reads(requests', params[id], Len(requests) + 2, id, wanted[id])
      BY <1>0, <2>1, <2>2, ReadsBehind DEF EndsAs
    <3> QED
      BY <2>2, <2>4, <3>1 DEF EndsAs
  <2>6. ASSUME NEW id \in ParamIds, paramResolvers'[id] # 0, ~promises'[paramResolvers'[id]].shared
        PROVE  AnswersAs(id, promises[paramResolvers[id]].expect)'
    <3>1. CASE id = i
      <4>1. paramResolvers'[id] = n /\ ~OnLine(i)
        BY <1>0, <2>2, <2>3, <2>6, <3>1
      <4>2. ASSUME NEW k \in 1 .. Len(requests'),
                   requests'[k].type = "getParam" /\ requests'[k].id = id
            PROVE  Reads(requests', params'[id], k, id, wanted[i])
        <5>1. k = Len(requests) + 1
          BY <2>4, <3>1, <4>1, <4>2 DEF OnLine, Asked
        <5>2. Reads(requests, params[id], k, id, wanted[i])
          BY <1>0, <3>1, <5>1 DEF EndsAs
        <5> QED
          BY <1>0, <2>1, <2>2, <2>4, <5>1, <5>2, ReadsAppend
      <4>3. \A k \in 1 .. Len(replies') :
              ~(replies'[k].type = "getParamResp" /\ replies'[k].id = id)
        BY <2>2, <3>1, <4>1 DEF OnLine, Asked
      <4> QED
        BY <2>3, <4>1, <4>2, <4>3 DEF AnswersAs
    <3>2. CASE id # i
      <4>1. paramResolvers'[id] = paramResolvers[id]
        BY <1>0, <2>2, <3>2
      <4>2. promises'[paramResolvers'[id]] = promises[paramResolvers[id]]
        BY <1>0, <2>3, <2>6, <4>1
      <4>3. AnswersAs(id, promises[paramResolvers[id]].expect)
        BY <1>0, <2>6, <4>1, <4>2
      <4> DEFINE v == promises[paramResolvers[id]].expect
      <4>4. v' = v
        BY <4>2
      <4> HIDE DEF v
      <4>5. \A k \in 1 .. Len(requests') :
              requests'[k].type = "getParam" /\ requests'[k].id = id
                => Reads(requests', params'[id], k, id, v)
        <5> SUFFICES ASSUME NEW k \in 1 .. Len(requests'),
                            requests'[k].type = "getParam", requests'[k].id = id
                     PROVE  Reads(requests', params'[id], k, id, v)
          OBVIOUS
        <5>1. k \in 1 .. Len(requests) /\ requests'[k] = requests[k]
          BY <1>0, <2>1, <2>2, <2>4, <3>2, AppendProperties
        <5>2. Reads(requests, params[id], k, id, v)
          BY <4>3, <5>1 DEF AnswersAs, v
        <5> QED
          BY <1>0, <2>1, <2>2, <2>4, <5>1, <5>2, ReadsAppend
      <4>6. \A k \in 1 .. Len(replies') :
              replies'[k].type = "getParamResp" /\ replies'[k].id = id => replies'[k].value = v
        BY <2>2, <4>3 DEF AnswersAs, v
      <4>7. v' = promises'[paramResolvers'[id]].expect
        BY DEF v
      <4> QED
        BY <4>4, <4>5, <4>6, <4>7 DEF AnswersAs
    <3> QED
      BY <3>1, <3>2
  <2> QED
    BY <2>5, <2>6
<1>8. CASE Guest
  <2>1. UNCHANGED paramVars
    BY <1>8 DEF Guest
  <2> QED
    BY <1>0, <1>8, <2>1, AnswersGuest
<1>9. CASE drainAndDispatch
  <2>1. /\ replies # <<>> /\ replies' = Tail(replies) /\ Head(replies) \in Reply
        /\ UNCHANGED <<requests, params, wanted>>
    BY <1>9, HeadTailProperties
       DEF drainAndDispatch, DispatchReply, TypeInv, TypeOK, LinkTypeOK, DrainInv
  <2>2. ASSUME NEW id \in ParamIds, NEW v, AnswersAs(id, v) PROVE AnswersAs(id, v)'
    <3>1. /\ Len(replies) \in Nat /\ Len(replies') = Len(replies) - 1
          /\ \A k \in 1 .. Len(replies') : replies'[k] = replies[k + 1]
      BY <1>0, <2>1, HeadTailProperties, LenProperties
    <3>2. \A k \in 1 .. Len(replies') : k + 1 \in 1 .. Len(replies)
      BY <3>1
    <3> QED
      BY <2>1, <2>2, <3>1, <3>2 DEF AnswersAs
  <2>3. ASSUME NEW id \in ParamIds, paramResolvers'[id] # 0
        PROVE  /\ paramResolvers'[id] = paramResolvers[id]
               /\ promises'[paramResolvers[id]].shared = promises[paramResolvers[id]].shared
               /\ promises'[paramResolvers[id]].expect = promises[paramResolvers[id]].expect
    <3>1. CASE Head(replies).type = "getParamResp"
      <4> DEFINE r == Head(replies)
                 p == paramResolvers[r.id]
      <4>1. /\ paramResolvers' = [paramResolvers EXCEPT ![r.id] = 0]
            /\ promises' = IF p = 0 THEN promises
                           ELSE [promises EXCEPT ![p] = Settled(promises[p], r.value)]
        BY <1>9, <3>1 DEF drainAndDispatch, ResolveParam
      <4>2. r.id \in ParamIds
        BY <2>1, <3>1 DEF Reply, LogReply
      <4>3. paramResolvers'[id] = paramResolvers[id]
        BY <1>0, <2>3, <4>1, <4>2
      <4>4. paramResolvers[id] \in DOMAIN promises
        BY <1>0, <2>3, <4>3, LenProperties
      <4> HIDE DEF r, p
      <4> QED
        BY <4>1, <4>3, <4>4 DEF Settled
    <3>2. CASE Head(replies).type # "getParamResp"
      BY <1>9, <3>2 DEF drainAndDispatch
    <3> QED
      BY <3>1, <3>2
  <2>4. EndInv'
    BY <1>0, <2>1 DEF EndsAs
  <2>5. ASSUME NEW id \in ParamIds, paramResolvers'[id] # 0, ~promises'[paramResolvers'[id]].shared
        PROVE  AnswersAs(id, promises[paramResolvers[id]].expect)'
    <3> DEFINE v == promises[paramResolvers[id]].expect
    <3>1. AnswersAs(id, v)
      BY <1>0, <2>3, <2>5
    <3>2. v' = v
      BY <2>3, <2>5
    <3> HIDE DEF v
    <3>3. ASSUME NEW w, w = v PROVE AnswersAs(id, w)'
      BY <2>2, <3>1, <3>3
    <3>4. AnswersAs(id, v)'
      BY <3>2, <3>3 DEF AnswersAs
    <3> QED
      BY <3>4 DEF v
  <2> QED
    BY <2>4, <2>5
<1> QED
  BY <1>3, <1>4, <1>5, <1>6, <1>7, <1>8, <1>9 DEF Next

\* A reply settles the registered call with the value it expects.
LEMMA ReadYourWritesStep ==
  TypeInv /\ ReadInv /\ ReadYourWrites /\ [Next]_vars => ReadYourWrites'
<1> SUFFICES ASSUME TypeInv, ReadInv, ReadYourWrites, [Next]_vars PROVE ReadYourWrites'
  OBVIOUS
<1>0. /\ replies \in Seq(Reply) /\ promises \in Seq(Promise) /\ Len(promises) \in Nat
      /\ paramResolvers \in [ParamIds -> 0 .. MaxCalls]
      /\ \A id \in ParamIds : paramResolvers[id] <= Len(promises)
  BY LenProperties DEF TypeInv, TypeOK, LinkTypeOK, DrainInv
<1>1. ASSUME UNCHANGED promises PROVE ReadYourWrites'
  BY <1>1 DEF ReadYourWrites
<1>2. ASSUME NEW i \in ParamIds, getParam(i) PROVE ReadYourWrites'
  <2> DEFINE p == [id |-> i, state |-> "pending", shared |-> OnLine(i),
                   expect |-> wanted[i], got |-> Initial[i]]
  <2>1. promises' = Append(promises, p) /\ p.state = "pending"
    BY <1>2 DEF getParam
  <2> HIDE DEF p
  <2>2. /\ Len(promises') = Len(promises) + 1 /\ promises'[Len(promises) + 1] = p
        /\ \A n \in 1 .. Len(promises) : promises'[n] = promises[n]
    BY <1>0, <2>1
  <2> QED
    BY <1>0, <2>1, <2>2 DEF ReadYourWrites
<1>3. CASE drainAndDispatch
  <2> DEFINE r == Head(replies)
             p == paramResolvers[r.id]
  <2>1. /\ replies # <<>> /\ r \in Reply /\ 1 \in 1 .. Len(replies) /\ r = replies[1]
    BY <1>0, <1>3, HeadTailProperties, LenProperties, EmptySeq
       DEF drainAndDispatch, DispatchReply, TypeInv, DrainInv
  <2>2. CASE r.type # "getParamResp"
    BY <1>1, <1>3, <2>2 DEF drainAndDispatch
  <2>3. CASE r.type = "getParamResp"
    <3>1. promises' = IF p = 0 THEN promises
                      ELSE [promises EXCEPT ![p] = Settled(promises[p], r.value)]
      BY <1>3, <2>3 DEF drainAndDispatch, ResolveParam
    <3>2. r.id \in ParamIds
      BY <2>1, <2>3 DEF Reply, LogReply
    <3>3. CASE p = 0
      BY <1>1, <3>1, <3>3
    <3>4. CASE p # 0
      <4>1. p \in 1 .. Len(promises)
        BY <1>0, <3>2, <3>4
      <4>2. ~promises[p].shared => r.value = promises[p].expect
        BY <2>1, <2>3, <3>2, <3>4 DEF ReadInv
      <4> HIDE DEF p
      <4>3. /\ Len(promises') = Len(promises)
            /\ promises'[p] = Settled(promises[p], r.value)
            /\ \A n \in 1 .. Len(promises) : n # p => promises'[n] = promises[n]
        BY <1>0, <3>1, <3>4, <4>1
      <4> HIDE DEF r
      <4> QED
        BY <4>1, <4>2, <4>3 DEF ReadYourWrites, Settled
    <3> QED
      BY <3>3, <3>4
  <2> QED
    BY <2>2, <2>3
<1>4. CASE UNCHANGED vars
  BY <1>1, <1>4 DEF vars, paramVars
<1>5. ASSUME NEW i \in ParamIds, NEW x \in SetValues, setParam(i, x) PROVE UNCHANGED promises
  BY <1>5 DEF setParam
<1>6. CASE _onMessage \/ process \/ Poll \/ dispose \/ ListenerBegins \/ EmulatorReady
           \/ onWorkletMessage \/ Guest
  BY <1>1, <1>6 DEF _onMessage, process, Poll, dispose, ListenerBegins, EmulatorReady,
                    onWorkletMessage, Guest, paramVars
<1> QED
  BY <1>1, <1>2, <1>3, <1>4, <1>5, <1>6 DEF Next

\* A call of getParam that was alone on the line for its id is told what setParam
\* last asked for before it, however many calls and blocks follow it.
THEOREM YourWritesAreRead == Spec => []ReadYourWrites
<1>1. Init => ReadInv
  <2> SUFFICES ASSUME Init PROVE ReadInv
    OBVIOUS
  <2>1. /\ requests = <<>> /\ replies = <<>> /\ wanted = params
        /\ \A id \in ParamIds : paramResolvers[id] = 0
    BY DEF Init, LinkInit
  <2>2. Len(requests) = 0 /\ Len(replies) = 0 /\ Len(requests) + 1 = 1
    BY <2>1
  <2>3. \A id : SetsBefore(requests, 1, id) = {}
    BY <2>2 DEF SetsBefore
  <2>4. \A id \in ParamIds : Reads(requests, params[id], 1, id, wanted[id])
    BY <2>1, <2>3 DEF Reads
  <2> QED
    BY <2>1, <2>2, <2>4 DEF ReadInv
<1>2. Init => ReadYourWrites
  BY DEF Init, ReadYourWrites
<1> QED
  BY InitType, InitLoad, <1>1, <1>2, TypeStep, LoadStep, ReadStep, ReadYourWritesStep, PTL
     DEF Spec
=============================================================================

---------------------------- MODULE AudioSession ----------------------------
(***************************************************************************)
(* One loaded plugin, end to end: the application and the WasiVST object   *)
(* on the page's main thread (wasivst.js), the audio thread's processor    *)
(* (wasivst-worklet.js), the two message ports between them, and the guest *)
(* behind the serial line of FrameLink.tla.                                *)
(*                                                                         *)
(* Every action is one task of one thread: a port's onmessage, a timer, a  *)
(* call of process() by the audio engine, a call of the application, or    *)
(* the emulator's call of the serial listener.  Blocks are numbered in the *)
(* order process() posts them; block 0 is no block.                        *)
(***************************************************************************)
EXTENDS FrameLink

CONSTANTS
  MaxBlocks,  \* bound: blocks the audio thread posts
  MaxCalls,   \* bounds: setParam and getParam calls of the application
  MaxSets,
  SetValues   \* what it passes to setParam

ASSUME SessionAssumption ==
  /\ MaxBlocks \in Nat /\ MaxCalls \in Nat /\ MaxSets \in Nat
  /\ Blocks = 1 .. MaxBlocks
  /\ SetValues \subseteq Values

VARIABLES
  \* the audio thread
  _ready,         \* the processor has been told the plugin is there
  _pendingOutput, \* the block process() writes next, or 0
  posted,         \* blocks posted so far: the number of the last one
  played,         \* the last block written to the output
  \* the ports' queues and whether they are open
  toWorklet, toMain, portOpen,
  \* the main thread
  loadState,      \* load(): "booting", "polling", "ready"
  paramResolvers, \* per id, the getParam call its resolver belongs to, or 0
  promises,       \* one record per getParam call, in the order of the calls
  \* the emulator
  vm,             \* "running", or "stopped" by dispose
  \* Two auxiliary variables, read by no guard: what setParam last asked for,
  \* and how many setParam calls there were.
  wanted, sets

audioVars == <<_ready, _pendingOutput, posted, played>>
portVars == <<toWorklet, toMain, portOpen>>
paramVars == <<paramResolvers, promises, wanted, sets>>
vars == <<linkVars, audioVars, portVars, loadState, paramVars, vm>>

WorkletMessage == [type : {"ready"}] \cup [type : {"processResp"}, block : Blocks]
MainMessage == [type : {"ready"}] \cup [type : {"process"}, block : Blocks]

\* `shared': the call was made while an earlier one for its id was on the
\* line.  `expect': what setParam had last asked for.  `got': what came.
Promise == [id : ParamIds, state : {"pending", "settled"}, shared : BOOLEAN,
            expect : Values, got : Values]

TypeOK ==
  /\ LinkTypeOK
  /\ _ready \in BOOLEAN
  /\ _pendingOutput \in 0 .. MaxBlocks
  /\ posted \in 0 .. MaxBlocks
  /\ played \in 0 .. MaxBlocks
  /\ toWorklet \in Seq(WorkletMessage)
  /\ toMain \in Seq(MainMessage)
  /\ portOpen \in BOOLEAN
  /\ loadState \in {"booting", "polling", "ready"}
  /\ paramResolvers \in [ParamIds -> 0 .. MaxCalls]
  /\ promises \in Seq(Promise)
  /\ vm \in {"running", "stopped"}
  /\ wanted \in [ParamIds -> Values]
  /\ sets \in 0 .. MaxSets

Init ==
  /\ LinkInit
  /\ _ready = FALSE /\ _pendingOutput = 0 /\ posted = 0 /\ played = 0
  /\ toWorklet = <<>> /\ toMain = <<>> /\ portOpen = TRUE
  /\ loadState = "booting"
  /\ paramResolvers = [i \in ParamIds |-> 0]
  /\ promises = <<>>
  /\ vm = "running"
  /\ wanted = Initial /\ sets = 0

-----------------------------------------------------------------------------
(* The audio thread.                                                       *)

\* Mutant: a message is posted only if the one before has been taken.
PostToMainIfIdle(m) == toMain' = IF portOpen /\ toMain = <<>> THEN <<m>> ELSE toMain

\* A closed port drops what is posted to it.
PostToMain(m) == toMain' = IF portOpen THEN Append(toMain, m) ELSE toMain
PostToWorklet(m) == toWorklet' = IF portOpen THEN Append(toWorklet, m) ELSE toWorklet

\* _onMessage: "ready" is echoed; a reply replaces the one not yet played.
_onMessage ==
  /\ toWorklet # <<>>
  /\ toWorklet' = Tail(toWorklet)
  /\ \/ /\ Head(toWorklet).type = "ready"
        /\ _ready' = TRUE
        /\ PostToMain([type |-> "ready"])
        /\ UNCHANGED _pendingOutput
     \/ /\ Head(toWorklet).type = "processResp"
        /\ _pendingOutput' = Head(toWorklet).block
        /\ UNCHANGED <<_ready, toMain>>
  /\ UNCHANGED <<linkVars, posted, played, portOpen, loadState, paramVars, vm>>

\* Mutants: the pending block is kept; the processor does not wait for "ready".
processKeepsPending ==
  /\ _ready
  /\ posted < MaxBlocks
  /\ posted' = posted + 1
  /\ PostToMain([type |-> "process", block |-> posted'])
  /\ played' = IF _pendingOutput # 0 THEN _pendingOutput ELSE played
  /\ UNCHANGED <<linkVars, _ready, _pendingOutput, toWorklet, portOpen,
                 loadState, paramVars, vm>>

processUnready ==
  /\ posted < MaxBlocks
  /\ posted' = posted + 1
  /\ PostToMain([type |-> "process", block |-> posted'])
  /\ played' = IF _pendingOutput # 0 THEN _pendingOutput ELSE played
  /\ _pendingOutput' = 0
  /\ UNCHANGED <<linkVars, _ready, toWorklet, portOpen, loadState, paramVars, vm>>

\* process: the input block is posted, the pending one is written out.  The
\* processor keeps running after dispose.
process ==
  /\ _ready
  /\ posted < MaxBlocks
  /\ posted' = posted + 1
  /\ PostToMain([type |-> "process", block |-> posted'])
  /\ played' = IF _pendingOutput # 0 THEN _pendingOutput ELSE played
  /\ _pendingOutput' = 0
  /\ UNCHANGED <<linkVars, _ready, toWorklet, portOpen, loadState, paramVars, vm>>

-----------------------------------------------------------------------------
(* The main thread.                                                        *)

EmulatorReady ==
  /\ loadState = "booting"
  /\ loadState' = "polling"
  /\ Send(LoadRequest)
  /\ UNCHANGED <<audioVars, portVars, paramVars, vm>>

\* The timer of #startV86 finds a byte in rxBuf, and load() returns.
Poll ==
  /\ loadState = "polling"
  /\ partial
  /\ loadState' = "ready"
  /\ PostToWorklet([type |-> "ready"])
  /\ UNCHANGED <<linkVars, audioVars, toMain, portOpen, paramVars, vm>>

\* Mutant: every message is forwarded.
onWorkletMessageForwardsAll ==
  /\ toMain # <<>>
  /\ toMain' = Tail(toMain)
  /\ Send(Head(toMain))
  /\ UNCHANGED <<audioVars, toWorklet, portOpen, loadState, paramVars, vm>>

\* #onWorkletMessage: a block goes to the guest, the echo of "ready" nowhere.
onWorkletMessage ==
  /\ toMain # <<>>
  /\ toMain' = Tail(toMain)
  /\ IF Head(toMain).type = "process"
     THEN Send([type |-> "process", block |-> Head(toMain).block])
     ELSE UNCHANGED linkVars
  /\ UNCHANGED <<audioVars, toWorklet, portOpen, loadState, paramVars, vm>>

\* The application has the object only once load() has returned; nothing
\* keeps it from calling these after dispose.
setParam(id, value) ==
  /\ loadState = "ready"
  /\ sets < MaxSets
  /\ sets' = sets + 1
  /\ wanted' = [wanted EXCEPT ![id] = ToFloat[value]]
  /\ Send([type |-> "setParam", id |-> id, value |-> value])
  /\ UNCHANGED <<audioVars, portVars, loadState, paramResolvers, promises, vm>>

\* A getParam call for the id waits for the guest, or its answer for the page.
Asked(q, type, id) == \E i \in 1 .. Len(q) : q[i].type = type /\ q[i].id = id
OnLine(id) == Asked(requests, "getParam", id) \/ Asked(replies, "getParamResp", id)

\* The resolver of an earlier call for the same id is overwritten.
getParam(id) ==
  /\ loadState = "ready"
  /\ Len(promises) < MaxCalls
  /\ promises' = Append(promises,
       [id |-> id, state |-> "pending", shared |-> OnLine(id),
        expect |-> wanted[id], got |-> Initial[id]])
  /\ paramResolvers' = [paramResolvers EXCEPT ![id] = Len(promises) + 1]
  /\ Send([type |-> "getParam", id |-> id])
  /\ UNCHANGED <<audioVars, portVars, loadState, wanted, sets, vm>>

\* The port is closed and the emulator stopped.  Whether messages already
\* queued for the page are still delivered is up to the browser.  #v86 stays
\* set, so later frames are written to a line nobody reads; resolvers stay.
dispose ==
  /\ loadState = "ready"
  /\ vm = "running"
  /\ vm' = "stopped"
  /\ portOpen' = FALSE
  /\ toMain' \in {<<>>, toMain}
  /\ UNCHANGED <<linkVars, audioVars, toWorklet, loadState, paramVars>>

-----------------------------------------------------------------------------
(* The emulator: the guest's steps, and its calls of the serial listener.  *)

Guest ==
  /\ vm = "running"
  /\ HostStep
  /\ UNCHANGED <<audioVars, portVars, loadState, paramVars, vm>>

ListenerBegins ==
  /\ vm = "running"
  /\ ReplyBegins
  /\ UNCHANGED <<audioVars, portVars, loadState, paramVars, vm>>

Settled(call, value) == [id |-> call.id, state |-> "settled", shared |-> call.shared,
                         expect |-> call.expect, got |-> value]

\* Mutants: the resolver is called but kept; it is forgotten before the call.
ResolveParamKeeps(id, value) ==
  LET p == paramResolvers[id]
  IN  /\ promises' = IF p = 0 THEN promises
                     ELSE [promises EXCEPT ![p] = Settled(promises[p], value)]
      /\ UNCHANGED paramResolvers

ResolveParamForgets(id, value) ==
  /\ paramResolvers' = [paramResolvers EXCEPT ![id] = 0]
  /\ UNCHANGED promises

\* The resolver registered for the id, if any, is called and forgotten.
ResolveParam(id, value) ==
  LET p == paramResolvers[id]
  IN  /\ promises' = IF p = 0 THEN promises
                     ELSE [promises EXCEPT ![p] = Settled(promises[p], value)]
      /\ paramResolvers' = [paramResolvers EXCEPT ![id] = 0]

\* #drainAndDispatch with the last byte of a frame: audio goes to the worklet,
\* a value to the resolver of its id, an entry to the log.
drainAndDispatch ==
  /\ vm = "running"
  /\ DispatchReply
  /\ LET r == Head(replies)
     IN  \/ /\ r.type = "processResp"
            /\ PostToWorklet([type |-> "processResp", block |-> r.block])
            /\ UNCHANGED <<paramResolvers, promises>>
         \/ /\ r.type = "getParamResp"
            /\ ResolveParam(r.id, r.value)
            /\ UNCHANGED toWorklet
         \/ /\ r.type = "log"
            /\ UNCHANGED <<paramResolvers, promises, toWorklet>>
  /\ UNCHANGED <<audioVars, toMain, portOpen, loadState, wanted, sets, vm>>

Next ==
  \/ _onMessage \/ process
  \/ EmulatorReady \/ Poll \/ onWorkletMessage
  \/ \E id \in ParamIds, v \in SetValues : setParam(id, v)
  \/ \E id \in ParamIds : getParam(id)
  \/ dispose
  \/ Guest \/ ListenerBegins \/ drainAndDispatch

Spec == Init /\ [][Next]_vars

\* Threads empty their message queues, the emulator runs the guest and hands
\* over its output.  The timer is not fair to a byte it may find gone, and
\* nothing makes the application call or the audio engine run.
FairSpec ==
  /\ Spec
  /\ WF_vars(_onMessage) /\ WF_vars(onWorkletMessage) /\ WF_vars(EmulatorReady)
  /\ WF_vars(Guest) /\ WF_vars(ListenerBegins) /\ WF_vars(drainAndDispatch)
-----------------------------------------------------------------------------
(* What makes the session correct.                                         *)

\* The blocks in the messages of one type of a queue.
BlocksIn(q, type) == {q[i].block : i \in {j \in 1 .. Len(q) : q[j].type = type}}

\* The four stages between the worklet's post and its _pendingOutput.
MainBlocks == BlocksIn(toMain, "process")
DownBlocks == BlocksIn(requests, "process")
UpBlocks == BlocksIn(replies, "processResp")
BackBlocks == BlocksIn(toWorklet, "processResp")

InFlight == MainBlocks \cup DownBlocks \cup UpBlocks \cup BackBlocks

\* Block n has come back: it is pending or played, or a newer one is.
Returned(n) == n <= played \/ n <= _pendingOutput

\* The guest's first frame is LOAD (anything else ends main with an exception),
\* although LOAD, parameters and audio are written by three different tasks.
LoadFirst == host = "starting" => requests \in {<<>>, <<LoadRequest>>}

\* The output is the input's blocks in order, each at most once, and never one
\* not posted before this call of process(): no queue between the threads
\* reorders or repeats a block, whatever was overwritten in _pendingOutput.
PlaysInOrder ==
  [][posted' # posted /\ _pendingOutput # 0
       => played < played' /\ played' <= posted]_vars

\* Until dispose, a block that is not on its way has come back: the only way
\* to lose one is that a newer reply replaces it in _pendingOutput.
NoBlockLost == portOpen => \A n \in 1 .. posted : n \in InFlight \/ Returned(n)

\* A registered resolver is never orphaned: the request for its id, or the
\* reply, is still on the line (#paramResolvers forgets a resolver as soon as
\* one reply for the id has come, whichever call that reply answers).
ResolverHasAnswer == \A id \in ParamIds : paramResolvers[id] # 0 => OnLine(id)

\* A call that was alone on the line for its id gets what setParam last asked
\* for before it, as the float the plugin keeps, however many setParam calls
\* and blocks follow it.
ReadYourWrites ==
  \A p \in 1 .. Len(promises) :
    promises[p].state = "settled" /\ ~promises[p].shared
      => promises[p].got = promises[p].expect

Superseded(p) == \E q \in p + 1 .. Len(promises) : promises[q].id = promises[p].id

\* getParam's promise settles, unless a later call for the id took its place
\* in #paramResolvers or the plugin is disposed of.
GetParamSettles ==
  \A p \in 1 .. MaxCalls :
    p \in 1 .. Len(promises) ~>
      \/ p \in 1 .. Len(promises) /\ (promises[p].state = "settled" \/ Superseded(p))
      \/ vm = "stopped"

\* Every posted block comes back, unless the plugin is disposed of.
BlockReturns ==
  \A n \in 1 .. MaxBlocks : n <= posted ~> Returned(n) \/ vm = "stopped"

-----------------------------------------------------------------------------
(* The inductive invariant behind TypeOK, LoadFirst, NoBlockLost,          *)
(* PlaysInOrder, ResolverHasAnswer and ReadYourWrites.                     *)

Ascending(q, type) ==
  \A i, j \in 1 .. Len(q) :
    i < j /\ q[i].type = type /\ q[j].type = type => q[i].block < q[j].block

Below(S, T) == \A a \in S, b \in T : a < b

\* What DispatchReply and ResolveParam need to be well defined.
DrainInv ==
  /\ partial => replies # <<>>
  /\ \A id \in ParamIds : paramResolvers[id] <= Len(promises)

\* Until the host has read LOAD, nothing but LOAD is anywhere.
LoadInv ==
  host = "starting" =>
    /\ requests = IF loadState = "booting" THEN <<>> ELSE <<LoadRequest>>
    /\ replies = <<>> /\ ~partial
    /\ loadState # "ready" /\ ~_ready
    /\ toWorklet = <<>> /\ toMain = <<>>

\* Round the pipeline from the output back to the input the numbers ascend:
\* within each queue, from one queue to the next, and at both ends.
QueuesAscend ==
  /\ Ascending(toMain, "process") /\ Ascending(requests, "process")
  /\ Ascending(replies, "processResp") /\ Ascending(toWorklet, "processResp")

StagesAscend ==
  /\ Below(BackBlocks, UpBlocks) /\ Below(BackBlocks, DownBlocks)
  /\ Below(BackBlocks, MainBlocks) /\ Below(UpBlocks, DownBlocks)
  /\ Below(UpBlocks, MainBlocks) /\ Below(DownBlocks, MainBlocks)

EndsAscend ==
  /\ \A n \in InFlight : played < n /\ _pendingOutput < n /\ n <= posted
  /\ played <= posted /\ _pendingOutput <= posted
  /\ _pendingOutput # 0 => played < _pendingOutput

OrderInv == QueuesAscend /\ StagesAscend /\ EndsAscend

\* The setParam frames for the id before place k of a queue of frames.
SetsBefore(q, k, id) ==
  {j \in 1 .. Len(q) : j < k /\ q[j].type = "setParam" /\ q[j].id = id}

\* A question for the id at place k of the queue q would be answered with v, if
\* the plugin's value is `now' before the host takes the queue's first frame.
Reads(q, now, k, id, v) ==
  \/ SetsBefore(q, k, id) = {} /\ v = now
  \/ \E j \in SetsBefore(q, k, id) :
       /\ \A l \in SetsBefore(q, k, id) : l <= j
       /\ v = ToFloat[q[j].value]

\* Where the line ends the plugin will have what setParam last asked for; and as
\* long as its resolver is registered, whatever is on the line for the id of a
\* call that was alone on it answers that call.
ReadInv ==
  \A id \in ParamIds :
    /\ Reads(requests, params[id], Len(requests) + 1, id, wanted[id])
    /\ paramResolvers[id] # 0 /\ ~promises[paramResolvers[id]].shared =>
         LET expect == promises[paramResolvers[id]].expect
         IN /\ \A k \in 1 .. Len(requests) :
                 requests[k].type = "getParam" /\ requests[k].id = id
                   => Reads(requests, params[id], k, id, expect)
            /\ \A k \in 1 .. Len(replies) :
                 replies[k].type = "getParamResp" /\ replies[k].id = id
                   => replies[k].value = expect

IInv == TypeOK /\ DrainInv /\ LoadInv /\ OrderInv /\ NoBlockLost /\ ResolverHasAnswer
          /\ ReadInv /\ ReadYourWrites
=============================================================================

---------------------------- MODULE Vst3Process ----------------------------
(***************************************************************************)
(* IAudioProcessor::process() through the VST3 bridge (src/common/          *)
(* serialization/vst3/process-data.cpp, event-list.cpp, parameter-          *)
(* changes.cpp, param-value-queue.cpp).  The plugin's half keeps one        *)
(* YaProcessData and the Wine half another; both are filled again in every  *)
(* cycle, and audio goes through a buffer both have mapped.                 *)
(*                                                                         *)
(* A channel holds one value, and `mode' stands for the process mode, the   *)
(* sample size and the number of samples.  Null is a null pointer or an     *)
(* empty optional.                                                         *)
(***************************************************************************)
EXTENDS Integers, Sequences, SequencesExt

CONSTANTS
  HostData,      \* what a host may pass to process()
  PluginOutput,  \* what a plugin may do in it
  InChannels,    \* channels the buffer has for each input bus
  OutChannels,   \* and for each output bus
  MaxCycles,     \* bound
  Null, Default  \* Default: what a payload nothing was read into holds

VARIABLES
  phase,    \* where the call is
  cycle,    \* calls made
  data,     \* the host's ProcessData
  native,   \* YaProcessData of the plugin's half
  wine,     \* YaProcessData of the Wine half
  shm,      \* the buffer: value per direction, bus and channel
  seen,     \* what the plugin is given
  gave,     \* what the plugin did
  got       \* what the host's output objects hold afterwards

vst3Vars == <<phase, cycle, data, native, wine, shm, seen, gave, got>>

Smaller(a, b) == IF a < b THEN a ELSE b

IsSeq(s) == s \in Seq({s[i] : i \in DOMAIN s})

YaProcessData ==
  [mode |-> 0, inputs |-> <<>>, outputs |-> <<>>, in_params |-> <<>>, out_params |-> Null,
   in_events |-> Null, out_events |-> Null, context |-> Null]

Init ==
  /\ phase = "idle" /\ cycle = 0
  /\ data = Null /\ seen = Null /\ gave = Null /\ got = Null
  /\ native = YaProcessData /\ wine = YaProcessData
  /\ shm = [in |-> [b \in DOMAIN InChannels |-> [c \in 1..InChannels[b] |-> 0]],
            out |-> [b \in DOMAIN OutChannels |-> [c \in 1..OutChannels[b] |-> 0]]]
-----------------------------------------------------------------------------
(* Events.                                                                 *)

\* Event types YaEvent has an alternative for.
KnownEvents == {"noteOn", "noteOff", "data", "polyPressure", "noteExpressionValue",
                "noteExpressionText", "chord", "scale", "midiCCOut"}

\* YaEvent(event): the payload of a type it does not know stays the variant's
\* first alternative, a note-on event of zeros.
YaEvent(e) ==
  IF e.type \in KnownEvents THEN e ELSE [type |-> "noteOn", payload |-> Default]

\* YaEventList::repopulate() and addEvent(): events in order.
YaEventList(events) == [i \in DOMAIN events |-> YaEvent(events[i])]

\* YaParameterChanges::addParameterData(): always a queue at the end, cleared for
\* the parameter; addPoint() appends to it.
AddQueues(queues, added) == queues \o added

\* IParameterChanges of the host: addParameterData() returns the queue a
\* parameter already has.
HostAdds(queues, q) ==
  IF \E i \in DOMAIN queues : queues[i].id = q.id
  THEN [i \in DOMAIN queues |->
          IF queues[i].id = q.id THEN [queues[i] EXCEPT !.points = @ \o q.points] ELSE queues[i]]
  ELSE Append(queues, q)

\* YaParameterChanges::write_back_outputs(): to a list of the host, which was empty,
\* every queue is added in turn.
HostQueues(added) ==
  LET queues[n \in 0 .. Len(added)] ==
        IF n = 0 THEN <<>> ELSE HostAdds(queues[n - 1], added[n])
  IN  queues[Len(added)]
-----------------------------------------------------------------------------
\* What hosts and plugins pass: lists, none of which is a null pointer, and no bus
\* but those the plugin has announced.
IsProcessData(pd) ==
  /\ DOMAIN pd.inputs \subseteq DOMAIN InChannels
  /\ \A b \in DOMAIN pd.inputs : IsSeq(pd.inputs[b].audio)
  /\ DOMAIN pd.outputs \subseteq DOMAIN OutChannels
  /\ \A b \in DOMAIN pd.outputs : pd.outputs[b].channels \in Nat
  /\ pd.in_events # Null => YaEventList(pd.in_events) # Null
  /\ pd.out_params \in BOOLEAN /\ pd.out_events \in BOOLEAN

IsOutput(o) ==
  /\ IsSeq(o.params) /\ o.params # Null
  /\ \A i \in DOMAIN o.params :
       /\ o.params[i] = [id |-> o.params[i].id, points |-> o.params[i].points]
       /\ IsSeq(o.params[i].points)
  /\ IsSeq(o.events) /\ YaEventList(o.events) # Null

DataAssumption ==
  /\ \A b \in DOMAIN InChannels : InChannels[b] \in Nat
  /\ \A b \in DOMAIN OutChannels : OutChannels[b] \in Nat
  /\ \A pd \in HostData : IsProcessData(pd)
  /\ \A o \in PluginOutput : IsOutput(o)
  /\ Null # <<>>
-----------------------------------------------------------------------------
\* YaProcessData::repopulate() into the object of the last cycle: an output list
\* that is there stays as it is, with what it holds.
Repopulate(old, pd) ==
  [mode |-> pd.mode,
   inputs |-> [b \in DOMAIN pd.inputs |->
                 [channels |-> Smaller(InChannels[b], Len(pd.inputs[b].audio)),
                  silence |-> pd.inputs[b].silence]],
   outputs |-> [b \in DOMAIN pd.outputs |->
                  [channels |-> Smaller(OutChannels[b], pd.outputs[b].channels),
                   silence |-> pd.outputs[b].silence]],
   in_params |-> IF pd.in_params = Null THEN <<>> ELSE pd.in_params,
   out_params |-> IF ~pd.out_params THEN Null
                  ELSE IF old.out_params = Null THEN <<>> ELSE old.out_params,
   in_events |-> IF pd.in_events = Null THEN Null ELSE YaEventList(pd.in_events),
   out_events |-> IF ~pd.out_events THEN Null
                  ELSE IF old.out_events = Null THEN <<>> ELSE old.out_events,
   context |-> pd.context]

\* The host calls process(): the object is filled and the input copied, capped at
\* the channels the plugin asked for.
Process(pd) ==
  /\ phase \in {"idle", "returned"} /\ cycle < MaxCycles
  /\ cycle' = cycle + 1
  /\ data' = pd
  /\ native' = Repopulate(native, pd)
  /\ shm' = [shm EXCEPT !.in = [b \in DOMAIN @ |-> [c \in DOMAIN @[b] |->
       IF b \in DOMAIN pd.inputs /\ c <= native'.inputs[b].channels
       THEN pd.inputs[b].audio[c] ELSE @[b][c]]]]
  /\ phase' = "sent"
  /\ UNCHANGED <<wine, seen, gave, got>>

\* Mutant: the lists the plugin adds to are not emptied.
ReconstructStale(object) == object

\* YaProcessData::reconstruct() empties the lists the plugin adds to.
Reconstruct(object) ==
  [object EXCEPT !.out_params = IF @ = Null THEN Null ELSE <<>>,
                 !.out_events = IF @ = Null THEN Null ELSE <<>>]

\* The Wine half reads the object (every field is sent, an optional that is
\* empty empties the one read into), and points the buses at the buffer.
Receive ==
  /\ phase = "sent"
  /\ wine' = Reconstruct(native)
  /\ seen' = [object |-> wine',
              audio |-> [b \in DOMAIN wine'.inputs |->
                           SubSeq(shm.in[b], 1, wine'.inputs[b].channels)]]
  /\ phase' = "processing"
  /\ UNCHANGED <<cycle, data, native, shm, gave, got>>

\* Silence flags the plugin leaves alone are the host's.
Silence(o, bus) == IF o.silence = Null THEN bus.silence ELSE o.silence

\* The plugin processes: it fills the channels it was given and adds to the
\* lists it was given.
PluginProcesses(o) ==
  /\ phase = "processing"
  /\ gave' = [audio |-> [b \in DOMAIN wine.outputs |->
                           [c \in 1..wine.outputs[b].channels |-> <<cycle, b, c>>]],
              silence |-> [b \in DOMAIN wine.outputs |-> Silence(o, wine.outputs[b])],
              params |-> IF wine.out_params = Null THEN <<>> ELSE o.params,
              events |-> IF wine.out_events = Null THEN <<>> ELSE o.events]
  /\ wine' = [wine EXCEPT
       !.outputs = [b \in DOMAIN wine.outputs |->
                      [wine.outputs[b] EXCEPT !.silence = Silence(o, wine.outputs[b])]],
       !.out_params = IF @ = Null THEN Null ELSE AddQueues(@, o.params),
       !.out_events = IF @ = Null THEN Null ELSE @ \o YaEventList(o.events)]
  /\ shm' = [shm EXCEPT !.out = [b \in DOMAIN @ |-> [c \in DOMAIN @[b] |->
       IF b \in DOMAIN wine.outputs /\ c <= wine.outputs[b].channels
       THEN <<cycle, b, c>> ELSE @[b][c]]]]
  /\ phase' = "responding"
  /\ UNCHANGED <<cycle, data, native, seen, got>>

\* The response is read into the very fields of the plugin half's object that
\* create_response() points at.
Respond ==
  /\ phase = "responding"
  /\ native' = [native EXCEPT !.outputs = wine.outputs, !.out_params = wine.out_params,
                              !.out_events = wine.out_events]
  /\ phase' = "writing"
  /\ UNCHANGED <<cycle, data, wine, shm, seen, gave, got>>

\* Mutant: output events go to hosts that ask for output parameters.
WriteBackOutputsCrossed(object, pd) ==
  [audio |-> [b \in DOMAIN pd.outputs |-> SubSeq(shm.out[b], 1, object.outputs[b].channels)],
   silence |-> [b \in DOMAIN pd.outputs |-> object.outputs[b].silence],
   params |-> IF object.out_params # Null /\ pd.out_params
              THEN HostQueues(object.out_params) ELSE <<>>,
   events |-> IF object.out_events # Null /\ pd.out_params THEN object.out_events ELSE <<>>]

\* YaProcessData::write_back_outputs().
WriteBackOutputs(object, pd) ==
  [audio |-> [b \in DOMAIN pd.outputs |-> SubSeq(shm.out[b], 1, object.outputs[b].channels)],
   silence |-> [b \in DOMAIN pd.outputs |-> object.outputs[b].silence],
   params |-> IF object.out_params # Null /\ pd.out_params
              THEN HostQueues(object.out_params) ELSE <<>>,
   events |-> IF object.out_events # Null /\ pd.out_events THEN object.out_events ELSE <<>>]

WriteBack ==
  /\ phase = "writing"
  /\ got' = WriteBackOutputs(native, data)
  /\ phase' = "returned"
  /\ UNCHANGED <<cycle, data, native, wine, shm, seen, gave>>

Next ==
  \/ \E pd \in HostData : Process(pd)
  \/ Receive
  \/ \E o \in PluginOutput : PluginProcesses(o)
  \/ Respond
  \/ WriteBack

Spec == Init /\ [][Next]_vst3Vars
-----------------------------------------------------------------------------
\* Each event is in its place, but one of a type the bridge does not know is a
\* note-on event of zeros.
EventsInPlace(received, sent) ==
  /\ DOMAIN received = DOMAIN sent
  /\ \A i \in DOMAIN sent :
       IF sent[i].type \in KnownEvents THEN received[i] = sent[i]
       ELSE received[i] = [type |-> "noteOn", payload |-> Default]

\* The plugin is given this cycle's sample size, audio, silence flags, parameter
\* changes, events and context, lists to add to exactly where the host has them,
\* empty ones, and nothing of an earlier cycle (process-data.h:60-72, objects that
\* are kept and filled again).
PluginSeesThisCycle ==
  phase = "processing" =>
    /\ seen.object.mode = data.mode
    /\ \A b \in DOMAIN data.inputs : seen.object.inputs[b].silence = data.inputs[b].silence
    /\ \A b \in DOMAIN data.outputs : seen.object.outputs[b].silence = data.outputs[b].silence
    /\ \A b \in DOMAIN data.inputs :
         seen.audio[b] = SubSeq(data.inputs[b].audio, 1,
                                Smaller(InChannels[b], Len(data.inputs[b].audio)))
    /\ DOMAIN seen.audio = DOMAIN data.inputs
    /\ DOMAIN seen.object.outputs = DOMAIN data.outputs
    /\ seen.object.in_params = IF data.in_params = Null THEN <<>> ELSE data.in_params
    /\ IF data.in_events = Null THEN seen.object.in_events = Null
       ELSE EventsInPlace(seen.object.in_events, data.in_events)
    /\ seen.object.out_params = IF data.out_params THEN <<>> ELSE Null
    /\ seen.object.out_events = IF data.out_events THEN <<>> ELSE Null
    /\ seen.object.context = data.context

\* All points a parameter has, in order.
PointsOf(id, queues) ==
  FlattenSeq([i \in DOMAIN queues |-> IF queues[i].id = id THEN queues[i].points ELSE <<>>])

\* `queues' has one queue for each parameter of `added', with all of its points.
Gathered(queues, added) ==
  /\ {queues[j].id : j \in DOMAIN queues} = {added[i].id : i \in DOMAIN added}
  /\ \A j \in DOMAIN queues : queues[j].points = PointsOf(queues[j].id, added)
  /\ \A i, j \in DOMAIN queues : queues[i].id = queues[j].id => i = j

\* The host gets what the plugin put out in this cycle, once and in order, in the
\* lists it has: the audio of the channels both have, silence flags, the points of
\* each parameter however many queues the plugin made for it, and the events.
HostGetsThisCycle ==
  phase = "returned" =>
    /\ got.audio = gave.audio /\ got.silence = gave.silence
    /\ Gathered(got.params, gave.params)
    /\ EventsInPlace(got.events, gave.events)
=============================================================================

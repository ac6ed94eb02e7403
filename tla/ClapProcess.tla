---------------------------- MODULE ClapProcess ----------------------------
(***************************************************************************)
(* clap_plugin::process() through the CLAP bridge (src/common/             *)
(* serialization/clap/process.cpp, events.cpp).  As in Vst3Process.tla the *)
(* plugin's half keeps one object and the Wine half another, filled again  *)
(* in every cycle.  Each port may carry 32-bit or 64-bit audio, in every   *)
(* cycle anew; its latency goes the way of its constant_mask.              *)
(***************************************************************************)
EXTENDS Integers, Sequences, SequencesExt

CONSTANTS
  HostData,      \* what a host may pass to process()
  PluginOutput,  \* what a plugin may do in it
  InChannels,    \* channels the buffer has for each input port
  OutChannels,   \* and for each output port
  MaxCycles,     \* bound
  Null

VARIABLES phase, cycle, data, native, wine, shm, seen, gave, got

clapVars == <<phase, cycle, data, native, wine, shm, seen, gave, got>>

Smaller(a, b) == IF a < b THEN a ELSE b

IsSeq(s) == s \in Seq({s[i] : i \in DOMAIN s})

Process == [inputs |-> <<>>, outputs |-> <<>>, in_events |-> <<>>, out_events |-> <<>>,
            transport |-> Null]

Init ==
  /\ phase = "idle" /\ cycle = 0
  /\ data = Null /\ seen = Null /\ gave = Null /\ got = Null
  /\ native = Process /\ wine = Process
  /\ shm = [in |-> [p \in DOMAIN InChannels |-> [c \in 1..InChannels[p] |-> 0]],
            out |-> [p \in DOMAIN OutChannels |-> [c \in 1..OutChannels[p] |-> 0]]]
-----------------------------------------------------------------------------
\* The types Event::parse() has a case for.
CoreEvents == {"note", "noteExpression", "paramValue", "paramMod", "paramGesture",
               "transport", "midi", "sysex", "midi2"}

\* Event::parse() of a SysEx event fills a variable of that case and not the one
\* that is returned.
Parsed == CoreEvents \ {"sysex"}

\* EventList::repopulate() and out_try_push() drop what was not parsed.
EventList(events) ==
  FlattenSeq([i \in DOMAIN events |->
                IF events[i].type \in Parsed THEN <<events[i]>> ELSE <<>>])

\* What hosts and plugins pass: lists, no port but those the plugin has announced,
\* and a type for each port that has channels.
SampleTypes == {"Float32", "Double64"}

IsProcess(pd) ==
  /\ DOMAIN pd.inputs \subseteq DOMAIN InChannels
  /\ \A p \in DOMAIN pd.inputs :
       /\ IsSeq(pd.inputs[p].audio)
       /\ pd.inputs[p].audio # <<>> => pd.inputs[p].type \in SampleTypes
  /\ DOMAIN pd.outputs \subseteq DOMAIN OutChannels
  /\ \A p \in DOMAIN pd.outputs :
       /\ pd.outputs[p].channels \in Nat
       /\ pd.outputs[p].channels > 0 => pd.outputs[p].type \in SampleTypes

DataAssumption ==
  /\ \A p \in DOMAIN InChannels : InChannels[p] \in Nat
  /\ \A p \in DOMAIN OutChannels : OutChannels[p] \in Nat
  /\ \A pd \in HostData : IsProcess(pd)
  /\ \A o \in PluginOutput : IsSeq(o.events)
  /\ Null \notin SampleTypes
-----------------------------------------------------------------------------
\* A port keeps the type it had if the host sets neither pointer, which it may if
\* the port has no channels.
PortType(old, p, port) ==
  IF port.type # Null THEN port.type
  ELSE IF p \in DOMAIN old THEN old[p].type ELSE "Float32"

\* Process::repopulate().
Repopulate(old, pd) ==
  [inputs |-> [p \in DOMAIN pd.inputs |->
                 [channels |-> Smaller(InChannels[p], Len(pd.inputs[p].audio)),
                  type |-> PortType(old.inputs, p, pd.inputs[p]),
                  mask |-> pd.inputs[p].mask]],
   outputs |-> [p \in DOMAIN pd.outputs |->
                  [channels |-> Smaller(OutChannels[p], pd.outputs[p].channels),
                   type |-> PortType(old.outputs, p, pd.outputs[p]),
                   mask |-> pd.outputs[p].mask]],
   in_events |-> EventList(pd.in_events),
   out_events |-> old.out_events,
   transport |-> pd.transport]

\* The input is copied for as many channels as the host has; the place of one the
\* buffer does not have is read from beyond the table of offsets.
ExtraChannels(pd) ==
  \E p \in DOMAIN pd.inputs : Len(pd.inputs[p].audio) > InChannels[p]

CopyInputs(pd) ==
  [p \in DOMAIN shm.in |-> [c \in DOMAIN shm.in[p] |->
     IF p \in DOMAIN pd.inputs /\ c <= Len(pd.inputs[p].audio)
     THEN pd.inputs[p].audio[c] ELSE shm.in[p][c]]]

ProcessCall(pd) ==
  /\ phase \in {"idle", "returned"} /\ cycle < MaxCycles
  /\ cycle' = cycle + 1
  /\ data' = pd
  /\ native' = Repopulate(native, pd)
  /\ \/ shm' = [shm EXCEPT !.in = CopyInputs(pd)]
     \/ /\ ExtraChannels(pd)
        /\ \E p \in DOMAIN shm.in : \E c \in DOMAIN shm.in[p] :
             shm' = [shm EXCEPT !.in = [CopyInputs(pd) EXCEPT ![p][c] = "overwritten"]]
  /\ phase' = "sent"
  /\ UNCHANGED <<wine, seen, gave, got>>

\* Mutant: the pointers of the last cycle are still set.
ReadPortKeeps(old, p, port) ==
  [channels |-> port.channels, type |-> port.type, mask |-> port.mask,
   data32 |-> p \in DOMAIN old /\ old[p].data32, data64 |-> p \in DOMAIN old /\ old[p].data64]

\* Reading a port sets its pointers to null.
ReadPort(old, p, port) ==
  [channels |-> port.channels, type |-> port.type, mask |-> port.mask,
   data32 |-> FALSE, data64 |-> FALSE]

\* Process::reconstruct(): one pointer per port is set to the buffer, by its type.
PointPorts(old, ports) ==
  [p \in DOMAIN ports |->
     LET read == ReadPort(old, p, ports[p])
     IN IF read.type = "Double64" THEN [read EXCEPT !.data64 = TRUE]
        ELSE [read EXCEPT !.data32 = TRUE]]

\* The output events are not sent to the Wine half, whose own are emptied.
Receive ==
  /\ phase = "sent"
  /\ wine' = [inputs |-> PointPorts(wine.inputs, native.inputs),
              outputs |-> PointPorts(wine.outputs, native.outputs),
              in_events |-> native.in_events, out_events |-> <<>>,
              transport |-> native.transport]
  /\ seen' = [object |-> wine',
              audio |-> [p \in DOMAIN wine'.inputs |->
                           SubSeq(shm.in[p], 1, wine'.inputs[p].channels)]]
  /\ phase' = "processing"
  /\ UNCHANGED <<cycle, data, native, shm, gave, got>>

\* A mask the plugin leaves alone is the host's.
Mask(o, port) == IF o.mask = Null THEN port.mask ELSE o.mask

\* The plugin fills the channels it was given and pushes events; it is told that
\* each was taken, of whatever type it is.
PluginProcesses(o) ==
  /\ phase = "processing"
  /\ gave' = [audio |-> [p \in DOMAIN wine.outputs |->
                           [c \in 1..wine.outputs[p].channels |-> <<cycle, p, c>>]],
              mask |-> [p \in DOMAIN wine.outputs |-> Mask(o, wine.outputs[p])],
              events |-> o.events]
  /\ wine' = [wine EXCEPT
       !.outputs = [p \in DOMAIN wine.outputs |->
                      [wine.outputs[p] EXCEPT !.mask = Mask(o, wine.outputs[p])]],
       !.out_events = @ \o EventList(o.events)]
  /\ shm' = [shm EXCEPT !.out = [p \in DOMAIN @ |-> [c \in DOMAIN @[p] |->
       IF p \in DOMAIN wine.outputs /\ c <= wine.outputs[p].channels
       THEN <<cycle, p, c>> ELSE @[p][c]]]]
  /\ phase' = "responding"
  /\ UNCHANGED <<cycle, data, native, seen, got>>

\* Mutant: the events read are added to those of the last cycle.
RespondAppends ==
  /\ phase = "responding"
  /\ native' = [native EXCEPT
       !.outputs = [p \in DOMAIN wine.outputs |-> [@[p] EXCEPT !.mask = wine.outputs[p].mask]],
       !.out_events = @ \o wine.out_events]
  /\ phase' = "writing"
  /\ UNCHANGED <<cycle, data, wine, shm, seen, gave, got>>

\* The response is read into the fields create_response() points at, but for the
\* types, which the plugin's half has kept.
Respond ==
  /\ phase = "responding"
  /\ native' = [native EXCEPT
       !.outputs = [p \in DOMAIN wine.outputs |-> [@[p] EXCEPT !.mask = wine.outputs[p].mask]],
       !.out_events = wine.out_events]
  /\ phase' = "writing"
  /\ UNCHANGED <<cycle, data, wine, shm, seen, gave, got>>

\* Process::write_back_outputs().
WriteBack ==
  /\ phase = "writing"
  /\ got' = [audio |-> [p \in DOMAIN data.outputs |->
                          SubSeq(shm.out[p], 1, native.outputs[p].channels)],
             type |-> [p \in DOMAIN data.outputs |-> native.outputs[p].type],
             mask |-> [p \in DOMAIN data.outputs |-> native.outputs[p].mask],
             events |-> native.out_events]
  /\ phase' = "returned"
  /\ UNCHANGED <<cycle, data, native, wine, shm, seen, gave>>

Next ==
  \/ \E pd \in HostData : ProcessCall(pd)
  \/ Receive
  \/ \E o \in PluginOutput : PluginProcesses(o)
  \/ Respond
  \/ WriteBack

Spec == Init /\ [][Next]_clapVars
-----------------------------------------------------------------------------
\* What the plugin sees of a port: the host's mask and, if it has channels, audio of
\* one width, the host's.
PortsAsGiven(given, ports, channels) ==
  /\ DOMAIN ports = DOMAIN given
  /\ \A p \in DOMAIN given : ports[p].mask = given[p].mask
  /\ \A p \in DOMAIN given : channels[p] > 0 =>
       /\ ports[p].data32 = (given[p].type = "Float32")
       /\ ports[p].data64 = (given[p].type = "Double64")

InputChannels == [p \in DOMAIN data.inputs |-> Len(data.inputs[p].audio)]
OutputChannels == [p \in DOMAIN data.outputs |-> data.outputs[p].channels]

\* The plugin is given this cycle's audio in the width the host chose for each
\* port, events and transport, an empty list to push to, and nothing of an earlier
\* cycle.  The audio only if the host has no more channels than the plugin: it is
\* overwritten otherwise.  Of the events those of the types parse() returns, which
\* should be but is not every type there is a payload for.
PluginSeesThisCycle ==
  phase = "processing" =>
    /\ ~ExtraChannels(data) =>
         seen.audio = [p \in DOMAIN data.inputs |-> data.inputs[p].audio]
    /\ PortsAsGiven(data.inputs, seen.object.inputs, InputChannels)
    /\ PortsAsGiven(data.outputs, seen.object.outputs, OutputChannels)
    /\ seen.object.in_events = EventList(data.in_events)
    /\ seen.object.out_events = <<>>
    /\ seen.object.transport = data.transport

\* The host gets what the plugin put out in this cycle, once, in order and in the
\* width of its own buffers.
HostGetsThisCycle ==
  phase = "returned" =>
    /\ got.audio = gave.audio /\ got.mask = gave.mask
    /\ \A p \in DOMAIN data.outputs :
         data.outputs[p].channels > 0 => got.type[p] = data.outputs[p].type
    /\ got.events = EventList(gave.events)
=============================================================================

--------------------------- MODULE MCProcessCycle ---------------------------
(* Stereo plugins; hosts with no bus, fewer and more channels than that.    *)
EXTENDS ProcessCycle, Naturals, Sequences

Stereo == <<2>>
Event(t, p) == [type |-> t, payload |-> p]
PointQueue(id, points) == [id |-> id, points |-> points]

Bus(cs, s) == [audio |-> [c \in 1..cs |-> <<"host", c, s>>], silence |-> s]
OutBus(cs, s) == [channels |-> cs, silence |-> s]
Vst3Base ==
  [mode |-> "32 bit", inputs |-> <<Bus(2, 0)>>, outputs |-> <<OutBus(2, 0)>>,
   in_params |-> <<PointQueue(1, <<5, 6>>)>>, out_params |-> TRUE,
   in_events |-> <<Event("noteOn", 1)>>, out_events |-> TRUE, context |-> "playing"]
Vst3Data == {Vst3Base} \cup
  {[Vst3Base EXCEPT !.inputs = i, !.outputs = o, !.in_params = p, !.out_params = op,
                    !.mode = "64 bit"] :
     i \in {<<>>, <<Bus(1, 1)>>, <<Bus(3, 0)>>}, o \in {<<>>, <<OutBus(1, 0)>>, <<OutBus(3, 2)>>},
     p \in {Null, <<PointQueue(2, <<7>>)>>}, op \in BOOLEAN} \cup
  {[Vst3Base EXCEPT !.in_events = i, !.out_events = oe, !.out_params = op, !.context = c] :
     i \in {Null, <<>>, <<Event("chord", 3), Event("new", 4), Event("data", 2)>>},
     oe \in BOOLEAN, op \in BOOLEAN, c \in {Null, "stopped"}}
Vst3Outputs ==
  {[silence |-> s, params |-> p, events |-> e] :
     s \in {Null, 1},
     p \in {<<>>, <<PointQueue(1, <<1, 2>>), PointQueue(3, <<4>>), PointQueue(1, <<3>>)>>},
     e \in {<<>>, <<Event("noteOff", 8), Event("new", 9), Event("data", 2)>>}}

Port(cs, t, m) == [audio |-> [c \in 1..cs |-> <<"host", c, t>>], type |-> t, mask |-> m]
OutPort(cs, t, m) == [channels |-> cs, type |-> t, mask |-> m]
ClapBase ==
  [inputs |-> <<Port(2, "Float32", 0)>>, outputs |-> <<OutPort(2, "Float32", 0)>>,
   in_events |-> <<Event("note", 1)>>, transport |-> "playing"]
ClapData == {ClapBase} \cup
  {[ClapBase EXCEPT !.inputs = i, !.outputs = o] :
     i \in {<<>>, <<Port(0, Null, 0)>>, <<Port(2, "Double64", 1)>>, <<Port(3, "Float32", 0)>>},
     o \in {<<>>, <<OutPort(0, Null, 0)>>, <<OutPort(1, "Double64", 2)>>, <<OutPort(3, "Float32", 0)>>}} \cup
  {[ClapBase EXCEPT !.in_events = i, !.transport = t] :
     i \in {<<>>, <<Event("midi", 3), Event("new", 4), Event("sysex", 5), Event("paramValue", 2)>>},
     t \in {Null, "stopped"}}
ClapOutputs ==
  {[mask |-> m, events |-> e] :
     m \in {Null, 1}, e \in {<<>>, <<Event("note", 8), Event("new", 9), Event("midi2", 2)>>}}
=============================================================================

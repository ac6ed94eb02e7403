--------------------------- MODULE MCPluginCalls ----------------------------
(* The instance of TypedCalls.tla for TLC: the messages of both plugin        *)
(* formats, whose classes have no name in common.  A behaviour is about one   *)
(* class, so it is one of a VST3 bridge or one of a CLAP bridge.              *)
EXTENDS TypedCalls, TLC

CONSTANTS uiThread, audioThread, v1, v2

V3 == INSTANCE Vst3Log
CL == INSTANCE ClapLog

BridgeInterfaces == V3!Vst3Interfaces @@ CL!ClapInterfaces

BridgeVariants ==
  [control |-> V3!Vst3ControlRequest \cup CL!ClapMainThreadControlRequest,
   audio |-> V3!Vst3AudioProcessorRequest \cup CL!ClapAudioThreadControlRequest,
   callback |-> V3!Vst3CallbackRequest \cup CL!ClapMainThreadCallbackRequest,
   audio_callback |-> CL!ClapAudioThreadCallbackRequest]

BridgeRequestLevel == V3!Vst3RequestLevel @@ CL!ClapRequestLevel
BridgeAnswerShows == V3!Vst3AnswerShows @@ CL!ClapAnswerShows

\* What a host calls for every block.
PerBlock == {<<"YaAudioProcessor", "Process">>, <<"YaAudioProcessor", "GetTailSamples">>,
             <<"YaAudioProcessor", "GetLatencySamples">>, <<"plugin", "Process">>}

\* Their data is in the line of every answer.
AlwaysDescribed == {<<"YaAudioProcessor", "Process">>, <<"plugin", "Process">>,
                    <<"plugin", "Init">>}

ThreadSet == {uiThread, audioThread}
ValueSet == {v1, v2}
Sym == Permutations(ThreadSet) \cup Permutations(ValueSet)
=============================================================================

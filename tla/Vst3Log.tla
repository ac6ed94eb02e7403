------------------------------ MODULE Vst3Log -------------------------------
(***************************************************************************)
(* What Vst3Logger (src/common/logging/vst3.cpp) prints of a message: from *)
(* which verbosity on there is a line for the request, and whether the     *)
(* line for the answer shows the data in it.  The wording is left out.     *)
(***************************************************************************)
EXTENDS Vst3Messages, Naturals

Basic == 0
most_events == 1
all_events == 2

\* The messages of the named classes.
Of(classes) == {id \in MessagesOf(Vst3Interfaces) : id[1] \in classes}

-----------------------------------------------------------------------------
(* log_request().  An overload without a verbosity prints at most_events.  *)

LinesAt(verbosity, ids) == [id \in ids |-> verbosity]

ObjectLines ==
  LinesAt(most_events, Of({"Vst3PluginFactoryProxy", "Vst3PlugViewProxy", "Vst3PluginProxy",
                           "YaAudioPresentationLatency", "YaAutomationState"}))

ConnectionLines ==
  LinesAt(most_events, Of({"YaConnectionPoint", "YaContextMenuTarget"}))

ControllerLines ==
  LinesAt(most_events, Of({"YaEditController", "YaEditController2"}))

HostEditingLines ==
  LinesAt(most_events, Of({"YaEditControllerHostEditing", "YaInfoListener",
                           "YaKeyswitchController", "YaMidiLearn", "YaMidiMapping"}))

NoteLines ==
  LinesAt(most_events, Of({"YaNoteExpressionController", "YaNoteExpressionPhysicalUIMapping",
                           "YaParameterFinder", "YaParameterFunctionName"}))

ViewLines ==
  LinesAt(most_events, Of({"YaPlugView", "YaPlugViewContentScaleSupport"}))

ProgramLines ==
  LinesAt(most_events, Of({"YaPluginBase", "YaPluginFactory3", "YaProcessContextRequirements",
                           "YaProgramListData", "YaUnitData"}))

UnitLines ==
  LinesAt(most_events, Of({"YaUnitInfo", "YaXmlRepresentationController"}))

\* Mutant: the processing cycle is printed like everything else.
ProcessorLinesChatty ==
  LinesAt(most_events, Of({"YaAudioProcessor"}))

\* What hosts call in every processing cycle is only printed at the highest
\* verbosity.
ProcessorLines ==
  LinesAt(all_events, {<<"YaAudioProcessor", m>> :
    m \in {"CanProcessSampleSize", "GetLatencySamples", "Process", "GetTailSamples"}})
  @@ LinesAt(most_events, Of({"YaAudioProcessor"}))

ComponentLines ==
  LinesAt(most_events, Of({"YaComponent", "YaPrefetchableSupport", "Vst3ContextMenuProxy",
                           "Vst3Bridge"}))

HandlerLines ==
  LinesAt(most_events, Of(DOMAIN HandlerInterfaces \ {"YaProgress", "YaUnitHandler",
                                                      "YaUnitHandler2"}))

HostLines ==
  LinesAt(most_events, Of({"YaContextMenu", "YaHostApplication", "YaPlugFrame",
                           "YaPlugInterfaceSupport"}))

ProgressLines ==
  LinesAt(most_events, Of({"YaProgress", "YaUnitHandler", "YaUnitHandler2"}))

Vst3RequestLevel ==
  ObjectLines @@ ConnectionLines @@ ControllerLines @@ HostEditingLines @@ NoteLines @@
  ViewLines @@ ProgramLines @@ UnitLines @@ ProcessorLines @@ ComponentLines @@
  HandlerLines @@ HostLines @@ ProgressLines

-----------------------------------------------------------------------------
(* log_response().  There is an overload for every type with data; those   *)
(* show it if the call succeeded.                                          *)

\* The data of the messages of these classes is shown on success.
Guarded(classes) ==
  [id \in {i \in Of(classes) :
             Vst3Interfaces[i[1]].messages[i[2]].reply \in {"data", "object"}} |-> "success"]

\* Mutant: a failed getState() shows the stream.
PluginAnswersUnguarded ==
  [id \in Of({"Vst3PluginProxy"}) |-> "always"]

PluginAnswers ==
  (<<"Vst3PluginFactoryProxy", "Construct">> :> "always") @@
  (<<"Vst3PluginProxy", "Initialize">> :> "never") @@
  Guarded({"Vst3PluginProxy"})

ControllerAnswers ==
  (<<"YaEditController", "GetParameterInfos">> :> "always") @@
  Guarded({"YaEditController", "YaKeyswitchController", "YaMidiMapping"})

NoteAnswers ==
  Guarded({"YaNoteExpressionController", "YaNoteExpressionPhysicalUIMapping"})

ViewAnswers ==
  Guarded({"YaParameterFinder", "YaParameterFunctionName", "YaPlugView"}) @@
  (<<"Vst3Bridge", "WantsConfiguration">> :> "always")

UnitAnswers ==
  Guarded({"YaProgramListData", "YaUnitData", "YaUnitInfo", "YaXmlRepresentationController"})

\* What the plugin put out is described whatever the result.
ProcessorAnswers ==
  (<<"YaAudioProcessor", "Process">> :> "always") @@
  Guarded({"YaAudioProcessor"})

ComponentAnswers ==
  Guarded({"YaComponent", "YaPrefetchableSupport"})

HostAnswers ==
  Guarded({"YaComponentHandler3", "YaHostApplication", "YaProgress"})

\* A PrimitiveResponse is printed as it is; an Ack or a result has no data.
PrimitiveAnswers ==
  [id \in {i \in MessagesOf(Vst3Interfaces) :
             Vst3Interfaces[i[1]].messages[i[2]].reply = "value"} |-> "always"]

Vst3AnswerShows ==
  PluginAnswers @@ ControllerAnswers @@ NoteAnswers @@ ViewAnswers @@ UnitAnswers @@
  ProcessorAnswers @@ ComponentAnswers @@ HostAnswers @@ PrimitiveAnswers @@
  [id \in MessagesOf(Vst3Interfaces) |-> "never"]
=============================================================================

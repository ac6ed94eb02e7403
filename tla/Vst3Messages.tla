---------------------------- MODULE Vst3Messages ----------------------------
(***************************************************************************)
(* The messages of the VST3 bridge: one per function of an interface a     *)
(* plugin object or a host object may have (src/common/serialization/vst3) *)
(* and the socket each is sent over (src/common/serialization/vst3.h).     *)
(***************************************************************************)
EXTENDS Messages, TLC

-----------------------------------------------------------------------------
(* The plugin's objects.                                                   *)

Vst3PluginFactoryProxy == Proxy([
  Construct |-> Object({}, {"plugin_factory_args"})])

YaPluginFactory3 == Interface("IPluginFactory3", [
  SetHostContext |-> Result({"host_context_args"})])

Vst3PluginProxy == Proxy([
  Construct |-> Object({"cid", "requested_interface"}, {"construct_args"}),
  Destruct |-> Ack({}),
  Initialize |-> Data({"host_context_args"}, {"updated_plugin_interfaces"}),
  SetState |-> Result({"state"}),
  GetState |-> Data({"state"}, {"state"})])

YaPluginBase == Interface("IPluginBase", [
  Terminate |-> Result({})])

YaAudioPresentationLatency == Interface("IAudioPresentationLatency", [
  SetAudioPresentationLatencySamples |->
    Result({"dir", "bus_index", "latency_in_samples"})])

AudioSetupMessages ==
  [SetBusArrangements |-> Result({"inputs", "num_ins", "outputs", "num_outs"}),
   GetBusArrangement |-> Data({"dir", "index"}, {"arr"}),
   CanProcessSampleSize |-> Result({"symbolic_sample_size"}),
   GetLatencySamples |-> Value({}),
   SetupProcessing |-> Result({"setup"})]

AudioCycleMessages ==
  [SetProcessing |-> Result({"state"}),
   Process |-> Optional(Data({"data", "new_realtime_priority"}, {"output_data"}),
                        {"new_realtime_priority"}),
   GetTailSamples |-> Value({})]

YaAudioProcessor ==
  Interface("IAudioProcessor", AudioSetupMessages @@ AudioCycleMessages)

YaAutomationState == Interface("IAutomationState", [
  SetAutomationState |-> Result({"state"})])

BusMessages ==
  [GetControllerClassId |-> Data({}, {"editor_cid"}),
   SetIoMode |-> Result({"mode"}),
   GetBusCount |-> Value({"type", "dir"}),
   GetBusInfo |-> Data({"type", "dir", "index"}, {"bus"})]

ActivationMessages ==
  [GetRoutingInfo |-> Data({"in_info"}, {"out_info"}),
   ActivateBus |-> Result({"type", "dir", "index", "state"}),
   SetActive |-> Data({"state"}, {"updated_audio_buffers_config"})]

YaComponent == Interface("IComponent", BusMessages @@ ActivationMessages)

YaConnectionPoint == Interface("IConnectionPoint", [
  Connect |-> Result({"other"}),
  Disconnect |-> Optional(Result({"other_instance_id"}), {"other_instance_id"}),
  Notify |-> Result({"message_ptr"})])

ParameterMessages ==
  [SetComponentState |-> Result({"state"}),
   GetParameterInfos |-> Object({}, {"infos"}),
   GetParamStringByValue |-> Data({"id", "value_normalized"}, {"string"}),
   GetParamValueByString |-> Data({"id", "string"}, {"value_normalized"})]

EditorMessages ==
  [NormalizedParamToPlain |-> Value({"id", "value_normalized"}),
   PlainParamToNormalized |-> Value({"id", "plain_value"}),
   GetParamNormalized |-> Value({"id"}),
   SetParamNormalized |-> Result({"id", "value"}),
   SetComponentHandler |-> Optional(Result({"component_handler_proxy_args"}),
                                    {"component_handler_proxy_args"}),
   CreateView |-> Object({"name"}, {"plug_view_args"})]

YaEditController == Interface("IEditController", ParameterMessages @@ EditorMessages)

YaEditController2 == Interface("IEditController2", [
  SetKnobMode |-> Result({"mode"}),
  OpenHelp |-> Result({"only_check"}),
  OpenAboutBox |-> Result({"only_check"})])

YaEditControllerHostEditing == Interface("IEditControllerHostEditing", [
  BeginEditFromHost |-> Result({"param_id"}),
  EndEditFromHost |-> Result({"param_id"})])

YaInfoListener == Interface("IInfoListener", [
  SetChannelContextInfos |-> Result({"list"})])

YaKeyswitchController == Interface("IKeyswitchController", [
  GetKeyswitchCount |-> Value({"bus_index", "channel"}),
  GetKeyswitchInfo |-> Data({"bus_index", "channel", "key_switch_index"}, {"info"})])

YaMidiLearn == Interface("IMidiLearn", [
  OnLiveMIDIControllerInput |-> Result({"bus_index", "channel", "midi_cc"})])

YaMidiMapping == Interface("IMidiMapping", [
  GetMidiControllerAssignment |->
    Data({"bus_index", "channel", "midi_controller_number"}, {"id"})])

YaNoteExpressionController == Interface("INoteExpressionController", [
  GetNoteExpressionCount |-> Value({"bus_index", "channel"}),
  GetNoteExpressionInfo |->
    Data({"bus_index", "channel", "note_expression_index"}, {"info"}),
  GetNoteExpressionStringByValue |->
    Data({"bus_index", "channel", "id", "value_normalized"}, {"string"}),
  GetNoteExpressionValueByString |->
    Data({"bus_index", "channel", "id", "string"}, {"value_normalized"})])

\* The host passes a list with the controllers it asks about, and the field for
\* it is there, but serialize() does not write it.
YaNoteExpressionPhysicalUIMapping == Interface("INoteExpressionPhysicalUIMapping", [
  GetNotePhysicalUIMapping |->
    Unsent(Data({"bus_index", "channel", "list"}, {"list"}), {"list"})])

YaParameterFunctionName == Interface("IParameterFunctionName", [
  GetParameterIDFromFunctionName |-> Data({"unit_id", "function_name"}, {"param_id"})])

YaPrefetchableSupport == Interface("IPrefetchableSupport", [
  GetPrefetchableSupport |-> Data({}, {"prefetchable"})])

YaProcessContextRequirements == Interface("IProcessContextRequirements", [
  GetProcessContextRequirements |-> Value({})])

YaProgramListData == Interface("IProgramListData", [
  ProgramDataSupported |-> Result({"list_id"}),
  GetProgramData |-> Data({"list_id", "program_index", "data"}, {"data"}),
  SetProgramData |-> Result({"list_id", "program_index", "data"})])

YaUnitData == Interface("IUnitData", [
  UnitDataSupported |-> Result({"unit_id"}),
  GetUnitData |-> Data({"unit_id", "data"}, {"data"}),
  SetUnitData |-> Result({"unit_id", "data"})])

UnitMessages ==
  [GetUnitCount |-> Value({}),
   GetUnitInfo |-> Data({"unit_index"}, {"info"}),
   GetProgramListCount |-> Value({}),
   GetProgramListInfo |-> Data({"list_index"}, {"info"}),
   GetProgramName |-> Data({"list_id", "program_index"}, {"name"})]

ProgramMessages ==
  [GetProgramInfo |->
     Data({"list_id", "program_index", "attribute_id"}, {"attribute_value"}),
   HasProgramPitchNames |-> Result({"list_id", "program_index"}),
   GetProgramPitchName |-> Data({"list_id", "program_index", "midi_pitch"}, {"name"})]

SelectionMessages ==
  [GetSelectedUnit |-> Value({}),
   SelectUnit |-> Result({"unit_id"}),
   GetUnitByBus |-> Data({"type", "dir", "bus_index", "channel"}, {"unit_id"}),
   SetUnitProgramData |-> Result({"list_or_unit_id", "program_index", "data"})]

YaUnitInfo ==
  Interface("IUnitInfo", UnitMessages @@ ProgramMessages @@ SelectionMessages)

YaXmlRepresentationController == Interface("IXmlRepresentationController", [
  GetXmlRepresentationStream |-> Data({"info", "stream"}, {"stream"})])

-----------------------------------------------------------------------------
(* The plugin's editor and what the host gives it.                         *)

Vst3PlugViewProxy == Proxy([
  Destruct |-> Ack({})])

ViewInputMessages ==
  [IsPlatformTypeSupported |-> Result({"type"}),
   Attached |-> Result({"parent", "type"}),
   Removed |-> Result({}),
   OnWheel |-> Result({"distance"}),
   OnKeyDown |-> Result({"key", "key_code", "modifiers"}),
   OnKeyUp |-> Result({"key", "key_code", "modifiers"})]

ViewSizeMessages ==
  [GetSize |-> Data({}, {"size"}),
   OnSize |-> Result({"new_size"}),
   OnFocus |-> Result({"state"}),
   SetFrame |-> Optional(Result({"plug_frame_args"}), {"plug_frame_args"}),
   CanResize |-> Result({}),
   CheckSizeConstraint |-> Data({"rect"}, {"updated_rect"})]

YaPlugView == Interface("IPlugView", ViewInputMessages @@ ViewSizeMessages)

YaParameterFinder == Interface("IParameterFinder", [
  FindParameter |-> Data({"x_pos", "y_pos"}, {"result_tag"})])

YaPlugViewContentScaleSupport == Interface("IPlugViewContentScaleSupport", [
  SetContentScaleFactor |-> Result({"factor"})])

YaPlugFrame == Interface("IPlugFrame", [
  ResizeView |-> Result({"new_size"})])

YaContextMenuTarget == Interface("IContextMenuTarget", [
  ExecuteMenuItem |-> Result({"context_menu_id", "item_id", "target_tag", "tag"})])

Vst3ContextMenuProxy == Proxy([
  Destruct |-> Ack({"context_menu_id"})])

YaContextMenu == Interface("IContextMenu", [
  AddItem |-> Optional(Result({"context_menu_id", "item", "target"}), {"target"}),
  RemoveItem |-> Result({"context_menu_id", "item"}),
  Popup |-> Result({"context_menu_id", "x", "y"})])

-----------------------------------------------------------------------------
(* The host's objects.                                                     *)

\* Not an interface: the plugin's half has the configuration.
Vst3Bridge == Proxy([
  WantsConfiguration |-> Object({"host_version"}, {"configuration"})])

YaHostApplication == Interface("IHostApplication", [
  GetName |-> Optional(Data({"owner_instance_id"}, {"name"}), {"owner_instance_id"})])

YaPlugInterfaceSupport == Interface("IPlugInterfaceSupport", [
  IsPlugInterfaceSupported |->
    Optional(Result({"owner_instance_id", "iid"}), {"owner_instance_id"})])

YaComponentHandler == Interface("IComponentHandler", [
  BeginEdit |-> Result({"id"}),
  PerformEdit |-> Result({"id", "value_normalized"}),
  EndEdit |-> Result({"id"}),
  RestartComponent |-> Result({"flags"})])

YaComponentHandler2 == Interface("IComponentHandler2", [
  SetDirty |-> Result({"state"}),
  RequestOpenEditor |-> Result({"name"}),
  StartGroupEdit |-> Result({}),
  FinishGroupEdit |-> Result({})])

YaComponentHandler3 == Interface("IComponentHandler3", [
  CreateContextMenu |-> Optional(Object({"param_id"}, {"context_menu_args"}),
                                 {"param_id"})])

YaComponentHandlerBusActivation == Interface("IComponentHandlerBusActivation", [
  RequestBusActivation |-> Result({"type", "dir", "index", "state"})])

YaProgress == Interface("IProgress", [
  Start |-> Optional(Data({"type", "optional_description"}, {"out_id"}),
                     {"optional_description"}),
  Update |-> Result({"id", "norm_value"}),
  Finish |-> Result({"id"})])

YaUnitHandler == Interface("IUnitHandler", [
  NotifyUnitSelection |-> Result({"unit_id"}),
  NotifyProgramListChange |-> Result({"list_id", "program_index"})])

YaUnitHandler2 == Interface("IUnitHandler2", [
  NotifyUnitByBusChange |-> Result({})])

-----------------------------------------------------------------------------
(* The sockets.                                                            *)

\* What a plugin object may be cast to.
PluginInterfaces ==
  [YaAudioPresentationLatency |-> YaAudioPresentationLatency,
   YaAudioProcessor |-> YaAudioProcessor,
   YaAutomationState |-> YaAutomationState,
   YaComponent |-> YaComponent,
   YaConnectionPoint |-> YaConnectionPoint,
   YaEditController |-> YaEditController,
   YaEditController2 |-> YaEditController2,
   YaEditControllerHostEditing |-> YaEditControllerHostEditing,
   YaInfoListener |-> YaInfoListener,
   YaKeyswitchController |-> YaKeyswitchController,
   YaMidiLearn |-> YaMidiLearn,
   YaMidiMapping |-> YaMidiMapping,
   YaNoteExpressionController |-> YaNoteExpressionController,
   YaNoteExpressionPhysicalUIMapping |-> YaNoteExpressionPhysicalUIMapping,
   YaParameterFunctionName |-> YaParameterFunctionName,
   YaPluginBase |-> YaPluginBase,
   YaPrefetchableSupport |-> YaPrefetchableSupport,
   YaProcessContextRequirements |-> YaProcessContextRequirements,
   YaProgramListData |-> YaProgramListData,
   YaUnitData |-> YaUnitData,
   YaUnitInfo |-> YaUnitInfo,
   YaXmlRepresentationController |-> YaXmlRepresentationController]

ViewInterfaces ==
  [YaPlugView |-> YaPlugView,
   YaParameterFinder |-> YaParameterFinder,
   YaPlugViewContentScaleSupport |-> YaPlugViewContentScaleSupport]

HandlerInterfaces ==
  [YaComponentHandler |-> YaComponentHandler,
   YaComponentHandler2 |-> YaComponentHandler2,
   YaComponentHandler3 |-> YaComponentHandler3,
   YaComponentHandlerBusActivation |-> YaComponentHandlerBusActivation,
   YaProgress |-> YaProgress,
   YaUnitHandler |-> YaUnitHandler,
   YaUnitHandler2 |-> YaUnitHandler2]

ContextInterfaces ==
  [YaHostApplication |-> YaHostApplication,
   YaPlugInterfaceSupport |-> YaPlugInterfaceSupport]

Vst3Interfaces ==
  PluginInterfaces @@ ViewInterfaces @@ HandlerInterfaces @@ ContextInterfaces @@
  [Vst3PluginFactoryProxy |-> Vst3PluginFactoryProxy,
   YaPluginFactory3 |-> YaPluginFactory3,
   Vst3PluginProxy |-> Vst3PluginProxy,
   Vst3PlugViewProxy |-> Vst3PlugViewProxy,
   YaPlugFrame |-> YaPlugFrame,
   YaContextMenuTarget |-> YaContextMenuTarget,
   Vst3ContextMenuProxy |-> Vst3ContextMenuProxy,
   YaContextMenu |-> YaContextMenu,
   Vst3Bridge |-> Vst3Bridge]

\* The functions of the processing cycle have a socket per instance.
Vst3AudioProcessorRequest ==
  MessagesOf([YaAudioProcessor |-> YaAudioProcessor,
              YaComponent |-> YaComponent,
              YaPrefetchableSupport |-> YaPrefetchableSupport])

\* Notify and ExecuteMenuItem go both ways.
Vst3CallbackRequest ==
  MessagesOf(HandlerInterfaces @@ ContextInterfaces) \cup
  MessagesOf([YaPlugFrame |-> YaPlugFrame,
              YaContextMenu |-> YaContextMenu,
              YaContextMenuTarget |-> YaContextMenuTarget,
              Vst3ContextMenuProxy |-> Vst3ContextMenuProxy,
              Vst3Bridge |-> Vst3Bridge]) \cup
  {<<"YaConnectionPoint", "Notify">>}

Vst3ControlRequest ==
  (MessagesOf(Vst3Interfaces) \ (Vst3AudioProcessorRequest \cup Vst3CallbackRequest))
    \cup {<<"YaConnectionPoint", "Notify">>, <<"YaContextMenuTarget", "ExecuteMenuItem">>}
=============================================================================

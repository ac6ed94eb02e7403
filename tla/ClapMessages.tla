---------------------------- MODULE ClapMessages ----------------------------
(***************************************************************************)
(* The messages of the CLAP bridge: one per function of the plugin, of the *)
(* host and of the extensions either may have (src/common/serialization/   *)
(* clap) and the socket each is sent over (src/common/serialization/       *)
(* clap.h).  A function that fills in a structure and returns a Boolean    *)
(* answers with the structure, or with nothing.                            *)
(***************************************************************************)
EXTENDS Messages, TLC

plugin_factory == Interface("clap.plugin-factory", [
  List |-> Object({}, {"descriptors"}),
  Create |-> Object({"host", "plugin_id"}, {"instance_id"})])

LifetimeMessages ==
  [Init |-> Data({"supported_host_extensions"}, {"supported_plugin_extensions"}),
   Destroy |-> Ack({}),
   Activate |-> Data({"sample_rate", "min_frames_count", "max_frames_count"},
                     {"updated_audio_buffers_config"}),
   Deactivate |-> Ack({})]

AudioThreadMessages ==
  [StartProcessing |-> Value({}),
   StopProcessing |-> Ack({}),
   Reset |-> Ack({}),
   Process |-> Optional(Data({"process", "new_realtime_priority"}, {"output_data"}),
                        {"new_realtime_priority"})]

plugin == Proxy(LifetimeMessages @@ AudioThreadMessages)

host == Proxy([
  RequestRestart |-> Ack({}),
  RequestProcess |-> Ack({})])

\* Not a function of the API: the plugin's half has the configuration.
ClapBridge == Proxy([
  WantsConfiguration |-> Object({"host_version"}, {"configuration"})])

audio_ports == Interface("clap.audio-ports", [
  Count |-> Value({"is_input"}),
  Get |-> Object({"index", "is_input"}, {"result"}),
  IsRescanFlagSupported |-> Value({"flag"}),
  Rescan |-> Ack({"flags"})])

audio_ports_config == Interface("clap.audio-ports-config", [
  Count |-> Value({}),
  Get |-> Object({"index"}, {"result"}),
  Select |-> Value({"config_id"}),
  Rescan |-> Ack({})])

GuiSizeMessages ==
  [IsApiSupported |-> Value({"api", "is_floating"}),
   Create |-> Value({"api", "is_floating"}),
   Destroy |-> Ack({}),
   SetScale |-> Value({"scale"}),
   GetSize |-> Data({}, {"width", "height"}),
   CanResize |-> Value({}),
   GetResizeHints |-> Object({}, {"result"})]

GuiWindowMessages ==
  [AdjustSize |-> Data({"width", "height"}, {"updated_width", "updated_height"}),
   SetSize |-> Value({"width", "height"}),
   SetParent |-> Value({"x11_window"}),
   Show |-> Value({}),
   Hide |-> Value({})]

GuiHostMessages ==
  [ResizeHintsChanged |-> Ack({}),
   RequestResize |-> Value({"width", "height"}),
   RequestShow |-> Value({}),
   RequestHide |-> Value({}),
   Closed |-> Ack({"was_destroyed"})]

gui == Interface("clap.gui", GuiSizeMessages @@ GuiWindowMessages @@ GuiHostMessages)

latency == Interface("clap.latency", [
  Get |-> Value({}),
  Changed |-> Ack({})])

log == Interface("clap.log", [
  Log |-> Ack({"severity", "msg"})])

note_name == Interface("clap.note-name", [
  Count |-> Value({}),
  Get |-> Object({"index"}, {"result"}),
  Changed |-> Ack({})])

note_ports == Interface("clap.note-ports", [
  Count |-> Value({"is_input"}),
  Get |-> Object({"index", "is_input"}, {"result"}),
  SupportedDialects |-> Value({}),
  Rescan |-> Ack({"flags"})])

ParamValueMessages ==
  [GetInfos |-> Object({}, {"infos"}),
   GetValue |-> Object({"param_id"}, {"result"}),
   ValueToText |-> Object({"param_id", "value"}, {"result"})]

ParamEventMessages ==
  [TextToValue |-> Object({"param_id", "display"}, {"result"}),
   Flush |-> Object({"in"}, {"out"}),
   Rescan |-> Ack({"flags"}),
   Clear |-> Ack({"param_id", "flags"}),
   RequestFlush |-> Ack({})]

params == Interface("clap.params", ParamValueMessages @@ ParamEventMessages)

render == Interface("clap.render", [
  HasHardRealtimeRequirement |-> Value({}),
  Set |-> Value({"mode"})])

state == Interface("clap.state", [
  Save |-> Object({}, {"result"}),
  Load |-> Value({"stream"}),
  MarkDirty |-> Ack({})])

tail == Interface("clap.tail", [
  Get |-> Value({}),
  Changed |-> Ack({})])

voice_info == Interface("clap.voice-info", [
  Get |-> Object({}, {"result"}),
  Changed |-> Ack({})])

-----------------------------------------------------------------------------
(* The sockets.                                                            *)

ClapInterfaces ==
  [plugin_factory |-> plugin_factory, plugin |-> plugin, host |-> host,
   ClapBridge |-> ClapBridge, audio_ports |-> audio_ports,
   audio_ports_config |-> audio_ports_config, gui |-> gui, latency |-> latency,
   log |-> log, note_name |-> note_name, note_ports |-> note_ports,
   params |-> params, render |-> render, state |-> state, tail |-> tail,
   voice_info |-> voice_info]

\* What the audio thread calls and what it may call back have sockets per
\* instance.
ClapAudioThreadControlRequest ==
  {<<"plugin", m>> : m \in DOMAIN AudioThreadMessages} \cup
  {<<"params", "Flush">>, <<"tail", "Get">>}

\* All of these variants but that of the audio thread's requests also have
\* WantsConfiguration, which is only ever sent as a main thread callback.
ClapAudioThreadCallbackRequest ==
  {<<"log", "Log">>, <<"params", "RequestFlush">>, <<"tail", "Changed">>}

ClapMainThreadCallbackRequest ==
  MessagesOf([host |-> host, ClapBridge |-> ClapBridge]) \cup
  {<<"gui", m>> : m \in DOMAIN GuiHostMessages} \cup
  {<<e, "Rescan">> : e \in {"audio_ports", "audio_ports_config", "note_ports", "params"}} \cup
  {<<e, "Changed">> : e \in {"latency", "note_name", "voice_info"}} \cup
  {<<"audio_ports", "IsRescanFlagSupported">>, <<"note_ports", "SupportedDialects">>,
   <<"params", "Clear">>, <<"state", "MarkDirty">>}

ClapMainThreadControlRequest ==
  MessagesOf(ClapInterfaces) \ (ClapAudioThreadControlRequest \cup
    ClapAudioThreadCallbackRequest \cup ClapMainThreadCallbackRequest)
=============================================================================

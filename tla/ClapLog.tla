------------------------------ MODULE ClapLog -------------------------------
(***************************************************************************)
(* What ClapLogger (src/common/logging/clap.cpp) prints of a message: from *)
(* which verbosity on there is a line for the request, and whether the     *)
(* line for the answer shows the data in it.  The wording is left out.     *)
(***************************************************************************)
EXTENDS ClapMessages, Naturals

Basic == 0
most_events == 1
all_events == 2

\* The messages of the named extensions.
Of(extensions) == {id \in MessagesOf(ClapInterfaces) : id[1] \in extensions}

-----------------------------------------------------------------------------
(* log_request().  An overload without a verbosity prints at most_events.  *)

LinesAt(verbosity, ids) == [id \in ids |-> verbosity]

PluginLines ==
  LinesAt(most_events, {<<"plugin", m>> : m \in DOMAIN LifetimeMessages} \cup
                       Of({"plugin_factory"}))

PortLines ==
  LinesAt(most_events, Of({"audio_ports", "audio_ports_config"})
                         \cap ClapMainThreadControlRequest)

GuiLines ==
  LinesAt(most_events, Of({"gui"}) \cap ClapMainThreadControlRequest)

NoteAndParamLines ==
  LinesAt(most_events, Of({"note_name", "note_ports", "params", "latency"})
                         \cap ClapMainThreadControlRequest)

StateLines ==
  LinesAt(most_events, Of({"render", "state", "voice_info"}) \cap ClapMainThreadControlRequest)

\* Mutant: the processing cycle is printed like everything else.
AudioThreadLinesChatty ==
  LinesAt(most_events, ClapAudioThreadControlRequest)

\* Only process() itself has a higher verbosity.
AudioThreadLines ==
  LinesAt(all_events, {<<"plugin", "Process">>}) @@
  LinesAt(most_events, ClapAudioThreadControlRequest)

CallbackLines ==
  LinesAt(most_events, Of({"ClapBridge", "host", "audio_ports", "audio_ports_config", "gui"})
                         \cap ClapMainThreadCallbackRequest)

ChangeLines ==
  LinesAt(most_events,
    (Of({"note_name", "note_ports", "params", "latency", "state", "voice_info"})
       \cap ClapMainThreadCallbackRequest) \cup ClapAudioThreadCallbackRequest)

ClapRequestLevel ==
  PluginLines @@ PortLines @@ GuiLines @@ NoteAndParamLines @@ StateLines @@
  AudioThreadLines @@ CallbackLines @@ ChangeLines

-----------------------------------------------------------------------------
(* log_response().  A structure that may be missing is shown if it is not, *)
(* and sizes if the call succeeded.                                        *)

Guarded(extensions) ==
  [id \in {i \in Of(extensions) :
             ClapInterfaces[i[1]].messages[i[2]].reply \in {"data", "object"}} |-> "success"]

\* The extensions are listed even when init() failed.
PluginAnswers ==
  (<<"plugin", "Init">> :> "always") @@
  [id \in Of({"plugin_factory"}) \cup {<<"plugin", "Activate">>} |-> "success"]

PortAnswers == Guarded({"audio_ports", "audio_ports_config"})

\* Mutant: the size is shown whatever the result.
GuiAnswersUnguarded == [id \in Of({"gui"}) |-> "always"]

GuiAnswers == Guarded({"gui"})

ParamAnswers ==
  [id \in {<<"params", "GetInfos">>, <<"params", "Flush">>} |-> "always"] @@
  Guarded({"note_name", "note_ports", "params", "state", "voice_info"})

ProcessAnswers ==
  [id \in {<<"plugin", "Process">>, <<"ClapBridge", "WantsConfiguration">>} |-> "always"]

PrimitiveAnswers ==
  [id \in {i \in MessagesOf(ClapInterfaces) :
             ClapInterfaces[i[1]].messages[i[2]].reply = "value"} |-> "always"]

ClapAnswerShows ==
  PluginAnswers @@ PortAnswers @@ GuiAnswers @@ ParamAnswers @@ ProcessAnswers @@
  PrimitiveAnswers @@ [id \in MessagesOf(ClapInterfaces) |-> "never"]
=============================================================================

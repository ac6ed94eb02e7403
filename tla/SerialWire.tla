----------------------------- MODULE SerialWire -----------------------------
(***************************************************************************)
(* The serial line byte by byte: the page's end (wasivst.js: #startV86,    *)
(* #serialWrite, #drainAndDispatch), the guest's end (main.cpp, the run    *)
(* loops of vst2-host.cpp and vst3-host.cpp) and the bytes between them.   *)
(* The emulated UART is external: it loses, adds and reorders nothing, and *)
(* calls the listener once per byte.  An exception that leaves the         *)
(* listener goes into the emulator, which here carries on.                 *)
(***************************************************************************)
EXTENDS FrameCodec

CONSTANTS
  Vst3,          \* the plugin path ends in ".vst3"
  PathLength,    \* length of the plugin path
  ParamIds,      \* parameter indices the page uses
  Values,        \* doubles, as their eight bytes
  SetValues,     \* those the page passes to setParam
  ToFloat,       \* static_cast<float>, as the double it gives
  Initial,       \* the plugin's parameters when it is loaded
  Blocks,        \* audio blocks: sequences of channels of float32 samples
  MaxRequests    \* bound: frames the page sends after LOAD

SampleCount(channels) == IF channels = <<>> THEN 128 ELSE Len(channels[1])

\* Every count the page writes fits the field it is written to.
ASSUME WireAssumption ==
  /\ Vst3 \in BOOLEAN /\ PathLength \in U32 /\ MaxRequests \in Nat
  /\ ParamIds \subseteq U32
  /\ Values \subseteq Double /\ SetValues \subseteq Values
  /\ ToFloat \in [Values -> Values]
  /\ Initial \in [ParamIds -> Values]
  /\ Blocks \subseteq Seq(Seq(Sample))
  /\ \A block \in Blocks : /\ SampleCount(block) \in U32 /\ Len(block) \in U32
                            /\ Len(block) * SampleCount(block) * 4 \in U32

VARIABLES
  loadState,  \* WasiVST.load(): "booting", "polling" for a byte, "ready"
  sent,       \* frames sent after LOAD
  down, up,   \* bytes written and not yet read, page to guest and back
  rxBuf,      \* #rxBuf
  host,       \* "starting", "running", "dead"
  params,     \* the plugin's parameters
  \* Three auxiliary variables, read by no action: the frames in `down' and
  \* in `up' and rxBuf, and the last frame the drain loop handed on.
  requests, replies, dispatched

pageVars == <<loadState, sent, rxBuf>>
guestVars == <<host, params>>
wireVars == <<loadState, sent, down, up, rxBuf, host, params,
              requests, replies, dispatched>>

\* A plugin that hands its input on: the page can tell its blocks apart.
processReplacing(channels) == channels

\* The frames of FrameLink.tla, as bytes and as what the drain loop made of them.
RequestBytes(m) ==
  CASE m.type = "load"     -> encodeLoad(Text(PathLength))
    [] m.type = "process"  -> encodeProcess(m.block)
    [] m.type = "setParam" -> encodeSetParam(m.id, m.value)
    [] m.type = "getParam" -> encodeGetParam(m.id)

ReplyBytes(m) ==
  CASE m.type = "log"          -> m.bytes
    [] m.type = "processResp"  -> write_process_resp(SampleCount(m.block), Len(m.block), m.block)
    [] m.type = "getParamResp" -> write_get_param_resp(m.id, m.value)

AsReply(msg) ==
  CASE msg.type = "log" ->
         [type |-> "log", bytes |-> write_log(msg.level, msg.subsystem, msg.message)]
    [] msg.type = "processResp" -> [type |-> "processResp", block |-> msg.channels]
    [] msg.type = "getParamResp" -> msg

WireInit ==
  /\ loadState = "booting" /\ sent = 0 /\ rxBuf = <<>>
  /\ down = <<>> /\ up = <<>>
  /\ host = "starting" /\ params = Initial
  /\ requests = <<>> /\ replies = <<>> /\ dispatched = [type |-> "none"]

-----------------------------------------------------------------------------
(* The page.                                                               *)

serialWrite(m) ==
  /\ down' = down \o RequestBytes(m)
  /\ requests' = Append(requests, m)
  /\ UNCHANGED <<up, rxBuf, guestVars, replies, dispatched>>

\* The emulator is ready: the LOAD frame goes out and the wait begins.
EmulatorReady ==
  /\ loadState = "booting"
  /\ loadState' = "polling"
  /\ serialWrite([type |-> "load"])
  /\ UNCHANGED sent

\* The timer fires with a byte in rxBuf; without one it is set again.
Poll ==
  /\ loadState = "polling"
  /\ rxBuf # <<>>
  /\ loadState' = "ready"
  /\ UNCHANGED <<sent, down, up, rxBuf, guestVars, requests, replies, dispatched>>

PageRequest ==
  [type : {"process"}, block : Blocks]
    \cup [type : {"setParam"}, id : ParamIds, value : SetValues]
    \cup [type : {"getParam"}, id : ParamIds]

\* setParam, getParam and the worklet's blocks, once load() has returned.
PageSends(m) ==
  /\ loadState = "ready"
  /\ sent < MaxRequests
  /\ sent' = sent + 1
  /\ serialWrite(m)
  /\ UNCHANGED loadState

\* The listener: one more byte, and the drain loop over all of them.
SerialByte ==
  /\ up # <<>>
  /\ up' = Tail(up)
  /\ LET drained == drainAndDispatch[Append(rxBuf, Head(up))]
     IN  /\ rxBuf' = drained.rest
         /\ dispatched' = IF drained.out = <<>> THEN dispatched
                          ELSE AsReply(Last(drained.out))
         /\ replies' = SubSeq(replies, Len(drained.out) + 1, Len(replies))
  /\ UNCHANGED <<loadState, sent, down, guestVars, requests>>

-----------------------------------------------------------------------------
(* The guest.                                                              *)

Body == Tail(down)

\* The host consumes `n' bytes and writes the frames of `out'.
HostConsumes(n, out) ==
  /\ down' = SubSeq(down, n + 1, Len(down))
  /\ up' = up \o FlattenSeq([i \in DOMAIN out |-> ReplyBytes(out[i])])
  /\ replies' = replies \o out
  /\ UNCHANGED <<pageVars, dispatched>>

\* Every tag the host reads is to it the beginning of one frame.
NextRequest == requests' = SubSeq(requests, 2, Len(requests))

HasTag(tag) == down # <<>> /\ down[1] = tag

LogFrame(level, subsystemLength, messageLength) ==
  [type |-> "log", bytes |-> write_log(level, Text(subsystemLength), Text(messageLength))]

\* "plugin loaded and activated" of "vst2-host"; "VST3 module loaded" and the
\* line run() begins with, of "vst3-host".
StartupLogs == IF Vst3 THEN <<LogFrame(1, 9, 18), LogFrame(2, 9, 45)>>
                       ELSE <<LogFrame(1, 9, 27)>>

HostLoad ==
  /\ host = "starting"
  /\ HasTag(FrameTag.Load)
  /\ LET body == read_load_frame_body(Body)
     IN  /\ body.complete
         /\ \/ host' = "running" /\ HostConsumes(1 + body.need, StartupLogs)
            \/ host' = "dead" /\ HostConsumes(1 + body.need, <<>>)
  /\ NextRequest
  /\ UNCHANGED params

process_block ==
  /\ host = "running" /\ ~Vst3
  /\ HasTag(FrameTag.Process)
  /\ LET frame == read_process_frame_body(Body)
         input == [c \in 1 .. frame.channel_count |->
                     [s \in 1 .. frame.sample_count |->
                        frame.samples[(c - 1) * frame.sample_count + s]]]
     IN  /\ frame.complete
         /\ HostConsumes(1 + frame.need,
              <<[type |-> "processResp", block |-> processReplacing(input)]>>)
  /\ NextRequest
  /\ UNCHANGED guestVars

\* Mutant: the plugin is given the double.
handle_set_param_Double ==
  /\ host = "running" /\ ~Vst3
  /\ HasTag(FrameTag.SetParam)
  /\ LET p == read_set_param_frame_body(Body)
     IN  /\ p.complete
         /\ params' = [params EXCEPT ![p.id] = p.value]
         /\ HostConsumes(1 + p.need, <<>>)
  /\ NextRequest
  /\ UNCHANGED host

handle_set_param ==
  /\ host = "running" /\ ~Vst3
  /\ HasTag(FrameTag.SetParam)
  /\ LET p == read_set_param_frame_body(Body)
     IN  /\ p.complete
         /\ params' = [params EXCEPT ![p.id] = ToFloat[p.value]]
         /\ HostConsumes(1 + p.need, <<>>)
  /\ NextRequest
  /\ UNCHANGED host

handle_get_param ==
  /\ host = "running" /\ ~Vst3
  /\ HasTag(FrameTag.GetParam)
  /\ LET p == read_get_param_frame_body(Body)
     IN  /\ p.complete
         /\ HostConsumes(1 + p.need,
              <<[type |-> "getParamResp", id |-> p.id, value |-> params[p.id]]>>)
  /\ NextRequest
  /\ UNCHANGED guestVars

\* The VST3 loop reads the body of a PROCESS frame and answers two channels
\* of silence ...
Vst3Process ==
  /\ host = "running" /\ Vst3
  /\ HasTag(FrameTag.Process)
  /\ LET frame == read_process_frame_body(Body)
         silence == [s \in 1 .. frame.sample_count |-> F32Zero]
     IN  /\ frame.complete
         /\ HostConsumes(1 + frame.need,
              <<[type |-> "processResp", block |-> <<silence, silence>>]>>)
  /\ NextRequest
  /\ UNCHANGED guestVars

\* ... and passes over any other tag, leaving its body to be read as tags.
Vst3Skip ==
  /\ host = "running" /\ Vst3
  /\ down # <<>> /\ ~HasTag(FrameTag.Process)
  /\ HostConsumes(1, <<>>)
  /\ NextRequest
  /\ UNCHANGED guestVars

HostStep == HostLoad \/ process_block \/ handle_set_param \/ handle_get_param
              \/ Vst3Process \/ Vst3Skip

WireNext == EmulatorReady \/ Poll \/ (\E m \in PageRequest : PageSends(m))
              \/ SerialByte \/ HostStep

WireSpec == WireInit /\ [][WireNext]_wireVars

\* The emulator runs the guest, calls the listener, and the timer keeps firing.
WireFairSpec == /\ WireSpec
                /\ WF_wireVars(EmulatorReady) /\ WF_wireVars(Poll)
                /\ WF_wireVars(SerialByte) /\ WF_wireVars(HostStep)
-----------------------------------------------------------------------------
WireTypeOK ==
  /\ loadState \in {"booting", "polling", "ready"} /\ sent \in 0 .. MaxRequests
  /\ down \in Seq(Byte) /\ up \in Seq(Byte) /\ rxBuf \in Seq(Byte)
  /\ host \in {"starting", "running", "dead"} /\ params \in [ParamIds -> Values]

\* The bytes on the way to the host are exactly the frames it has not taken:
\* serial-channel.cpp consumes each frame whole, so the next byte it reads as
\* a tag is one (run() in vst2-host.cpp then never reaches its default arm).
HostInSync ==
  down = FlattenSeq([i \in DOMAIN requests |-> RequestBytes(requests[i])])

\* The bytes the page holds and those on their way to it are exactly the
\* frames not yet handed on: #drainAndDispatch never loses the frame
\* boundary, however the bytes are split between calls of the listener.
PageInSync ==
  rxBuf \o up = FlattenSeq([i \in DOMAIN replies |-> ReplyBytes(replies[i])])

\* No whole frame is left waiting in rxBuf: what the loop leaves is the
\* beginning of one frame, and only while the rest of it is on its way.
NothingHeldBack ==
  rxBuf # <<>> => /\ replies # <<>>
                  /\ Len(rxBuf) < Len(ReplyBytes(replies[1]))

-----------------------------------------------------------------------------
(* The line carries frames: it implements FrameLink.tla with rxBuf mapped  *)
(* to whether it is empty, and each reply to what it means to the page.    *)

AsAbstract(m) == IF m.type = "log" THEN [type |-> "log"] ELSE m

Link == INSTANCE FrameLink WITH
  replies <- [i \in DOMAIN replies |-> AsAbstract(replies[i])],
  partial <- rxBuf # <<>>,
  dispatched <- AsAbstract(dispatched)

LinkImplemented == Link!LinkSpec
=============================================================================

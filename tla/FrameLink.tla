------------------------------ MODULE FrameLink -----------------------------
(***************************************************************************)
(* What the serial line promises the code above it: whole frames, in the   *)
(* order they were sent, each handled once.  The page puts requests on one *)
(* queue; the guest's host process (src/host/main.cpp and                  *)
(* src/host/vst2/vst2-host.cpp) takes them one by one and puts its replies *)
(* on another; the page's serial listener hands the replies on one by one. *)
(*                                                                         *)
(* SerialWire.tla models the same line byte by byte and implements this    *)
(* module; AudioSession.tla builds the page and the audio thread on it.    *)
(***************************************************************************)
EXTENDS Integers, Sequences

CONSTANTS
  ParamIds,   \* parameter indices of the plugin
  Values,     \* the doubles a parameter is given
  ToFloat,    \* static_cast<float> on those doubles, as the double it gives
  Initial,    \* the values the plugin starts with
  Blocks      \* audio blocks, told apart by what they hold

\* A plugin keeps parameters as floats: rounding twice is rounding once.
ASSUME ConversionAssumption ==
  /\ ToFloat \in [Values -> Values]
  /\ \A v \in Values : ToFloat[ToFloat[v]] = ToFloat[v]
  /\ Initial \in [ParamIds -> Values]
  /\ \A i \in ParamIds : ToFloat[Initial[i]] = Initial[i]

VARIABLES
  requests,   \* frames the page has written and the host has not taken
  replies,    \* frames the host has written and the page has not taken
  partial,    \* the page's rxBuf holds the beginning of the next reply
  host,       \* "starting": waits for LOAD; "running"; "dead": it threw
  params,     \* the plugin's parameters
  dispatched  \* the last reply the drain loop handed on

linkVars == <<requests, replies, partial, host, params, dispatched>>

LoadRequest == [type |-> "load"]
LogReply == [type |-> "log"]
Nothing == [type |-> "none"]

Request == {LoadRequest}
             \cup [type : {"process"}, block : Blocks]
             \cup [type : {"setParam"}, id : ParamIds, value : Values]
             \cup [type : {"getParam"}, id : ParamIds]

Reply == {LogReply}
           \cup [type : {"processResp"}, block : Blocks]
           \cup [type : {"getParamResp"}, id : ParamIds, value : Values]

LinkTypeOK ==
  /\ requests \in Seq(Request)
  /\ replies \in Seq(Reply)
  /\ partial \in BOOLEAN
  /\ host \in {"starting", "running", "dead"}
  /\ params \in [ParamIds -> Values]
  /\ dispatched \in Reply \cup {Nothing}

LinkInit ==
  /\ requests = <<>>
  /\ replies = <<>>
  /\ partial = FALSE
  /\ host = "starting"
  /\ params = Initial
  /\ dispatched = Nothing

-----------------------------------------------------------------------------
\* Mutant: the frame is put before those that wait.
SendFirst(m) ==
  /\ requests' = <<m>> \o requests
  /\ UNCHANGED <<replies, partial, host, params, dispatched>>

\* #serialWrite of one frame.
Send(m) ==
  /\ requests' = Append(requests, m)
  /\ UNCHANGED <<replies, partial, host, params, dispatched>>

\* The host takes the frame at the head of the line.
TakeRequest(type) ==
  /\ requests # <<>>
  /\ Head(requests).type = type
  /\ requests' = Tail(requests)
  /\ UNCHANGED <<partial, dispatched>>

\* main reads the LOAD frame and constructs the host, which logs that the
\* plugin is active.
HostLoad ==
  /\ host = "starting"
  /\ TakeRequest("load")
  /\ host' = "running"
  /\ replies' = Append(replies, LogReply)
  /\ UNCHANGED params

\* The plugin cannot be loaded, or the first frame is not LOAD: the exception
\* leaves main and nothing is written.
HostLoadFails ==
  /\ host = "starting"
  /\ requests # <<>>
  /\ requests' = Tail(requests)
  /\ host' = "dead"
  /\ UNCHANGED <<replies, partial, params, dispatched>>

process_block ==
  /\ host = "running"
  /\ TakeRequest("process")
  /\ replies' = Append(replies, [type |-> "processResp",
                                 block |-> Head(requests).block])
  /\ UNCHANGED <<host, params>>

handle_set_param ==
  /\ host = "running"
  /\ TakeRequest("setParam")
  /\ params' = [params EXCEPT ![Head(requests).id] = ToFloat[Head(requests).value]]
  /\ UNCHANGED <<host, replies>>

handle_get_param ==
  /\ host = "running"
  /\ TakeRequest("getParam")
  /\ replies' = Append(replies, [type |-> "getParamResp", id |-> Head(requests).id,
                                 value |-> params[Head(requests).id]])
  /\ UNCHANGED <<host, params>>

HostStep == HostLoad \/ HostLoadFails \/ process_block
              \/ handle_set_param \/ handle_get_param

\* The first byte of a reply is in rxBuf; no frame is one byte long.
ReplyBegins ==
  /\ replies # <<>>
  /\ ~partial
  /\ partial' = TRUE
  /\ UNCHANGED <<requests, replies, host, params, dispatched>>

\* The last byte of a reply: the drain loop hands the frame on.
DispatchReply ==
  /\ partial
  /\ partial' = FALSE
  /\ dispatched' = Head(replies)
  /\ replies' = Tail(replies)
  /\ UNCHANGED <<requests, host, params>>

ListenerStep == ReplyBegins \/ DispatchReply

\* The page opens the line with LOAD and sends it once.
PageSends(m) ==
  /\ m = LoadRequest <=> host = "starting" /\ requests = <<>>
  /\ Send(m)

LinkNext == (\E m \in Request : PageSends(m)) \/ HostStep \/ ListenerStep

LinkSafety == LinkInit /\ [][LinkNext]_linkVars

\* The guest runs whenever it has input, and its output reaches the page.
LinkSpec == LinkSafety /\ WF_linkVars(HostStep) /\ WF_linkVars(ListenerStep)
=============================================================================

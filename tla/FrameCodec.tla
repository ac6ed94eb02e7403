----------------------------- MODULE FrameCodec -----------------------------
(***************************************************************************)
(* The wire format of the serial line between the page and the guest: the  *)
(* encoders and the drain loop of src/worklet/wasivst.js, and the readers  *)
(* and writers of src/host/ipc/serial-channel.cpp.  The two sides are      *)
(* translated separately, each from its own source; that they agree is     *)
(* what the runs over this module check.                                   *)
(*                                                                         *)
(* A byte is a number, an integer field is little endian as both sides     *)
(* write it, and a float is kept as the tuple of its bytes, because no     *)
(* code on either side of the line looks inside one.                       *)
(***************************************************************************)
EXTENDS Integers, Sequences, SequencesExt

Byte == 0 .. 255
Sample == [1 .. 4 -> Byte]     \* a float32, as its bytes
Double == [1 .. 8 -> Byte]

\* The numbers four bytes can hold.
U32 == {n \in Nat : n \div 16777216 < 256}

FrameTag == [Load |-> 1, Process |-> 2, ProcessResp |-> 3, SetParam |-> 4,
             GetParam |-> 5, GetParamResp |-> 6, Log |-> 7]

\* Mutant: the number is stored without being split into bytes.
U32BytesUnsplit(n) == <<n, 0, 0, 0>>

U32Bytes(n) == <<n % 256, (n \div 256) % 256,
                 (n \div 65536) % 256, (n \div 16777216) % 256>>

\* The u32 at offset `off' (from 0, as in the source) of `buf'.
U32At(buf, off) == buf[off + 1] + 256 * buf[off + 2]
                     + 65536 * buf[off + 3] + 16777216 * buf[off + 4]

\* The `n' bytes at offset `off' of `buf'.
BytesAt(buf, off, n) == SubSeq(buf, off + 1, off + n)

F32Zero == <<0, 0, 0, 0>>

\* Names and messages never reach a decision: only their lengths do.
Text(n) == [i \in 1 .. n |-> 120]

\* Cut `bytes' into consecutive pieces of `size'.
Pieces(bytes, size) ==
  [i \in 1 .. Len(bytes) \div size |-> BytesAt(bytes, (i - 1) * size, size)]

-----------------------------------------------------------------------------
(* The page's encoders. *)

encodeLoad(path) == <<FrameTag.Load>> \o U32Bytes(Len(path)) \o path

\* An unconnected input has no channels; the block is then said to have 128
\* samples although it carries none.  A channel shorter than the first is
\* padded with zeroes.
encodeProcess(channels) ==
  LET sampleCount == IF channels = <<>> THEN 128 ELSE Len(channels[1])
      padded(ch) == [i \in 1 .. sampleCount |->
                       IF i <= Len(ch) THEN ch[i] ELSE F32Zero]
  IN  <<FrameTag.Process>> \o U32Bytes(sampleCount) \o U32Bytes(Len(channels))
        \o U32Bytes(Len(channels) * sampleCount * 4)
        \o FlattenSeq([c \in DOMAIN channels |-> FlattenSeq(padded(channels[c]))])

encodeSetParam(id, value) == <<FrameTag.SetParam>> \o U32Bytes(id) \o value

encodeGetParam(id) == <<FrameTag.GetParam>> \o U32Bytes(id)

-----------------------------------------------------------------------------
(* The host's writers. *)

write_process_resp(sample_count, ch_count, channels) ==
  <<FrameTag.ProcessResp>> \o U32Bytes(sample_count) \o U32Bytes(ch_count)
    \o FlattenSeq([c \in 1 .. ch_count |-> FlattenSeq(channels[c])])

write_get_param_resp(id, value) ==
  <<FrameTag.GetParamResp>> \o U32Bytes(id) \o value

write_log(level, subsystem, message) ==
  <<FrameTag.Log, level>> \o U32Bytes(Len(subsystem)) \o subsystem
    \o U32Bytes(Len(message)) \o message

-----------------------------------------------------------------------------
(* The host's readers.  fread blocks until the bytes it was asked for are  *)
(* there, so a reader returns once its whole body is in the stream; until  *)
(* then the host is Blocked.  `need' is the length of the body.            *)

Blocked == [complete |-> FALSE]

read_load_frame_body(body) ==
  IF Len(body) < 4 \/ Len(body) < 4 + U32At(body, 0) THEN Blocked
  ELSE [complete |-> TRUE, need |-> 4 + U32At(body, 0),
        path |-> BytesAt(body, 4, U32At(body, 0))]

\* Mutant: the length is computed from the number of samples of one channel.
read_process_frame_body_OneChannel(body) ==
  IF Len(body) < 12 \/ Len(body) < 12 + 4 * U32At(body, 0) THEN Blocked
  ELSE [complete |-> TRUE, need |-> 12 + 4 * U32At(body, 0),
        sample_count |-> U32At(body, 0), channel_count |-> U32At(body, 4),
        samples |-> Pieces(BytesAt(body, 12, U32At(body, 8)), 4)]

\* The length of the audio comes from the third field alone; the first two
\* are handed on as they are.
read_process_frame_body(body) ==
  IF Len(body) < 12 \/ Len(body) < 12 + U32At(body, 8) THEN Blocked
  ELSE [complete |-> TRUE, need |-> 12 + U32At(body, 8),
        sample_count |-> U32At(body, 0), channel_count |-> U32At(body, 4),
        samples |-> Pieces(BytesAt(body, 12, U32At(body, 8)), 4)]

read_set_param_frame_body(body) ==
  IF Len(body) < 12 THEN Blocked
  ELSE [complete |-> TRUE, need |-> 12,
        id |-> U32At(body, 0), value |-> BytesAt(body, 4, 8)]

read_get_param_frame_body(body) ==
  IF Len(body) < 4 THEN Blocked
  ELSE [complete |-> TRUE, need |-> 4, id |-> U32At(body, 0)]

-----------------------------------------------------------------------------
(* The page's drain loop. *)

decodeProcessResp(frame) ==
  LET sampleCount == U32At(frame, 1)
      chCount == U32At(frame, 5)
  IN  [type |-> "processResp",
       channels |-> [c \in 1 .. chCount |->
          Pieces(BytesAt(frame, 9 + (c - 1) * sampleCount * 4, sampleCount * 4), 4)]]

\* What one turn of the loop does with a non-empty buffer: `wait' for more
\* bytes, `take' n bytes as the message `out', `skip' a byte that is no tag,
\* or `throw' when a field is read past the end of the buffer.
Wait == [act |-> "wait", n |-> 0, out |-> <<>>]
Throw == [act |-> "throw", n |-> 0, out |-> <<>>]
Skip == [act |-> "skip", n |-> 1, out |-> <<>>]
Take(n, msg) == [act |-> "take", n |-> n, out |-> <<msg>>]

\* Mutants: the frame must be followed by a byte; the channels are not counted.
ProcessRespTurnLate(buf) ==
  LET total == 9 + U32At(buf, 1) * U32At(buf, 5) * 4
  IN  IF Len(buf) < 9 \/ Len(buf) <= total THEN Wait
      ELSE Take(total, decodeProcessResp(BytesAt(buf, 0, total)))

ProcessRespTurnOneChannel(buf) ==
  LET total == 9 + U32At(buf, 1) * 4
  IN  IF Len(buf) < 9 \/ Len(buf) < total THEN Wait
      ELSE Take(total, [type |-> "processResp",
                        channels |-> <<Pieces(BytesAt(buf, 9, total - 9), 4)>>])

ProcessRespTurn(buf) ==
  LET total == 9 + U32At(buf, 1) * U32At(buf, 5) * 4
  IN  IF Len(buf) < 9 THEN Wait
      ELSE IF Len(buf) < total THEN Wait
      ELSE Take(total, decodeProcessResp(BytesAt(buf, 0, total)))

\* Mutant: the reply is read as the table in architecture.md has it, a value
\* without the parameter's index.
GetParamRespTurnNoId(buf) ==
  IF Len(buf) < 9 THEN Wait
  ELSE Take(9, [type |-> "getParamResp", id |-> 0, value |-> BytesAt(buf, 1, 8)])

GetParamRespTurn(buf) ==
  IF Len(buf) < 13 THEN Wait
  ELSE Take(13, [type |-> "getParamResp", id |-> U32At(buf, 1),
                 value |-> BytesAt(buf, 5, 8)])

\* msgLen is read at offset 6 + subLen although only ten bytes are sure to be
\* there: getUint32 throws while the subsystem's name is still on its way.
LogTurn(buf) ==
  LET subLen == U32At(buf, 2)
      msgLen == U32At(buf, 6 + subLen)
      total == 10 + subLen + msgLen
  IN  IF Len(buf) < 10 THEN Wait
      ELSE IF Len(buf) < 10 + subLen THEN Throw
      ELSE IF Len(buf) < total THEN Wait
      ELSE Take(total, [type |-> "log", level |-> buf[2],
                        subsystem |-> BytesAt(buf, 6, subLen),
                        message |-> BytesAt(buf, 10 + subLen, msgLen)])

DrainTurn(buf) ==
  CASE buf[1] = FrameTag.ProcessResp  -> ProcessRespTurn(buf)
    [] buf[1] = FrameTag.GetParamResp -> GetParamRespTurn(buf)
    [] buf[1] = FrameTag.Log          -> LogTurn(buf)
    [] OTHER                          -> Skip

\* The loop: the bytes it leaves, the messages it hands on in order, and
\* whether it ended with an exception.
drainAndDispatch[buf \in Seq(Byte)] ==
  IF buf = <<>> THEN [rest |-> buf, out |-> <<>>, threw |-> FALSE]
  ELSE LET turn == DrainTurn(buf)
       IN  IF turn.act \in {"wait", "throw"}
           THEN [rest |-> buf, out |-> <<>>, threw |-> turn.act = "throw"]
           ELSE LET more == drainAndDispatch[SubSeq(buf, turn.n + 1, Len(buf))]
                IN  [more EXCEPT !.out = turn.out \o @]
=============================================================================

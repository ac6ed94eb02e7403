----------------------------- MODULE StateStream -----------------------------
(***************************************************************************)
(* A plugin's state on its way between the host's stream and the plugin:   *)
(* YaBStream (src/common/serialization/vst3/bstream.cpp) and clap::stream  *)
(* (src/common/serialization/clap/stream.cpp).  The host's stream is       *)
(* copied into a buffer, which is sent to the other half; the plugin uses  *)
(* it there as a stream; it is sent back and written to the host's stream. *)
(* A VST3 stream can be sought in, and the host's may begin with a header; *)
(* a CLAP stream is either read or written, in pieces the host chooses.    *)
(***************************************************************************)
EXTENDS Naturals, Integers, Sequences, SequencesExt

CONSTANTS
  Bytes,        \* what a stream may hold
  MaxLength,    \* bound: bytes the host's stream holds
  MaxOps        \* bound: calls of the plugin

VARIABLES
  api,          \* "vst3", "istream" (loading) or "ostream" (saving)
  host,         \* what the host's stream holds
  position,     \* and where it is
  header,       \* the bytes before the host's part, which is never touched
  phase,
  failed,       \* the host's stream failed to be read
  buffer_, seek_position_,
  file,         \* reference: the plugin's own stream, had it the host's
  filePosition,
  result, expected, \* of the last call that has one: ours and the reference's
  ops

streamVars == <<api, host, position, header, phase, failed, buffer_, seek_position_,
                file, filePosition, result, expected, ops>>

UpTo(S, n) == UNION {[1..k -> S] : k \in 0..n}

Smaller(a, b) == IF a < b THEN a ELSE b
Larger(a, b) == IF a > b THEN a ELSE b

\* A number the call gives back, and the bytes it read.
Answer(count, bytes) == [count |-> count, bytes |-> bytes]

\* A stream that is saved with CLAP begins empty in the plugin's half.
Init ==
  /\ api \in {"vst3", "istream", "ostream"}
  /\ host \in UpTo(Bytes, MaxLength)
  /\ api = "ostream" => host = <<>>
  /\ header \in IF api = "vst3" THEN 0..Len(host) ELSE {0}
  /\ position = header
  /\ phase = IF api = "ostream" THEN "plugin" ELSE "copying"
  /\ failed = FALSE
  /\ buffer_ = <<>> /\ seek_position_ = 0
  /\ file = SubSeq(host, header + 1, Len(host)) /\ filePosition = 0
  /\ result = Answer(0, <<>>) /\ expected = result
  /\ ops = 0

\* The bytes s with t written over them from position p on.
Overwrite(s, p, t) ==
  [k \in 1..Larger(Len(s), p + Len(t)) |->
     IF k \in (p + 1)..(p + Len(t)) THEN t[k - p] ELSE IF k <= Len(s) THEN s[k] ELSE 0]
-----------------------------------------------------------------------------
(* The constructors.                                                       *)

\* YaBStream(stream) reads all there is behind the position in one call, and
\* restores the position.  A read that fails leaves the zeros of resize().
CopyVst3 ==
  /\ api = "vst3" /\ phase = "copying"
  /\ LET there == SubSeq(host, position + 1, Len(host))
     IN \/ buffer_' = there /\ UNCHANGED failed
        \/ there # <<>> /\ buffer_' = [k \in DOMAIN there |-> 0] /\ failed' = TRUE
  /\ phase' = "plugin"
  /\ UNCHANGED <<api, host, position, header, seek_position_, file, filePosition, result,
                 expected, ops>>

\* Mutant: a short read is taken for the end.
LastReadShort(n) == n < 2

\* Stream(original): the loop ends when nothing is read, or reading fails.
LastRead(n) == n <= 0

\* One turn of the loop.  The host gives at least a byte while it has one, or fails.
CopyClap ==
  /\ api = "istream" /\ phase = "copying"
  /\ \E n \in -1..(Len(host) - position) :
       /\ n = 0 => position = Len(host)
       /\ LET taken == Larger(n, 0)
          IN /\ buffer_' = buffer_ \o SubSeq(host, position + 1, position + taken)
             /\ position' = position + taken
       /\ failed' = (n = -1)
       /\ phase' = IF LastRead(n) THEN "plugin" ELSE "copying"
  /\ UNCHANGED <<api, host, header, seek_position_, file, filePosition, result, expected, ops>>
-----------------------------------------------------------------------------
(* The plugin's calls.                                                     *)

Op == phase = "plugin" /\ ops < MaxOps /\ ops' = ops + 1

Unmoved == UNCHANGED <<api, host, position, header, phase, failed>>

\* YaBStream::read() and istream_read(): behind the end, where setStreamSize() may
\* have left the position, the number counted is negative.
Read(n) ==
  /\ Op /\ api \in {"vst3", "istream"}
  /\ LET bytes_to_read == Smaller(n, Len(buffer_) - seek_position_)
         taken == Larger(bytes_to_read, 0)
     IN /\ result' = Answer(bytes_to_read,
                           SubSeq(buffer_, seek_position_ + 1, seek_position_ + taken))
        /\ seek_position_' = seek_position_ + taken
  /\ LET there == Larger(Smaller(n, Len(file) - filePosition), 0)
     IN /\ expected' = Answer(there, SubSeq(file, filePosition + 1, filePosition + there))
        /\ filePosition' = filePosition + there
  /\ UNCHANGED <<buffer_, file>> /\ Unmoved

\* Mutant: the buffer ends with what was written.
WrittenTruncates(t) ==
  IF api = "vst3" THEN SubSeq(buffer_, 1, seek_position_) \o t ELSE buffer_ \o t

\* What YaBStream::write() and ostream_write(), which always appends, leave.  Behind
\* the end, a write fills up to its position with zeros.
Written(t) == IF api = "vst3" THEN Overwrite(buffer_, seek_position_, t) ELSE buffer_ \o t

Write(t) ==
  /\ Op /\ api \in {"vst3", "ostream"}
  /\ buffer_' = Written(t)
  /\ seek_position_' = IF api = "vst3" THEN seek_position_ + Len(t) ELSE seek_position_
  /\ file' = Overwrite(file, filePosition, t)
  /\ filePosition' = filePosition + Len(t)
  /\ UNCHANGED <<result, expected>> /\ Unmoved

\* Mutant: the position is not kept inside the stream.
SoughtAnywhere(p) == Larger(p, 0)

\* The clamp of YaBStream::seek().
Sought(p) == Smaller(Larger(p, 0), Len(buffer_))

SeekBase(mode, from, end) ==
  CASE mode = "set" -> 0 [] mode = "cur" -> from [] mode = "end" -> end

\* YaBStream::seek().
Seek(mode, pos) ==
  /\ Op /\ api = "vst3"
  /\ seek_position_' = Sought(SeekBase(mode, seek_position_, Len(buffer_)) + pos)
  /\ result' = Answer(seek_position_', <<>>)
  /\ filePosition' =
       Smaller(Larger(SeekBase(mode, filePosition, Len(file)) + pos, 0), Len(file))
  /\ expected' = Answer(filePosition', <<>>)
  /\ UNCHANGED <<buffer_, file>> /\ Unmoved

\* YaBStream::tell() and getStreamSize().
Ask ==
  /\ Op /\ api = "vst3"
  /\ \/ /\ result' = Answer(seek_position_, <<>>)
        /\ expected' = Answer(filePosition, <<>>)
     \/ /\ result' = Answer(Len(buffer_), <<>>)
        /\ expected' = Answer(Len(file), <<>>)
  /\ UNCHANGED <<buffer_, seek_position_, file, filePosition>> /\ Unmoved

\* The first n bytes of s, with zeros where there are none.
Sized(s, n) == [k \in 1..n |-> IF k \in DOMAIN s THEN s[k] ELSE 0]

\* YaBStream::setStreamSize(): the position stays where it is, even behind the end.
SetStreamSize(n) ==
  /\ Op /\ api = "vst3"
  /\ buffer_' = Sized(buffer_, n)
  /\ file' = Sized(file, n)
  /\ UNCHANGED <<seek_position_, filePosition, result, expected>> /\ Unmoved
-----------------------------------------------------------------------------
(* Back in the half the host is in.                                        *)

\* The object is sent without its position.
Return ==
  /\ phase = "plugin"
  /\ phase' = IF api = "istream" THEN "done" ELSE "writing"
  /\ seek_position_' = 0
  /\ UNCHANGED <<api, host, position, header, failed, buffer_, file, filePosition, result,
                 expected, ops>>

\* Mutant: the host's stream is set to its beginning first.
WrittenBackAtStart == Overwrite(host, 0, buffer_)

WrittenBack == Overwrite(host, position, buffer_)

\* YaBStream::write_back(): at the host's position and in one call.
WriteBackVst3 ==
  /\ api = "vst3" /\ phase = "writing"
  /\ host' = WrittenBack
  /\ position' = position + Len(buffer_)
  /\ phase' = "done"
  /\ UNCHANGED <<api, header, failed, buffer_, seek_position_, file, filePosition, result,
                 expected, ops>>

\* Stream::write_to_stream(): one turn, of as many bytes as the host takes, which
\* is at least one.
WriteToStream ==
  /\ api = "ostream" /\ phase = "writing"
  /\ IF position = Len(buffer_)
     THEN phase' = "done" /\ UNCHANGED <<host, position>>
     ELSE /\ \E n \in 1..(Len(buffer_) - position) :
               /\ host' = host \o SubSeq(buffer_, position + 1, position + n)
               /\ position' = position + n
          /\ UNCHANGED phase
  /\ UNCHANGED <<api, header, failed, buffer_, seek_position_, file, filePosition, result,
                 expected, ops>>

Next ==
  \/ CopyVst3 \/ CopyClap \/ Return \/ WriteBackVst3 \/ WriteToStream
  \/ \E n \in 1..2 : Read(n)
  \/ \E t \in UpTo(Bytes, 2) : Write(t)
  \/ \E mode \in {"set", "cur", "end"}, pos \in -1..1 : Seek(mode, pos)
  \/ \E n \in 0..(MaxLength + 1) : SetStreamSize(n)
  \/ Ask

Spec == Init /\ [][Next]_streamVars
-----------------------------------------------------------------------------
\* The plugin cannot tell the copy from the host's part of the stream, unless that
\* failed to be read: each call has the bytes, the position or the size that would
\* give, whatever was read, written, sought and resized before.  Only where nothing
\* can be read, because the position is behind the end of a stream that was cut,
\* may a negative number stand for none.  Of a CLAP stream that failed to be read
\* the plugin gets what there was until then, and is not told.
ReadsAsHostStream ==
  ~failed =>
    /\ result.bytes = expected.bytes
    /\ result.count = expected.count \/ (result.count < 0 /\ expected.count = 0)

\* From its header on, which stays as it was, the host's stream holds what it would
\* if the plugin had used it.  What a plugin cut off a stream that had been longer
\* is still there behind that: nothing tells the host its new size.
StateArrives ==
  phase = "done" /\ api # "istream" /\ ~failed
    => IsPrefix(file, SubSeq(host, header + 1, Len(host)))

\* Inductive: how much of a VST3 stream, of one that is loaded and of one that is
\* saved has arrived in each phase.
Vst3Inv ==
  /\ header <= Len(host)
  /\ phase = "copying" =>
       position = header /\ file = SubSeq(host, header + 1, Len(host)) /\ filePosition = 0
  /\ phase # "copying" => Len(buffer_) = Len(file) /\ (~failed => buffer_ = file)
  /\ phase \in {"plugin", "writing"} => position = header

IstreamInv ==
  /\ phase # "writing" /\ file = host /\ position <= Len(host)
  /\ filePosition <= Len(file)
  /\ buffer_ = SubSeq(host, 1, position)
  /\ phase = "copying" => filePosition = 0
  /\ phase = "plugin" /\ ~failed => buffer_ = file

OstreamInv ==
  /\ ~failed /\ header = 0 /\ buffer_ = file /\ filePosition = Len(file)
  /\ phase \in {"copying", "plugin"} => host = <<>> /\ position = 0
  /\ phase \in {"writing", "done"} =>
       position <= Len(buffer_) /\ host = SubSeq(buffer_, 1, position)
  /\ phase = "done" => position = Len(buffer_)

StreamInv ==
  /\ api \in {"vst3", "istream", "ostream"}
  /\ phase \in {"copying", "plugin", "writing", "done"}
  /\ failed \in BOOLEAN
  /\ phase = "copying" => ~failed
  /\ {host, buffer_, file} \subseteq Seq(Bytes \cup {0})
  /\ {position, header, seek_position_, filePosition} \subseteq Nat
  /\ phase \in {"copying", "plugin"} /\ (api = "vst3" \/ (api = "istream" /\ ~failed)) =>
       seek_position_ = filePosition
  /\ api = "vst3" => Vst3Inv
  /\ api = "istream" => IstreamInv
  /\ api = "ostream" => OstreamInv
  /\ ReadsAsHostStream /\ StateArrives
=============================================================================

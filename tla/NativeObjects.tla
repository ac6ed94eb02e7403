---------------------------- MODULE NativeObjects ----------------------------
(***************************************************************************)
(* The objects either half of a bridge owns and hands about: the proxy of  *)
(* a plugin's object, the shared audio buffer, a state stream, the child   *)
(* process.  They share no state, so that a behaviour is about one of      *)
(* them, and the others stay as they were made.                            *)
(***************************************************************************)
EXTENDS Naturals

CONSTANTS ObjectsOf(_), Classes,           \* ObjectProxy.tla
          Sizes, MaxInodes, MaxMaps,       \* AudioShm.tla
          Bytes, MaxLength, MaxOps,        \* StateStream.tla
          Places, Pids,                    \* ProcessHandle.tla
          None

VARIABLES subject,
          kind, object, args, proxy, cid,
          inode, length, maps, buffer, config, making, ending,
          api, host, position, header, phase, failed, buffer_, seek_position_, file,
          filePosition, result, expected, ops,
          process, handle, released, assigned

ObjectProxy == INSTANCE ObjectProxy
AudioShm == INSTANCE AudioShm
StateStream == INSTANCE StateStream
ProcessHandle == INSTANCE ProcessHandle

\* None is neither a handle nor a number, a buffer or a mapping.
ASSUME NativeAssumption ==
  /\ MaxLength \in Nat
  /\ Sizes \subseteq Nat
  /\ None \notin Nat
  /\ None \notin ProcessHandle!Handles
  /\ None \notin AudioShm!Buffers
  /\ None \notin AudioShm!Mappings

proxyVars == <<kind, object, args, proxy, cid>>
shmVars == <<inode, length, maps, buffer, config, making, ending>>
streamVars == <<api, host, position, header, phase, failed, buffer_, seek_position_, file,
                filePosition, result, expected, ops>>
processVars == <<process, handle, released, assigned>>
objectVars == <<subject, proxyVars, shmVars, streamVars, processVars>>

\* What the subject is made of is left open; of the others one state is enough.
Init ==
  /\ subject \in {"proxy", "buffer", "stream", "child"}
  /\ ObjectProxy!Init /\ (subject # "proxy" => kind = "frame" /\ object = {})
  /\ AudioShm!Init
  /\ StateStream!Init /\ (subject # "stream" => api = "vst3" /\ host = <<>>)
  /\ ProcessHandle!Init

Next ==
  /\ \/ subject = "proxy" /\ ObjectProxy!Next
        /\ UNCHANGED <<shmVars, streamVars, processVars>>
     \/ subject = "buffer" /\ AudioShm!Next
        /\ UNCHANGED <<proxyVars, streamVars, processVars>>
     \/ subject = "stream" /\ StateStream!Next
        /\ UNCHANGED <<proxyVars, shmVars, processVars>>
     \/ subject = "child" /\ ProcessHandle!Next
        /\ UNCHANGED <<proxyVars, shmVars, streamVars>>
  /\ UNCHANGED subject

Spec == Init /\ [][Next]_objectVars
-----------------------------------------------------------------------------
\* A proxy answers queryInterface() as the object it stands for, before and after
\* initialize() (ConstructArgs, update_supported_interfaces()).
ProxyMimics == ObjectProxy!ProxyMimics

\* A class is listed, and created in the other half, under the identifier each half
\* would have given it (WineUID, NativeUID).
ClassesCreatedAsListed == ObjectProxy!ClassesCreatedAsListed

\* Both halves use one mapped object of the agreed size, through moves and resizes
\* (AudioShmBuffer).
HalvesShareAudio == AudioShm!HalvesShareAudio

\* The plugin reads, seeks in and resizes the copy as it would the host's stream, but
\* for the sign of the count of a read behind the end (YaBStream,
\* clap::stream::Stream).
ReadsAsHostStream == StateStream!ReadsAsHostStream

\* What the plugin saved is in the host's stream, behind the host's header
\* (write_back(), write_to_stream()).
StateArrives == StateStream!StateArrives

\* A child has one handle that terminates it and ends with that, through any moves
\* by construction; by assignment it may lose it, but never get a second one
\* (Process::Handle).
OwnedUntilAssigned == ProcessHandle!OwnedUntilAssigned
=============================================================================

------------------------------ MODULE AudioShm ------------------------------
(***************************************************************************)
(* AudioShmBuffer (src/common/audio-shm.cpp): the shared memory object an  *)
(* instance's audio goes through.  The Wine half makes or resizes its      *)
(* buffer and sends the Config; the plugin's half opens or resizes its own *)
(* with it.  A new buffer is made as a temporary and moved to the member.  *)
(* The callers are not in this repository: they do what the comments on    *)
(* the class say, and let no audio call run while a Config is under way.   *)
(*                                                                         *)
(* Memory that may not be locked is mapped without locking.  When that     *)
(* fails too there is an exception, and the instance is not used again.    *)
(***************************************************************************)
EXTENDS Naturals, Sequences

CONSTANTS
  Sizes,     \* of buffers, 0 among them
  MaxInodes, \* bound: objects the operating system makes
  MaxMaps,   \* bound: mappings a process makes
  None

VARIABLES
  inode,     \* the object with the name, or None
  length,    \* per object: its size; there are Len objects so far
  maps,      \* per side: mappings made and what they map, None once unmapped
  buffer,    \* per side: AudioShmBuffer "member" and "temporary", or None
  config,    \* Config::size under way to the plugin's half, or None
  making,    \* sides whose temporary is still to be moved
  ending     \* an object that held the buffer was destroyed, or could not be mapped

shmVars == <<inode, length, maps, buffer, config, making, ending>>

Sides == {"wine", "native"}

Init ==
  /\ inode = None /\ length = <<>>
  /\ maps = [s \in Sides |-> <<>>]
  /\ buffer = [s \in Sides |-> [member |-> None, temporary |-> None]]
  /\ config = None /\ making = {} /\ ending = FALSE

-----------------------------------------------------------------------------
\* setup_mapping() of b on side s, whose config_ has been set: the results are the
\* objects' sizes, the mappings, b, and whether it ended in an exception or at an
\* assertion.
SetupMapping(s, b) ==
  LET sized == [length EXCEPT ![b.fd] = b.size]
      new == [inode |-> b.fd, bytes |-> b.size]
      done(m, at) == [length |-> sized, maps |-> [maps EXCEPT ![s] = m],
                      b |-> [b EXCEPT !.bytes = at, !.shmSize = b.size], throws |-> FALSE]
      copied == b.bytes # None /\ b.shmSize = 0    \* mremap() of 0 bytes is of a copy
      unmapped == IF b.bytes = None \/ copied THEN maps[s]
                  ELSE [maps[s] EXCEPT ![b.bytes] = None]
  IN IF b.size = 0
     THEN {[length |-> length, maps |-> maps, b |-> [b EXCEPT !.shmSize = 0],
            throws |-> FALSE]}
     ELSE {IF b.bytes = None \/ copied
           THEN done(Append(maps[s], new), Len(maps[s]) + 1)
           ELSE done([maps[s] EXCEPT ![b.bytes] = new], b.bytes),
           \* the second mmap() fails too; or the munmap() before it, of 0 bytes, and
           \* with it the assertion
           [length |-> sized, maps |-> [maps EXCEPT ![s] = unmapped],
            b |-> [b EXCEPT !.bytes = None], throws |-> TRUE]}
          \* the second mmap(), without the old mapping
          \cup (IF copied THEN {} ELSE {done(Append(unmapped, new), Len(maps[s]) + 1)})

Room(s) == Len(maps[s]) < MaxMaps

\* shm_open() with O_CREAT.
Open == IF inode # None THEN inode ELSE Len(length) + 1

\* The plugin's half is given the Config once the Wine half is done with it.
Received(size) == config = size /\ buffer["wine"].temporary = None

\* AudioShmBuffer(config): the temporary.
Construct(s, size) ==
  /\ ~ending /\ buffer[s].temporary = None /\ Room(s)
  /\ inode # None \/ Len(length) < MaxInodes
  /\ IF s = "wine" THEN config = None /\ config' = size
     ELSE Received(size) /\ buffer[s].member = None /\ config' = None
  /\ inode' = Open
  /\ LET opened == IF inode # None THEN length ELSE Append(length, 0)
         b == [size |-> size, fd |-> Open, bytes |-> None, shmSize |-> 0, moved |-> FALSE]
     IN IF size = 0
        THEN /\ length' = opened
             /\ buffer' = [buffer EXCEPT ![s].temporary = b]
             /\ UNCHANGED <<maps, ending>>
        ELSE /\ length' = [opened EXCEPT ![Open] = size]
             /\ \/ /\ maps' = [maps EXCEPT ![s] = Append(@, [inode |-> Open, bytes |-> size])]
                   /\ buffer' = [buffer EXCEPT ![s].temporary =
                                   [b EXCEPT !.bytes = Len(maps[s]) + 1, !.shmSize = size]]
                   /\ UNCHANGED ending
                \/ ending' = TRUE /\ UNCHANGED <<maps, buffer>>
  /\ making' = IF ending' THEN making ELSE making \cup {s}

\* Mutant: the object moved from is not marked.
MovedKeeps(b) == b

\* What a move leaves of the object moved from: its pointers, and the mark.
Moved(b) == [b EXCEPT !.moved = TRUE]

\* The move constructor, or, onto a member that is there, move assignment, which
\* keeps that object's own mark and forgets its mapping and file descriptor.
Move(s) ==
  /\ s \in making
  /\ making' = making \ {s}
  /\ buffer' = [buffer EXCEPT
       ![s].member = IF @ = None THEN buffer[s].temporary
                     ELSE [buffer[s].temporary EXCEPT !.moved = buffer[s].member.moved],
       ![s].temporary = Moved(@)]
  /\ UNCHANGED <<inode, length, maps, config, ending>>

\* Mutant: the new size is written down but not the mapping changed.
ResizedOnly(s, b, size) ==
  {[length |-> length, maps |-> maps, b |-> [b EXCEPT !.size = size], throws |-> FALSE]}

\* resize(), after its check of the name.
Resized(s, b, size) == SetupMapping(s, [b EXCEPT !.size = size])

Resize(s, size) ==
  /\ ~ending /\ buffer[s].member # None /\ buffer[s].temporary = None /\ Room(s)
  /\ IF s = "wine" THEN config = None /\ config' = size ELSE Received(size) /\ config' = None
  /\ \E r \in Resized(s, buffer[s].member, size) :
       /\ length' = r.length /\ maps' = r.maps
       /\ buffer' = [buffer EXCEPT ![s].member = r.b]
       /\ ending' = r.throws
  /\ UNCHANGED <<inode, making>>

\* ~AudioShmBuffer(): munmap() of as many bytes as the Config says does nothing
\* for 0 bytes; either side removes the name.
Destroy(s, place) ==
  /\ buffer[s][place] # None
  /\ place = "temporary" => s \notin making
  /\ LET b == buffer[s][place]
     IN IF b.moved
        THEN UNCHANGED <<inode, maps, ending>>
        ELSE /\ inode' = None
             /\ maps' = IF b.bytes # None /\ b.size > 0
                        THEN [maps EXCEPT ![s][b.bytes] = None] ELSE maps
             /\ ending' = (ending \/ place = "member")
  /\ buffer' = [buffer EXCEPT ![s][place] = None]
  /\ UNCHANGED <<length, config, making>>

Next ==
  \E s \in Sides :
    \/ \E size \in Sizes : Construct(s, size) \/ Resize(s, size)
    \/ Move(s)
    \/ \E place \in {"member", "temporary"} : Destroy(s, place)

Spec == Init /\ [][Next]_shmVars
-----------------------------------------------------------------------------
\* The buffer b of side s can be used: as many bytes as its Config says are
\* mapped, and are there in the object.
Usable(s, b) ==
  b.size > 0 =>
    /\ b.bytes # None /\ maps[s][b.bytes] # None
    /\ maps[s][b.bytes] = [inode |-> b.fd, bytes |-> b.size]
    /\ length[b.fd] >= b.size

\* Through any number of moves and resizes, and the destruction of what was moved
\* from, the members of both halves are usable and map the same object whenever no
\* Config is under way, until one half destroys its own or a mapping fails.
HalvesShareAudio ==
  ~ending /\ config = None =>
    /\ \A s \in Sides :
         LET b == buffer[s].member IN b # None => Usable(s, b)
    /\ \A s, t \in Sides :
         LET b == buffer[s].member
             c == buffer[t].member
         IN b # None /\ c # None => b.fd = c.fd /\ b.size = c.size

Buffers == [size : Sizes, fd : Nat, bytes : Nat \cup {None}, shmSize : Nat, moved : BOOLEAN]
Mappings == [inode : Nat, bytes : Nat]

\* The buffer b of side s owns its mapping, and is of the object with the name.
Owned(s, b) ==
  /\ b.moved = FALSE /\ b.fd = inode
  /\ b.bytes # None => b.bytes \in 1..Len(maps[s])
  /\ b.size > 0 =>
       b.bytes # None /\ maps[s][b.bytes] = [inode |-> b.fd, bytes |-> b.size]

\* What side s made last: on its way to the member, or there.
Latest(s) == IF s \in making THEN buffer[s].temporary ELSE buffer[s].member

BufferTypeOK ==
  /\ length \in Seq(Nat)
  /\ inode \in 1..Len(length) \cup {None}
  /\ maps \in [Sides -> Seq(Mappings \cup {None})]
  /\ buffer \in [Sides -> [member : Buffers \cup {None}, temporary : Buffers \cup {None}]]
  /\ config \in Sizes \cup {None}
  /\ making \subseteq Sides

\* One object owns each mapping: a temporary until it is moved, then the member.
MappingsInv ==
  /\ \A s \in Sides :
       /\ s \in making =>
            buffer[s].temporary # None /\ Owned(s, buffer[s].temporary)
       /\ s \notin making /\ buffer[s].temporary # None => buffer[s].temporary.moved
       /\ buffer[s].member # None => Owned(s, buffer[s].member)
  /\ "native" \in making => buffer["native"].member = None

\* The Wine half's buffer is of the size in the Config, and the other's when that
\* has arrived.
SizesInv ==
  /\ config = None => buffer["wine"].temporary = None
  /\ config # None => Latest("wine") # None /\ Latest("wine").size = config
  /\ Latest("wine") # None => length[inode] >= Latest("wine").size
  /\ config = None /\ Latest("native") # None =>
       Latest("wine") # None /\ Latest("native").size = Latest("wine").size

\* Inductive.
ShmInv == ending \/ (BufferTypeOK /\ MappingsInv /\ SizesInv)
=============================================================================

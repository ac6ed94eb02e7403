------------------------ MODULE NativeObjectsProofs -------------------------
(***************************************************************************)
(* NativeObjects.tla for any objects, classes, sizes, streams and children: *)
(* each part has an invariant of its own, which the others' steps leave     *)
(* alone.                                                                  *)
(***************************************************************************)
EXTENDS NativeObjects, Naturals, Sequences, SequenceTheorems, TLAPS

-----------------------------------------------------------------------------
(* The child processes.                                                    *)

\* Moves, drops and ends leave a child one owner at most, and an owner as long as
\* it needs one.
LEMMA OwnersStep ==
  ProcessHandle!OwnersInv /\ [Next]_objectVars => ProcessHandle!OwnersInv'
<1> SUFFICES ASSUME ProcessHandle!OwnersInv, [Next]_objectVars PROVE ProcessHandle!OwnersInv'
  OBVIOUS
<1> USE NativeAssumption DEF ProcessHandle!OwnersInv
<1> DEFINE Owns(h, p) == handle[h] # None /\ handle[h].pid = p /\ ~handle[h].detached
<1>0. \A p, h : h \in ProcessHandle!Owners(p) <=> h \in Places /\ Owns(h, p)
  BY DEF ProcessHandle!Owners
<1>a. \A p, h : h \in ProcessHandle!Owners(p)' <=> h \in Places /\ Owns(h, p)'
  BY DEF ProcessHandle!Owners
<1>1. ASSUME NEW h \in Places, NEW p \in Pids, ProcessHandle!Spawn(h, p)
      PROVE  ProcessHandle!OwnersInv'
  <2>1. CASE UNCHANGED <<process, handle>>
    BY <1>1, <2>1 DEF ProcessHandle!Spawn, ProcessHandle!Owners
  <2>2. CASE handle' = [handle EXCEPT ![h] = [pid |-> p, detached |-> FALSE]]
    <3> DEFINE r == [pid |-> p, detached |-> FALSE]
    <3>1. /\ handle[h] = None /\ handle' = [handle EXCEPT ![h] = r]
          /\ UNCHANGED <<released, assigned>>
          /\ process' = [process EXCEPT ![p] = "running"] \/ UNCHANGED process
          /\ \A g \in Places : handle[g] # None => handle[g].pid # p
      BY <1>1, <2>2 DEF ProcessHandle!Spawn
    <3>2. r \in ProcessHandle!Handles /\ r.pid = p /\ r.detached = FALSE
      BY DEF ProcessHandle!Handles
    <3>9. r # None
      BY <3>2
    <3> HIDE DEF r
    <3>3. \A q \in Pids \ {p} : ProcessHandle!Owners(q)' = ProcessHandle!Owners(q)
      BY <3>1, <3>2, <3>9 DEF ProcessHandle!Owners
    <3>4. ProcessHandle!Owners(p)' = {h}
      BY <3>1, <3>2, <3>9 DEF ProcessHandle!Owners
    <3> QED
      BY <3>1, <3>2, <3>3, <3>4
  <2> QED
    BY <1>1, <2>1, <2>2 DEF ProcessHandle!Spawn
<1>2. ASSUME NEW p \in Pids, ProcessHandle!ChildEnds(p) PROVE ProcessHandle!OwnersInv'
  BY <1>2 DEF ProcessHandle!ChildEnds, ProcessHandle!Owners
<1>3. ASSUME NEW h \in Places, NEW g \in Places, ProcessHandle!MoveConstruct(h, g)
      PROVE  ProcessHandle!OwnersInv'
  <2> DEFINE r == handle[h]
             left == [r EXCEPT !.detached = TRUE]
  <2>1. /\ r # None /\ handle[g] = None /\ g # h /\ UNCHANGED <<process, released, assigned>>
        /\ handle' = [handle EXCEPT ![g] = r, ![h] = left]
    BY <1>3 DEF ProcessHandle!MoveConstruct, ProcessHandle!Constructed, ProcessHandle!LeftOfMove
  <2>2. r \in ProcessHandle!Handles
    BY <2>1
  <2>3. left \in ProcessHandle!Handles /\ left # None /\ left.detached
    BY <2>2 DEF ProcessHandle!Handles
  <2> HIDE DEF left
  <2>4. /\ handle' \in [Places -> ProcessHandle!Handles \cup {None}]
        /\ handle'[g] = r /\ handle'[h] = left
        /\ \A k \in Places \ {g, h} : handle'[k] = handle[k]
    BY <2>1, <2>2, <2>3
  <2>5. \A p : ProcessHandle!Owners(p)' = IF h \in ProcessHandle!Owners(p)
                                          THEN (ProcessHandle!Owners(p) \ {h}) \cup {g}
                                          ELSE ProcessHandle!Owners(p)
    BY <2>1, <2>3, <2>4 DEF ProcessHandle!Owners
  <2>6. \A p : g \notin ProcessHandle!Owners(p)
    BY <2>1 DEF ProcessHandle!Owners
  <2> QED
    BY <2>1, <2>4, <2>5, <2>6
<1>4. ASSUME NEW h \in Places, NEW g \in Places, ProcessHandle!MoveAssign(h, g)
      PROVE  ProcessHandle!OwnersInv'
  <2> DEFINE left == [handle[h] EXCEPT !.detached = TRUE]
             moved == [pid |-> handle[h].pid, detached |-> TRUE]
  <2>1. /\ h # g /\ handle[h] # None /\ handle[g] # None /\ UNCHANGED <<process, released>>
        /\ handle' = [handle EXCEPT ![g] = moved, ![h] = left]
        /\ assigned' = assigned \cup {handle[h].pid, handle[g].pid}
    BY <1>4 DEF ProcessHandle!MoveAssign, ProcessHandle!LeftOfMove
  <2>2. handle[h] \in ProcessHandle!Handles
    BY <2>1
  <2>3. /\ left \in ProcessHandle!Handles /\ left.detached
        /\ moved \in ProcessHandle!Handles /\ moved.detached
    BY <2>2 DEF ProcessHandle!Handles
  <2> HIDE DEF left, moved
  <2>4. /\ handle' \in [Places -> ProcessHandle!Handles \cup {None}]
        /\ handle'[g] = moved /\ handle'[h] = left
        /\ \A k \in Places \ {g, h} : handle'[k] = handle[k]
    BY <2>1, <2>3
  <2>5. \A p : ProcessHandle!Owners(p)' = ProcessHandle!Owners(p) \ {g, h}
    BY <2>3, <2>4 DEF ProcessHandle!Owners
  <2>6. \A p : ProcessHandle!Owners(p) \cap {g, h} # {} => p \in assigned'
    BY <2>1 DEF ProcessHandle!Owners
  <2> QED
    BY <2>1, <2>4, <2>5, <2>6
<1>5. ASSUME NEW h \in Places, ProcessHandle!Detach(h) PROVE ProcessHandle!OwnersInv'
  <2> DEFINE left == [handle[h] EXCEPT !.detached = TRUE]
  <2>1. /\ handle[h] # None /\ handle' = [handle EXCEPT ![h] = left]
        /\ UNCHANGED <<process, assigned>> /\ released' = released \cup {handle[h].pid}
    BY <1>5 DEF ProcessHandle!Detach
  <2>2. left \in ProcessHandle!Handles /\ left.detached
    BY <2>1 DEF ProcessHandle!Handles
  <2> HIDE DEF left
  <2>3. \A p : ProcessHandle!Owners(p)' = ProcessHandle!Owners(p) \ {h}
    BY <2>1, <2>2 DEF ProcessHandle!Owners
  <2>4. \A p : h \in ProcessHandle!Owners(p) => p \in released'
    BY <2>1 DEF ProcessHandle!Owners
  <2> QED
    BY <2>1, <2>2, <2>3, <2>4
<1>6. ASSUME NEW h \in Places, ProcessHandle!TerminateOrWait(h) PROVE ProcessHandle!OwnersInv'
  <2>1. /\ handle[h] \in ProcessHandle!Handles /\ UNCHANGED <<handle, released, assigned>>
        /\ process' = [process EXCEPT ![handle[h].pid] = "free"] \/ UNCHANGED process
    BY <1>6 DEF ProcessHandle!TerminateOrWait, ProcessHandle!Terminated
  <2> QED
    BY <2>1 DEF ProcessHandle!Owners, ProcessHandle!Handles
<1>7. ASSUME NEW h \in Places, ProcessHandle!Drop(h) PROVE ProcessHandle!OwnersInv'
  <2>1. /\ handle[h] \in ProcessHandle!Handles /\ handle' = [handle EXCEPT ![h] = None]
        /\ UNCHANGED <<released, assigned>>
        /\ IF handle[h].detached THEN UNCHANGED process
           ELSE process[handle[h].pid] # "free"
                  => process' = [process EXCEPT ![handle[h].pid] = "free"]
        /\ process[handle[h].pid] = "free" => UNCHANGED process
    BY <1>7 DEF ProcessHandle!Drop, ProcessHandle!Terminated, ProcessHandle!Handles
  <2>2. \A p : ProcessHandle!Owners(p)' = ProcessHandle!Owners(p) \ {h}
    BY <2>1 DEF ProcessHandle!Owners
  <2>3. \A p : h \in ProcessHandle!Owners(p) <=> p = handle[h].pid /\ ~handle[h].detached
    BY <2>1 DEF ProcessHandle!Owners
  <2>4. handle[h].pid \in Pids
    BY <2>1 DEF ProcessHandle!Handles
  <2> QED
    BY <2>1, <2>2, <2>3, <2>4
<1>8. CASE UNCHANGED processVars
  BY <1>8 DEF processVars, ProcessHandle!Owners
<1> QED
  BY <1>1, <1>2, <1>3, <1>4, <1>5, <1>6, <1>7, <1>8
     DEF Next, ProcessHandle!Next, objectVars, processVars

\* No two handles would terminate one child, and one that no assignment touched has
\* a handle that will, however it was moved.
THEOREM OneOwner == Spec => []OwnedUntilAssigned
<1>1. Init => ProcessHandle!OwnersInv
  BY DEF Init, ProcessHandle!Init, ProcessHandle!OwnersInv, ProcessHandle!Owners
<1>2. ProcessHandle!OwnersInv => OwnedUntilAssigned
  BY DEF ProcessHandle!OwnersInv, OwnedUntilAssigned, ProcessHandle!OwnedUntilAssigned
<1> QED
  BY <1>1, <1>2, OwnersStep, PTL DEF Spec
-----------------------------------------------------------------------------
(* The state streams.                                                      *)

\* Writing over a stream makes it as long as it has to be.
LEMMA OverwriteProperties ==
  ASSUME NEW S, 0 \in S, NEW s \in Seq(S), NEW t \in Seq(S), NEW p \in Nat
  PROVE  LET o == StateStream!Overwrite(s, p, t)
         IN /\ o \in Seq(S)
            /\ Len(o) = StateStream!Larger(Len(s), p + Len(t))
            /\ \A k \in 1..Len(o) :
                 o[k] = IF k \in (p + 1)..(p + Len(t)) THEN t[k - p]
                        ELSE IF k <= Len(s) THEN s[k] ELSE 0
<1> DEFINE n == StateStream!Larger(Len(s), p + Len(t))
           o == StateStream!Overwrite(s, p, t)
<1>1. n \in Nat /\ n >= Len(s) /\ n >= p + Len(t)
  BY DEF StateStream!Larger
<1>2. o = [k \in 1..n |-> IF k \in (p + 1)..(p + Len(t)) THEN t[k - p]
                          ELSE IF k <= Len(s) THEN s[k] ELSE 0]
  BY DEF StateStream!Overwrite
<1> HIDE DEF n, o
<1>3. \A k \in 1..n : o[k] \in S
  BY <1>1, <1>2
<1>4. o \in [1..n -> S]
  BY <1>2, <1>3
<1>5. o \in Seq(S)
  BY <1>1, <1>4, SeqDef
<1>6. Len(o) = n
  BY <1>1, <1>4, <1>5, LenProperties
<1> QED
  BY <1>1, <1>2, <1>5, <1>6 DEF n, o

\* At the end of a stream, that is appending.
LEMMA OverwriteAtEnd ==
  ASSUME NEW S, 0 \in S, NEW s \in Seq(S), NEW t \in Seq(S)
  PROVE  StateStream!Overwrite(s, Len(s), t) = s \o t
<1> DEFINE o == StateStream!Overwrite(s, Len(s), t)
<1>1. /\ o \in Seq(S) /\ Len(o) = Len(s) + Len(t)
      /\ \A k \in 1..Len(o) : o[k] = IF k \in (Len(s) + 1)..(Len(s) + Len(t)) THEN t[k - Len(s)]
                                     ELSE IF k <= Len(s) THEN s[k] ELSE 0
  BY OverwriteProperties DEF StateStream!Larger
<1> HIDE DEF o
<1>2. \A k \in 1..Len(o) : o[k] = (s \o t)[k]
  BY <1>1, ConcatProperties
<1>3. o = s \o t
  BY <1>1, <1>2, ConcatProperties, SeqEqual
<1> QED
  BY <1>3 DEF o

\* What is written at a position is there, read from that position.
LEMMA OverwriteArrives ==
  ASSUME NEW S, 0 \in S, NEW s \in Seq(S), NEW t \in Seq(S), NEW p \in 0..Len(s)
  PROVE  LET o == StateStream!Overwrite(s, p, t)
         IN StateStream!IsPrefix(t, SubSeq(o, p + 1, Len(o)))
<1> DEFINE o == StateStream!Overwrite(s, p, t)
           u == SubSeq(o, p + 1, Len(o))
<1>0. Len(s) \in Nat /\ Len(t) \in Nat /\ p \in Nat /\ p <= Len(s)
  BY LenProperties
<1>a. /\ o \in Seq(S) /\ Len(o) = StateStream!Larger(Len(s), p + Len(t))
      /\ \A k \in 1..Len(o) :
           o[k] = IF k \in (p + 1)..(p + Len(t)) THEN t[k - p]
                  ELSE IF k <= Len(s) THEN s[k] ELSE 0
  BY <1>0, OverwriteProperties
<1> HIDE DEF o
<1>1. /\ o \in Seq(S) /\ Len(o) \in Nat /\ Len(o) >= p + Len(t)
      /\ \A k \in 1..Len(t) : o[p + k] = t[k]
  <2>1. o \in Seq(S) /\ Len(o) \in Nat /\ Len(o) >= p + Len(t)
    BY <1>0, <1>a DEF StateStream!Larger
  <2>2. ASSUME NEW k \in 1..Len(t) PROVE o[p + k] = t[k]
    <3>1. p + k \in 1..Len(o) /\ p + k \in (p + 1)..(p + Len(t)) /\ (p + k) - p = k
      BY <1>0, <2>1
    <3> QED
      BY <1>a, <3>1
  <2> QED
    BY <2>1, <2>2
<1>2. u \in Seq(S) /\ Len(u) >= Len(t) /\ \A k \in 1..Len(t) : u[k] = t[k]
  BY <1>1, SubSeqProperties
<1> HIDE DEF u
<1>3. /\ SubSeq(u, 1, Len(t)) \in Seq(S) /\ Len(SubSeq(u, 1, Len(t))) = Len(t)
      /\ \A k \in 1..Len(t) : SubSeq(u, 1, Len(t))[k] = t[k]
  BY <1>2, SubSeqProperties
<1>4. SubSeq(u, 1, Len(t)) = t /\ SubSeq(t, 1, Len(t)) = t
  BY <1>3, SeqEqual, SubSeqFull
<1>5. StateStream!IsPrefix(t, u)
  BY <1>2, <1>4 DEF StateStream!IsPrefix
<1> QED
  BY <1>5 DEF o, u

\* A prefix and the bytes behind it are a longer prefix.
LEMMA SubSeqGrows ==
  ASSUME NEW S, NEW s \in Seq(S), NEW p \in 0..Len(s), NEW n \in 0..(Len(s) - p)
  PROVE  SubSeq(s, 1, p) \o SubSeq(s, p + 1, p + n) = SubSeq(s, 1, p + n)
<1> DEFINE a == SubSeq(s, 1, p)
           b == SubSeq(s, p + 1, p + n)
           c == SubSeq(s, 1, p + n)
<1>1. /\ Len(s) \in Nat /\ p \in Nat /\ n \in Nat
      /\ \A k \in 1..Len(s) : s[k] \in S
  BY LenProperties, ElementOfSeq
<1>2. a \in Seq(S) /\ Len(a) = p /\ \A k \in 1..p : a[k] = s[k]
  BY <1>1, SubSeqProperties
<1>3. b \in Seq(S) /\ Len(b) = n /\ \A k \in 1..n : b[k] = s[p + k]
  BY <1>1, SubSeqProperties
<1>4. c \in Seq(S) /\ Len(c) = p + n /\ \A k \in 1..p + n : c[k] = s[k]
  BY <1>1, SubSeqProperties
<1> HIDE DEF a, b, c
<1>c. a \in Seq(S) /\ b \in Seq(S) /\ Len(a) = p /\ Len(b) = n
  BY <1>2, <1>3
<1>d. /\ a \o b \in Seq(S) /\ Len(a \o b) = Len(a) + Len(b)
      /\ \A k \in 1..Len(a) + Len(b) :
           (a \o b)[k] = IF k <= Len(a) THEN a[k] ELSE b[k - Len(a)]
  BY <1>c, ConcatProperties
<1>5. /\ a \o b \in Seq(S) /\ Len(a \o b) = p + n
      /\ \A k \in 1..p + n : (a \o b)[k] = IF k <= p THEN a[k] ELSE b[k - p]
  BY <1>c, <1>d
<1>6. ASSUME NEW k \in 1..p + n PROVE (a \o b)[k] = c[k]
  <2>1. CASE k <= p
    <3>1. k \in 1..p
      BY <1>1, <2>1
    <3> QED
      BY <1>2, <1>4, <1>5, <2>1, <3>1
  <2>2. CASE k > p
    <3>1. k - p \in 1..n /\ p + (k - p) = k
      BY <1>1, <2>2
    <3>2. b[k - p] = s[k]
      BY <1>3, <3>1
    <3> QED
      BY <1>4, <1>5, <2>2, <3>2
  <2>3. k <= p \/ k > p
    BY <1>1
  <2> QED
    BY <1>1, <2>1, <2>2, <2>3
<1>7. a \o b = c
  BY <1>1, <1>4, <1>5, <1>6, SeqEqual
<1> QED
  BY <1>7 DEF a, b, c

\* A bounded sequence is a sequence.
LEMMA UpToSeq ==
  ASSUME NEW S, NEW n \in Nat, NEW s \in StateStream!UpTo(S, n)
  PROVE  s \in Seq(S \cup {0})
<1>1. PICK k \in 0..n : s \in [1..k -> S]
  BY DEF StateStream!UpTo
<1>2. k \in Nat /\ s \in [1..k -> S \cup {0}]
  BY <1>1
<1> QED
  BY <1>2, SeqDef

\* A stream made as long as n is one of n bytes.
LEMMA SizedProperties ==
  ASSUME NEW S, 0 \in S, NEW s \in Seq(S), NEW n \in Nat
  PROVE  StateStream!Sized(s, n) \in Seq(S) /\ Len(StateStream!Sized(s, n)) = n
<1> DEFINE o == StateStream!Sized(s, n)
<1>1. o = [k \in 1..n |-> IF k \in DOMAIN s THEN s[k] ELSE 0]
  BY DEF StateStream!Sized
<1> HIDE DEF o
<1>2. \A k \in 1..n : o[k] \in S
  BY <1>1
<1>3. o \in [1..n -> S]
  BY <1>1, <1>2
<1>4. o \in Seq(S)
  BY <1>3, SeqDef
<1>5. Len(o) = n
  BY <1>3, <1>4, LenProperties
<1> QED
  BY <1>4, <1>5 DEF o

\* A seek goes to a position in the stream, the same one in both if they are where
\* the other is.
LEMMA SoughtPosition ==
  ASSUME NEW mode \in {"set", "cur", "end"}, NEW from \in Nat, NEW end \in Nat, NEW pos \in Int
  PROVE  LET p == StateStream!SeekBase(mode, from, end) + pos
             q == StateStream!Smaller(StateStream!Larger(p, 0), end)
         IN q \in 0..end
<1>1. StateStream!SeekBase(mode, from, end) \in {0, from, end}
  BY Zenon DEF StateStream!SeekBase
<1> QED
  BY <1>1 DEF StateStream!Smaller, StateStream!Larger

\* The plugin's half and the host's make of the stream what the plugin does to it.
LEMMA StreamStep ==
  StateStream!StreamInv /\ [Next]_objectVars => StateStream!StreamInv'
<1> SUFFICES ASSUME StateStream!StreamInv, [Next]_objectVars PROVE StateStream!StreamInv'
  OBVIOUS
<1> DEFINE B == Bytes \cup {0}
<1> USE DEF StateStream!StreamInv
<1> HIDE DEF B
<1>z. /\ 0 \in B /\ host \in Seq(B) /\ buffer_ \in Seq(B) /\ file \in Seq(B)
      /\ Len(host) \in Nat /\ Len(buffer_) \in Nat /\ Len(file) \in Nat
      /\ position \in Nat /\ header \in Nat /\ seek_position_ \in Nat /\ filePosition \in Nat
  BY LenProperties DEF B
<1>1. ASSUME StateStream!CopyVst3 PROVE StateStream!StreamInv'
  <2>1. /\ api = "vst3" /\ phase = "copying" /\ phase' = "plugin" /\ ~failed
        /\ position = header /\ filePosition = 0 /\ file = SubSeq(host, position + 1, Len(host))
    BY <1>1 DEF StateStream!CopyVst3, StateStream!Vst3Inv
  <2>2. CASE buffer_' = file /\ failed' = failed
    BY <1>1, <2>1, <2>2 DEF StateStream!CopyVst3, StateStream!Vst3Inv,
                            StateStream!ReadsAsHostStream, StateStream!StateArrives
  <2>3. CASE buffer_' = [k \in DOMAIN file |-> 0] /\ failed' = TRUE
    <3>1. DOMAIN file = 1..Len(file)
      BY <1>z, LenProperties
    <3>2. buffer_' \in [1..Len(file) -> B]
      BY <1>z, <2>3, <3>1
    <3>3. buffer_' \in Seq(B)
      BY <1>z, <3>2, SeqDef
    <3>4. Len(buffer_') = Len(file)
      BY <1>z, <3>2, <3>3, LenProperties
    <3> QED
      BY <1>1, <2>1, <2>3, <3>3, <3>4
         DEF StateStream!CopyVst3, StateStream!Vst3Inv, StateStream!ReadsAsHostStream,
             StateStream!StateArrives, B
  <2> QED
    BY <1>1, <2>1, <2>2, <2>3 DEF StateStream!CopyVst3
<1>2. ASSUME StateStream!CopyClap PROVE StateStream!StreamInv'
  <2>1. PICK n \in -1..(Len(host) - position) :
          /\ n = 0 => position = Len(host)
          /\ buffer_' = buffer_ \o SubSeq(host, position + 1,
                                          position + StateStream!Larger(n, 0))
          /\ position' = position + StateStream!Larger(n, 0)
          /\ failed' = (n = -1)
          /\ phase' = IF n <= 0 THEN "plugin" ELSE "copying"
    BY <1>2 DEF StateStream!CopyClap, StateStream!LastRead
  <2> DEFINE taken == StateStream!Larger(n, 0)
  <2>2. /\ api = "istream" /\ buffer_ = SubSeq(host, 1, position) /\ position <= Len(host)
        /\ file = host /\ filePosition = 0 /\ ~failed
    BY <1>2 DEF StateStream!CopyClap, StateStream!IstreamInv
  <2>3. taken \in 0..(Len(host) - position) /\ position \in 0..Len(host)
    BY <1>z, <2>1, <2>2 DEF StateStream!Larger
  <2>4. position' = position + taken
        /\ buffer_' = buffer_ \o SubSeq(host, position + 1, position + taken)
    BY <2>1
  <2> HIDE DEF taken
  <2>5. buffer_' = SubSeq(host, 1, position') /\ position' \in 0..Len(host)
    BY <1>z, <2>2, <2>3, <2>4, SubSeqGrows
  <2>6. buffer_' \in Seq(B)
    BY <1>z, <2>5, SubSeqProperties
  <2>7. n = 0 => buffer_' = file
    <3> SUFFICES ASSUME n = 0 PROVE buffer_' = file
      OBVIOUS
    <3>1. position' = Len(host)
      BY <1>z, <2>1, <2>3 DEF StateStream!Larger
    <3> QED
      BY <1>z, <2>2, <2>5, <3>1, SubSeqFull
  <2>8. /\ failed' \in BOOLEAN /\ (phase' = "copying" => ~failed')
        /\ (phase' = "plugin" /\ ~failed' => n = 0) /\ phase' \in {"plugin", "copying"}
    <3>1. n = -1 \/ n = 0 \/ n > 0
      BY <1>z
    <3>2. failed' \in BOOLEAN /\ (failed' <=> n = -1)
      BY <2>1, Zenon
    <3>3. phase' = IF n <= 0 THEN "plugin" ELSE "copying"
      BY <2>1
    <3> QED
      BY <3>1, <3>2, <3>3
  <2>9. UNCHANGED <<api, host, header, seek_position_, file, filePosition, result, expected>>
    BY <1>2 DEF StateStream!CopyClap
  <2>10. StateStream!IstreamInv'
    BY <2>2, <2>5, <2>7, <2>8, <2>9, <1>z DEF StateStream!IstreamInv
  <2>11. StateStream!ReadsAsHostStream' /\ StateStream!StateArrives'
    BY <2>2, <2>9 DEF StateStream!ReadsAsHostStream, StateStream!StateArrives
  <2>12. phase = "copying" /\ seek_position_ = filePosition
    BY <1>2, <2>2 DEF StateStream!CopyClap
  <2> QED
    BY <1>z, <2>2, <2>5, <2>6, <2>8, <2>9, <2>10, <2>11, <2>12 DEF B
<1>3. ASSUME NEW n \in 1..2, StateStream!Read(n) PROVE StateStream!StreamInv'
  <2> DEFINE count == StateStream!Smaller(n, Len(buffer_) - seek_position_)
             taken == StateStream!Larger(count, 0)
             there == StateStream!Larger(StateStream!Smaller(n, Len(file) - filePosition), 0)
  <2>1. /\ api \in {"vst3", "istream"} /\ phase = "plugin"
        /\ api = "vst3" \/ ~failed => Len(buffer_) = Len(file) /\ seek_position_ = filePosition
        /\ ~failed => buffer_ = file
        /\ api = "istream" => filePosition <= Len(file)
    BY <1>3 DEF StateStream!Read, StateStream!Op, StateStream!Vst3Inv, StateStream!IstreamInv
  <2>2. /\ taken \in Nat /\ there \in Nat /\ count \in Int
        /\ filePosition <= Len(file) => filePosition + there <= Len(file)
        /\ count = taken \/ (count < 0 /\ taken = 0)
    BY <1>z DEF StateStream!Smaller, StateStream!Larger
  <2>3. /\ result' = StateStream!Answer(count,
                       SubSeq(buffer_, seek_position_ + 1, seek_position_ + taken))
        /\ expected' = StateStream!Answer(there,
                         SubSeq(file, filePosition + 1, filePosition + there))
        /\ seek_position_' = seek_position_ + taken /\ filePosition' = filePosition + there
    BY <1>3 DEF StateStream!Read
  <2>4. api = "vst3" \/ ~failed => taken = there /\ seek_position_' = filePosition'
    BY <2>1, <2>3
  <2> HIDE DEF count, taken, there
  <2>5. /\ seek_position_' \in Nat /\ filePosition' \in Nat
        /\ api = "istream" => filePosition' <= Len(file)
    BY <1>z, <2>1, <2>2, <2>3
  <2>6. /\ result'.count = count /\ expected'.count = there
        /\ ~failed => result'.bytes = expected'.bytes
    BY <2>1, <2>3, <2>4 DEF StateStream!Answer
  <2>7. ~failed =>
          /\ result'.bytes = expected'.bytes
          /\ result'.count = expected'.count \/ (result'.count < 0 /\ expected'.count = 0)
    BY <2>2, <2>4, <2>6
  <2>8. UNCHANGED <<api, host, position, header, phase, failed, buffer_, file>>
    BY <1>3 DEF StateStream!Read, StateStream!Unmoved
  <2>a. /\ api = "vst3" => StateStream!Vst3Inv
        /\ api = "istream" => StateStream!IstreamInv
    OBVIOUS
  <2>9. api = "vst3" => StateStream!Vst3Inv'
    <3> HIDE DEF StateStream!StreamInv
    <3> QED
      BY <2>a, <2>1, <2>8 DEF StateStream!Vst3Inv
  <2>10. api = "istream" => StateStream!IstreamInv'
    <3> HIDE DEF StateStream!StreamInv
    <3> QED
      BY <2>a, <2>1, <2>5, <2>8 DEF StateStream!IstreamInv
  <2>11. StateStream!ReadsAsHostStream'
    <3> HIDE DEF StateStream!StreamInv
    <3> QED
      BY <2>7, <2>8 DEF StateStream!ReadsAsHostStream
  <2>12. StateStream!StateArrives'
    <3> HIDE DEF StateStream!StreamInv
    <3> QED
      BY <2>1, <2>8 DEF StateStream!StateArrives
  <2> QED
    BY <1>z, <2>1, <2>4, <2>5, <2>8, <2>9, <2>10, <2>11, <2>12
<1>4. ASSUME NEW t \in StateStream!UpTo(Bytes, 2), StateStream!Write(t)
      PROVE  StateStream!StreamInv'
  <2>1. t \in Seq(B) /\ Len(t) \in Nat
    BY UpToSeq, LenProperties DEF B
  <2>2. /\ api \in {"vst3", "ostream"} /\ phase = "plugin"
        /\ ~failed => buffer_ = file
        /\ api = "ostream" => ~failed
        /\ api = "vst3" => Len(buffer_) = Len(file) /\ seek_position_ = filePosition
    BY <1>4 DEF StateStream!Write, StateStream!Op, StateStream!Vst3Inv, StateStream!OstreamInv
  <2>3. ~failed => buffer_' = file'
    <3>1. CASE api = "vst3"
      BY <1>4, <2>2, <3>1 DEF StateStream!Write, StateStream!Written
    <3>2. CASE api = "ostream"
      <4>1. file' = file \o t
        BY <1>4, <1>z, <2>1, <3>2, OverwriteAtEnd DEF StateStream!Write, StateStream!OstreamInv
      <4> QED
        BY <1>4, <2>2, <3>2, <4>1 DEF StateStream!Write, StateStream!Written
    <3> QED
      BY <2>2, <3>1, <3>2
  <2>4. /\ file' \in Seq(B)
        /\ Len(file') = StateStream!Larger(Len(file), filePosition + Len(t))
    BY <1>4, <1>z, <2>1, OverwriteProperties DEF StateStream!Write
  <2>5. api = "vst3" => buffer_' \in Seq(B) /\ Len(buffer_') = Len(file')
    <3> SUFFICES ASSUME api = "vst3" PROVE buffer_' \in Seq(B) /\ Len(buffer_') = Len(file')
      OBVIOUS
    <3>1. buffer_' = StateStream!Overwrite(buffer_, seek_position_, t)
      BY <1>4 DEF StateStream!Write, StateStream!Written
    <3>2. /\ buffer_' \in Seq(B)
          /\ Len(buffer_') = StateStream!Larger(Len(buffer_), seek_position_ + Len(t))
      BY <1>z, <2>1, <3>1, OverwriteProperties
    <3> QED
      BY <2>2, <2>4, <3>2
  <2>6. /\ filePosition' \in Nat
        /\ filePosition = Len(file) => filePosition' = Len(file')
    BY <1>4, <1>z, <2>1, <2>4 DEF StateStream!Write, StateStream!Larger
  <2>7. /\ api = "vst3" => seek_position_' = filePosition'
        /\ seek_position_' \in Nat
    BY <1>4, <1>z, <2>1, <2>2 DEF StateStream!Write
  <2> QED
    BY <1>4, <2>2, <2>3, <2>4, <2>5, <2>6, <2>7
       DEF StateStream!Write, StateStream!Op, StateStream!Unmoved, StateStream!Vst3Inv,
           StateStream!OstreamInv, StateStream!ReadsAsHostStream, StateStream!StateArrives, B
<1>5. ASSUME NEW mode \in {"set", "cur", "end"}, NEW pos \in -1..1, StateStream!Seek(mode, pos)
      PROVE  StateStream!StreamInv'
  <2>1. /\ Len(buffer_) = Len(file) /\ (~failed => buffer_ = file)
        /\ seek_position_ = filePosition /\ phase = "plugin" /\ api = "vst3"
    BY <1>5 DEF StateStream!Seek, StateStream!Op, StateStream!Vst3Inv
  <2>2. seek_position_' = filePosition' /\ result' = expected'
    BY <1>5, <2>1 DEF StateStream!Seek, StateStream!Sought
  <2>3. filePosition' \in Nat
    <3> DEFINE base == StateStream!SeekBase(mode, filePosition, Len(file))
               q == StateStream!Smaller(StateStream!Larger(base + pos, 0), Len(file))
    <3>1. filePosition' = q
      BY <1>5 DEF StateStream!Seek
    <3>2. pos \in Int
      OBVIOUS
    <3>3. q \in 0..Len(file)
      BY <1>z, <3>2, SoughtPosition
    <3> HIDE DEF q
    <3> QED
      BY <1>z, <3>1, <3>3
  <2> QED
    BY <1>5, <2>1, <2>2, <2>3
       DEF StateStream!Seek, StateStream!Op, StateStream!Unmoved, StateStream!Vst3Inv,
           StateStream!ReadsAsHostStream, StateStream!StateArrives
<1>6. ASSUME NEW n \in 0..(MaxLength + 1), StateStream!SetStreamSize(n)
      PROVE  StateStream!StreamInv'
  <2>1. /\ ~failed => buffer_ = file
        /\ seek_position_ = filePosition /\ phase = "plugin" /\ api = "vst3"
    BY <1>6 DEF StateStream!SetStreamSize, StateStream!Op, StateStream!Vst3Inv
  <2>2. n \in Nat
    BY NativeAssumption
  <2>3. /\ file' \in Seq(B) /\ Len(file') = n
        /\ buffer_' \in Seq(B) /\ Len(buffer_') = n
        /\ ~failed => buffer_' = file'
    BY <1>6, <1>z, <2>1, <2>2, SizedProperties DEF StateStream!SetStreamSize
  <2> QED
    BY <1>6, <2>1, <2>2, <2>3
       DEF StateStream!SetStreamSize, StateStream!Op, StateStream!Unmoved, StateStream!Vst3Inv,
           StateStream!ReadsAsHostStream, StateStream!StateArrives, B
<1>11. ASSUME StateStream!Ask PROVE StateStream!StreamInv'
  <2>1. /\ Len(buffer_) = Len(file) /\ seek_position_ = filePosition
        /\ phase = "plugin" /\ api = "vst3"
    BY <1>11 DEF StateStream!Ask, StateStream!Op, StateStream!Vst3Inv
  <2>2. result' = expected'
    BY <1>11, <2>1 DEF StateStream!Ask
  <2> QED
    BY <1>11, <2>1, <2>2
       DEF StateStream!Ask, StateStream!Op, StateStream!Unmoved, StateStream!Vst3Inv,
           StateStream!ReadsAsHostStream, StateStream!StateArrives
<1>7. ASSUME StateStream!Return PROVE StateStream!StreamInv'
  <2>1. CASE api = "ostream"
    <3>1. host = SubSeq(buffer_, 1, position) /\ position = 0
      BY <1>7, <2>1, SubSeqEmpty DEF StateStream!Return, StateStream!OstreamInv
    <3> QED
      BY <1>7, <1>z, <2>1, <3>1
         DEF StateStream!Return, StateStream!OstreamInv, StateStream!ReadsAsHostStream,
             StateStream!StateArrives
  <2>2. CASE api # "ostream"
    BY <1>7, <2>2 DEF StateStream!Return, StateStream!Vst3Inv, StateStream!IstreamInv,
                      StateStream!ReadsAsHostStream, StateStream!StateArrives
  <2> QED
    BY <2>1, <2>2
<1>8. ASSUME StateStream!WriteBackVst3 PROVE StateStream!StreamInv'
  <2>1. /\ api = "vst3" /\ position = header /\ header \in 0..Len(host)
        /\ Len(buffer_) = Len(file) /\ (~failed => buffer_ = file)
    BY <1>8, <1>z DEF StateStream!WriteBackVst3, StateStream!Vst3Inv
  <2>2. host' = StateStream!Overwrite(host, header, buffer_)
    BY <1>8, <2>1 DEF StateStream!WriteBackVst3, StateStream!WrittenBack
  <2>3. /\ host' \in Seq(B)
        /\ Len(host') = StateStream!Larger(Len(host), header + Len(buffer_))
    BY <1>z, <2>2, OverwriteProperties
  <2>4. StateStream!IsPrefix(buffer_, SubSeq(host', header + 1, Len(host')))
    BY <1>z, <2>1, <2>2, OverwriteArrives
  <2>5. header <= Len(host') /\ position' \in Nat
    BY <1>8, <1>z, <2>1, <2>3 DEF StateStream!Larger, StateStream!WriteBackVst3
  <2> QED
    BY <1>8, <2>1, <2>3, <2>4, <2>5
       DEF StateStream!WriteBackVst3, StateStream!Vst3Inv, StateStream!ReadsAsHostStream,
           StateStream!StateArrives, B
<1>9. ASSUME StateStream!WriteToStream PROVE StateStream!StreamInv'
  <2>1. /\ api = "ostream" /\ phase = "writing" /\ header = 0 /\ buffer_ = file
        /\ position <= Len(buffer_) /\ host = SubSeq(buffer_, 1, position)
    BY <1>9 DEF StateStream!WriteToStream, StateStream!OstreamInv
  <2>2. CASE position = Len(buffer_)
    <3>1. host = file /\ SubSeq(host, header + 1, Len(host)) = file
      BY <1>z, <2>1, <2>2, SubSeqFull
    <3>2. StateStream!IsPrefix(file, file)
      BY <1>z DEF StateStream!IsPrefix
    <3> QED
      BY <1>9, <2>1, <2>2, <3>1, <3>2
         DEF StateStream!WriteToStream, StateStream!OstreamInv, StateStream!ReadsAsHostStream,
             StateStream!StateArrives
  <2>3. CASE position # Len(buffer_)
    <3>1. PICK n \in 1..(Len(buffer_) - position) :
            /\ host' = host \o SubSeq(buffer_, position + 1, position + n)
            /\ position' = position + n
      BY <1>9, <2>3 DEF StateStream!WriteToStream
    <3>9. position \in 0..Len(buffer_) /\ n \in 0..(Len(buffer_) - position)
      BY <1>z, <2>1
    <3>2. host' = SubSeq(buffer_, 1, position + n)
      BY <1>z, <2>1, <3>1, <3>9, SubSeqGrows
    <3>3. host' \in Seq(B)
      BY <1>z, <2>1, <3>1, <3>2, SubSeqProperties
    <3>4. position' \in Nat /\ position' <= Len(buffer_) /\ phase' = "writing"
      BY <1>9, <1>z, <2>1, <2>3, <3>1 DEF StateStream!WriteToStream
    <3> QED
      BY <1>9, <2>1, <2>3, <3>1, <3>2, <3>3, <3>4
         DEF StateStream!WriteToStream, StateStream!OstreamInv, StateStream!ReadsAsHostStream,
             StateStream!StateArrives, B
  <2> QED
    BY <2>2, <2>3
<1>10. CASE UNCHANGED streamVars
  BY <1>10 DEF streamVars, StateStream!Vst3Inv, StateStream!IstreamInv, StateStream!OstreamInv,
               StateStream!ReadsAsHostStream, StateStream!StateArrives
<1> QED
  BY <1>1, <1>2, <1>3, <1>4, <1>5, <1>6, <1>7, <1>8, <1>9, <1>10, <1>11
     DEF Next, StateStream!Next, objectVars

\* The initial states: nothing has been copied.
LEMMA StreamInit == Init => StateStream!StreamInv
<1> SUFFICES ASSUME Init PROVE StateStream!StreamInv
  OBVIOUS
<1>1. host \in Seq(Bytes \cup {0}) /\ Len(host) \in Nat
  BY NativeAssumption, UpToSeq, LenProperties DEF Init, StateStream!Init
<1>2. /\ api \in {"vst3", "istream", "ostream"} /\ header \in 0..Len(host) /\ position = header
      /\ api # "vst3" => header = 0
      /\ api = "ostream" => host = <<>>
      /\ phase = IF api = "ostream" THEN "plugin" ELSE "copying"
      /\ ~failed /\ failed \in BOOLEAN
      /\ buffer_ = <<>> /\ seek_position_ = 0 /\ filePosition = 0
      /\ file = SubSeq(host, header + 1, Len(host)) /\ result = expected
  <2>1. /\ header \in IF api = "vst3" THEN 0..Len(host) ELSE {0}
        /\ api \in {"vst3", "istream", "ostream"}
    BY DEF Init, StateStream!Init
  <2>2. header \in 0..Len(host) /\ (api # "vst3" => header = 0)
    BY <1>1, <2>1
  <2> QED
    BY <2>2 DEF Init, StateStream!Init
<1>3. file \in Seq(Bytes \cup {0}) /\ Len(file) \in Nat
  BY <1>1, <1>2, SubSeqProperties, LenProperties
<1>4. buffer_ \in Seq(Bytes \cup {0}) /\ buffer_ = SubSeq(host, 1, 0)
  BY <1>2, SubSeqEmpty
<1>5. header = 0 => file = host
  BY <1>1, <1>2, SubSeqFull
<1>6. api = "ostream" => Len(file) = 0 /\ buffer_ = file
  BY <1>1, <1>2, <1>5
<1>7. StateStream!ReadsAsHostStream
  BY <1>2 DEF StateStream!ReadsAsHostStream
<1>8. phase \in {"copying", "plugin"} /\ (api # "ostream" => phase = "copying")
  BY <1>2
<1>9. StateStream!StateArrives
  BY <1>8 DEF StateStream!StateArrives
<1>10. api = "vst3" => StateStream!Vst3Inv
  BY <1>1, <1>2, <1>8 DEF StateStream!Vst3Inv
<1>11. api = "istream" => StateStream!IstreamInv
  BY <1>1, <1>2, <1>3, <1>4, <1>5, <1>8 DEF StateStream!IstreamInv
<1>12. api = "ostream" => StateStream!OstreamInv
  BY <1>2, <1>4, <1>6, <1>8 DEF StateStream!OstreamInv
<1> QED
  BY <1>1, <1>2, <1>3, <1>4, <1>7, <1>8, <1>9, <1>10, <1>11, <1>12
     DEF StateStream!StreamInv

\* Unless the host's stream failed to be read, the plugin is given the bytes,
\* positions and sizes it would have, also where the position is behind the end: there
\* only the number counted may differ, negative instead of none.
THEOREM CopyReadsAsStream == Spec => []ReadsAsHostStream
<1>1. StateStream!StreamInv => ReadsAsHostStream
  BY DEF StateStream!StreamInv, ReadsAsHostStream
<1> QED
  BY <1>1, StreamInit, StreamStep, PTL DEF Spec

\* What a plugin saved is in the host's stream, behind the host's header.
THEOREM SavedStateArrives == Spec => []StateArrives
<1>1. StateStream!StreamInv => StateArrives
  BY DEF StateStream!StreamInv, StateArrives
<1> QED
  BY <1>1, StreamInit, StreamStep, PTL DEF Spec
-----------------------------------------------------------------------------
(* The proxies.                                                            *)

\* FUnknown is asked for apart from the interfaces of a kind of proxy.
LEMMA FUnknownIsNone ==
  ASSUME NEW k \in ObjectProxy!Kinds
  PROVE  "FUnknown" \notin ObjectProxy!InterfacesOf(k)
BY Zenon DEF ObjectProxy!Kinds, ObjectProxy!InterfacesOf, ObjectProxy!PluginInterfaces,
             ObjectProxy!ViewInterfaces, ObjectProxy!HandlerInterfaces,
             ObjectProxy!ContextInterfaces

\* Every list names every interface known to be set.
LEMMA ListsComplete ==
  ASSUME NEW k \in ObjectProxy!Kinds
  PROVE  /\ k # "factory" => ObjectProxy!Known(k) \subseteq ObjectProxy!Asked(k)
         /\ ObjectProxy!Known(k) \subseteq ObjectProxy!Sent(k)
         /\ ObjectProxy!Known(k) \subseteq ObjectProxy!Answered(k)
         /\ k = "plugin" => ObjectProxy!Known(k) \subseteq ObjectProxy!PluginUpdated
<1>1. CASE k = "plugin"
  <2>1. ObjectProxy!InterfacesOf(k) = DOMAIN ObjectProxy!PluginInterfaces
    BY <1>1, Zenon DEF ObjectProxy!InterfacesOf
  <2>2. /\ ObjectProxy!Asked(k) = ObjectProxy!PluginAsked
        /\ ObjectProxy!Sent(k) = ObjectProxy!PluginSent
        /\ ObjectProxy!Answered(k) = ObjectProxy!PluginAnswered
    BY <1>1, Zenon DEF ObjectProxy!Asked, ObjectProxy!Sent, ObjectProxy!Answered
  <2>3. DOMAIN ObjectProxy!PluginInterfaces = ObjectProxy!PluginSent
    BY DEF ObjectProxy!PluginInterfaces, ObjectProxy!PluginSent
  <2>4. ObjectProxy!PluginSent \ {"YaNoteExpressionPhysicalUIMapping"}
          \subseteq ObjectProxy!PluginAsked
    BY DEF ObjectProxy!PluginSent, ObjectProxy!PluginAsked
  <2>5. ObjectProxy!PluginSent \subseteq ObjectProxy!PluginAnswered
    BY DEF ObjectProxy!PluginSent, ObjectProxy!PluginAnswered
  <2>6. ObjectProxy!PluginSent \subseteq ObjectProxy!PluginUpdated
    BY DEF ObjectProxy!PluginSent, ObjectProxy!PluginUpdated
  <2> QED
    BY <1>1, <2>1, <2>2, <2>3, <2>4, <2>5, <2>6 DEF ObjectProxy!Known
<1>2. CASE k = "view"
  <2>1. ObjectProxy!InterfacesOf(k) = DOMAIN ObjectProxy!ViewInterfaces
    BY <1>2, Zenon DEF ObjectProxy!InterfacesOf
  <2>2. /\ ObjectProxy!Asked(k) = ObjectProxy!ViewAsked
        /\ ObjectProxy!Sent(k) = ObjectProxy!ViewSent
        /\ ObjectProxy!Answered(k) = ObjectProxy!ViewAnswered
    BY <1>2, Zenon DEF ObjectProxy!Asked, ObjectProxy!Sent, ObjectProxy!Answered
  <2> QED
    BY <1>2, <2>1, <2>2 DEF ObjectProxy!Known, ObjectProxy!ViewInterfaces,
       ObjectProxy!ViewAsked, ObjectProxy!ViewSent, ObjectProxy!ViewAnswered
<1>3. CASE k = "handler"
  <2>1. ObjectProxy!InterfacesOf(k) = DOMAIN ObjectProxy!HandlerInterfaces
    BY <1>3, Zenon DEF ObjectProxy!InterfacesOf
  <2>2. /\ ObjectProxy!Asked(k) = ObjectProxy!HandlerAsked
        /\ ObjectProxy!Sent(k) = ObjectProxy!HandlerSent
        /\ ObjectProxy!Answered(k) = ObjectProxy!HandlerAnswered
    BY <1>3, Zenon DEF ObjectProxy!Asked, ObjectProxy!Sent, ObjectProxy!Answered
  <2> QED
    BY <1>3, <2>1, <2>2 DEF ObjectProxy!Known, ObjectProxy!HandlerInterfaces,
       ObjectProxy!HandlerAsked, ObjectProxy!HandlerSent, ObjectProxy!HandlerAnswered
<1>4. CASE k = "context"
  <2>1. ObjectProxy!InterfacesOf(k) = DOMAIN ObjectProxy!ContextInterfaces
    BY <1>4, Zenon DEF ObjectProxy!InterfacesOf
  <2>2. /\ ObjectProxy!Asked(k) = ObjectProxy!ContextAsked
        /\ ObjectProxy!Sent(k) = ObjectProxy!ContextSent
        /\ ObjectProxy!Answered(k) = ObjectProxy!ContextAnswered
    BY <1>4, Zenon DEF ObjectProxy!Asked, ObjectProxy!Sent, ObjectProxy!Answered
  <2> QED
    BY <1>4, <2>1, <2>2 DEF ObjectProxy!Known, ObjectProxy!ContextInterfaces,
       ObjectProxy!ContextAsked, ObjectProxy!ContextSent, ObjectProxy!ContextAnswered
<1>5. CASE k \in {"frame", "menu"}
  <2>1. /\ ObjectProxy!Asked(k) = ObjectProxy!InterfacesOf(k)
        /\ ObjectProxy!Sent(k) = ObjectProxy!InterfacesOf(k)
        /\ ObjectProxy!Answered(k) = ObjectProxy!InterfacesOf(k)
    BY <1>5, Zenon DEF ObjectProxy!Asked, ObjectProxy!Sent, ObjectProxy!Answered,
                       ObjectProxy!InterfacesOf
  <2> QED
    BY <1>5, <2>1 DEF ObjectProxy!Known
<1>6. CASE k = "factory"
  <2>1. /\ ObjectProxy!Sent(k) = ObjectProxy!InterfacesOf(k)
        /\ ObjectProxy!Answered(k) = ObjectProxy!InterfacesOf(k)
    BY <1>6, Zenon DEF ObjectProxy!Sent, ObjectProxy!Answered, ObjectProxy!InterfacesOf
  <2> QED
    BY <1>6, <2>1 DEF ObjectProxy!Known
<1> QED
  BY <1>1, <1>2, <1>3, <1>4, <1>5, <1>6 DEF ObjectProxy!Kinds

\* The class each kind of proxy is found through is one known to be set, and the
\* factory's is its first.
LEMMA BaseIsSet ==
  ASSUME NEW k \in ObjectProxy!Kinds
  PROVE  /\ ObjectProxy!BaseOf(k) \in ObjectProxy!Known(k)
         /\ k = "factory" => ObjectProxy!BaseOf(k) = "IPluginFactory"
<1>1. ObjectProxy!BaseOf(k) \in ObjectProxy!InterfacesOf(k)
  BY Zenon DEF ObjectProxy!Kinds, ObjectProxy!BaseOf, ObjectProxy!InterfacesOf,
     ObjectProxy!PluginInterfaces, ObjectProxy!ViewInterfaces,
     ObjectProxy!HandlerInterfaces, ObjectProxy!ContextInterfaces
<1>2. ObjectProxy!BaseOf(k) # "YaNoteExpressionPhysicalUIMapping"
  BY Zenon DEF ObjectProxy!Kinds, ObjectProxy!BaseOf
<1>3. k = "factory" => ObjectProxy!BaseOf(k) = "IPluginFactory"
  BY Zenon DEF ObjectProxy!BaseOf
<1> QED
  BY <1>1, <1>2, <1>3 DEF ObjectProxy!Known

\* The bytes of an identifier, in one half's order and the other's.
LEMMA UidToNative ==
  ObjectProxy!ConvertUid(ObjectProxy!TUID(TRUE)) = ObjectProxy!TUID(FALSE)
<1> DEFINE u == ObjectProxy!TUID(TRUE)
<1>1. u = <<4, 3, 2, 1, 6, 5, 8, 7, 9, 10, 11, 12, 13, 14, 15, 16>>
  BY Zenon DEF ObjectProxy!TUID
<1>2. ObjectProxy!TUID(FALSE) = [i \in 1..16 |-> i]
  BY Zenon DEF ObjectProxy!TUID
<1> HIDE DEF u
<1>3. \A i \in 1..16 : ObjectProxy!ConvertUid(u)[i] = i
  BY <1>1, SMT DEF ObjectProxy!ConvertUid
<1>4. ObjectProxy!ConvertUid(u) = [i \in 1..16 |-> ObjectProxy!ConvertUid(u)[i]]
  BY DEF ObjectProxy!ConvertUid
<1> QED
  BY <1>2, <1>3, <1>4 DEF u

\* And back.
LEMMA UidToWine ==
  ObjectProxy!ConvertUid(ObjectProxy!TUID(FALSE)) = ObjectProxy!TUID(TRUE)
<1> DEFINE u == ObjectProxy!TUID(FALSE)
           w == <<4, 3, 2, 1, 6, 5, 8, 7, 9, 10, 11, 12, 13, 14, 15, 16>>
<1>1. u = [i \in 1..16 |-> i]
  BY Zenon DEF ObjectProxy!TUID
<1>2. ObjectProxy!TUID(TRUE) = w
  BY Zenon DEF ObjectProxy!TUID
<1> HIDE DEF u
<1>3. ObjectProxy!ConvertUid(u) = w
  BY <1>1, SMT DEF ObjectProxy!ConvertUid
<1> QED
  BY <1>2, <1>3 DEF u

\* A proxy that has what its object answered answers as its object.
LEMMA FaithfulMimics ==
  ASSUME kind \in ObjectProxy!Kinds,
         kind = "factory" => ObjectProxy!IsObject(kind, object),
         NEW p, ObjectProxy!Faithful(p)
  PROVE  LET interfaces == ObjectProxy!Known(kind)
         IN /\ ObjectProxy!queryInterface(kind, p) \cap interfaces
                 = ObjectProxy!Answers(object) \cap interfaces
            /\ ObjectProxy!BaseOf(kind) \in object
                 => "FUnknown" \in ObjectProxy!queryInterface(kind, p)
<1>1. CASE kind = "factory"
  <2>1. ObjectProxy!InterfacesOf(kind) = {"IPluginFactory", "IPluginFactory2", "IPluginFactory3"}
    BY <1>1, Zenon DEF ObjectProxy!InterfacesOf
  <2>2. /\ "IPluginFactory3" \in object => "IPluginFactory2" \in object
        /\ "IPluginFactory2" \in object => "IPluginFactory" \in object
    BY <1>1, Zenon DEF ObjectProxy!IsObject
  <2>3. p = ObjectProxy!FactoryArgs(object)
    BY <1>1 DEF ObjectProxy!Faithful
  <2>4. \A x \in {"IPluginFactory", "IPluginFactory2", "IPluginFactory3"} :
          x \in p <=> x \in object
    BY <2>2, <2>3 DEF ObjectProxy!FactoryArgs
  <2>5. /\ ObjectProxy!BaseOf(kind) = "IPluginFactory"
        /\ ObjectProxy!Known(kind) \subseteq ObjectProxy!Answered(kind)
        /\ "FUnknown" \notin ObjectProxy!InterfacesOf(kind)
    BY <1>1, BaseIsSet, ListsComplete, FUnknownIsNone
  <2> QED
    BY <2>1, <2>4, <2>5 DEF ObjectProxy!queryInterface, ObjectProxy!Answers, ObjectProxy!Known
<1>2. CASE kind # "factory"
  <2>1. p \cap ObjectProxy!Known(kind) = object \cap ObjectProxy!Known(kind)
    BY <1>2 DEF ObjectProxy!Faithful
  <2>2. /\ "FUnknown" \notin ObjectProxy!Known(kind)
        /\ ObjectProxy!BaseOf(kind) \in ObjectProxy!Known(kind)
        /\ ObjectProxy!Known(kind) \subseteq ObjectProxy!Answered(kind)
    BY FUnknownIsNone, BaseIsSet, ListsComplete DEF ObjectProxy!Known
  <2> QED
    BY <2>1, <2>2 DEF ObjectProxy!queryInterface, ObjectProxy!Answers
<1> QED
  BY <1>1, <1>2

\* What the object is asked for comes out as it answered ...
LEMMA AskedFaithfully ==
  ASSUME kind \in ObjectProxy!Kinds, kind # "factory", NEW o,
         NEW junk \in SUBSET ObjectProxy!NotAsked(kind)
  PROVE  ObjectProxy!ConstructArgs(kind, o, junk) \cap ObjectProxy!Known(kind)
           = o \cap ObjectProxy!Known(kind)
BY ListsComplete DEF ObjectProxy!ConstructArgs, ObjectProxy!NotAsked, ObjectProxy!Known

\* ... and what is sent as it was.
LEMMA SentFaithfully ==
  ASSUME kind \in ObjectProxy!Kinds, NEW a,
         NEW junk \in SUBSET ObjectProxy!NotSent(kind)
  PROVE  ObjectProxy!Received(kind, a, junk) \cap ObjectProxy!Known(kind)
           = a \cap ObjectProxy!Known(kind)
BY ListsComplete DEF ObjectProxy!Received, ObjectProxy!NotSent, ObjectProxy!Known

\* A factory's arguments are sent whole.
LEMMA FactorySent ==
  ASSUME kind = "factory", NEW junk \in SUBSET ObjectProxy!NotSent(kind)
  PROVE  ObjectProxy!Received(kind, ObjectProxy!FactoryArgs(object), junk)
           = ObjectProxy!FactoryArgs(object)
<1>1. ObjectProxy!InterfacesOf(kind) = {"IPluginFactory", "IPluginFactory2", "IPluginFactory3"}
  BY Zenon DEF ObjectProxy!InterfacesOf
<1>2. ObjectProxy!Sent(kind) = ObjectProxy!InterfacesOf(kind)
  BY Zenon DEF ObjectProxy!Sent
<1>3. ObjectProxy!FactoryArgs(object) \subseteq ObjectProxy!InterfacesOf(kind)
  BY <1>1 DEF ObjectProxy!FactoryArgs
<1> QED
  BY <1>2, <1>3 DEF ObjectProxy!Received, ObjectProxy!NotSent

\* What is sent, and what a proxy has, is what the object answered last.
LEMMA ProxyStep ==
  ObjectProxy!ProxyInv /\ [Next]_objectVars => ObjectProxy!ProxyInv'
<1> SUFFICES ASSUME ObjectProxy!ProxyInv, [Next]_objectVars PROVE ObjectProxy!ProxyInv'
  OBVIOUS
<1> USE DEF ObjectProxy!ProxyInv
<1>1. ASSUME ObjectProxy!Read PROVE ObjectProxy!ProxyInv'
  <2>1. PICK a : args' = <<a>> /\ ObjectProxy!Faithful(a)
    BY <1>1, AskedFaithfully DEF ObjectProxy!Read, ObjectProxy!Faithful
  <2> QED
    BY <1>1, <2>1 DEF ObjectProxy!Read, ObjectProxy!Faithful, ObjectProxy!ClassesCreatedAsListed
<1>2. ASSUME ObjectProxy!Make PROVE ObjectProxy!ProxyInv'
  <2>1. PICK junk \in SUBSET ObjectProxy!NotSent(kind) :
          proxy' = <<ObjectProxy!Received(kind, args[1], junk)>>
    BY <1>2 DEF ObjectProxy!Make
  <2>2. ObjectProxy!Faithful(ObjectProxy!Received(kind, args[1], junk))
    BY <1>2, SentFaithfully, FactorySent DEF ObjectProxy!Make, ObjectProxy!Faithful
  <2> QED
    BY <1>2, <2>1, <2>2 DEF ObjectProxy!Make, ObjectProxy!Faithful,
                            ObjectProxy!ClassesCreatedAsListed
<1>3. ASSUME ObjectProxy!Initialize PROVE ObjectProxy!ProxyInv'
  <2>1. PICK new \in SUBSET {"YaEditController", "YaUnitData"},
             junk \in SUBSET ObjectProxy!NotAsked(kind) :
          /\ object' = object \cup new
          /\ args' = <<ObjectProxy!ConstructArgs(kind, object \cup new, junk)>>
    BY <1>3 DEF ObjectProxy!Initialize
  <2>2. kind = "plugin" /\ UNCHANGED <<kind, proxy, cid>>
    BY <1>3 DEF ObjectProxy!Initialize
  <2>3. args'[1] = ObjectProxy!ConstructArgs(kind', object', junk)
    BY <2>1, <2>2
  <2>4. ObjectProxy!Faithful(args[1])'
    BY <2>1, <2>2, <2>3, AskedFaithfully DEF ObjectProxy!Faithful
  <2> QED
    BY <2>1, <2>2, <2>3, <2>4 DEF ObjectProxy!ClassesCreatedAsListed
<1>4. ASSUME ObjectProxy!update_supported_interfaces PROVE ObjectProxy!ProxyInv'
  <2> USE DEF ObjectProxy!update_supported_interfaces
  <2>1. PICK junk \in SUBSET ObjectProxy!NotSent(kind) :
          proxy' = <<(ObjectProxy!Received(kind, args[1], junk) \cap ObjectProxy!PluginUpdated)
                       \cup (proxy[1] \ ObjectProxy!PluginUpdated)>>
    BY <1>4
  <2>2. ObjectProxy!Faithful(proxy'[1])
    BY <1>4, <2>1, SentFaithfully, ListsComplete DEF ObjectProxy!Faithful
  <2> QED
    BY <1>4, <2>1, <2>2 DEF ObjectProxy!Faithful, ObjectProxy!ClassesCreatedAsListed
<1>5. ASSUME NEW i \in 0..Len(Classes) + 1, ObjectProxy!CreateInstance(i)
      PROVE  ObjectProxy!ProxyInv'
  <2>1. ObjectProxy!getClassInfo(i) = <<i, ObjectProxy!ConvertUid(ObjectProxy!TUID(TRUE))>>
    BY <1>5 DEF ObjectProxy!CreateInstance, ObjectProxy!getClassInfo
  <2>2. cid' = <<i, ObjectProxy!TUID(FALSE), ObjectProxy!TUID(TRUE)>>
    <3> DEFINE listed == ObjectProxy!getClassInfo(i)[2]
    <3>1. listed = ObjectProxy!TUID(FALSE)
      <4> DEFINE info == ObjectProxy!getClassInfo(i)
                 uid == ObjectProxy!ConvertUid(ObjectProxy!TUID(TRUE))
      <4>1. info = <<i, uid>>
        BY <2>1
      <4> HIDE DEF info, uid
      <4>2. info[2] = uid
        BY <4>1
      <4> QED
        BY <4>2, UidToNative DEF info, uid
    <3>2. cid' = <<i, listed, ObjectProxy!ConvertUid(listed)>>
      BY <1>5, Zenon DEF ObjectProxy!CreateInstance
    <3> QED
      BY <3>1, <3>2, UidToWine, Zenon
  <2>3. ObjectProxy!ClassesCreatedAsListed'
    BY <2>2 DEF ObjectProxy!ClassesCreatedAsListed
  <2> QED
    BY <1>5, <2>3 DEF ObjectProxy!CreateInstance, ObjectProxy!Faithful
<1>6. CASE UNCHANGED proxyVars
  BY <1>6 DEF proxyVars, ObjectProxy!Faithful, ObjectProxy!ClassesCreatedAsListed
<1> QED
  BY <1>1, <1>2, <1>3, <1>4, <1>5, <1>6 DEF Next, ObjectProxy!Next, objectVars

\* The initial states: nothing has been asked.
LEMMA ProxyInit == Init => ObjectProxy!ProxyInv
BY DEF Init, ObjectProxy!Init, ObjectProxy!ProxyInv, ObjectProxy!ClassesCreatedAsListed

\* A cast of the proxy has the result a cast of its object would have had.
THEOREM ProxiesMimic == Spec => []ProxyMimics
<1>1. ObjectProxy!ProxyInv => ProxyMimics
  BY FaithfulMimics DEF ObjectProxy!ProxyInv, ProxyMimics, ObjectProxy!ProxyMimics
<1> QED
  BY <1>1, ProxyInit, ProxyStep, PTL DEF Spec

\* Each half has a class under the identifier it would have there.
THEOREM ClassIdentifiersAgree == Spec => []ClassesCreatedAsListed
<1>1. ObjectProxy!ProxyInv => ClassesCreatedAsListed
  BY DEF ObjectProxy!ProxyInv, ClassesCreatedAsListed
<1> QED
  BY <1>1, ProxyInit, ProxyStep, PTL DEF Spec
-----------------------------------------------------------------------------
(* The shared audio buffer.                                                *)

\* The types of what a constructed or resized buffer is made of.
LEMMA ShmTypes ==
  ASSUME AudioShm!BufferTypeOK
  PROVE  /\ Len(length) \in Nat /\ \A k \in 1..Len(length) : length[k] \in Nat
         /\ \A s \in AudioShm!Sides : Len(maps[s]) \in Nat /\ maps[s] \in Seq(AudioShm!Mappings \cup {None})
         /\ \A s \in AudioShm!Sides :
              buffer[s].member \in AudioShm!Buffers \cup {None}
              /\ buffer[s].temporary \in AudioShm!Buffers \cup {None}
BY LenProperties, ElementOfSeq DEF AudioShm!BufferTypeOK

\* A temporary is made: it is of the object with the name and has a mapping of its
\* own.
LEMMA Constructed ==
  ASSUME NEW s \in AudioShm!Sides, NEW size \in Sizes, AudioShm!BufferTypeOK,
         AudioShm!Construct(s, size), ~ending'
  PROVE  \E b \in AudioShm!Buffers :
           /\ buffer' = [buffer EXCEPT ![s].temporary = b]
           /\ b.size = size /\ b.fd = inode' /\ b.moved = FALSE
           /\ \/ size = 0 /\ UNCHANGED maps /\ b.bytes = None
              \/ /\ b.bytes = Len(maps[s]) + 1
                 /\ maps' = [maps EXCEPT ![s] = Append(maps[s], [inode |-> inode', bytes |-> size])]
           /\ length' \in Seq(Nat) /\ inode' \in 1..Len(length') /\ length'[inode'] >= size
           /\ inode # None => inode' = inode
<1> DEFINE opened == IF inode # None THEN length ELSE Append(length, 0)
           new == [inode |-> inode', bytes |-> size]
           Made(b) ==
             /\ buffer' = [buffer EXCEPT ![s].temporary = b]
             /\ b.size = size /\ b.fd = inode' /\ b.moved = FALSE
             /\ \/ size = 0 /\ UNCHANGED maps /\ b.bytes = None
                \/ b.bytes = Len(maps[s]) + 1 /\ maps' = [maps EXCEPT ![s] = Append(maps[s], new)]
             /\ length' \in Seq(Nat) /\ inode' \in 1..Len(length') /\ length'[inode'] >= size
             /\ inode # None => inode' = inode
<1> SUFFICES \E b \in AudioShm!Buffers : Made(b)
  OBVIOUS
<1>1. inode' = AudioShm!Open /\ size \in Nat
  BY NativeAssumption DEF AudioShm!Construct
<1>2. /\ opened \in Seq(Nat) /\ Len(opened) \in Nat /\ inode' \in 1..Len(opened)
      /\ opened[inode'] \in Nat /\ inode # None => inode' = inode
  <2>1. CASE inode # None
    BY <1>1, <2>1, ShmTypes DEF AudioShm!Open, AudioShm!BufferTypeOK
  <2>2. CASE inode = None
    BY <1>1, <2>2, ShmTypes, AppendProperties DEF AudioShm!Open, AudioShm!BufferTypeOK
  <2> QED
    BY <2>1, <2>2
<1> HIDE DEF opened
<1>3. CASE size = 0
  <2> DEFINE b == [size |-> size, fd |-> inode', bytes |-> None, shmSize |-> 0, moved |-> FALSE]
  <2>1. b \in AudioShm!Buffers
    BY <1>2 DEF AudioShm!Buffers
  <2>2. b.size = size /\ b.fd = inode' /\ b.moved = FALSE /\ b.bytes = None
    OBVIOUS
  <2>3. buffer' = [buffer EXCEPT ![s].temporary = b] /\ UNCHANGED maps /\ length' = opened
    BY <1>1, <1>3 DEF AudioShm!Construct, opened
  <2> HIDE DEF b
  <2>4. length' \in Seq(Nat) /\ inode' \in 1..Len(length') /\ length'[inode'] >= size
    BY <1>2, <1>3, <2>3
  <2>5. Made(b)
    BY <1>2, <1>3, <2>2, <2>3, <2>4
  <2> HIDE DEF Made
  <2> QED
    BY <2>1, <2>5
<1>4. CASE size # 0
  <2> DEFINE b0 == [size |-> size, fd |-> inode', bytes |-> None, shmSize |-> 0, moved |-> FALSE]
             b == [b0 EXCEPT !.bytes = Len(maps[s]) + 1, !.shmSize = size]
  <2>0. b0 \in AudioShm!Buffers /\ b0.size = size /\ b0.fd = inode' /\ b0.moved = FALSE
    BY <1>2 DEF AudioShm!Buffers
  <2>3. /\ buffer' = [buffer EXCEPT ![s].temporary = b]
        /\ maps' = [maps EXCEPT ![s] = Append(maps[s], new)]
        /\ length' = [opened EXCEPT ![inode'] = size]
    BY <1>1, <1>4, Zenon DEF AudioShm!Construct, opened
  <2> HIDE DEF b0
  <2>a. Len(maps[s]) + 1 \in Nat
    BY ShmTypes
  <2>1. b \in AudioShm!Buffers
    BY <1>1, <2>0, <2>a DEF AudioShm!Buffers
  <2>2. b.size = size /\ b.fd = inode' /\ b.moved = FALSE /\ b.bytes = Len(maps[s]) + 1
    BY <2>0 DEF AudioShm!Buffers
  <2> HIDE DEF b
  <2>4. length' \in Seq(Nat) /\ Len(length') = Len(opened) /\ length'[inode'] = size
    BY <1>1, <1>2, <2>3, ExceptSeq
  <2>5. Made(b)
    BY <1>1, <1>2, <2>2, <2>3, <2>4
  <2> HIDE DEF Made
  <2> QED
    BY <2>1, <2>5
<1> QED
  BY <1>3, <1>4

\* An object with the name is there as long as a buffer of it is.
LEMMA OwnedIsNamed ==
  ASSUME AudioShm!BufferTypeOK, NEW s \in AudioShm!Sides, NEW b \in AudioShm!Buffers,
         AudioShm!Owned(s, b)
  PROVE  inode # None /\ inode \in 1..Len(length) /\ b.size \in Nat
BY NativeAssumption DEF AudioShm!BufferTypeOK, AudioShm!Owned, AudioShm!Buffers

\* A temporary leaves the other buffers as they are.
LEMMA ConstructStep ==
  ASSUME NEW s \in AudioShm!Sides, NEW size \in Sizes, AudioShm!BufferTypeOK,
         AudioShm!MappingsInv, AudioShm!SizesInv, AudioShm!Construct(s, size), ~ending'
  PROVE  AudioShm!ShmInv'
<1>1. PICK b \in AudioShm!Buffers :
        /\ buffer' = [buffer EXCEPT ![s].temporary = b]
        /\ b.size = size /\ b.fd = inode' /\ b.moved = FALSE
        /\ \/ size = 0 /\ UNCHANGED maps /\ b.bytes = None
           \/ /\ b.bytes = Len(maps[s]) + 1
              /\ maps' = [maps EXCEPT ![s] = Append(maps[s], [inode |-> inode', bytes |-> size])]
        /\ length' \in Seq(Nat) /\ inode' \in 1..Len(length') /\ length'[inode'] >= size
        /\ inode # None => inode' = inode
  BY Constructed
<1>2. size \in Nat /\ size # None /\ b # None
  BY NativeAssumption
<1>3. /\ making' = making \cup {s} /\ buffer[s].temporary = None
      /\ IF s = "wine" THEN config = None /\ config' = size
         ELSE /\ config = size /\ buffer["wine"].temporary = None /\ buffer["native"].member = None
              /\ config' = None
  BY DEF AudioShm!Construct, AudioShm!Received, AudioShm!Sides
<1>4. /\ buffer' \in [AudioShm!Sides -> [member : AudioShm!Buffers \cup {None},
                                         temporary : AudioShm!Buffers \cup {None}]]
      /\ buffer'[s].temporary = b
      /\ \A t \in AudioShm!Sides : buffer'[t].member = buffer[t].member
      /\ \A t \in AudioShm!Sides : t # s => buffer'[t].temporary = buffer[t].temporary
  <2> DEFINE R == [member : AudioShm!Buffers \cup {None}, temporary : AudioShm!Buffers \cup {None}]
             r == [buffer[s] EXCEPT !.temporary = b]
  <2>1. buffer \in [AudioShm!Sides -> R] /\ buffer' = [buffer EXCEPT ![s] = r]
    BY <1>1 DEF AudioShm!BufferTypeOK
  <2>2. r \in R /\ r.temporary = b /\ r.member = buffer[s].member
    BY <2>1
  <2> HIDE DEF r, R
  <2>3. buffer' \in [AudioShm!Sides -> R]
    BY <2>1, <2>2
  <2> QED
    BY <2>1, <2>2, <2>3 DEF R
<1> DEFINE new == [inode |-> inode', bytes |-> size]
           more == Append(maps[s], new)
<1>b. /\ more \in Seq(AudioShm!Mappings \cup {None}) /\ Len(more) = Len(maps[s]) + 1
      /\ more[Len(maps[s]) + 1] = new
      /\ \A k \in 1..Len(maps[s]) : more[k] = maps[s][k]
  <2>1. new \in AudioShm!Mappings \cup {None}
    BY <1>1, <1>2, LenProperties DEF AudioShm!Mappings
  <2> HIDE DEF new
  <2> QED
    BY <2>1, ShmTypes, AppendProperties
<1>c. /\ \A t \in AudioShm!Sides \ {s} : maps'[t] = maps[t]
      /\ \/ size = 0 /\ b.bytes = None /\ maps'[s] = maps[s]
         \/ b.bytes = Len(maps[s]) + 1 /\ maps'[s] = more
  BY <1>1 DEF AudioShm!BufferTypeOK
<1>5. maps' \in [AudioShm!Sides -> Seq(AudioShm!Mappings \cup {None})]
  BY <1>1, <1>b DEF AudioShm!BufferTypeOK
<1> HIDE DEF more
<1>6. AudioShm!BufferTypeOK'
  BY <1>1, <1>2, <1>3, <1>4, <1>5 DEF AudioShm!BufferTypeOK
<1>7. \A t \in AudioShm!Sides :
        /\ Len(maps'[t]) \in Nat /\ Len(maps'[t]) >= Len(maps[t])
        /\ \A k \in 1..Len(maps[t]) : maps'[t][k] = maps[t][k]
  <2>1. \A t \in AudioShm!Sides : Len(maps[t]) \in Nat
    BY ShmTypes
  <2>2. ASSUME NEW t \in AudioShm!Sides, maps'[t] = maps[t]
        PROVE  /\ Len(maps'[t]) \in Nat /\ Len(maps'[t]) >= Len(maps[t])
               /\ \A k \in 1..Len(maps[t]) : maps'[t][k] = maps[t][k]
    BY <2>1, <2>2
  <2>3. ASSUME maps'[s] = more
        PROVE  /\ Len(maps'[s]) \in Nat /\ Len(maps'[s]) >= Len(maps[s])
               /\ \A k \in 1..Len(maps[s]) : maps'[s][k] = maps[s][k]
    BY <1>b, <2>1, <2>3
  <2> QED
    BY <1>c, <2>2, <2>3
<1>8. AudioShm!Owned(s, b)'
  <2>1. CASE size = 0 /\ b.bytes = None
    BY <1>1, <2>1 DEF AudioShm!Owned
  <2>2. CASE b.bytes = Len(maps[s]) + 1 /\ maps'[s] = more
    <3>1. /\ b.bytes # None /\ b.bytes \in 1..Len(maps'[s])
          /\ maps'[s][b.bytes] = new
      BY <1>b, <2>2, ShmTypes, NativeAssumption
    <3> QED
      BY <1>1, <3>1 DEF AudioShm!Owned
  <2> QED
    BY <1>c, <2>1, <2>2
<1>9. ASSUME NEW t \in AudioShm!Sides, NEW c \in AudioShm!Buffers, AudioShm!Owned(t, c)
      PROVE  AudioShm!Owned(t, c)'
  <2>1. inode' = inode
    BY <1>1, <1>9, OwnedIsNamed
  <2>2. c.bytes # None => c.bytes \in 1..Len(maps[t]) /\ c.bytes \in 1..Len(maps'[t])
    BY <1>7, <1>9, ShmTypes DEF AudioShm!Owned
  <2> QED
    BY <1>7, <1>9, <2>1, <2>2 DEF AudioShm!Owned
<1>10. AudioShm!MappingsInv'
  BY <1>1, <1>2, <1>3, <1>4, <1>8, <1>9, ShmTypes DEF AudioShm!MappingsInv, AudioShm!Sides
<1>11. AudioShm!SizesInv'
  <2>1. CASE s = "wine"
    BY <1>1, <1>2, <1>3, <1>4, <2>1 DEF AudioShm!SizesInv, AudioShm!Latest, AudioShm!Sides
  <2>2. CASE s = "native"
    <3>1. "wine" \notin making /\ "wine" \notin making'
      BY <1>3, <2>2 DEF AudioShm!MappingsInv, AudioShm!Sides
    <3>2. /\ AudioShm!Latest("wine") # None /\ AudioShm!Latest("wine").size = size
          /\ AudioShm!Latest("wine") = buffer["wine"].member
      BY <1>2, <1>3, <2>2, <3>1 DEF AudioShm!SizesInv, AudioShm!Latest
    <3>3. AudioShm!Latest("wine")' = AudioShm!Latest("wine")
      BY <1>4, <3>1, <3>2 DEF AudioShm!Latest, AudioShm!Sides
    <3>4. AudioShm!Latest("native")' = b
      BY <1>3, <1>4, <2>2 DEF AudioShm!Latest
    <3>5. buffer'["wine"].temporary = None
      BY <1>3, <1>4, <2>2 DEF AudioShm!Sides
    <3> QED
      BY <1>1, <1>3, <2>2, <3>2, <3>3, <3>4, <3>5 DEF AudioShm!SizesInv
  <2> QED
    BY <2>1, <2>2 DEF AudioShm!Sides
<1> QED
  BY <1>6, <1>10, <1>11 DEF AudioShm!ShmInv

\* A mapping a buffer has is the one of its size, after it was resized, whether it
\* was moved there, made again or new.
LEMMA MappingResized ==
  ASSUME NEW s \in AudioShm!Sides, AudioShm!BufferTypeOK, NEW new \in AudioShm!Mappings,
         NEW bytes, bytes # None => bytes \in 1..Len(maps[s]), NEW at, NEW m,
         LET unmapped == IF bytes = None THEN maps[s] ELSE [maps[s] EXCEPT ![bytes] = None]
         IN \/ m = Append(maps[s], new) /\ at = Len(maps[s]) + 1
            \/ m = [maps[s] EXCEPT ![bytes] = new] /\ at = bytes /\ bytes # None
            \/ m = Append(unmapped, new) /\ at = Len(maps[s]) + 1
  PROVE  /\ m \in Seq(AudioShm!Mappings \cup {None}) /\ at \in Nat /\ at \in 1..Len(m)
         /\ m[at] = new
<1> DEFINE M == AudioShm!Mappings \cup {None}
           unmapped == IF bytes = None THEN maps[s] ELSE [maps[s] EXCEPT ![bytes] = None]
<1>1. maps[s] \in Seq(M) /\ Len(maps[s]) \in Nat /\ new \in M /\ None \in M
  BY ShmTypes
<1> HIDE DEF M
<1>3. unmapped \in Seq(M) /\ Len(unmapped) = Len(maps[s])
  BY <1>1, ExceptSeq
<1>4. CASE m = Append(maps[s], new) /\ at = Len(maps[s]) + 1
  BY <1>1, <1>4, AppendProperties DEF M
<1>5. CASE m = [maps[s] EXCEPT ![bytes] = new] /\ at = bytes /\ bytes # None
  BY <1>1, <1>5, ExceptSeq DEF M
<1>6. CASE m = Append(unmapped, new) /\ at = Len(maps[s]) + 1
  <2> HIDE DEF unmapped
  <2> QED
    BY <1>1, <1>3, <1>6, AppendProperties DEF M
<1> QED
  BY <1>4, <1>5, <1>6

\* A member is resized: it is of its new size, of the same object, and its mapping
\* is.
LEMMA MemberResized ==
  ASSUME NEW s \in AudioShm!Sides, NEW size \in Sizes, AudioShm!BufferTypeOK,
         AudioShm!MappingsInv, AudioShm!Resize(s, size), ~ending'
  PROVE  \E b \in AudioShm!Buffers :
           /\ buffer' = [buffer EXCEPT ![s].member = b]
           /\ b.size = size /\ AudioShm!Owned(s, b)'
           /\ maps' \in [AudioShm!Sides -> Seq(AudioShm!Mappings \cup {None})]
           /\ \A t \in AudioShm!Sides \ {s} : maps'[t] = maps[t]
           /\ length' \in Seq(Nat) /\ Len(length') = Len(length) /\ length'[inode] >= size
<1> DEFINE old == buffer[s].member
           b0 == [old EXCEPT !.size = size]
           new == [inode |-> inode, bytes |-> size]
           Resized(b) ==
             /\ buffer' = [buffer EXCEPT ![s].member = b]
             /\ b.size = size /\ AudioShm!Owned(s, b)'
             /\ maps' \in [AudioShm!Sides -> Seq(AudioShm!Mappings \cup {None})]
             /\ \A t \in AudioShm!Sides \ {s} : maps'[t] = maps[t]
             /\ length' \in Seq(Nat) /\ Len(length') = Len(length) /\ length'[inode] >= size
<1>1. PICK r \in AudioShm!SetupMapping(s, b0) :
        /\ length' = r.length /\ maps' = r.maps
        /\ buffer' = [buffer EXCEPT ![s].member = r.b]
        /\ ending' = r.throws
  BY Zenon DEF AudioShm!Resize, AudioShm!Resized
<1>2. /\ old \in AudioShm!Buffers /\ AudioShm!Owned(s, old) /\ UNCHANGED inode
  BY ShmTypes DEF AudioShm!Resize, AudioShm!MappingsInv
<1> HIDE DEF old
<1>3. /\ b0 \in AudioShm!Buffers /\ b0.size = size /\ b0.fd = inode /\ b0.moved = FALSE
      /\ b0.bytes = old.bytes /\ size \in Nat
  BY <1>2, NativeAssumption DEF AudioShm!Buffers, AudioShm!Owned
<1>4. /\ length \in Seq(Nat) /\ Len(length) \in Nat /\ inode \in 1..Len(length)
      /\ inode \in Nat /\ length[inode] \in Nat
  BY <1>2, OwnedIsNamed, ShmTypes DEF AudioShm!BufferTypeOK
<1> HIDE DEF b0
<1> SUFFICES \E b \in AudioShm!Buffers : Resized(b)
  OBVIOUS
<1>5. CASE size = 0
  <2>1. PICK b : b = [b0 EXCEPT !.shmSize = 0]
    OBVIOUS
  <2>2. r = [length |-> length, maps |-> maps, b |-> b, throws |-> FALSE]
    BY <1>1, <1>3, <1>5, <2>1 DEF AudioShm!SetupMapping
  <2>3. /\ b \in AudioShm!Buffers
        /\ b.size = size /\ b.fd = inode /\ b.moved = FALSE /\ b.bytes = old.bytes
    BY <1>3, <2>1 DEF AudioShm!Buffers
  <2>4. length' = length /\ maps' = maps /\ buffer' = [buffer EXCEPT ![s].member = b]
    BY <1>1, <2>2
  <2>5. AudioShm!Owned(s, b)'
    BY <1>2, <1>3, <1>5, <2>3, <2>4 DEF AudioShm!Owned
  <2>6. Resized(b)
    BY <1>4, <1>5, <2>3, <2>4, <2>5 DEF AudioShm!BufferTypeOK
  <2> HIDE DEF Resized
  <2> QED
    BY <2>3, <2>6
<1>6. CASE size # 0
  <2> DEFINE copied == b0.bytes # None /\ b0.shmSize = 0
             unmapped == IF b0.bytes = None \/ copied THEN maps[s]
                         ELSE [maps[s] EXCEPT ![b0.bytes] = None]
             sized == [length EXCEPT ![b0.fd] = b0.size]
             mapped == [inode |-> b0.fd, bytes |-> b0.size]
             done(m, at) == [length |-> sized, maps |-> [maps EXCEPT ![s] = m],
                             b |-> [b0 EXCEPT !.bytes = at, !.shmSize = b0.size],
                             throws |-> FALSE]
             thrown == [length |-> sized, maps |-> [maps EXCEPT ![s] = unmapped],
                        b |-> [b0 EXCEPT !.bytes = None], throws |-> TRUE]
  <2>0. \/ r = done(Append(maps[s], mapped), Len(maps[s]) + 1)
        \/ r = done([maps[s] EXCEPT ![b0.bytes] = mapped], b0.bytes) /\ b0.bytes # None
        \/ r = done(Append(unmapped, mapped), Len(maps[s]) + 1)
        \/ r = thrown
    BY <1>1, <1>3, <1>6, Zenon DEF AudioShm!SetupMapping
  <2>1. r # thrown
    <3>1. r.throws # TRUE
      BY <1>1
    <3>2. thrown.throws = TRUE
      OBVIOUS
    <3> QED
      BY <3>1, <3>2, Zenon
  <2>2. PICK m, at :
          /\ r = done(m, at)
          /\ \/ m = Append(maps[s], mapped) /\ at = Len(maps[s]) + 1
             \/ m = [maps[s] EXCEPT ![b0.bytes] = mapped] /\ at = b0.bytes /\ b0.bytes # None
             \/ m = Append(unmapped, mapped) /\ at = Len(maps[s]) + 1
    BY <2>0, <2>1, Zenon
  <2>3. /\ mapped \in AudioShm!Mappings /\ mapped = new
        /\ b0.bytes # None => b0.bytes \in 1..Len(maps[s])
    BY <1>2, <1>3, <1>4 DEF AudioShm!Mappings, AudioShm!Owned
  <2> HIDE DEF mapped
  <2>4. /\ m \in Seq(AudioShm!Mappings \cup {None}) /\ at \in Nat /\ at \in 1..Len(m)
        /\ m[at] = new
    <3>1. PICK from : from = b0.bytes
      OBVIOUS
    <3>2. PICK n : n = mapped
      OBVIOUS
    <3>3. n \in AudioShm!Mappings /\ (from # None => from \in 1..Len(maps[s]))
      BY <2>3, <3>1, <3>2
    <3> DEFINE rest == IF from = None THEN maps[s] ELSE [maps[s] EXCEPT ![from] = None]
    <3>4. \/ m = Append(maps[s], n) /\ at = Len(maps[s]) + 1
          \/ m = [maps[s] EXCEPT ![from] = n] /\ at = from /\ from # None
          \/ m = Append(rest, n) /\ at = Len(maps[s]) + 1
      BY <2>2, <3>1, <3>2
    <3>5. /\ m \in Seq(AudioShm!Mappings \cup {None}) /\ at \in Nat /\ at \in 1..Len(m)
          /\ m[at] = n
      BY <3>3, <3>4, MappingResized
    <3> QED
      BY <2>3, <3>2, <3>5
  <2>5. PICK b : b = [b0 EXCEPT !.bytes = at, !.shmSize = size]
    OBVIOUS
  <2>6. /\ b \in AudioShm!Buffers
        /\ b.size = size /\ b.fd = inode /\ b.moved = FALSE /\ b.bytes = at
    BY <1>3, <2>4, <2>5 DEF AudioShm!Buffers
  <2>7. /\ length' = [length EXCEPT ![inode] = size] /\ maps' = [maps EXCEPT ![s] = m]
        /\ buffer' = [buffer EXCEPT ![s].member = b]
    BY <1>1, <1>3, <2>2, <2>5
  <2>8. length' \in Seq(Nat) /\ Len(length') = Len(length) /\ length'[inode] = size
    BY <1>3, <1>4, <2>7, ExceptSeq
  <2>9. /\ maps' \in [AudioShm!Sides -> Seq(AudioShm!Mappings \cup {None})] /\ maps'[s] = m
        /\ \A t \in AudioShm!Sides \ {s} : maps'[t] = maps[t]
    BY <2>4, <2>7 DEF AudioShm!BufferTypeOK
  <2>10. AudioShm!Owned(s, b)'
    BY <1>2, <2>4, <2>6, <2>9, NativeAssumption DEF AudioShm!Owned
  <2>11. Resized(b)
    BY <1>3, <2>6, <2>7, <2>8, <2>9, <2>10
  <2> HIDE DEF Resized
  <2> QED
    BY <2>6, <2>11
<1> QED
  BY <1>5, <1>6

\* A resize is of a side's only object.
LEMMA ResizeStep ==
  ASSUME NEW s \in AudioShm!Sides, NEW size \in Sizes, AudioShm!BufferTypeOK,
         AudioShm!MappingsInv, AudioShm!SizesInv, AudioShm!Resize(s, size), ~ending'
  PROVE  AudioShm!ShmInv'
<1>1. PICK b \in AudioShm!Buffers :
        /\ buffer' = [buffer EXCEPT ![s].member = b]
        /\ b.size = size /\ AudioShm!Owned(s, b)'
        /\ maps' \in [AudioShm!Sides -> Seq(AudioShm!Mappings \cup {None})]
        /\ \A t \in AudioShm!Sides \ {s} : maps'[t] = maps[t]
        /\ length' \in Seq(Nat) /\ Len(length') = Len(length) /\ length'[inode] >= size
  BY MemberResized
<1>2. size \in Nat /\ size # None /\ b # None
  BY NativeAssumption
<1>3. /\ UNCHANGED <<inode, making>>
      /\ buffer[s].member # None /\ buffer[s].temporary = None /\ s \notin making
      /\ IF s = "wine" THEN config = None /\ config' = size
         ELSE config = size /\ buffer["wine"].temporary = None /\ config' = None
  BY DEF AudioShm!Resize, AudioShm!Received, AudioShm!Sides, AudioShm!MappingsInv
<1>4. /\ buffer' \in [AudioShm!Sides -> [member : AudioShm!Buffers \cup {None},
                                         temporary : AudioShm!Buffers \cup {None}]]
      /\ buffer'[s].member = b
      /\ \A t \in AudioShm!Sides : buffer'[t].temporary = buffer[t].temporary
      /\ \A t \in AudioShm!Sides : t # s => buffer'[t].member = buffer[t].member
  BY <1>1 DEF AudioShm!BufferTypeOK
<1>5. AudioShm!BufferTypeOK'
  BY <1>1, <1>2, <1>3, <1>4 DEF AudioShm!BufferTypeOK
<1>6. ASSUME NEW t \in AudioShm!Sides, t # s, NEW c \in AudioShm!Buffers, AudioShm!Owned(t, c)
      PROVE  AudioShm!Owned(t, c)'
  BY <1>1, <1>3, <1>6 DEF AudioShm!Owned
<1>7. AudioShm!MappingsInv'
  BY <1>1, <1>2, <1>3, <1>4, <1>6, ShmTypes DEF AudioShm!MappingsInv, AudioShm!Sides
<1>8. AudioShm!SizesInv'
  <2>1. CASE s = "wine"
    BY <1>1, <1>2, <1>3, <1>4, <2>1 DEF AudioShm!SizesInv, AudioShm!Latest, AudioShm!Sides
  <2>2. CASE s = "native"
    <3>1. "wine" \notin making
      BY <1>3, <2>2 DEF AudioShm!MappingsInv, AudioShm!Sides
    <3>2. /\ AudioShm!Latest("wine") # None /\ AudioShm!Latest("wine").size = size
          /\ AudioShm!Latest("wine") = buffer["wine"].member
      BY <1>2, <1>3, <2>2, <3>1 DEF AudioShm!SizesInv, AudioShm!Latest
    <3>3. AudioShm!Latest("wine")' = AudioShm!Latest("wine")
      BY <1>3, <1>4, <2>2, <3>1, <3>2 DEF AudioShm!Latest, AudioShm!Sides
    <3>4. AudioShm!Latest("native")' = b
      BY <1>3, <1>4, <2>2 DEF AudioShm!Latest
    <3>5. buffer'["wine"].temporary = None
      BY <1>3, <1>4, <2>2 DEF AudioShm!Sides
    <3> QED
      BY <1>1, <1>3, <2>2, <3>2, <3>3, <3>4, <3>5 DEF AudioShm!SizesInv
  <2> QED
    BY <2>1, <2>2 DEF AudioShm!Sides
<1> QED
  BY <1>5, <1>7, <1>8 DEF AudioShm!ShmInv

\* A move takes the mapping along and leaves what it was moved from without one.
LEMMA MoveStep ==
  ASSUME NEW s \in AudioShm!Sides, AudioShm!BufferTypeOK, AudioShm!MappingsInv,
         AudioShm!SizesInv, AudioShm!Move(s)
  PROVE  AudioShm!ShmInv'
<1>1. PICK old : old = buffer[s].temporary
  OBVIOUS
<1>2. /\ s \in making /\ making' = making \ {s}
      /\ UNCHANGED <<inode, length, maps, config, ending>>
      /\ old \in AudioShm!Buffers /\ old # None /\ AudioShm!Owned(s, old) /\ old.moved = FALSE
  BY <1>1, ShmTypes DEF AudioShm!Move, AudioShm!MappingsInv, AudioShm!Owned
<1>3. PICK b, left :
        /\ b = IF buffer[s].member = None THEN old
               ELSE [old EXCEPT !.moved = buffer[s].member.moved]
        /\ left = [old EXCEPT !.moved = TRUE]
  OBVIOUS
<1>4. buffer' = [buffer EXCEPT ![s].member = b, ![s].temporary = left]
  BY <1>1, <1>3 DEF AudioShm!Move, AudioShm!Moved
<1>5. buffer[s].member # None => buffer[s].member.moved = FALSE
  BY DEF AudioShm!MappingsInv, AudioShm!Owned
<1>6. /\ b \in AudioShm!Buffers /\ b.size = old.size /\ b.fd = old.fd /\ b.bytes = old.bytes
      /\ b.moved = FALSE
  BY <1>2, <1>3, <1>5 DEF AudioShm!Buffers
<1>7. left \in AudioShm!Buffers /\ left.moved = TRUE
  BY <1>2, <1>3 DEF AudioShm!Buffers
<1>8. left # None /\ b # None
  BY <1>6, <1>7, NativeAssumption
<1>9. /\ buffer' \in [AudioShm!Sides -> [member : AudioShm!Buffers \cup {None},
                                         temporary : AudioShm!Buffers \cup {None}]]
      /\ buffer'[s].member = b /\ buffer'[s].temporary = left
      /\ \A t \in AudioShm!Sides : t # s => buffer'[t] = buffer[t]
  BY <1>4, <1>6, <1>7 DEF AudioShm!BufferTypeOK
<1>10. AudioShm!BufferTypeOK'
  BY <1>2, <1>9 DEF AudioShm!BufferTypeOK
<1>11. AudioShm!Owned(s, b)'
  BY <1>2, <1>6 DEF AudioShm!Owned
<1>12. ASSUME NEW t \in AudioShm!Sides, NEW c \in AudioShm!Buffers, AudioShm!Owned(t, c)
       PROVE  AudioShm!Owned(t, c)'
  BY <1>2, <1>12 DEF AudioShm!Owned
<1>13. AudioShm!MappingsInv'
  BY <1>2, <1>7, <1>8, <1>9, <1>11, <1>12, ShmTypes DEF AudioShm!MappingsInv, AudioShm!Sides
<1>14. AudioShm!SizesInv'
  BY <1>1, <1>2, <1>6, <1>8, <1>9 DEF AudioShm!SizesInv, AudioShm!Latest, AudioShm!Sides
<1> QED
  BY <1>10, <1>13, <1>14 DEF AudioShm!ShmInv

\* What was moved from is destroyed without its mapping or the name; nothing else is.
LEMMA DestroyStep ==
  ASSUME NEW s \in AudioShm!Sides, NEW place \in {"member", "temporary"},
         AudioShm!BufferTypeOK, AudioShm!MappingsInv, AudioShm!SizesInv,
         AudioShm!Destroy(s, place), ~ending'
  PROVE  AudioShm!ShmInv'
<1>1. place = "temporary"
  <2>1. SUFFICES ASSUME place = "member" PROVE FALSE
    OBVIOUS
  <2>2. buffer[s].member # None /\ buffer[s].member.moved = FALSE
    BY <2>1 DEF AudioShm!Destroy, AudioShm!MappingsInv, AudioShm!Owned
  <2> QED
    BY <2>1, <2>2 DEF AudioShm!Destroy
<1>2. buffer[s].temporary # None /\ s \notin making /\ buffer[s].temporary.moved
  BY <1>1 DEF AudioShm!Destroy, AudioShm!MappingsInv
<1>3. /\ UNCHANGED <<inode, maps, ending, length, config, making>>
      /\ buffer' = [buffer EXCEPT ![s].temporary = None]
  BY <1>1, <1>2 DEF AudioShm!Destroy
<1>4. /\ buffer' \in [AudioShm!Sides -> [member : AudioShm!Buffers \cup {None},
                                         temporary : AudioShm!Buffers \cup {None}]]
      /\ buffer'[s].temporary = None
      /\ \A t \in AudioShm!Sides : buffer'[t].member = buffer[t].member
      /\ \A t \in AudioShm!Sides : t # s => buffer'[t].temporary = buffer[t].temporary
  BY <1>3 DEF AudioShm!BufferTypeOK
<1>5. AudioShm!BufferTypeOK'
  BY <1>3, <1>4 DEF AudioShm!BufferTypeOK
<1>6. ASSUME NEW t \in AudioShm!Sides, NEW c \in AudioShm!Buffers, AudioShm!Owned(t, c)
      PROVE  AudioShm!Owned(t, c)'
  BY <1>3, <1>6 DEF AudioShm!Owned
<1>7. AudioShm!MappingsInv'
  BY <1>2, <1>3, <1>4, <1>6, ShmTypes DEF AudioShm!MappingsInv, AudioShm!Sides
<1>8. AudioShm!SizesInv'
  BY <1>2, <1>3, <1>4 DEF AudioShm!SizesInv, AudioShm!Latest, AudioShm!Sides
<1> QED
  BY <1>5, <1>7, <1>8 DEF AudioShm!ShmInv

\* Every step, as long as the buffer can be used.
LEMMA ShmStep == AudioShm!ShmInv /\ [Next]_objectVars => AudioShm!ShmInv'
<1> SUFFICES ASSUME AudioShm!ShmInv, [Next]_objectVars PROVE AudioShm!ShmInv'
  OBVIOUS
<1>1. ending => ending'
  BY DEF Next, AudioShm!Next, AudioShm!Construct, AudioShm!Resize, AudioShm!Move,
         AudioShm!Destroy, objectVars, shmVars
<1>2. CASE ending'
  BY <1>2 DEF AudioShm!ShmInv
<1>3. CASE ~ending'
  <2>1. AudioShm!BufferTypeOK /\ AudioShm!MappingsInv /\ AudioShm!SizesInv
    BY <1>1, <1>3 DEF AudioShm!ShmInv
  <2>2. CASE UNCHANGED shmVars
    BY <1>3, <2>1, <2>2 DEF shmVars, AudioShm!ShmInv, AudioShm!BufferTypeOK,
       AudioShm!MappingsInv, AudioShm!SizesInv, AudioShm!Owned, AudioShm!Latest
  <2>3. CASE AudioShm!Next
    BY <1>3, <2>1, <2>3, ConstructStep, ResizeStep, MoveStep, DestroyStep DEF AudioShm!Next
  <2> QED
    BY <2>2, <2>3 DEF Next, objectVars
<1> QED
  BY <1>2, <1>3

\* What is usable is what its owner says is mapped.
LEMMA ShmShared == AudioShm!ShmInv => HalvesShareAudio
<1> SUFFICES ASSUME AudioShm!BufferTypeOK, AudioShm!MappingsInv, AudioShm!SizesInv, config = None
             PROVE  /\ \A s \in AudioShm!Sides :
                         LET b == buffer[s].member IN b # None => AudioShm!Usable(s, b)
                    /\ \A s, t \in AudioShm!Sides :
                         LET b == buffer[s].member
                             c == buffer[t].member
                         IN b # None /\ c # None => b.fd = c.fd /\ b.size = c.size
  BY DEF AudioShm!ShmInv, HalvesShareAudio, AudioShm!HalvesShareAudio
<1>1. \A s \in AudioShm!Sides : buffer[s].member # None =>
        /\ buffer[s].member \in AudioShm!Buffers /\ AudioShm!Owned(s, buffer[s].member)
        /\ AudioShm!Latest(s) = buffer[s].member
  BY ShmTypes DEF AudioShm!MappingsInv, AudioShm!SizesInv, AudioShm!Latest, AudioShm!Sides
<1>2. \A s \in AudioShm!Sides : buffer[s].member # None =>
        /\ buffer[s].member.fd = inode /\ buffer[s].member.size = AudioShm!Latest("wine").size
        /\ length[inode] >= buffer[s].member.size
  BY <1>1 DEF AudioShm!SizesInv, AudioShm!Owned, AudioShm!Sides
<1>3. ASSUME NEW s \in AudioShm!Sides, buffer[s].member # None, buffer[s].member.size > 0
      PROVE  AudioShm!Usable(s, buffer[s].member)
  <2> DEFINE at == buffer[s].member.bytes
  <2>1. at # None /\ at \in 1..Len(maps[s])
        /\ maps[s][at] = [inode |-> buffer[s].member.fd, bytes |-> buffer[s].member.size]
    BY <1>1, <1>3 DEF AudioShm!Owned
  <2>2. buffer[s].member.fd \in Nat /\ buffer[s].member.size \in Nat
    BY <1>1, <1>3, NativeAssumption DEF AudioShm!Buffers
  <2>3. maps[s][at] # None
    BY <2>1, <2>2, NativeAssumption DEF AudioShm!Mappings
  <2> QED
    BY <1>2, <1>3, <2>1, <2>3 DEF AudioShm!Usable
<1> QED
  BY <1>2, <1>3 DEF AudioShm!Usable

\* Both halves use one mapped object of the agreed size.
THEOREM AudioIsShared == Spec => []HalvesShareAudio
<1>1. Init => AudioShm!ShmInv
  <2> SUFFICES ASSUME Init PROVE AudioShm!ShmInv
    OBVIOUS
  <2>1. AudioShm!BufferTypeOK
    BY DEF Init, AudioShm!Init, AudioShm!BufferTypeOK
  <2> QED
    BY <2>1 DEF Init, AudioShm!Init, AudioShm!ShmInv, AudioShm!MappingsInv,
                AudioShm!SizesInv, AudioShm!Latest, AudioShm!Sides
<1> QED
  BY <1>1, ShmStep, ShmShared, PTL DEF Spec
=============================================================================

---------------------------- MODULE ProcessHandle ----------------------------
(***************************************************************************)
(* Process and Process::Handle (src/common/process.cpp): a child process,  *)
(* and the objects that own it.  A handle is moved between places; the one *)
(* that is dropped terminates its child unless it was detached or moved    *)
(* from.  Children end when they like.  That the identifier of a child that *)
(* was waited for is not used again while a handle has it is an assumption. *)
(***************************************************************************)
CONSTANTS
  Places,  \* where handles are
  Pids,    \* process identifiers
  None

VARIABLES
  process,   \* per identifier: "free", "running" or "zombie"
  handle,    \* per place: [pid, detached], or None
  released,  \* auxiliary: children detached from on purpose
  assigned   \* auxiliary: children a handle of which took part in an assignment

processVars == <<process, handle, released, assigned>>

Init ==
  /\ process = [p \in Pids |-> "free"]
  /\ handle = [h \in Places |-> None]
  /\ released = {} /\ assigned = {}

Owners(p) == {h \in Places : handle[h] # None /\ handle[h].pid = p /\ ~handle[h].detached}

\* spawn_child_piped(), spawn_child_redirected(): a child that has ended by the
\* time of the WNOHANG is waited for there; with status 127 there is no handle, and
\* otherwise there is one of a process that is gone.
Spawn(h, p) ==
  /\ handle[h] = None /\ process[p] = "free" /\ p \notin released \cup assigned
  /\ \A g \in Places : handle[g] # None => handle[g].pid # p
  /\ \/ /\ process' = [process EXCEPT ![p] = "running"]
        /\ handle' = [handle EXCEPT ![h] = [pid |-> p, detached |-> FALSE]]
     \/ /\ handle' = [handle EXCEPT ![h] = [pid |-> p, detached |-> FALSE]]
        /\ UNCHANGED process
     \/ UNCHANGED <<process, handle>>
  /\ UNCHANGED <<released, assigned>>

ChildEnds(p) ==
  /\ process[p] = "running"
  /\ process' = [process EXCEPT ![p] = "zombie"]
  /\ UNCHANGED <<handle, released, assigned>>

\* Mutant: the object moved from keeps the child.
LeftOfMoveKeeps(o) == o

\* What a move leaves.
LeftOfMove(o) == [o EXCEPT !.detached = TRUE]

\* Mutant: the object moved from is marked before its mark is copied.
ConstructedDetached(o) == [o EXCEPT !.detached = TRUE]

\* Handle(Handle&&) copies the mark and the identifier.
Constructed(o) == o

MoveConstruct(h, g) ==
  /\ handle[h] # None /\ handle[g] = None
  /\ handle' = [handle EXCEPT ![g] = Constructed(handle[h]), ![h] = LeftOfMove(@)]
  /\ UNCHANGED <<process, released, assigned>>

\* operator=(Handle&&) marks the other before it copies the mark: the target is
\* detached, and the child it had is neither terminated nor waited for.
\* No handle is assigned to itself.
MoveAssign(h, g) ==
  /\ h # g /\ handle[h] # None /\ handle[g] # None
  /\ handle' = [handle EXCEPT ![g] = [pid |-> handle[h].pid, detached |-> TRUE],
                              ![h] = LeftOfMove(@)]
  /\ assigned' = assigned \cup {handle[h].pid, handle[g].pid}
  /\ UNCHANGED <<process, released>>

Detach(h) ==
  /\ handle[h] # None /\ ~handle[h].detached
  /\ handle' = [handle EXCEPT ![h].detached = TRUE]
  /\ released' = released \cup {handle[h].pid}
  /\ UNCHANGED <<process, assigned>>

\* terminate(): kill() and waitpid(), whose results are not looked at.
Terminated(p) ==
  process' = IF process[p] \in {"running", "zombie"} THEN [process EXCEPT ![p] = "free"]
             ELSE process

\* Somebody asks the child to end, or waits until it has, through any handle.
TerminateOrWait(h) ==
  /\ handle[h] # None
  /\ \/ Terminated(handle[h].pid)
     \/ /\ process[handle[h].pid] = "zombie"
        /\ process' = [process EXCEPT ![handle[h].pid] = "free"]
  /\ UNCHANGED <<handle, released, assigned>>

\* ~Handle().
Drop(h) ==
  /\ handle[h] # None
  /\ handle' = [handle EXCEPT ![h] = None]
  /\ IF handle[h].detached THEN UNCHANGED process ELSE Terminated(handle[h].pid)
  /\ UNCHANGED <<released, assigned>>

Next ==
  \/ \E h \in Places, p \in Pids : Spawn(h, p)
  \/ \E p \in Pids : ChildEnds(p)
  \/ \E h, g \in Places : MoveConstruct(h, g) \/ MoveAssign(h, g)
  \/ \E h \in Places : Detach(h) \/ TerminateOrWait(h) \/ Drop(h)

Spec == Init /\ [][Next]_processVars
-----------------------------------------------------------------------------
\* process.h:155: "Terminates the process when it gets dropped."  A child that was
\* neither terminated nor released has exactly one handle that will.
ChildHasOneOwner ==
  \A p \in Pids :
    process[p] \in {"running", "zombie"} /\ p \notin released
      => \E h \in Places : Owners(p) = {h}

\* That is so as long as handles are moved by construction, through any number of
\* places: the child is not terminated while its owner lives, and it is once none
\* is left.  Even an assignment never leaves two handles that would terminate it.
OwnedUntilAssigned ==
  \A p \in Pids :
    process[p] \in {"running", "zombie"} =>
      /\ \A g, h \in Owners(p) : g = h
      /\ p \notin released \cup assigned => Owners(p) # {}

Handles == [pid : Pids, detached : BOOLEAN]

\* Inductive: no identifier has two owners, and a child without one was terminated,
\* released or assigned.
OwnersInv ==
  /\ process \in [Pids -> {"free", "running", "zombie"}]
  /\ handle \in [Places -> Handles \cup {None}]
  /\ \A p \in Pids : \A g, h \in Owners(p) : g = h
  /\ \A p \in Pids \ (released \cup assigned) : process[p] # "free" => Owners(p) # {}
=============================================================================

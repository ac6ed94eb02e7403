--------------------------- MODULE MutualRecursion --------------------------
(***************************************************************************)
(* MutualRecursionHelper of src/common/mutual-recursion.h.  fork() sends a *)
(* message from a new thread and lends its own thread to handle(), which   *)
(* other threads call with functions the other side wants run while it     *)
(* works on that message.  Such a function may fork() again.               *)
(*                                                                         *)
(* What is done under mutual_recursion_contexts_mutex_ is one step.        *)
(* handle() is called by threads that serve a socket, as its comment has   *)
(* it: never by a thread that is inside fork().                            *)
(***************************************************************************)
EXTENDS Integers, Sequences, SequencesExt

CONSTANTS
  Forks,    \* calls of fork()
  Handles,  \* calls of handle()
  Threads,  \* threads that call fork()
  NoCall,   \* not a call
  Caller,   \* per fork() not made by a function of handle(): its thread
  Within    \* per call: the one during which it is made, or NoCall

\* fork() is called by a thread of its own accord or by a function that
\* handle() runs; handle() because of a message fork() sent, or of none.
ASSUME RecursionAssumption ==
  /\ NoCall \notin Forks \cup Handles \cup Threads
  /\ Forks \cap Handles = {} /\ Threads \cap Handles = {}
  /\ Caller \in [Forks -> Threads]
  /\ Within \in [Forks \cup Handles -> Forks \cup Handles \cup {NoCall}]
  /\ \A f \in Forks : Within[f] \in Handles \cup {NoCall}
  /\ \A h \in Handles : Within[h] \in Forks \cup {NoCall}

VARIABLES
  mutual_recursion_contexts_,  \* the stack, as the fork() calls that own them
  forkState,    \* "idle", "waiting" for fn, "answered": fn is back, "returned"
  forkThread,   \* per fork(): the thread that made it
  tasks,        \* per fork(): the functions posted to its context
  handleState,  \* "idle", "posted", "running", "ended", "returned"
  runsOn        \* per handle(): the thread its function runs on; a call stands
                \* for the thread that made it

vars == <<mutual_recursion_contexts_, forkState, forkThread, tasks, handleState, runsOn>>

TypeOK ==
  /\ mutual_recursion_contexts_ \in Seq(Forks)
  /\ forkState \in [Forks -> {"idle", "waiting", "answered", "returned"}]
  /\ forkThread \in [Forks -> Threads \cup Handles \cup {NoCall}]
  /\ tasks \in [Forks -> Seq(Handles)]
  /\ handleState \in [Handles -> {"idle", "posted", "running", "ended", "returned"}]
  /\ runsOn \in [Handles -> Threads \cup Handles \cup {NoCall}]

Init ==
  /\ mutual_recursion_contexts_ = <<>>
  /\ forkState = [f \in Forks |-> "idle"]
  /\ forkThread = [f \in Forks |-> NoCall]
  /\ tasks = [f \in Forks |-> <<>>]
  /\ handleState = [h \in Handles |-> "idle"]
  /\ runsOn = [h \in Handles |-> NoCall]

-----------------------------------------------------------------------------
InFork(f) == forkState[f] \in {"waiting", "answered"}

\* The thread of f runs a function it took from the context of f.
Busy(f) ==
  \E h \in Handles : tasks[f] # <<>> /\ h = Head(tasks[f]) /\ handleState[h] = "running"

\* A new context on the stack; fn starts on a thread of its own.
fork(f) ==
  /\ forkState[f] = "idle"
  /\ \/ /\ Within[f] = NoCall
        /\ \A g \in Forks : InFork(g) => forkThread[g] # Caller[f]
        /\ forkThread' = [forkThread EXCEPT ![f] = Caller[f]]
     \/ /\ Within[f] # NoCall
        /\ handleState[Within[f]] = "running"
        /\ \A g \in Forks : Within[g] = Within[f] => ~InFork(g)
        /\ forkThread' = [forkThread EXCEPT ![f] = runsOn[Within[f]]]
  /\ forkState' = [forkState EXCEPT ![f] = "waiting"]
  /\ mutual_recursion_contexts_' = Append(mutual_recursion_contexts_, f)
  /\ UNCHANGED <<tasks, handleState, runsOn>>

\* The other side answers once the calls it has made for the message are back.
Answered(f) ==
  /\ forkState[f] = "waiting"
  /\ \A h \in Handles : Within[h] = f => handleState[h] \in {"idle", "returned"}

\* Mutant: the last context is taken off the stack.
FnReturnsPops(f) ==
  /\ Answered(f)
  /\ forkState' = [forkState EXCEPT ![f] = "answered"]
  /\ mutual_recursion_contexts_' = Front(mutual_recursion_contexts_)
  /\ UNCHANGED <<forkThread, tasks, handleState, runsOn>>

\* Mutant: there is only one place for a context.
FnReturnsClears(f) ==
  /\ Answered(f)
  /\ forkState' = [forkState EXCEPT ![f] = "answered"]
  /\ mutual_recursion_contexts_' = <<>>
  /\ UNCHANGED <<forkThread, tasks, handleState, runsOn>>

\* fn returns: the work guard is reset and the context, which std::find looks for
\* from the bottom, taken off the stack.
FnReturns(f) ==
  /\ Answered(f)
  /\ forkState' = [forkState EXCEPT ![f] = "answered"]
  /\ \E i \in DOMAIN mutual_recursion_contexts_ :
       /\ mutual_recursion_contexts_[i] = f
       /\ \A j \in 1 .. i - 1 : mutual_recursion_contexts_[j] # f
       /\ mutual_recursion_contexts_' = RemoveAt(mutual_recursion_contexts_, i)
  /\ UNCHANGED <<forkThread, tasks, handleState, runsOn>>

\* run() takes the oldest function of the context; it stays at the head of
\* `tasks' until it has ended.
RunTask(f) ==
  /\ InFork(f) /\ tasks[f] # <<>> /\ ~Busy(f)
  /\ handleState' = [handleState EXCEPT ![Head(tasks[f])] = "running"]
  /\ runsOn' = [runsOn EXCEPT ![Head(tasks[f])] = forkThread[f]]
  /\ UNCHANGED <<mutual_recursion_contexts_, forkState, forkThread, tasks>>

\* A function ends once the fork() calls it has made are back.
ForksBack(h) == \A f \in Forks : Within[f] = h => forkState[f] \in {"idle", "returned"}

TaskEnds(f) ==
  /\ Busy(f) /\ ForksBack(Head(tasks[f]))
  /\ handleState' = [handleState EXCEPT ![Head(tasks[f])] = "ended"]
  /\ tasks' = [tasks EXCEPT ![f] = Tail(@)]
  /\ UNCHANGED <<mutual_recursion_contexts_, forkState, forkThread, runsOn>>

\* Mutant: the context is stopped as soon as fn is back.
ForkReturnsAtOnce(f) ==
  /\ forkState[f] = "answered"
  /\ ~Busy(f)
  /\ forkState' = [forkState EXCEPT ![f] = "returned"]
  /\ UNCHANGED <<mutual_recursion_contexts_, forkThread, tasks, handleState, runsOn>>

\* Without its guard run() returns when nothing is left to run.
ForkReturns(f) ==
  /\ forkState[f] = "answered"
  /\ tasks[f] = <<>>
  /\ forkState' = [forkState EXCEPT ![f] = "returned"]
  /\ UNCHANGED <<mutual_recursion_contexts_, forkThread, tasks, handleState, runsOn>>

\* Mutant: the function is posted to the outermost context.
handleFirst(h) ==
  /\ handleState[h] = "idle"
  /\ Within[h] # NoCall => forkState[Within[h]] = "waiting"
  /\ mutual_recursion_contexts_ # <<>>
  /\ handleState' = [handleState EXCEPT ![h] = "posted"]
  /\ tasks' = [tasks EXCEPT ![Head(mutual_recursion_contexts_)] = Append(@, h)]
  /\ UNCHANGED <<mutual_recursion_contexts_, forkState, forkThread, runsOn>>

\* handle() and maybe_handle(): the function is posted to the last context; if
\* there is none, the calling thread runs it.
handle(h) ==
  /\ handleState[h] = "idle"
  /\ Within[h] # NoCall => forkState[Within[h]] = "waiting"
  /\ \/ /\ mutual_recursion_contexts_ # <<>>
        /\ handleState' = [handleState EXCEPT ![h] = "posted"]
        /\ tasks' = [tasks EXCEPT ![Last(mutual_recursion_contexts_)] = Append(@, h)]
        /\ UNCHANGED runsOn
     \/ /\ mutual_recursion_contexts_ = <<>>
        /\ handleState' = [handleState EXCEPT ![h] = "running"]
        /\ runsOn' = [runsOn EXCEPT ![h] = h]
        /\ UNCHANGED tasks
  /\ UNCHANGED <<mutual_recursion_contexts_, forkState, forkThread>>

OwnCallEnds(h) ==
  /\ handleState[h] = "running" /\ runsOn[h] = h
  /\ ForksBack(h)
  /\ handleState' = [handleState EXCEPT ![h] = "ended"]
  /\ UNCHANGED <<mutual_recursion_contexts_, forkState, forkThread, tasks, runsOn>>

\* The result, through the future.
HandleReturns(h) ==
  /\ handleState[h] = "ended"
  /\ handleState' = [handleState EXCEPT ![h] = "returned"]
  /\ UNCHANGED <<mutual_recursion_contexts_, forkState, forkThread, tasks, runsOn>>

ForkStep(f) == FnReturns(f) \/ RunTask(f) \/ TaskEnds(f) \/ ForkReturns(f)
HandleStep(h) == OwnCallEnds(h) \/ HandleReturns(h)

Next ==
  \/ \E f \in Forks : fork(f) \/ ForkStep(f)
  \/ \E h \in Handles : handle(h) \/ HandleStep(h)

Spec == Init /\ [][Next]_vars

\* Threads run, the other side answers once its own calls are back; nothing
\* makes a call.
FairSpec ==
  /\ Spec
  /\ \A f \in Forks : /\ WF_vars(FnReturns(f)) /\ WF_vars(RunTask(f))
                      /\ WF_vars(TaskEnds(f)) /\ WF_vars(ForkReturns(f))
  /\ \A h \in Handles : WF_vars(HandleStep(h))
-----------------------------------------------------------------------------
\* The stack holds exactly the contexts of the fork() calls that still accept
\* functions, each once, although they may end in any order.
StackIsWaitingForks ==
  /\ ToSet(mutual_recursion_contexts_) = {f \in Forks : forkState[f] = "waiting"}
  /\ \A i, j \in DOMAIN mutual_recursion_contexts_ :
       mutual_recursion_contexts_[i] = mutual_recursion_contexts_[j] => i = j

\* A function is in the queue of one context, once, exactly while it waits or is
\* run there; the context is that of a fork() that has not returned, and only
\* its oldest function runs: posting one never races with the end of run().
Queued(h) == handleState[h] = "posted" \/ (handleState[h] = "running" /\ runsOn[h] # h)

NoTaskStranded ==
  /\ \A f \in Forks : tasks[f] # <<>> => InFork(f)
  /\ \A h \in Handles :
       Queued(h) <=> \E f \in Forks : \E i \in DOMAIN tasks[f] : tasks[f][i] = h
  /\ \A f, g \in Forks : \A i \in DOMAIN tasks[f], j \in DOMAIN tasks[g] :
       tasks[f][i] = tasks[g][j] => f = g /\ i = j
  /\ \A f \in Forks : \A i \in DOMAIN tasks[f] :
       handleState[tasks[f][i]] = "running" => i = 1

\* A thread that handle() was called by has run its function itself, and a function
\* that answers a fork() was posted to a context.
ThreadInv ==
  /\ \A f \in Forks : forkState[f] = "idle" <=> forkThread[f] = NoCall
  /\ \A h \in Handles :
       /\ handleState[h] \in {"idle", "posted"} <=> runsOn[h] = NoCall
       /\ (\E k \in Handles : runsOn[k] = h) \/ (\E f \in Forks : forkThread[f] = h)
            => runsOn[h] = h
       /\ Within[h] # NoCall /\ handleState[h] # "idle" => forkState[Within[h]] # "idle"
       /\ Within[h] # NoCall /\ runsOn[h] # NoCall
            => \E f \in Forks : runsOn[h] = forkThread[f]

\* Inductive.
RecursionInv == TypeOK /\ StackIsWaitingForks /\ NoTaskStranded /\ ThreadInv

\* mutual-recursion.h:53: handle(foo) calls foo on the thread that called the
\* fork(fn) it answers.  It does as long as one thread at a time uses the
\* helper; of two inside fork(), the one that forked last runs everything.
RunsOnForkingThread ==
  (\E t \in Threads \cup Handles : \A f \in Forks : forkThread[f] \in {t, NoCall})
    => \A h \in Handles :
         Within[h] # NoCall /\ runsOn[h] # NoCall => runsOn[h] = forkThread[Within[h]]

\* Nothing waits for itself: every fork() and every handle() returns.
CallsReturn ==
  /\ \A f \in Forks : forkState[f] = "waiting" ~> forkState[f] = "returned"
  /\ \A h \in Handles : handleState[h] # "idle" ~> handleState[h] = "returned"
=============================================================================

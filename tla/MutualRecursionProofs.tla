------------------------ MODULE MutualRecursionProofs -----------------------
(***************************************************************************)
(* MutualRecursion.tla for any calls of fork() and handle(), on any        *)
(* threads and nested in any way: RecursionInv is inductive, and from it   *)
(* follow the properties of the stack, the queues and the threads.         *)
(***************************************************************************)
EXTENDS MutualRecursion, SequenceTheorems, TLAPS

-----------------------------------------------------------------------------
(* The stack.                                                              *)

\* Every element of a sequence is there once.
Distinct(s) == \A i, j \in DOMAIN s : s[i] = s[j] => i = j

\* What RemoveAt leaves, place by place.
LEMMA RemoveAtProperties ==
  ASSUME NEW S, NEW s \in Seq(S), NEW i \in DOMAIN s
  PROVE  /\ RemoveAt(s, i) \in Seq(S)
         /\ Len(RemoveAt(s, i)) = Len(s) - 1
         /\ \A k \in 1 .. Len(s) - 1 : RemoveAt(s, i)[k] = IF k < i THEN s[k] ELSE s[k + 1]
<1>1. Len(s) \in Nat /\ i \in 1 .. Len(s) /\ \A k \in 1 .. Len(s) : s[k] \in S
  BY LenProperties, ElementOfSeq
<1> DEFINE left == SubSeq(s, 1, i - 1)
           right == SubSeq(s, i + 1, Len(s))
<1>2. left \in Seq(S) /\ Len(left) = i - 1 /\ \A k \in 1 .. i - 1 : left[k] = s[k]
  BY <1>1, SubSeqProperties
<1>3. right \in Seq(S) /\ Len(right) = Len(s) - i /\ \A k \in 1 .. Len(s) - i : right[k] = s[i + k]
  BY <1>1, SubSeqProperties
<1>4. RemoveAt(s, i) = left \o right
  BY DEF RemoveAt
<1> HIDE DEF left, right
<1> QED
  BY <1>1, <1>2, <1>3, <1>4, ConcatProperties

\* Taking one element off a sequence without repetitions leaves the others.
LEMMA RemoveDistinct ==
  ASSUME NEW S, NEW s \in Seq(S), NEW i \in DOMAIN s, Distinct(s)
  PROVE  /\ ToSet(RemoveAt(s, i)) = ToSet(s) \ {s[i]}
         /\ Distinct(RemoveAt(s, i))
<1> DEFINE r == RemoveAt(s, i)
<1>1. /\ Len(s) \in Nat /\ DOMAIN s = 1 .. Len(s) /\ DOMAIN r = 1 .. Len(s) - 1
      /\ \A k \in 1 .. Len(s) - 1 : r[k] = IF k < i THEN s[k] ELSE s[k + 1]
  BY RemoveAtProperties, LenProperties
<1> HIDE DEF r
<1>2. ASSUME NEW x \in ToSet(s), x # s[i] PROVE x \in ToSet(r)
  <2>1. PICK k \in DOMAIN s : s[k] = x
    BY DEF ToSet
  <2>2. CASE k < i
    BY <1>1, <2>1, <2>2 DEF ToSet
  <2>3. CASE k > i
    <3>1. k - 1 \in DOMAIN r /\ r[k - 1] = x
      BY <1>1, <2>1, <2>3
    <3> QED
      BY <3>1 DEF ToSet
  <2> QED
    BY <1>1, <1>2, <2>1, <2>2, <2>3
<1>3. ASSUME NEW x \in ToSet(r) PROVE x \in ToSet(s) \ {s[i]}
  <2>1. PICK k \in DOMAIN r : r[k] = x
    BY DEF ToSet
  <2> QED
    BY <1>1, <2>1 DEF ToSet, Distinct
<1>4. ASSUME NEW k \in DOMAIN r, NEW l \in DOMAIN r, r[k] = r[l] PROVE k = l
  <2> DEFINE from(n) == IF n < i THEN n ELSE n + 1
  <2>1. /\ from(k) \in DOMAIN s /\ r[k] = s[from(k)]
        /\ from(l) \in DOMAIN s /\ r[l] = s[from(l)]
    BY <1>1
  <2>2. from(k) = from(l)
    BY <1>4, <2>1 DEF Distinct
  <2> QED
    BY <1>1, <2>2
<1> QED
  BY <1>2, <1>3, <1>4 DEF r, Distinct

\* Pushing a new element adds it, and leaves the sequence without repetitions.
LEMMA AppendDistinct ==
  ASSUME NEW S, NEW s \in Seq(S), NEW x \in S, Distinct(s), x \notin ToSet(s)
  PROVE  ToSet(Append(s, x)) = ToSet(s) \cup {x} /\ Distinct(Append(s, x))
<1> DEFINE r == Append(s, x)
<1>1. /\ Len(s) \in Nat /\ DOMAIN s = 1 .. Len(s) /\ DOMAIN r = 1 .. Len(s) + 1
      /\ (\A k \in 1 .. Len(s) : r[k] = s[k]) /\ r[Len(s) + 1] = x
  BY AppendProperties, LenProperties
<1> HIDE DEF r
<1> QED
  <2>1. ToSet(r) = ToSet(s) \cup {x}
    BY <1>1 DEF ToSet
  <2>2. Distinct(r)
    BY <1>1 DEF ToSet, Distinct
  <2> QED
    BY <2>1, <2>2 DEF r

-----------------------------------------------------------------------------
(* A queue of functions: places in it after posting and after taking.      *)

LEMMA PostPlaces ==
  ASSUME NEW S, NEW q \in Seq(S), NEW x \in S
  PROVE  /\ Append(q, x) \in Seq(S) /\ Append(q, x) # <<>>
         /\ DOMAIN q = 1 .. Len(q) /\ DOMAIN Append(q, x) = 1 .. Len(q) + 1 /\ Len(q) \in Nat
         /\ \A i \in DOMAIN q : Append(q, x)[i] = q[i]
         /\ Append(q, x)[Len(q) + 1] = x
BY AppendProperties, LenProperties

LEMMA TakePlaces ==
  ASSUME NEW S, NEW q \in Seq(S), q # <<>>
  PROVE  /\ Tail(q) \in Seq(S) /\ Head(q) \in S
         /\ 1 \in DOMAIN q /\ Head(q) = q[1]
         /\ \A i \in DOMAIN Tail(q) : i + 1 \in DOMAIN q /\ Tail(q)[i] = q[i + 1] /\ i + 1 # 1
         /\ \A i \in DOMAIN q : i # 1 => i - 1 \in DOMAIN Tail(q) /\ Tail(q)[i - 1] = q[i]
<1>1. Len(q) \in Nat \ {0}
  BY EmptySeq, Zenon
<1> QED
  BY <1>1, HeadTailProperties, LenProperties

-----------------------------------------------------------------------------
(* Types.                                                                  *)

\* The initial state satisfies the whole invariant.
LEMMA InitInv == Init => RecursionInv
<1> SUFFICES ASSUME Init PROVE RecursionInv
  OBVIOUS
<1>1. \A S : <<>> \in Seq(S) /\ DOMAIN <<>> = {}
  BY EmptySeq, LenProperties
<1>2. TypeOK
  BY <1>1 DEF Init, TypeOK
<1>3. StackIsWaitingForks
  BY <1>1 DEF Init, StackIsWaitingForks, ToSet
<1>4. NoTaskStranded /\ ThreadInv
  BY <1>1, RecursionAssumption DEF Init, NoTaskStranded, ThreadInv, Queued
<1> QED
  BY <1>2, <1>3, <1>4 DEF RecursionInv

\* The context a function is posted to is that of a fork() that is waiting.
LEMMA LastWaits ==
  ASSUME TypeOK, StackIsWaitingForks, mutual_recursion_contexts_ # <<>>
  PROVE  /\ Last(mutual_recursion_contexts_) \in Forks
         /\ forkState[Last(mutual_recursion_contexts_)] = "waiting"
<1> DEFINE stack == mutual_recursion_contexts_
<1>1. stack \in Seq(Forks) /\ Len(stack) \in DOMAIN stack
  BY EmptySeq, LenProperties DEF TypeOK
<1>2. stack[Len(stack)] \in ToSet(stack)
  BY <1>1 DEF ToSet
<1> QED
  BY <1>1, <1>2 DEF Last, StackIsWaitingForks

\* A function at the head of a queue that is not run yet was posted.
LEMMA HeadPosted ==
  ASSUME TypeOK, NoTaskStranded, NEW f \in Forks, tasks[f] # <<>>, ~Busy(f)
  PROVE  Head(tasks[f]) \in Handles /\ handleState[Head(tasks[f])] = "posted"
<1>1. Head(tasks[f]) \in Handles /\ 1 \in DOMAIN tasks[f] /\ Head(tasks[f]) = tasks[f][1]
  BY TakePlaces DEF TypeOK
<1>2. Queued(Head(tasks[f]))
  BY <1>1 DEF NoTaskStranded
<1> QED
  BY <1>1, <1>2 DEF Queued, Busy

\* Every step leaves a state of the right type.
LEMMA TypeStep == RecursionInv /\ [Next]_vars => TypeOK'
<1> SUFFICES ASSUME RecursionInv, [Next]_vars PROVE TypeOK'
  OBVIOUS
<1> USE DEF RecursionInv, TypeOK
<1>1. ASSUME NEW f \in Forks, fork(f) PROVE TypeOK'
  <2>1. mutual_recursion_contexts_' \in Seq(Forks)
    BY <1>1, AppendProperties DEF fork
  <2>2. forkThread' \in [Forks -> Threads \cup Handles \cup {NoCall}]
    BY <1>1, RecursionAssumption DEF fork
  <2> QED
    BY <1>1, <2>1, <2>2 DEF fork
<1>2. ASSUME NEW f \in Forks, FnReturns(f) PROVE TypeOK'
  BY <1>2, RemoveAtProperties DEF FnReturns
<1>3. ASSUME NEW f \in Forks, RunTask(f) PROVE TypeOK'
  BY <1>3, HeadPosted DEF RunTask
<1>4. ASSUME NEW f \in Forks, TaskEnds(f) PROVE TypeOK'
  BY <1>4, TakePlaces DEF TaskEnds, Busy
<1>5. ASSUME NEW f \in Forks, ForkReturns(f) PROVE TypeOK'
  BY <1>5 DEF ForkReturns
<1>6. ASSUME NEW h \in Handles, handle(h) PROVE TypeOK'
  <2>1. CASE mutual_recursion_contexts_ = <<>>
    <3>1. /\ handleState' = [handleState EXCEPT ![h] = "running"]
          /\ runsOn' = [runsOn EXCEPT ![h] = h]
          /\ UNCHANGED <<mutual_recursion_contexts_, forkState, forkThread, tasks>>
      BY <1>6, <2>1 DEF handle
    <3> QED
      BY <3>1
  <2>2. CASE mutual_recursion_contexts_ # <<>>
    <3> DEFINE g == Last(mutual_recursion_contexts_)
    <3>1. g \in Forks /\ tasks' = [tasks EXCEPT ![g] = Append(@, h)]
      BY <1>6, <2>2, LastWaits DEF handle
    <3>2. Append(tasks[g], h) \in Seq(Handles)
      BY <3>1, PostPlaces
    <3> HIDE DEF g
    <3>3. tasks' \in [Forks -> Seq(Handles)]
      BY <3>1, <3>2
    <3> QED
      BY <1>6, <2>2, <3>3 DEF handle
  <2> QED
    BY <2>1, <2>2
<1>7. ASSUME NEW h \in Handles, HandleStep(h) PROVE TypeOK'
  BY <1>7 DEF HandleStep, OwnCallEnds, HandleReturns
<1>8. CASE UNCHANGED vars
  BY <1>8 DEF vars
<1> QED
  BY <1>1, <1>2, <1>3, <1>4, <1>5, <1>6, <1>7, <1>8 DEF Next, ForkStep

-----------------------------------------------------------------------------
(* The stack through the steps.                                            *)

\* The stack is kept by pushing in fork() and by erasing when fn is back.
LEMMA StackStep ==
  ASSUME TypeOK, TypeOK', StackIsWaitingForks, [Next]_vars
  PROVE  StackIsWaitingForks'
<1> USE DEF TypeOK
<1> DEFINE stack == mutual_recursion_contexts_
<1>1. stack \in Seq(Forks) /\ Distinct(stack)
      /\ ToSet(stack) = {f \in Forks : forkState[f] = "waiting"}
  BY DEF StackIsWaitingForks, Distinct
<1>2. ASSUME NEW f \in Forks, fork(f) PROVE StackIsWaitingForks'
  <2>1. stack' = Append(stack, f) /\ forkState' = [forkState EXCEPT ![f] = "waiting"]
        /\ f \notin ToSet(stack)
    BY <1>1, <1>2 DEF fork
  <2>2. ToSet(stack') = ToSet(stack) \cup {f} /\ Distinct(stack')
    BY <1>1, <2>1, AppendDistinct
  <2> QED
    BY <1>1, <2>1, <2>2 DEF StackIsWaitingForks, Distinct
<1>3. ASSUME NEW f \in Forks, FnReturns(f) PROVE StackIsWaitingForks'
  <2>1. PICK i \in DOMAIN stack : stack[i] = f /\ stack' = RemoveAt(stack, i)
    BY <1>3 DEF FnReturns
  <2>2. ToSet(stack') = ToSet(stack) \ {f} /\ Distinct(stack')
    BY <1>1, <2>1, RemoveDistinct
  <2>3. forkState' = [forkState EXCEPT ![f] = "answered"]
    BY <1>3 DEF FnReturns
  <2> QED
    BY <1>1, <2>2, <2>3 DEF StackIsWaitingForks, Distinct
<1>4. ASSUME UNCHANGED stack, \A f \in Forks : forkState'[f] = "waiting" <=> forkState[f] = "waiting"
      PROVE  StackIsWaitingForks'
  BY <1>1, <1>4 DEF StackIsWaitingForks, Distinct
<1>5. ASSUME NEW f \in Forks, RunTask(f) \/ TaskEnds(f) \/ ForkReturns(f)
      PROVE  UNCHANGED stack /\ \A g \in Forks : forkState'[g] = "waiting" <=> forkState[g] = "waiting"
  BY <1>5 DEF RunTask, TaskEnds, ForkReturns
<1>6. ASSUME NEW h \in Handles, handle(h) \/ HandleStep(h)
      PROVE  UNCHANGED stack /\ UNCHANGED forkState
  BY <1>6 DEF handle, HandleStep, OwnCallEnds, HandleReturns
<1>7. CASE UNCHANGED vars
  BY <1>4, <1>7 DEF vars
<1> QED
  BY <1>2, <1>3, <1>4, <1>5, <1>6, <1>7 DEF Next, ForkStep

-----------------------------------------------------------------------------
(* What a step does to calls and queues, as the proofs use it.             *)

\* The function that run() takes starts on the thread of the fork().
LEMMA RunTaskStarts ==
  ASSUME RecursionInv, NEW f \in Forks, RunTask(f)
  PROVE  \E k \in Handles :
           /\ 1 \in DOMAIN tasks[f] /\ tasks[f][1] = k
           /\ handleState[k] = "posted" /\ runsOn[k] = NoCall
           /\ forkThread[f] # NoCall /\ forkThread[f] # k
           /\ handleState' = [handleState EXCEPT ![k] = "running"]
           /\ runsOn' = [runsOn EXCEPT ![k] = forkThread[f]]
           /\ UNCHANGED <<forkState, forkThread, tasks>>
<1> USE DEF RecursionInv, TypeOK
<1> DEFINE k == Head(tasks[f])
<1>1. tasks[f] \in Seq(Handles) /\ tasks[f] # <<>> /\ ~Busy(f) /\ InFork(f)
  BY DEF RunTask
<1>2. k \in Handles /\ handleState[k] = "posted" /\ 1 \in DOMAIN tasks[f] /\ tasks[f][1] = k
  BY <1>1, HeadPosted, TakePlaces
<1>3. /\ handleState' = [handleState EXCEPT ![k] = "running"]
      /\ runsOn' = [runsOn EXCEPT ![k] = forkThread[f]]
      /\ UNCHANGED <<forkState, forkThread, tasks>>
  BY DEF RunTask
<1> HIDE DEF k
<1>4. runsOn[k] = NoCall /\ k # NoCall
  BY <1>2, RecursionAssumption DEF ThreadInv
<1>5. forkThread[f] # NoCall
  BY <1>1 DEF InFork, ThreadInv
<1>6. forkThread[f] # k
  BY <1>2, <1>4 DEF ThreadInv
<1> QED
  BY <1>2, <1>3, <1>4, <1>5, <1>6

\* The function that ends is the first of its queue, and was in no other place.
LEMMA TaskEndsFirst ==
  ASSUME RecursionInv, NEW f \in Forks, TaskEnds(f)
  PROVE  \E k \in Handles :
           /\ tasks[f] # <<>> /\ 1 \in DOMAIN tasks[f] /\ tasks[f][1] = k
           /\ handleState[k] = "running" /\ runsOn[k] # k
           /\ handleState' = [handleState EXCEPT ![k] = "ended"]
           /\ tasks' = [tasks EXCEPT ![f] = Tail(@)]
           /\ UNCHANGED <<forkState, forkThread, runsOn>>
<1> USE DEF RecursionInv, TypeOK
<1> DEFINE k == Head(tasks[f])
<1>1. tasks[f] \in Seq(Handles) /\ tasks[f] # <<>> /\ handleState[k] = "running"
  BY DEF TaskEnds, Busy
<1>2. k \in Handles /\ 1 \in DOMAIN tasks[f] /\ tasks[f][1] = k
  BY <1>1, TakePlaces
<1>3. /\ handleState' = [handleState EXCEPT ![k] = "ended"]
      /\ tasks' = [tasks EXCEPT ![f] = Tail(@)]
      /\ UNCHANGED <<forkState, forkThread, runsOn>>
  BY DEF TaskEnds
<1> HIDE DEF k
<1>4. Queued(k)
  BY <1>2 DEF NoTaskStranded
<1> QED
  BY <1>1, <1>2, <1>3, <1>4 DEF Queued

\* What handle() does: post to a waiting fork(), or run on the calling thread,
\* which answers no fork().
LEMMA HandlePosts ==
  ASSUME RecursionInv, NEW h \in Handles, handle(h)
  PROVE  /\ handleState[h] = "idle" /\ runsOn[h] = NoCall
         /\ Within[h] # NoCall => forkState[Within[h]] = "waiting"
         /\ UNCHANGED <<forkState, forkThread>>
         /\ \/ \E g \in Forks :
                 /\ forkState[g] = "waiting"
                 /\ handleState' = [handleState EXCEPT ![h] = "posted"]
                 /\ tasks' = [tasks EXCEPT ![g] = Append(@, h)]
                 /\ UNCHANGED runsOn
            \/ /\ Within[h] = NoCall
               /\ handleState' = [handleState EXCEPT ![h] = "running"]
               /\ runsOn' = [runsOn EXCEPT ![h] = h]
               /\ UNCHANGED tasks
<1> USE DEF RecursionInv, TypeOK
<1>1. /\ handleState[h] = "idle" /\ (Within[h] # NoCall => forkState[Within[h]] = "waiting")
      /\ UNCHANGED <<forkState, forkThread>>
  BY DEF handle
<1>2. runsOn[h] = NoCall
  BY <1>1 DEF ThreadInv
<1>3. CASE mutual_recursion_contexts_ # <<>>
  BY <1>1, <1>2, <1>3, LastWaits DEF handle
<1>4. CASE mutual_recursion_contexts_ = <<>>
  <2>1. \A f \in Forks : forkState[f] # "waiting"
    <3>1. DOMAIN mutual_recursion_contexts_ = {}
      BY <1>4
    <3> QED
      BY <3>1 DEF StackIsWaitingForks, ToSet
  <2>2. Within[h] = NoCall
    BY <1>1, <2>1, RecursionAssumption
  <2> QED
    BY <1>1, <1>2, <1>4, <2>2 DEF handle
<1> QED
  BY <1>3, <1>4

-----------------------------------------------------------------------------
(* Threads through the steps.                                              *)

\* Which thread a fork() was called on, and a function ran on, never changes.
LEMMA ThreadStep == RecursionInv /\ [Next]_vars => ThreadInv'
<1> SUFFICES ASSUME RecursionInv, [Next]_vars PROVE ThreadInv'
  OBVIOUS
<1>0. TypeOK /\ NoTaskStranded /\ ThreadInv
  BY DEF RecursionInv
<1> USE <1>0 DEF TypeOK
<1>1. ASSUME NEW f \in Forks, fork(f) PROVE ThreadInv'
  <2>1. /\ forkState[f] = "idle" /\ forkState' = [forkState EXCEPT ![f] = "waiting"]
        /\ UNCHANGED <<handleState, runsOn>>
    BY <1>1 DEF fork
  <2>2. PICK t \in Threads \cup Handles :
          /\ forkThread' = [forkThread EXCEPT ![f] = t]
          /\ t \in Handles => runsOn[t] = t
    <3>1. CASE Within[f] = NoCall
      <4>1. Caller[f] \in Threads /\ Caller[f] \notin Handles
        BY RecursionAssumption
      <4>2. forkThread' = [forkThread EXCEPT ![f] = Caller[f]]
        BY <1>1, <3>1 DEF fork
      <4> QED
        BY <4>1, <4>2
    <3>2. CASE Within[f] # NoCall
      <4>1. Within[f] \in Handles /\ runsOn[Within[f]] # NoCall
        BY <1>1, <3>2, RecursionAssumption DEF fork, ThreadInv
      <4> QED
        BY <1>1, <3>2, <4>1 DEF fork, ThreadInv
    <3> QED
      BY <3>1, <3>2
  <2>3. t # NoCall
    BY RecursionAssumption
  <2>4. forkThread[f] = NoCall
    BY <2>1 DEF ThreadInv
  <2>5. \A g \in Forks : forkState'[g] = "idle" <=> forkThread'[g] = NoCall
    BY <2>1, <2>2, <2>3 DEF ThreadInv
  <2>6. \A h \in Handles : (\E g \in Forks : forkThread'[g] = h) => runsOn'[h] = h
    BY <2>1, <2>2 DEF ThreadInv
  <2>7. \A g \in Forks \cup {NoCall} : forkState[g] # "idle" /\ g \in Forks => forkState'[g] # "idle"
    BY <2>1
  <2>8. \A h \in Handles : Within[h] # NoCall => Within[h] \in Forks
    BY RecursionAssumption
  <2>9. \A h \in Handles : Within[h] # NoCall /\ runsOn'[h] # NoCall
           => \E g \in Forks : runsOn'[h] = forkThread'[g]
    BY <2>1, <2>2, <2>4 DEF ThreadInv
  <2> QED
    BY <2>1, <2>5, <2>6, <2>7, <2>8, <2>9 DEF ThreadInv
<1>2. ASSUME NEW f \in Forks, FnReturns(f) \/ ForkReturns(f) PROVE ThreadInv'
  BY <1>2, RecursionAssumption DEF FnReturns, Answered, ForkReturns, ThreadInv
<1>3. ASSUME NEW f \in Forks, RunTask(f) PROVE ThreadInv'
  <2>1. PICK k \in Handles :
          /\ handleState[k] = "posted" /\ runsOn[k] = NoCall
          /\ forkThread[f] # NoCall /\ forkThread[f] # k
          /\ handleState' = [handleState EXCEPT ![k] = "running"]
          /\ runsOn' = [runsOn EXCEPT ![k] = forkThread[f]]
          /\ UNCHANGED <<forkState, forkThread>>
    BY <1>3, RunTaskStarts
  <2>2. k # NoCall
    BY RecursionAssumption
  <2>3. \A h \in Handles : (\E l \in Handles : runsOn'[l] = h) \/ (\E g \in Forks : forkThread'[g] = h)
           => runsOn'[h] = h
    BY <2>1, <2>2 DEF ThreadInv
  <2> QED
    BY <2>1, <2>3 DEF ThreadInv
<1>4. ASSUME NEW f \in Forks, TaskEnds(f) PROVE ThreadInv'
  BY <1>4, TaskEndsFirst DEF ThreadInv
<1>5. ASSUME NEW h \in Handles, handle(h) PROVE ThreadInv'
  <2>1. /\ handleState[h] = "idle" /\ runsOn[h] = NoCall /\ UNCHANGED <<forkState, forkThread>>
        /\ Within[h] # NoCall => forkState[Within[h]] = "waiting"
    BY <1>5, HandlePosts
  <2>2. CASE UNCHANGED runsOn /\ handleState' = [handleState EXCEPT ![h] = "posted"]
    BY <2>1, <2>2 DEF ThreadInv
  <2>3. CASE /\ Within[h] = NoCall /\ handleState' = [handleState EXCEPT ![h] = "running"]
             /\ runsOn' = [runsOn EXCEPT ![h] = h]
    <3>1. h # NoCall
      BY RecursionAssumption
    <3> QED
      BY <2>1, <2>3, <3>1 DEF ThreadInv
  <2> QED
    BY <1>5, <2>2, <2>3, HandlePosts
<1>6. ASSUME NEW h \in Handles, HandleStep(h) PROVE ThreadInv'
  <2>1. /\ UNCHANGED <<forkState, forkThread, runsOn>>
        /\ handleState[h] \in {"running", "ended"}
        /\ \E s \in {"ended", "returned"} : handleState' = [handleState EXCEPT ![h] = s]
    BY <1>6 DEF HandleStep, OwnCallEnds, HandleReturns
  <2> QED
    BY <2>1 DEF ThreadInv
<1>7. CASE UNCHANGED vars
  BY <1>7 DEF vars, ThreadInv
<1> QED
  BY <1>1, <1>2, <1>3, <1>4, <1>5, <1>6, <1>7 DEF Next, ForkStep

-----------------------------------------------------------------------------
(* The queues through the steps.                                           *)

\* If no function changes between being queued and not, and none starts behind
\* another, the queues stay as they are.
LEMMA QueuesKept ==
  ASSUME NoTaskStranded, UNCHANGED tasks,
         \A f \in Forks : tasks[f] # <<>> /\ InFork(f) => InFork(f)',
         \A h \in Handles : Queued(h)' <=> Queued(h),
         \A f \in Forks : \A i \in DOMAIN tasks[f] :
           handleState'[tasks[f][i]] = "running" => i = 1
  PROVE  NoTaskStranded'
BY DEF NoTaskStranded

\* Functions are queued, run in order and leave the queue, each once.
LEMMA QueueStep == RecursionInv /\ [Next]_vars => NoTaskStranded'
<1> SUFFICES ASSUME RecursionInv, [Next]_vars PROVE NoTaskStranded'
  OBVIOUS
<1>0. TypeOK /\ NoTaskStranded /\ ThreadInv
  BY DEF RecursionInv
<1> USE <1>0 DEF TypeOK
<1>1. ASSUME NEW f \in Forks, fork(f) PROVE NoTaskStranded'
  <2>1. UNCHANGED <<tasks, handleState, runsOn>>
    BY <1>1 DEF fork
  <2>2. \A g \in Forks : tasks[g] # <<>> /\ InFork(g) => InFork(g)'
    BY <1>1 DEF fork, InFork
  <2>3. \A h \in Handles : Queued(h)' <=> Queued(h)
    BY <2>1 DEF Queued
  <2>4. \A g \in Forks : \A i \in DOMAIN tasks[g] : handleState'[tasks[g][i]] = "running" => i = 1
    BY <2>1 DEF NoTaskStranded
  <2> QED
    BY <2>1, <2>2, <2>3, <2>4, QueuesKept
<1>2. ASSUME NEW f \in Forks, FnReturns(f) \/ ForkReturns(f) PROVE NoTaskStranded'
  <2>1. UNCHANGED <<tasks, handleState, runsOn>>
    BY <1>2 DEF FnReturns, ForkReturns
  <2>2. \A g \in Forks : tasks[g] # <<>> /\ InFork(g) => InFork(g)'
    BY <1>2 DEF FnReturns, ForkReturns, InFork
  <2>3. \A h \in Handles : Queued(h)' <=> Queued(h)
    BY <2>1 DEF Queued
  <2>4. \A g \in Forks : \A i \in DOMAIN tasks[g] : handleState'[tasks[g][i]] = "running" => i = 1
    BY <2>1 DEF NoTaskStranded
  <2> QED
    BY <2>1, <2>2, <2>3, <2>4, QueuesKept
<1>3. ASSUME NEW f \in Forks, RunTask(f) PROVE NoTaskStranded'
  <2>1. PICK k \in Handles :
          /\ 1 \in DOMAIN tasks[f] /\ tasks[f][1] = k
          /\ handleState[k] = "posted" /\ forkThread[f] # k
          /\ handleState' = [handleState EXCEPT ![k] = "running"]
          /\ runsOn' = [runsOn EXCEPT ![k] = forkThread[f]]
          /\ UNCHANGED <<forkState, tasks>>
    BY <1>3, RunTaskStarts
  <2>2. \A h \in Handles : Queued(h)' <=> Queued(h)
    BY <2>1 DEF Queued
  <2>3. ASSUME NEW g \in Forks, NEW i \in DOMAIN tasks[g], handleState'[tasks[g][i]] = "running"
        PROVE  i = 1
    <3>1. tasks[g][i] \in Handles
      BY ElementOfSeq, LenProperties
    <3>2. CASE tasks[g][i] = k
      BY <2>1, <3>2 DEF NoTaskStranded
    <3>3. CASE tasks[g][i] # k
      BY <2>1, <2>3, <3>1, <3>3 DEF NoTaskStranded
    <3> QED
      BY <3>2, <3>3
  <2>4. \A g \in Forks : InFork(g)' <=> InFork(g)
    BY <2>1 DEF InFork
  <2> QED
    BY <2>1, <2>2, <2>3, <2>4, QueuesKept
<1>4. ASSUME NEW f \in Forks, TaskEnds(f) PROVE NoTaskStranded'
  <2>1. PICK k \in Handles :
          /\ tasks[f] # <<>> /\ 1 \in DOMAIN tasks[f] /\ tasks[f][1] = k
          /\ handleState[k] = "running" /\ runsOn[k] # k
          /\ handleState' = [handleState EXCEPT ![k] = "ended"]
          /\ tasks' = [tasks EXCEPT ![f] = Tail(@)]
          /\ UNCHANGED <<forkState, runsOn>>
    BY <1>4, TaskEndsFirst
  <2>2. /\ tasks'[f] = Tail(tasks[f])
        /\ \A i \in DOMAIN Tail(tasks[f]) :
             i + 1 \in DOMAIN tasks[f] /\ Tail(tasks[f])[i] = tasks[f][i + 1] /\ i + 1 # 1
        /\ \A i \in DOMAIN tasks[f] :
             i # 1 => i - 1 \in DOMAIN Tail(tasks[f]) /\ Tail(tasks[f])[i - 1] = tasks[f][i]
        /\ \A g \in Forks \ {f} : tasks'[g] = tasks[g]
    BY <2>1, TakePlaces
  <2>3. \A g \in Forks : DOMAIN tasks'[g] \subseteq Int /\ DOMAIN tasks[g] \subseteq Int
    <3>1. tasks' \in [Forks -> Seq(Handles)]
      BY <1>4, TypeStep DEF Next, ForkStep
    <3> QED
      BY <3>1, LenProperties
  \* Where the function in a place of a queue was before.
  <2> DEFINE from(g, i) == IF g = f THEN i + 1 ELSE i
  <2>4. \A g \in Forks : \A i \in DOMAIN tasks'[g] :
          from(g, i) \in DOMAIN tasks[g] /\ tasks'[g][i] = tasks[g][from(g, i)]
    BY <2>2
  <2>5. \A g \in Forks : \A i \in DOMAIN tasks'[g] :
          tasks'[g][i] # k
    BY <2>1, <2>2, <2>4 DEF NoTaskStranded
  <2>6. \A g \in Forks : tasks'[g] # <<>> => InFork(g)'
    BY <2>1, <2>2 DEF NoTaskStranded, InFork
  <2>7. ASSUME NEW h \in Handles
        PROVE Queued(h)' <=> \E g \in Forks : \E i \in DOMAIN tasks'[g] : tasks'[g][i] = h
    <3>1. CASE h = k
      BY <2>1, <2>5, <3>1 DEF Queued
    <3>2. CASE h # k
      <4>1. Queued(h)' <=> Queued(h)
        BY <2>1, <3>2 DEF Queued
      <4>2. ASSUME NEW g \in Forks, NEW i \in DOMAIN tasks[g], tasks[g][i] = h
            PROVE  \E j \in DOMAIN tasks'[g] : tasks'[g][j] = h
        <5>1. CASE g = f
          <6>1. i # 1
            BY <2>1, <3>2, <4>2, <5>1
          <6>2. i - 1 \in DOMAIN Tail(tasks[f]) /\ Tail(tasks[f])[i - 1] = h
            BY <2>2, <4>2, <5>1, <6>1
          <6> QED
            BY <2>2, <5>1, <6>2
        <5>2. CASE g # f
          BY <2>2, <4>2, <5>2
        <5> QED
          BY <5>1, <5>2
      <4>3. ASSUME NEW g \in Forks, NEW i \in DOMAIN tasks'[g], tasks'[g][i] = h
            PROVE  \E j \in DOMAIN tasks[g] : tasks[g][j] = h
        BY <2>4, <4>3
      <4> QED
        BY <4>1, <4>2, <4>3 DEF NoTaskStranded
    <3> QED
      BY <3>1, <3>2
  <2>8. ASSUME NEW g \in Forks, NEW l \in Forks, NEW i \in DOMAIN tasks'[g], NEW j \in DOMAIN tasks'[l],
               tasks'[g][i] = tasks'[l][j]
        PROVE  g = l /\ i = j
    <3>1. g = l /\ from(g, i) = from(l, j)
      BY <2>4, <2>8 DEF NoTaskStranded
    <3> QED
      BY <2>3, <3>1
  <2>9. ASSUME NEW g \in Forks, NEW i \in DOMAIN tasks'[g], handleState'[tasks'[g][i]] = "running"
        PROVE  i = 1
    <3>1. from(g, i) \in DOMAIN tasks[g] /\ tasks'[g][i] = tasks[g][from(g, i)] /\ tasks'[g][i] # k
      BY <2>4, <2>5
    <3>2. tasks'[g][i] \in Handles
      BY <3>1, ElementOfSeq, LenProperties
    <3>3. handleState[tasks[g][from(g, i)]] = "running"
      BY <2>1, <2>9, <3>1, <3>2
    <3>4. from(g, i) = 1
      BY <3>1, <3>3 DEF NoTaskStranded
    <3> QED
      BY <2>2, <3>4
  <2> QED
    BY <2>6, <2>7, <2>8, <2>9 DEF NoTaskStranded
<1>5. ASSUME NEW h \in Handles, handle(h) PROVE NoTaskStranded'
  <2>1. /\ handleState[h] = "idle" /\ runsOn[h] = NoCall /\ UNCHANGED forkState
    BY <1>5, HandlePosts
  <2>2. \A f \in Forks : \A i \in DOMAIN tasks[f] : tasks[f][i] # h
    <3>1. ~Queued(h)
      BY <2>1 DEF Queued
    <3> QED
      BY <3>1 DEF NoTaskStranded
  <2>3. ASSUME UNCHANGED tasks, handleState' = [handleState EXCEPT ![h] = "running"],
               runsOn' = [runsOn EXCEPT ![h] = h]
        PROVE  NoTaskStranded'
    <3>1. \A g \in Handles : Queued(g)' <=> Queued(g)
      BY <2>1, <2>3 DEF Queued
    <3>2. \A f \in Forks : \A i \in DOMAIN tasks[f] : handleState'[tasks[f][i]] = "running" => i = 1
      BY <2>2, <2>3 DEF NoTaskStranded
    <3>3. \A g \in Forks : InFork(g)' <=> InFork(g)
      BY <2>1 DEF InFork
    <3> QED
      BY <2>3, <3>1, <3>2, <3>3, QueuesKept
  <2>4. ASSUME NEW g \in Forks, forkState[g] = "waiting", UNCHANGED runsOn,
               handleState' = [handleState EXCEPT ![h] = "posted"],
               tasks' = [tasks EXCEPT ![g] = Append(@, h)]
        PROVE  NoTaskStranded'
    <3> DEFINE n == Len(tasks[g]) + 1
    <3>1. /\ tasks'[g] = Append(tasks[g], h) /\ DOMAIN tasks'[g] = DOMAIN tasks[g] \cup {n}
          /\ n \notin DOMAIN tasks[g] /\ tasks'[g][n] = h
          /\ \A i \in DOMAIN tasks[g] : tasks'[g][i] = tasks[g][i]
          /\ \A f \in Forks \ {g} : tasks'[f] = tasks[f]
      BY <2>4, PostPlaces
    <3> HIDE DEF n
    <3>2. \A f \in Forks : \A i \in DOMAIN tasks'[f] :
            \/ f = g /\ i = n /\ tasks'[f][i] = h
            \/ i \in DOMAIN tasks[f] /\ tasks'[f][i] = tasks[f][i] /\ tasks'[f][i] # h
      BY <2>2, <3>1
    <3>3. \A f \in Forks : \A i \in DOMAIN tasks[f] :
            i \in DOMAIN tasks'[f] /\ tasks'[f][i] = tasks[f][i]
      BY <3>1
    <3>4. \A f \in Forks : tasks'[f] # <<>> => InFork(f)'
      BY <2>1, <2>4, <3>1 DEF InFork, NoTaskStranded
    <3>5. ASSUME NEW l \in Handles
          PROVE Queued(l)' <=> \E f \in Forks : \E i \in DOMAIN tasks'[f] : tasks'[f][i] = l
      <4>1. CASE l = h
        BY <2>4, <3>1, <4>1 DEF Queued
      <4>2. CASE l # h
        <5>1. Queued(l)' <=> Queued(l)
          BY <2>4, <4>2 DEF Queued
        <5> QED
          BY <3>2, <3>3, <4>2, <5>1 DEF NoTaskStranded
      <4> QED
        BY <4>1, <4>2
    <3>6. ASSUME NEW e \in Forks, NEW f \in Forks,
                 NEW i \in DOMAIN tasks'[e], NEW j \in DOMAIN tasks'[f],
                 tasks'[e][i] = tasks'[f][j]
          PROVE  e = f /\ i = j
      <4>1. CASE tasks'[e][i] = h
        <5>1. e = g /\ i = n
          BY <3>2, <4>1
        <5>2. f = g /\ j = n
          BY <3>2, <3>6, <4>1
        <5> QED
          BY <5>1, <5>2
      <4>2. CASE tasks'[e][i] # h
        <5>1. /\ i \in DOMAIN tasks[e] /\ tasks'[e][i] = tasks[e][i]
              /\ j \in DOMAIN tasks[f] /\ tasks'[f][j] = tasks[f][j]
          BY <3>2, <3>6, <4>2
        <5>2. tasks[e][i] = tasks[f][j]
          BY <3>6, <5>1
        <5>3. \A a, b \in Forks : \A k \in DOMAIN tasks[a], l \in DOMAIN tasks[b] :
                tasks[a][k] = tasks[b][l] => a = b /\ k = l
          BY DEF NoTaskStranded
        <5> QED
          BY <5>1, <5>2, <5>3
      <4> QED
        BY <4>1, <4>2
    <3>7. \A f \in Forks : \A i \in DOMAIN tasks'[f] : handleState'[tasks'[f][i]] = "running" => i = 1
      <4> SUFFICES ASSUME NEW f \in Forks, NEW i \in DOMAIN tasks'[f],
                          handleState'[tasks'[f][i]] = "running"
                   PROVE  i = 1
        OBVIOUS
      <4>1. tasks'[f][i] # h
        BY <2>4
      <4>2. i \in DOMAIN tasks[f] /\ tasks'[f][i] = tasks[f][i]
        BY <3>2, <4>1
      <4>3. tasks[f][i] \in Handles
        BY <4>2, ElementOfSeq, LenProperties
      <4> QED
        BY <2>4, <4>1, <4>2, <4>3 DEF NoTaskStranded
    <3> QED
      BY <3>4, <3>5, <3>6, <3>7 DEF NoTaskStranded
  <2>5. \/ \E g \in Forks :
             /\ forkState[g] = "waiting"
             /\ handleState' = [handleState EXCEPT ![h] = "posted"]
             /\ tasks' = [tasks EXCEPT ![g] = Append(@, h)]
             /\ UNCHANGED runsOn
        \/ /\ handleState' = [handleState EXCEPT ![h] = "running"]
           /\ runsOn' = [runsOn EXCEPT ![h] = h]
           /\ UNCHANGED tasks
    BY <1>5, HandlePosts
  <2> QED
    BY <2>3, <2>4, <2>5
<1>6. ASSUME NEW h \in Handles, HandleStep(h) PROVE NoTaskStranded'
  <2>1. /\ UNCHANGED <<forkState, tasks, runsOn>>
        /\ handleState[h] # "ended" => handleState[h] = "running" /\ runsOn[h] = h
        /\ \E s \in {"ended", "returned"} : handleState' = [handleState EXCEPT ![h] = s]
    BY <1>6 DEF HandleStep, OwnCallEnds, HandleReturns
  <2>2. \A g \in Handles : Queued(g)' <=> Queued(g)
    BY <2>1 DEF Queued
  <2>3. \A f \in Forks : \A i \in DOMAIN tasks[f] : handleState'[tasks[f][i]] = "running" => i = 1
    <3> SUFFICES ASSUME NEW f \in Forks, NEW i \in DOMAIN tasks[f],
                        handleState'[tasks[f][i]] = "running"
                 PROVE  i = 1
      OBVIOUS
    <3>1. tasks[f][i] \in Handles
      BY ElementOfSeq, LenProperties
    <3> QED
      BY <2>1, <3>1 DEF NoTaskStranded
  <2>4. \A g \in Forks : InFork(g)' <=> InFork(g)
    BY <2>1 DEF InFork
  <2> QED
    BY <2>1, <2>2, <2>3, <2>4, QueuesKept
<1>7. CASE UNCHANGED vars
  BY <1>7 DEF vars, InFork, NoTaskStranded, Queued
<1> QED
  BY <1>1, <1>2, <1>3, <1>4, <1>5, <1>6, <1>7 DEF Next, ForkStep

-----------------------------------------------------------------------------
(* The theorems.                                                           *)

\* The invariant is inductive.
LEMMA InvStep == RecursionInv /\ [Next]_vars => RecursionInv'
<1> SUFFICES ASSUME RecursionInv, [Next]_vars PROVE RecursionInv'
  OBVIOUS
<1>1. TypeOK'
  BY TypeStep
<1> QED
  BY <1>1, StackStep, ThreadStep, QueueStep DEF RecursionInv

\* Stack, queues and threads are consistent in every reachable state.
THEOREM RecursionConsistent == Spec => []RecursionInv
BY InitInv, InvStep, PTL DEF Spec

\* No function that handle() posts is lost, run twice or left in the context of a
\* fork() that has returned.
THEOREM EveryTaskServed == Spec => []NoTaskStranded
<1>1. RecursionInv => NoTaskStranded
  BY DEF RecursionInv
<1> QED
  BY <1>1, RecursionConsistent, PTL

\* mutual-recursion.h:53: with one thread at a time inside the helper, functions
\* run on the thread whose fork() they answer.
THEOREM AnswersOnForkingThread == Spec => []RunsOnForkingThread
<1>1. RecursionInv => RunsOnForkingThread
  <2> SUFFICES ASSUME RecursionInv,
                      NEW t \in Threads \cup Handles, \A f \in Forks : forkThread[f] \in {t, NoCall},
                      NEW h \in Handles, Within[h] # NoCall, runsOn[h] # NoCall
               PROVE  runsOn[h] = forkThread[Within[h]]
    BY DEF RunsOnForkingThread
  <2>1. Within[h] \in Forks
    BY RecursionAssumption
  <2>2. handleState[h] # "idle"
    BY DEF RecursionInv, ThreadInv
  <2>3. forkState[Within[h]] # "idle"
    BY <2>2 DEF RecursionInv, ThreadInv
  <2>4. forkThread[Within[h]] = t
    BY <2>1, <2>3 DEF RecursionInv, ThreadInv
  <2>5. PICK f \in Forks : runsOn[h] = forkThread[f]
    BY DEF RecursionInv, ThreadInv
  <2> QED
    BY <2>4, <2>5
<1> QED
  BY <1>1, RecursionConsistent, PTL
=============================================================================

------------------------- MODULE ProcessCycleProofs -------------------------
(***************************************************************************)
(* ProcessCycle.tla for all values of its constants, that is for hosts and *)
(* plugins CycleAssumption allows: a host passes no bus or port the plugin *)
(* has not announced, but as many channels on each as it likes.  CycleInv  *)
(* is an inductive invariant, which says of each point of a cycle what the *)
(* two objects and the buffer then hold.  The queues a host gathers and    *)
(* FlattenSeq are recursive; they are unfolded by an induction over sets   *)
(* (NatInd).                                                               *)
(***************************************************************************)
EXTENDS ProcessCycle, Integers, Sequences, SequencesExt, WellFoundedInduction,
        SequenceTheorems, TLAPS

-----------------------------------------------------------------------------
(* Induction over the naturals, for sets.                                  *)

\* The order of the naturals is well founded.
LEMMA NatOrder ==
  \E R : IsWellFoundedOn(R, Nat) /\ \A m, n \in Nat : <<m, n>> \in R <=> m < n
<1>1. \A m, n \in Nat : <<m, n>> \in OpToRel(<, Nat) <=> m < n
  BY DEF OpToRel
<1>2. IsWellFoundedOn(OpToRel(<, Nat), Nat)
  BY NatLessThanWellFounded, Zenon
<1> QED
  BY <1>1, <1>2, Zenon

\* A non-empty set of naturals has a least element.
LEMMA NatLeast ==
  ASSUME NEW T \in SUBSET Nat, T # {}
  PROVE  \E n \in T : \A m \in T : n <= m
<1>1. PICK R : IsWellFoundedOn(R, Nat) /\ \A m, n \in Nat : <<m, n>> \in R <=> m < n
  BY NatOrder
<1>2. PICK n \in T : \A m \in T : ~ (<<m, n>> \in R)
  <2>1. T \subseteq Nat /\ IsWellFoundedOn(R, Nat)
    BY <1>1
  <2> HIDE <1>1
  <2>2. \E x \in T : \A y \in T : ~ (<<y, x>> \in R)
    BY <2>1, WFMin
  <2> QED
    BY <2>2
<1>3. n \in Nat /\ \A m \in T : m \in Nat
  OBVIOUS
<1>4. \A m \in T : ~(m < n)
  BY <1>1, <1>2, <1>3, Zenon
<1> QED
  BY <1>3, <1>4

\* A set that holds 0 and the successor of each of its naturals holds them all.
LEMMA NatInd ==
  ASSUME NEW S, 0 \in S, \A n \in Nat : n \in S => n + 1 \in S
  PROVE  Nat \subseteq S
<1> SUFFICES ASSUME Nat \ S # {} PROVE FALSE
  OBVIOUS
<1>1. PICK n \in Nat \ S : \A m \in Nat \ S : n <= m
  BY NatLeast
<1>2. n # 0 /\ n - 1 \in Nat /\ n - 1 \in S
  BY <1>1
<1>3. n - 1 + 1 \in S /\ n - 1 + 1 = n
  BY <1>2
<1> QED
  BY <1>3

-----------------------------------------------------------------------------
(* FlattenSeq: its recursive function exists, and what it computes.        *)

\* `f' is the recursive function inside FlattenSeq.
Joined(f, seqs) ==
  f = [i \in 1 .. Len(seqs) |-> IF i = 1 THEN seqs[i] ELSE f[i - 1] \o seqs[i]]

\* The recursive function inside FlattenSeq exists.
LEMMA JoinedExists ==
  ASSUME NEW seqs, Len(seqs) \in Nat
  PROVE  \E f : Joined(f, seqs)
<1> DEFINE J(f, n) == f = [i \in 1 .. n |-> IF i = 1 THEN seqs[i] ELSE f[i - 1] \o seqs[i]]
           S == {n \in Nat : \E f : J(f, n)}
<1>1. 0 \in S
  <2> DEFINE e == [i \in 1 .. 0 |-> 0]
  <2>1. e = [i \in 1 .. 0 |-> IF i = 1 THEN seqs[i] ELSE e[i - 1] \o seqs[i]]
    OBVIOUS
  <2> QED
    BY <2>1
<1>2. ASSUME NEW n \in Nat, n \in S
      PROVE  n + 1 \in S
  <2>1. PICK f : J(f, n)
    BY <1>2
  <2> DEFINE last == IF n = 0 THEN seqs[1] ELSE f[n] \o seqs[n + 1]
             g == [i \in 1 .. n + 1 |-> IF i = n + 1 THEN last ELSE f[i]]
  <2>2. ASSUME NEW i \in 1 .. n + 1
        PROVE  g[i] = IF i = 1 THEN seqs[i] ELSE g[i - 1] \o seqs[i]
    <3>1. CASE i = n + 1 /\ n = 0
      BY <3>1
    <3>2. CASE i = n + 1 /\ n # 0
      <4>1. g[i] = f[n] \o seqs[n + 1]
        BY <3>2
      <4>2. n \in 1 .. n + 1 /\ n # n + 1 /\ i - 1 = n /\ i # 1
        BY <3>2
      <4>3. g[n] = f[n]
        BY <4>2
      <4> QED
        BY <4>1, <4>2, <4>3, <3>2
    <3>3. CASE i # n + 1
      <4>1. i \in 1 .. n /\ g[i] = f[i]
        BY <3>3
      <4>2. f[i] = [j \in 1 .. n |-> IF j = 1 THEN seqs[j] ELSE f[j - 1] \o seqs[j]][i]
        BY <2>1, Zenon
      <4>3. f[i] = IF i = 1 THEN seqs[i] ELSE f[i - 1] \o seqs[i]
        BY <4>1, <4>2
      <4>4. i # 1 => i - 1 \in 1 .. n + 1 /\ i - 1 # n + 1
        BY <4>1
      <4>5. i # 1 => g[i - 1] = f[i - 1]
        BY <4>4
      <4> QED
        BY <4>1, <4>3, <4>5, Zenon
    <3> QED
      BY <3>1, <3>2, <3>3
  <2>3. g = [i \in 1 .. n + 1 |-> g[i]]
    OBVIOUS
  <2> HIDE DEF g
  <2>4. J(g, n + 1)
    BY <2>2, <2>3, Zenon
  <2>5. n + 1 \in Nat
    OBVIOUS
  <2> QED
    BY <2>4, <2>5, Zenon
<1> HIDE DEF S
<1>3. Nat \subseteq S
  BY <1>1, <1>2, NatInd
<1> QED
  BY <1>3 DEF S, Joined

\* ... and obeys its definition at every index.
LEMMA JoinedAt ==
  ASSUME NEW f, NEW seqs, Len(seqs) \in Nat, Joined(f, seqs), NEW i \in 1 .. Len(seqs)
  PROVE  f[i] = IF i = 1 THEN seqs[1] ELSE f[i - 1] \o seqs[i]
<1>1. f[i] = [j \in 1 .. Len(seqs) |-> IF j = 1 THEN seqs[j] ELSE f[j - 1] \o seqs[j]][i]
  BY Zenon DEF Joined
<1> QED
  BY <1>1

\* The value of FlattenSeq is that function at the last index.
LEMMA FlattenIsJoined ==
  ASSUME NEW seqs, Len(seqs) \in Nat, Len(seqs) # 0
  PROVE  \E f : Joined(f, seqs) /\ FlattenSeq(seqs) = f[Len(seqs)]
<1>1. \E f : f = [i \in 1 .. Len(seqs) |-> IF i = 1 THEN seqs[i] ELSE f[i - 1] \o seqs[i]]
  BY JoinedExists DEF Joined
<1>2. \E f : /\ f = [i \in 1 .. Len(seqs) |-> IF i = 1 THEN seqs[i] ELSE f[i - 1] \o seqs[i]]
             /\ FlattenSeq(seqs) = f[Len(seqs)]
  BY <1>1, Zenon DEF FlattenSeq
<1> QED
  BY <1>2 DEF Joined

\* Nothing flattened is nothing.
LEMMA FlattenEmpty ==
  ASSUME NEW seqs, Len(seqs) = 0 PROVE FlattenSeq(seqs) = seqs
BY Zenon DEF FlattenSeq

\* Its values are sequences of the same elements.
LEMMA JoinedType ==
  ASSUME NEW T, NEW seqs \in Seq(Seq(T)), NEW f, Joined(f, seqs)
  PROVE  \A i \in 1 .. Len(seqs) : f[i] \in Seq(T)
<1> DEFINE S == {n \in Nat : n \in 1 .. Len(seqs) => f[n] \in Seq(T)}
<1>0. Len(seqs) \in Nat /\ \A i \in 1 .. Len(seqs) : seqs[i] \in Seq(T)
  BY LenProperties, ElementOfSeq
<1>1. 0 \in S
  OBVIOUS
<1>2. ASSUME NEW n \in Nat, n \in S
      PROVE  n + 1 \in S
  <2> SUFFICES ASSUME n + 1 \in 1 .. Len(seqs) PROVE f[n + 1] \in Seq(T)
    OBVIOUS
  <2>1. f[n + 1] = IF n + 1 = 1 THEN seqs[1] ELSE f[n + 1 - 1] \o seqs[n + 1]
    BY JoinedAt, <1>0
  <2>2. CASE n = 0
    BY <2>1, <2>2, <1>0
  <2>3. CASE n # 0
    <3>1. f[n] \in Seq(T) /\ seqs[n + 1] \in Seq(T) /\ n + 1 # 1 /\ n + 1 - 1 = n
      BY <1>0, <1>2, <2>3
    <3> QED
      BY <2>1, <3>1, ConcatProperties
  <2> QED
    BY <2>2, <2>3
<1> HIDE DEF S
<1>3. Nat \subseteq S
  BY <1>1, <1>2, NatInd
<1> QED
  BY <1>3, <1>0 DEF S

\* Flattening gives a sequence of the same elements.
LEMMA FlattenType ==
  ASSUME NEW T, NEW seqs \in Seq(Seq(T))
  PROVE  FlattenSeq(seqs) \in Seq(T)
<1>0. Len(seqs) \in Nat
  OBVIOUS
<1>1. CASE Len(seqs) = 0
  <2>1. seqs = <<>> /\ FlattenSeq(seqs) = seqs
    BY <1>1, FlattenEmpty
  <2>2. <<>> \in Seq(T)
    OBVIOUS
  <2> QED
    BY <2>1, <2>2, Zenon
<1>2. CASE Len(seqs) # 0
  <2>1. PICK f : Joined(f, seqs) /\ FlattenSeq(seqs) = f[Len(seqs)]
    BY <1>0, <1>2, FlattenIsJoined
  <2>2. \A i \in 1 .. Len(seqs) : f[i] \in Seq(T)
    BY <2>1, JoinedType
  <2>3. Len(seqs) \in 1 .. Len(seqs)
    BY <1>0, <1>2
  <2> QED
    BY <2>1, <2>2, <2>3
<1> QED
  BY <1>1, <1>2

\* Two sequences that agree up to k are flattened alike up to k.
LEMMA JoinedAgree ==
  ASSUME NEW s, NEW t, NEW f, NEW g, Len(s) \in Nat, Len(t) \in Nat,
         Joined(f, s), Joined(g, t), NEW k \in Nat, k <= Len(s), k <= Len(t),
         \A i \in 1 .. k : s[i] = t[i]
  PROVE  \A i \in 1 .. k : f[i] = g[i]
<1> DEFINE S == {n \in Nat : n \in 1 .. k => f[n] = g[n]}
<1>1. 0 \in S
  OBVIOUS
<1>2. ASSUME NEW n \in Nat, n \in S
      PROVE  n + 1 \in S
  <2> SUFFICES ASSUME n + 1 \in 1 .. k PROVE f[n + 1] = g[n + 1]
    OBVIOUS
  <2>0. n + 1 \in 1 .. Len(s) /\ n + 1 \in 1 .. Len(t) /\ n + 1 - 1 = n /\ s[n + 1] = t[n + 1]
    OBVIOUS
  <2>1. f[n + 1] = IF n + 1 = 1 THEN s[1] ELSE f[n + 1 - 1] \o s[n + 1]
    BY JoinedAt, <2>0
  <2>2. g[n + 1] = IF n + 1 = 1 THEN t[1] ELSE g[n + 1 - 1] \o t[n + 1]
    BY JoinedAt, <2>0
  <2>3. CASE n = 0
    BY <2>0, <2>1, <2>2, <2>3
  <2>4. CASE n # 0
    <3>1. f[n] = g[n] /\ n + 1 # 1
      BY <1>2, <2>4
    <3> QED
      BY <2>0, <2>1, <2>2, <3>1, Zenon
  <2> QED
    BY <2>3, <2>4
<1> HIDE DEF S
<1>3. Nat \subseteq S
  BY <1>1, <1>2, NatInd
<1> QED
  BY <1>3 DEF S

\* One sequence more is one sequence more at the end.
LEMMA FlattenMore ==
  ASSUME NEW s, NEW t, Len(s) \in Nat, Len(s) # 0, Len(t) = Len(s) + 1,
         \A i \in 1 .. Len(s) : t[i] = s[i]
  PROVE  FlattenSeq(t) = FlattenSeq(s) \o t[Len(t)]
<1>1. PICK f : Joined(f, s) /\ FlattenSeq(s) = f[Len(s)]
  BY FlattenIsJoined
<1>2. PICK g : Joined(g, t) /\ FlattenSeq(t) = g[Len(t)]
  BY FlattenIsJoined
<1>3. \A i \in 1 .. Len(s) : s[i] = t[i]
  OBVIOUS
<1>4. Len(s) <= Len(s) /\ Len(s) <= Len(t) /\ Len(t) \in Nat
  OBVIOUS
<1>5. \A i \in 1 .. Len(s) : f[i] = g[i]
  BY <1>1, <1>2, <1>3, <1>4, JoinedAgree
<1>6. g[Len(t)] = IF Len(t) = 1 THEN t[1] ELSE g[Len(t) - 1] \o t[Len(t)]
  BY <1>2, JoinedAt
<1>7. Len(t) # 1 /\ Len(t) - 1 = Len(s) /\ f[Len(s)] = g[Len(s)]
  BY <1>5
<1> QED
  BY <1>1, <1>2, <1>6, <1>7

\* One sequence flattened is that sequence.
LEMMA FlattenOne ==
  ASSUME NEW s, Len(s) = 1
  PROVE  FlattenSeq(s) = s[1]
<1>0. Len(s) \in Nat /\ Len(s) # 0 /\ 1 \in 1 .. Len(s)
  OBVIOUS
<1>1. PICK f : Joined(f, s) /\ FlattenSeq(s) = f[Len(s)]
  BY <1>0, FlattenIsJoined
<1>2. f[1] = IF 1 = 1 THEN s[1] ELSE f[1 - 1] \o s[1]
  BY <1>0, <1>1, JoinedAt
<1> QED
  BY <1>1, <1>2

\* The same for Append.
LEMMA FlattenAppend ==
  ASSUME NEW T, NEW seqs \in Seq(Seq(T)), NEW x \in Seq(T)
  PROVE  FlattenSeq(Append(seqs, x)) = FlattenSeq(seqs) \o x
<1>1. PICK more : more = Append(seqs, x)
  OBVIOUS
<1>2. /\ Len(seqs) \in Nat /\ Len(more) = Len(seqs) + 1 /\ more[Len(seqs) + 1] = x
      /\ \A i \in 1 .. Len(seqs) : more[i] = seqs[i]
  BY <1>1, AppendProperties
<1>3. CASE Len(seqs) = 0
  <2>1. seqs = <<>> /\ FlattenSeq(seqs) = seqs
    BY <1>3, FlattenEmpty
  <2>2. <<>> \o x = x
    OBVIOUS
  <2>3. FlattenSeq(more) = x
    BY <1>2, <1>3, FlattenOne
  <2> QED
    BY <1>1, <2>1, <2>2, <2>3, Zenon
<1>4. CASE Len(seqs) # 0
  BY <1>1, <1>2, <1>4, FlattenMore
<1> QED
  BY <1>3, <1>4

-----------------------------------------------------------------------------
(* Sequences.                                                              *)

\* The modules of both formats flatten with the operator the lemmas are about.
LEMMA Vst3Flatten == \A s : Vst3!FlattenSeq(s) = FlattenSeq(s)
BY Zenon DEF Vst3!FlattenSeq, FlattenSeq

\* The same for CLAP.
LEMMA ClapFlatten == \A s : Clap!FlattenSeq(s) = FlattenSeq(s)
BY Zenon DEF Clap!FlattenSeq, FlattenSeq

\* A tuple is a sequence.
LEMMA TupleIsSeq ==
  ASSUME NEW T, NEW n \in Nat, NEW x \in [1 .. n -> T]
  PROVE  x \in Seq(T) /\ Len(x) = n
<1>1. x \in Seq(T)
  <2>1. [1 .. n -> T] \in {[1 .. m -> T] : m \in Nat}
    OBVIOUS
  <2>2. x \in UNION {[1 .. m -> T] : m \in Nat}
    BY <2>1, Zenon
  <2> QED
    BY <2>2, SeqDef, Zenon
<1>2. DOMAIN x = 1 .. Len(x) /\ Len(x) \in Nat
  BY <1>1, LenProperties
<1>3. DOMAIN x = 1 .. n
  OBVIOUS
<1>4. 1 .. Len(x) = 1 .. n
  BY <1>2, <1>3
<1> QED
  BY <1>1, <1>2, <1>4

\* `p' is the first m elements of x.
AgreesTo(p, x, m, T) == p \in Seq(T) /\ Len(p) = m /\ \A i \in 1 .. m : p[i] = x[i]

\* SubSeq takes the first elements of whatever has them.
LEMMA PrefixAt ==
  ASSUME NEW T, NEW x, NEW m \in Nat, \A i \in 1 .. m : x[i] \in T
  PROVE  AgreesTo(SubSeq(x, 1, m), x, m, T)
<1>1. PICK p : p = SubSeq(x, 1, m)
  OBVIOUS
<1>2. /\ p \in Seq(T)
      /\ Len(p) = IF 1 <= m THEN m - 1 + 1 ELSE 0
      /\ \A i \in 1 .. m - 1 + 1 : p[i] = x[1 + i - 1]
  BY <1>1, SubSeqProperties
<1>3. m - 1 + 1 = m /\ \A i \in 1 .. m : 1 + i - 1 = i
  OBVIOUS
<1>4. Len(p) = m
  BY <1>2, <1>3
<1>5. \A i \in 1 .. m : p[i] = x[i]
  BY <1>2, <1>3
<1> QED
  BY <1>1, <1>2, <1>4, <1>5, Zenon DEF AgreesTo

\* The same, as an equation.
IsStart(p, x, m) == p = [c \in 1 .. m |-> x[c]]

\* SubSeq of a tuple is its beginning.
LEMMA PrefixOfTuple ==
  ASSUME NEW n \in Nat, NEW x, x = [c \in 1 .. n |-> x[c]], NEW m \in Nat, m <= n
  PROVE  IsStart(SubSeq(x, 1, m), x, m)
<1>1. PICK T : T = {x[c] : c \in 1 .. n}
  OBVIOUS
<1>2. \A i \in 1 .. m : x[i] \in T
  BY <1>1
<1>3. PICK p : p = SubSeq(x, 1, m)
  OBVIOUS
<1>4. p \in Seq(T) /\ Len(p) = m /\ \A i \in 1 .. m : p[i] = x[i]
  <2>1. AgreesTo(SubSeq(x, 1, m), x, m, T)
    BY <1>2, PrefixAt, Zenon
  <2> QED
    BY <1>3, <2>1, Zenon DEF AgreesTo
<1>5. p = [c \in 1 .. m |-> p[c]]
  BY <1>4, LenProperties
<1>6. p = [c \in 1 .. m |-> x[c]]
  BY <1>4, <1>5
<1> QED
  BY <1>3, <1>6 DEF IsStart

-----------------------------------------------------------------------------
(* The queues of a host (Vst3!HostQueues).                                 *)

\* `f' is the recursive function inside HostQueues.
Gathers(f, added) ==
  f = [n \in 0 .. Len(added) |-> IF n = 0 THEN <<>> ELSE Vst3!HostAdds(f[n - 1], added[n])]

\* It exists ...
LEMMA GathersExists ==
  ASSUME NEW added, Len(added) \in Nat
  PROVE  \E f : Gathers(f, added)
<1> DEFINE G(f, n) == f = [i \in 0 .. n |-> IF i = 0 THEN <<>>
                                            ELSE Vst3!HostAdds(f[i - 1], added[i])]
           S == {n \in Nat : \E f : G(f, n)}
<1>1. 0 \in S
  <2> DEFINE e == [i \in 0 .. 0 |-> <<>>]
  <2>1. e = [i \in 0 .. 0 |-> IF i = 0 THEN <<>> ELSE Vst3!HostAdds(e[i - 1], added[i])]
    OBVIOUS
  <2> QED
    BY <2>1
<1>2. ASSUME NEW n \in Nat, n \in S
      PROVE  n + 1 \in S
  <2>1. PICK f : G(f, n)
    BY <1>2
  <2> DEFINE last == Vst3!HostAdds(f[n], added[n + 1])
             g == [i \in 0 .. n + 1 |-> IF i = n + 1 THEN last ELSE f[i]]
  <2>2. ASSUME NEW i \in 0 .. n + 1
        PROVE  g[i] = IF i = 0 THEN <<>> ELSE Vst3!HostAdds(g[i - 1], added[i])
    <3>1. CASE i = n + 1
      <4>1. g[i] = last
        BY <3>1
      <4>2. n \in 0 .. n + 1 /\ n # n + 1 /\ i - 1 = n /\ i # 0
        BY <3>1
      <4>3. g[n] = f[n]
        BY <4>2
      <4> QED
        BY <4>1, <4>2, <4>3, <3>1, Zenon
    <3>2. CASE i # n + 1
      <4>1. i \in 0 .. n /\ g[i] = f[i]
        BY <3>2
      <4>2. f[i] = [j \in 0 .. n |-> IF j = 0 THEN <<>>
                                     ELSE Vst3!HostAdds(f[j - 1], added[j])][i]
        BY <2>1, Zenon
      <4>3. f[i] = IF i = 0 THEN <<>> ELSE Vst3!HostAdds(f[i - 1], added[i])
        BY <4>1, <4>2, Zenon
      <4>4. i # 0 => i - 1 \in 0 .. n + 1 /\ i - 1 # n + 1
        BY <4>1
      <4>5. i # 0 => g[i - 1] = f[i - 1]
        BY <4>4
      <4> QED
        BY <4>1, <4>3, <4>5, Zenon
    <3> QED
      BY <3>1, <3>2
  <2>3. g = [i \in 0 .. n + 1 |-> g[i]]
    OBVIOUS
  <2> HIDE DEF g
  <2>4. G(g, n + 1)
    BY <2>2, <2>3, Zenon
  <2>5. n + 1 \in Nat
    OBVIOUS
  <2> QED
    BY <2>4, <2>5, Zenon
<1> HIDE DEF S
<1>3. Nat \subseteq S
  BY <1>1, <1>2, NatInd
<1> QED
  BY <1>3 DEF S, Gathers

\* ... and HostQueues is its last value.
LEMMA HostQueuesAt ==
  ASSUME NEW added, Len(added) \in Nat
  PROVE  \E f : Gathers(f, added) /\ Vst3!HostQueues(added) = f[Len(added)]
<1>1. \E f : f = [n \in 0 .. Len(added) |->
                    IF n = 0 THEN <<>> ELSE Vst3!HostAdds(f[n - 1], added[n])]
  BY GathersExists DEF Gathers
<1>2. \E f : /\ f = [n \in 0 .. Len(added) |->
                       IF n = 0 THEN <<>> ELSE Vst3!HostAdds(f[n - 1], added[n])]
             /\ Vst3!HostQueues(added) = f[Len(added)]
  BY <1>1, Zenon DEF Vst3!HostQueues
<1> QED
  BY <1>2 DEF Gathers

\* It obeys its definition at every index.
LEMMA GathersAt ==
  ASSUME NEW f, NEW added, Len(added) \in Nat, Gathers(f, added), NEW n \in 0 .. Len(added)
  PROVE  f[n] = IF n = 0 THEN <<>> ELSE Vst3!HostAdds(f[n - 1], added[n])
<1>1. f[n] = [m \in 0 .. Len(added) |-> IF m = 0 THEN <<>>
                                        ELSE Vst3!HostAdds(f[m - 1], added[m])][n]
  BY Zenon DEF Gathers
<1> QED
  BY <1>1, Zenon

\* The points a parameter has once one more queue is there.
PointsGrow(P, q, id, X) ==
  /\ Vst3!PointsOf(id, P) \in Seq(X)
  /\ Vst3!PointsOf(id, Append(P, q)) =
       IF q.id = id THEN Vst3!PointsOf(id, P) \o q.points ELSE Vst3!PointsOf(id, P)

\* They are those it had, and those of that queue if it is its own.
LEMMA PointsAppend ==
  ASSUME NEW I, NEW X, NEW P \in Seq([id : I, points : Seq(X)]),
         NEW q \in [id : I, points : Seq(X)], NEW id \in I
  PROVE  PointsGrow(P, q, id, X)
<1> DEFINE Part(r) == IF r.id = id THEN r.points ELSE <<>>
<1>0. \A r \in [id : I, points : Seq(X)] : Part(r) \in Seq(X)
  OBVIOUS
<1>1. PICK s : s = [i \in DOMAIN P |-> Part(P[i])]
  OBVIOUS
<1>2. PICK t : t = [i \in DOMAIN Append(P, q) |-> Part(Append(P, q)[i])]
  OBVIOUS
<1>3. /\ DOMAIN P = 1 .. Len(P) /\ Len(P) \in Nat
      /\ \A i \in 1 .. Len(P) : P[i] \in [id : I, points : Seq(X)]
      /\ DOMAIN Append(P, q) = 1 .. Len(P) + 1
      /\ \A i \in 1 .. Len(P) : Append(P, q)[i] = P[i]
      /\ Append(P, q)[Len(P) + 1] = q
  <2>1. PICK a : a = Append(P, q)
    OBVIOUS
  <2>2. /\ a \in Seq([id : I, points : Seq(X)]) /\ Len(a) = Len(P) + 1
        /\ \A i \in 1 .. Len(P) : a[i] = P[i]
        /\ a[Len(P) + 1] = q
    BY <2>1, AppendProperties
  <2>3. DOMAIN P = 1 .. Len(P) /\ Len(P) \in Nat /\ DOMAIN a = 1 .. Len(a)
    BY <2>2, LenProperties
  <2>4. \A i \in 1 .. Len(P) : P[i] \in [id : I, points : Seq(X)]
    BY ElementOfSeq
  <2> QED
    BY <2>1, <2>2, <2>3, <2>4
<1> HIDE DEF Part
<1>4. s \in Seq(Seq(X)) /\ Len(s) = Len(P)
  <2>1. \A i \in 1 .. Len(P) : Part(P[i]) \in Seq(X)
    BY <1>0, <1>3
  <2>2. s \in [1 .. Len(P) -> Seq(X)]
    BY <1>1, <1>3, <2>1
  <2> QED
    BY <1>3, <2>2, TupleIsSeq
<1>5. t = Append(s, Part(q))
  <2>1. PICK a : a = Append(s, Part(q))
    OBVIOUS
  <2>2. Part(q) \in Seq(X)
    BY <1>0
  <2>3. /\ a \in Seq(Seq(X)) /\ Len(a) = Len(P) + 1 /\ DOMAIN a = 1 .. Len(P) + 1
        /\ \A i \in 1 .. Len(P) : a[i] = s[i]
        /\ a[Len(P) + 1] = Part(q)
    BY <1>4, <2>1, <2>2, AppendProperties, LenProperties
  <2>4. \A i \in 1 .. Len(P) + 1 : a[i] = t[i]
    <3> SUFFICES ASSUME NEW i \in 1 .. Len(P) + 1 PROVE a[i] = t[i]
      OBVIOUS
    <3>1. CASE i = Len(P) + 1
      BY <1>2, <1>3, <2>3, <3>1
    <3>2. CASE i \in 1 .. Len(P)
      BY <1>1, <1>2, <1>3, <2>3, <3>2
    <3> QED
      BY <1>3, <3>1, <3>2
  <2>5. a = [i \in 1 .. Len(P) + 1 |-> a[i]]
    BY <2>3
  <2>6. t = [i \in 1 .. Len(P) + 1 |-> t[i]]
    BY <1>2, <1>3
  <2> QED
    BY <2>1, <2>4, <2>5, <2>6
<1>6. Vst3!PointsOf(id, P) = FlattenSeq(s)
  BY <1>1, Vst3Flatten, Zenon DEF Vst3!PointsOf, Part
<1>7. Vst3!PointsOf(id, Append(P, q)) = FlattenSeq(t)
  BY <1>2, Vst3Flatten, Zenon DEF Vst3!PointsOf, Part
<1>8. FlattenSeq(s) \in Seq(X)
  BY <1>4, FlattenType
<1>9. FlattenSeq(t) = FlattenSeq(s) \o Part(q)
  <2>1. Part(q) \in Seq(X)
    BY <1>0
  <2>2. FlattenSeq(Append(s, Part(q))) = FlattenSeq(s) \o Part(q)
    BY <1>4, <2>1, FlattenAppend
  <2> QED
    BY <1>5, <2>2, Zenon
<1>10. CASE q.id = id
  <2>1. Part(q) = q.points
    BY <1>10 DEF Part
  <2> QED
    BY <1>6, <1>7, <1>8, <1>9, <1>10, <2>1, Zenon DEF PointsGrow
<1>11. CASE q.id # id
  <2>1. Part(q) = <<>>
    BY <1>11 DEF Part
  <2>2. FlattenSeq(s) \o <<>> = FlattenSeq(s)
    BY <1>8, ConcatEmptySeq
  <2> QED
    BY <1>6, <1>7, <1>8, <1>9, <1>11, <2>1, <2>2, Zenon DEF PointsGrow
<1> QED
  BY <1>10, <1>11

\* What HostQueues has made of the queues in `P': those Gathered asks for, and a
\* parameter without one has no points.
Collected(Q, P, I) ==
  /\ Vst3!Gathered(Q, P)
  /\ \A id \in I : id \notin {P[i].id : i \in DOMAIN P} => Vst3!PointsOf(id, P) = <<>>

\* One queue more.
LEMMA AddCollects ==
  ASSUME NEW I, NEW X, NEW P \in Seq([id : I, points : Seq(X)]),
         NEW Q \in Seq([id : I, points : Seq(X)]),
         NEW q \in [id : I, points : Seq(X)], Collected(Q, P, I)
  PROVE  /\ Vst3!HostAdds(Q, q) \in Seq([id : I, points : Seq(X)])
         /\ Collected(Vst3!HostAdds(Q, q), Append(P, q), I)
<1> DEFINE R == [id : I, points : Seq(X)]
<1>1. PICK P1 : P1 = Append(P, q)
  OBVIOUS
<1>2. PICK Q1 : Q1 = Vst3!HostAdds(Q, q)
  OBVIOUS
<1>3. /\ P1 \in Seq(R) /\ DOMAIN P1 = 1 .. Len(P) + 1
      /\ \A i \in 1 .. Len(P) : P1[i] = P[i]
      /\ P1[Len(P) + 1] = q
  <2>1. /\ P1 \in Seq(R) /\ Len(P1) = Len(P) + 1
        /\ \A i \in 1 .. Len(P) : P1[i] = P[i]
        /\ P1[Len(P) + 1] = q
    BY <1>1, AppendProperties
  <2> QED
    BY <2>1, LenProperties
<1>4. /\ Len(P) \in Nat /\ DOMAIN P = 1 .. Len(P) /\ \A i \in 1 .. Len(P) : P[i] \in R
      /\ Len(Q) \in Nat /\ DOMAIN Q = 1 .. Len(Q) /\ \A i \in 1 .. Len(Q) : Q[i] \in R
  BY LenProperties, ElementOfSeq
<1>5. \A id \in I :
        /\ Vst3!PointsOf(id, P) \in Seq(X)
        /\ Vst3!PointsOf(id, P1) =
             IF q.id = id THEN Vst3!PointsOf(id, P) \o q.points ELSE Vst3!PointsOf(id, P)
  <2>1. \A id \in I : PointsGrow(P, q, id, X)
    BY PointsAppend, Zenon
  <2> QED
    BY <1>1, <2>1, Zenon DEF PointsGrow
<1>6. {P1[i].id : i \in DOMAIN P1} = {P[i].id : i \in DOMAIN P} \cup {q.id}
  <2>1. \A i \in 1 .. Len(P) + 1 : i \in 1 .. Len(P) \/ i = Len(P) + 1
    BY <1>4
  <2>2. 1 .. Len(P) \subseteq 1 .. Len(P) + 1 /\ Len(P) + 1 \in 1 .. Len(P) + 1
    BY <1>4
  <2> QED
    BY <1>3, <1>4, <2>1, <2>2
<1>7. \A id \in I : id \notin {P1[i].id : i \in DOMAIN P1} => Vst3!PointsOf(id, P1) = <<>>
  BY <1>5, <1>6, Zenon DEF Collected
<1>8. /\ {Q[j].id : j \in DOMAIN Q} = {P[i].id : i \in DOMAIN P}
      /\ \A j \in DOMAIN Q : Q[j].points = Vst3!PointsOf(Q[j].id, P)
      /\ \A i, j \in DOMAIN Q : Q[i].id = Q[j].id => i = j
  BY Zenon DEF Collected, Vst3!Gathered
<1>9. CASE \E i \in DOMAIN Q : Q[i].id = q.id
  <2>1. Q1 = [i \in DOMAIN Q |->
                IF Q[i].id = q.id THEN [Q[i] EXCEPT !.points = @ \o q.points] ELSE Q[i]]
    BY <1>2, <1>9, Zenon DEF Vst3!HostAdds
  <2>2. ASSUME NEW j \in 1 .. Len(Q)
        PROVE  /\ Q1[j] \in R /\ Q1[j].id = Q[j].id
               /\ Q1[j].points = Vst3!PointsOf(Q[j].id, P1)
    <3>1. Q[j] \in R /\ Q[j].id \in I /\ Q[j].points \in Seq(X) /\ q.points \in Seq(X)
      BY <1>4
    <3>2. CASE Q[j].id = q.id
      <4>1. Q1[j] = [Q[j] EXCEPT !.points = Q[j].points \o q.points]
        BY <1>4, <2>1, <3>2
      <4>2. PICK s : s = Q[j].points \o q.points
        OBVIOUS
      <4>3. s \in Seq(X)
        BY <3>1, <4>2, ConcatProperties
      <4>4. Q1[j] \in R /\ Q1[j].id = Q[j].id /\ Q1[j].points = s
        BY <3>1, <4>1, <4>2, <4>3
      <4>5. Q[j].points = Vst3!PointsOf(Q[j].id, P)
        BY <1>4, <1>8
      <4>6. s = Vst3!PointsOf(Q[j].id, P1)
        BY <1>5, <3>1, <3>2, <4>2, <4>5, Zenon
      <4> QED
        BY <4>4, <4>6, Zenon
    <3>3. CASE Q[j].id # q.id
      <4>1. Q1[j] = Q[j]
        BY <1>4, <2>1, <3>3
      <4>2. Q[j].points = Vst3!PointsOf(Q[j].id, P)
        BY <1>4, <1>8
      <4> QED
        BY <1>5, <3>1, <3>3, <4>1, <4>2, Zenon
    <3> QED
      BY <3>2, <3>3
  <2>3. DOMAIN Q1 = 1 .. Len(Q) /\ Q1 \in Seq(R)
    <3>1. Q1 \in [1 .. Len(Q) -> R]
      BY <1>4, <2>1, <2>2
    <3> QED
      BY <1>4, <3>1, TupleIsSeq
  <2>4. {Q1[j].id : j \in DOMAIN Q1} = {P1[i].id : i \in DOMAIN P1}
    <3>1. {Q1[j].id : j \in DOMAIN Q1} = {Q[j].id : j \in DOMAIN Q}
      BY <1>4, <2>2, <2>3, Zenon
    <3>2. q.id \in {Q[j].id : j \in DOMAIN Q}
      BY <1>9
    <3> QED
      BY <1>6, <1>8, <3>1, <3>2
  <2>5. /\ \A j \in DOMAIN Q1 : Q1[j].points = Vst3!PointsOf(Q1[j].id, P1)
        /\ \A i, j \in DOMAIN Q1 : Q1[i].id = Q1[j].id => i = j
    BY <1>4, <1>8, <2>2, <2>3, Zenon
  <2>6. Vst3!Gathered(Q1, P1)
    BY <2>4, <2>5, Zenon DEF Vst3!Gathered
  <2> QED
    BY <1>1, <1>2, <1>7, <2>3, <2>6, Zenon DEF Collected
<1>10. CASE ~\E i \in DOMAIN Q : Q[i].id = q.id
  <2>1. Q1 = Append(Q, q)
    BY <1>2, <1>10, Zenon DEF Vst3!HostAdds
  <2>2. /\ Q1 \in Seq(R) /\ DOMAIN Q1 = 1 .. Len(Q) + 1
        /\ \A i \in 1 .. Len(Q) : Q1[i] = Q[i]
        /\ Q1[Len(Q) + 1] = q
    <3>1. /\ Q1 \in Seq(R) /\ Len(Q1) = Len(Q) + 1
          /\ \A i \in 1 .. Len(Q) : Q1[i] = Q[i]
          /\ Q1[Len(Q) + 1] = q
      BY <2>1, AppendProperties
    <3> QED
      BY <3>1, LenProperties
  <2>3. \A j \in 1 .. Len(Q) + 1 : j \in 1 .. Len(Q) \/ j = Len(Q) + 1
    BY <1>4
  <2>4. 1 .. Len(Q) \subseteq 1 .. Len(Q) + 1 /\ Len(Q) + 1 \in 1 .. Len(Q) + 1
    BY <1>4
  <2>5. {Q1[j].id : j \in DOMAIN Q1} = {P1[i].id : i \in DOMAIN P1}
    <3>1. {Q1[j].id : j \in DOMAIN Q1} = {Q[j].id : j \in DOMAIN Q} \cup {q.id}
      BY <1>4, <2>2, <2>3, <2>4
    <3> QED
      BY <1>6, <1>8, <3>1, Zenon
  <2>6. ASSUME NEW j \in DOMAIN Q1
        PROVE  Q1[j].points = Vst3!PointsOf(Q1[j].id, P1)
    <3>1. CASE j \in 1 .. Len(Q)
      <4>1. Q1[j] = Q[j] /\ Q[j].id # q.id /\ Q[j].id \in I
        BY <1>4, <1>10, <2>2, <3>1
      <4>2. Q[j].points = Vst3!PointsOf(Q[j].id, P)
        BY <1>4, <1>8, <3>1
      <4> QED
        BY <1>5, <4>1, <4>2, Zenon
    <3>2. CASE j = Len(Q) + 1
      <4>1. Q1[j] = q /\ q.id \in I /\ q.points \in Seq(X)
        BY <2>2, <3>2
      <4>2. q.id \notin {P[i].id : i \in DOMAIN P}
        <5>1. q.id \notin {Q[i].id : i \in DOMAIN Q}
          BY <1>10
        <5> QED
          BY <1>8, <5>1, Zenon
      <4>3. Vst3!PointsOf(q.id, P) = <<>>
        BY <4>1, <4>2, Zenon DEF Collected
      <4>4. <<>> \o q.points = q.points
        BY <4>1, ConcatEmptySeq
      <4>5. Vst3!PointsOf(q.id, P1) = Vst3!PointsOf(q.id, P) \o q.points
        BY <1>5, <4>1, Zenon
      <4>6. Vst3!PointsOf(q.id, P1) = q.points
        BY <4>3, <4>4, <4>5, Zenon
      <4> QED
        BY <4>1, <4>6, Zenon
    <3> QED
      BY <2>2, <2>3, <3>1, <3>2, Zenon
  <2>7. ASSUME NEW i \in DOMAIN Q1, NEW j \in DOMAIN Q1, Q1[i].id = Q1[j].id
        PROVE  i = j
    <3>1. \A k \in 1 .. Len(Q) : Q1[k].id # q.id
      BY <1>4, <1>10, <2>2, Zenon
    <3>2. CASE i = Len(Q) + 1 \/ j = Len(Q) + 1
      BY <2>2, <2>3, <2>7, <3>1, <3>2, Zenon
    <3>3. CASE i \in 1 .. Len(Q) /\ j \in 1 .. Len(Q)
      BY <1>4, <1>8, <2>2, <2>7, <3>3, Zenon
    <3> QED
      BY <2>2, <2>3, <3>2, <3>3, Zenon
  <2>8. Vst3!Gathered(Q1, P1)
    BY <2>5, <2>6, <2>7, Zenon DEF Vst3!Gathered
  <2> QED
    BY <1>1, <1>2, <1>7, <2>2, <2>8, Zenon DEF Collected
<1> QED
  BY <1>9, <1>10

\* The host gathers what the plugin's half adds, queue by queue.
LEMMA QueuesGathered ==
  ASSUME NEW I, NEW X, NEW added \in Seq([id : I, points : Seq(X)])
  PROVE  Vst3!Gathered(Vst3!HostQueues(added), added)
<1> DEFINE R == [id : I, points : Seq(X)]
           P(n) == [i \in 1 .. n |-> added[i]]
<1>0. Len(added) \in Nat /\ \A i \in 1 .. Len(added) : added[i] \in R
  BY LenProperties, ElementOfSeq
<1>1. PICK f : Gathers(f, added) /\ Vst3!HostQueues(added) = f[Len(added)]
  BY <1>0, HostQueuesAt
<1> DEFINE S == {n \in Nat : n <= Len(added) => f[n] \in Seq(R) /\ Collected(f[n], P(n), I)}
<1>2. 0 \in S
  <2>1. f[0] = <<>>
    BY <1>0, <1>1, GathersAt
  <2>2. PICK e : e = P(0)
    OBVIOUS
  <2>3. DOMAIN e = {} /\ e = <<>>
    BY <2>2
  <2>4. Vst3!Gathered(<<>>, e)
    BY <2>3 DEF Vst3!Gathered
  <2>5. ASSUME NEW id \in I
        PROVE  Vst3!PointsOf(id, e) = <<>>
    <3>1. PICK s : s = [i \in DOMAIN e |-> IF e[i].id = id THEN e[i].points ELSE <<>>]
      OBVIOUS
    <3>2. s = <<>> /\ Len(s) = 0
      BY <2>3, <3>1
    <3>3. FlattenSeq(s) = s
      BY <3>2, FlattenEmpty
    <3>4. Vst3!PointsOf(id, e) = FlattenSeq(s)
      BY <3>1, Vst3Flatten, Zenon DEF Vst3!PointsOf
    <3> QED
      BY <3>2, <3>3, <3>4, Zenon
  <2>6. Collected(<<>>, e, I)
    BY <2>4, <2>5, Zenon DEF Collected
  <2>7. <<>> \in Seq(R)
    OBVIOUS
  <2>8. Collected(f[0], P(0), I) /\ f[0] \in Seq(R)
    BY <2>1, <2>2, <2>6, <2>7, Zenon
  <2> HIDE DEF P, R
  <2> QED
    BY <2>8
<1>3. ASSUME NEW n \in Nat, n \in S
      PROVE  n + 1 \in S
  <2> SUFFICES ASSUME n + 1 <= Len(added)
               PROVE  f[n + 1] \in Seq(R) /\ Collected(f[n + 1], P(n + 1), I)
    <3> HIDE DEF P, R
    <3> QED
      OBVIOUS
  <2>1. n <= Len(added) /\ n + 1 \in 0 .. Len(added) /\ n + 1 # 0 /\ n + 1 - 1 = n
    BY <1>0
  <2>2. f[n + 1] = Vst3!HostAdds(f[n], added[n + 1])
    <3>1. f[n + 1] = IF n + 1 = 0 THEN <<>> ELSE Vst3!HostAdds(f[n + 1 - 1], added[n + 1])
      BY <1>0, <1>1, <2>1, GathersAt
    <3> QED
      BY <2>1, <3>1, Zenon
  <2>3. f[n] \in Seq(R) /\ Collected(f[n], P(n), I)
    <3> HIDE DEF P, R
    <3> QED
      BY <1>3, <2>1
  <2>4. added[n + 1] \in R
    BY <1>0, <2>1
  <2>5. P(n) \in Seq(R) /\ P(n + 1) = Append(P(n), added[n + 1])
    <3>1. PICK p : p = P(n)
      OBVIOUS
    <3>2. p \in [1 .. n -> R]
      BY <1>0, <2>1, <3>1
    <3>3. p \in Seq(R) /\ Len(p) = n
      BY <3>2, TupleIsSeq
    <3>4. PICK a : a = Append(p, added[n + 1])
      OBVIOUS
    <3>5. /\ a \in Seq(R) /\ Len(a) = n + 1 /\ a[n + 1] = added[n + 1]
          /\ \A i \in 1 .. n : a[i] = p[i]
      BY <2>4, <3>3, <3>4, AppendProperties
    <3>6. \A i \in 1 .. n + 1 : a[i] = added[i]
      <4> SUFFICES ASSUME NEW i \in 1 .. n + 1 PROVE a[i] = added[i]
        OBVIOUS
      <4>1. CASE i = n + 1
        BY <3>5, <4>1
      <4>2. CASE i \in 1 .. n
        BY <3>1, <3>5, <4>2
      <4> QED
        BY <4>1, <4>2
    <3>7. a = [i \in 1 .. n + 1 |-> a[i]]
      <4>1. DOMAIN a = 1 .. n + 1
        BY <3>5, LenProperties
      <4> QED
        BY <3>5, <4>1
    <3>8. a = P(n + 1)
      BY <3>6, <3>7
    <3> HIDE DEF P
    <3> QED
      BY <3>1, <3>3, <3>4, <3>8, Zenon
  <2> HIDE DEF P
  <2>6. PICK p, q, Q : p = P(n) /\ q = added[n + 1] /\ Q = f[n]
    OBVIOUS
  <2>7. p \in Seq(R) /\ q \in R /\ Q \in Seq(R) /\ Collected(Q, p, I)
    BY <2>3, <2>4, <2>5, <2>6
  <2>8. Vst3!HostAdds(Q, q) \in Seq(R) /\ Collected(Vst3!HostAdds(Q, q), Append(p, q), I)
    BY <2>7, AddCollects
  <2> QED
    BY <2>2, <2>5, <2>6, <2>8, Zenon
<1> HIDE DEF S
<1>4. Nat \subseteq S
  BY <1>2, <1>3, NatInd
<1>5. Collected(f[Len(added)], P(Len(added)), I)
  <2>1. Len(added) \in S /\ Len(added) <= Len(added)
    BY <1>0, <1>4
  <2> HIDE DEF P, R
  <2> QED
    BY <2>1 DEF S
<1>6. P(Len(added)) = added
  BY LenProperties
<1> HIDE DEF P
<1> QED
  BY <1>1, <1>5, <1>6, Zenon DEF Collected

-----------------------------------------------------------------------------
(* The inductive invariant.                                                *)

\* The buffer has the channels the plugin has announced.
BufferInv ==
  /\ shm = [in |-> shm.in, out |-> shm.out]
  /\ shm.in = [b \in DOMAIN InChannels |-> [c \in 1 .. InChannels[b] |-> shm.in[b][c]]]
  /\ shm.out = [b \in DOMAIN OutChannels |-> [c \in 1 .. OutChannels[b] |-> shm.out[b][c]]]

\* VST3.  An object has all of its fields.
IsVst3Object(o) ==
  o = [mode |-> o.mode, inputs |-> o.inputs, outputs |-> o.outputs,
       in_params |-> o.in_params, out_params |-> o.out_params,
       in_events |-> o.in_events, out_events |-> o.out_events, context |-> o.context]

\* Its output buses are those of the host, with the channels both have.
Vst3Buses(o) ==
  /\ DOMAIN o.outputs = DOMAIN data.outputs
  /\ \A b \in DOMAIN data.outputs :
       o.outputs[b] = [channels |-> Vst3!Smaller(OutChannels[b], data.outputs[b].channels),
                       silence |-> o.outputs[b].silence]

\* Sent: the object says what the host passed, and what the output lists hold is of
\* no matter.
Vst3Sent ==
  /\ native.mode = data.mode
  /\ DOMAIN native.inputs = DOMAIN data.inputs
  /\ \A b \in DOMAIN data.inputs : native.inputs[b].silence = data.inputs[b].silence
  /\ \A b \in DOMAIN data.outputs : native.outputs[b].silence = data.outputs[b].silence
  /\ \A b \in DOMAIN data.inputs :
       /\ native.inputs[b].channels =
            Vst3!Smaller(InChannels[b], Len(data.inputs[b].audio))
       /\ \A c \in 1 .. native.inputs[b].channels : shm.in[b][c] = data.inputs[b].audio[c]
  /\ Vst3Buses(native)
  /\ native.in_params = IF data.in_params = Null THEN <<>> ELSE data.in_params
  /\ IF data.in_events = Null THEN native.in_events = Null
     ELSE Vst3!EventsInPlace(native.in_events, data.in_events)
  /\ data.out_params <=> native.out_params # Null
  /\ data.out_events <=> native.out_events # Null
  /\ native.context = data.context

\* Processing: the plugin is about to fill empty lists.
Vst3Processing ==
  /\ Vst3Buses(wine)
  /\ wine.out_params = IF data.out_params THEN <<>> ELSE Null
  /\ wine.out_events = IF data.out_events THEN <<>> ELSE Null

\* Then an object, of either half, has what the plugin put out.
Vst3Answer(o) ==
  /\ Vst3Buses(o)
  /\ gave.audio = [b \in DOMAIN data.outputs |->
                     [c \in 1 .. o.outputs[b].channels |-> shm.out[b][c]]]
  /\ gave.silence = [b \in DOMAIN data.outputs |-> o.outputs[b].silence]
  /\ IF data.out_params
     THEN /\ o.out_params = gave.params /\ gave.params # Null
          /\ \E p \in Vst3Output : gave.params = p.params
     ELSE gave.params = <<>>
  /\ IF data.out_events
     THEN o.out_events # Null /\ Vst3!EventsInPlace(o.out_events, gave.events)
     ELSE gave.events = <<>>

\* The invariant of a VST3 cycle.
Vst3Inv ==
  /\ BufferInv
  /\ IsVst3Object(native) /\ IsVst3Object(wine)
  /\ phase # "idle" => data \in Vst3HostData
  /\ phase = "sent" => Vst3Sent
  /\ phase = "processing" => Vst3Processing
  /\ phase = "responding" => Vst3Answer(wine)
  /\ phase = "writing" => Vst3Answer(native)
  /\ Vst3!PluginSeesThisCycle
  /\ Vst3!HostGetsThisCycle

\* CLAP.  An object has all of its fields.
IsClapObject(o) ==
  o = [inputs |-> o.inputs, outputs |-> o.outputs, in_events |-> o.in_events,
       out_events |-> o.out_events, transport |-> o.transport]

\* The ports the plugin's half keeps: the channels both have, of the host's type.
ClapPorts ==
  /\ DOMAIN native.outputs = DOMAIN data.outputs
  /\ \A p \in DOMAIN data.outputs :
       /\ native.outputs[p] =
            [channels |-> Clap!Smaller(OutChannels[p], data.outputs[p].channels),
             type |-> native.outputs[p].type, mask |-> native.outputs[p].mask]
       /\ data.outputs[p].channels > 0 => native.outputs[p].type = data.outputs[p].type

\* Sent: the object says what the host passed; the audio is complete if the buffer
\* has room for it.
ClapSent ==
  /\ DOMAIN native.inputs = DOMAIN data.inputs
  /\ \A p \in DOMAIN data.inputs : native.inputs[p].mask = data.inputs[p].mask
  /\ \A p \in DOMAIN data.outputs : native.outputs[p].mask = data.outputs[p].mask
  /\ \A p \in DOMAIN data.inputs :
       /\ native.inputs[p].channels =
            Clap!Smaller(InChannels[p], Len(data.inputs[p].audio))
       /\ data.inputs[p].audio # <<>> => native.inputs[p].type = data.inputs[p].type
  /\ ~Clap!ExtraChannels(data) =>
       \A p \in DOMAIN data.inputs : \A c \in 1 .. Len(data.inputs[p].audio) :
         shm.in[p][c] = data.inputs[p].audio[c]
  /\ native.in_events = Clap!EventList(data.in_events)
  /\ native.transport = data.transport

\* The ports the plugin is given, with the channels the other half knows of.
ClapGiven ==
  /\ DOMAIN wine.outputs = DOMAIN data.outputs
  /\ \A p \in DOMAIN data.outputs :
       wine.outputs[p] =
         [channels |-> native.outputs[p].channels, type |-> wine.outputs[p].type,
          mask |-> wine.outputs[p].mask, data32 |-> wine.outputs[p].data32,
          data64 |-> wine.outputs[p].data64]

\* What the plugin put out is in an object, and in the buffer.
ClapAnswer(o) ==
  /\ gave.audio = [p \in DOMAIN data.outputs |->
                     [c \in 1 .. native.outputs[p].channels |-> shm.out[p][c]]]
  /\ gave.mask = [p \in DOMAIN data.outputs |-> o.outputs[p].mask]
  /\ o.out_events = Clap!EventList(gave.events)

\* The invariant of a CLAP cycle.
ClapInv ==
  /\ BufferInv
  /\ IsClapObject(native) /\ IsClapObject(wine)
  /\ phase # "idle" => data \in ClapHostData
  /\ phase \in {"sent", "processing", "responding", "writing"} => ClapPorts
  /\ phase = "sent" => ClapSent
  /\ phase = "processing" => ClapGiven /\ wine.out_events = <<>>
  /\ phase = "responding" => ClapGiven /\ ClapAnswer(wine)
  /\ phase = "writing" => ClapAnswer(native)
  /\ Clap!PluginSeesThisCycle
  /\ Clap!HostGetsThisCycle

\* Of either.
CycleInv == IF format = "vst3" THEN Vst3Inv ELSE ClapInv

-----------------------------------------------------------------------------
(* VST3: every step keeps Vst3Inv.                                         *)

\* Initially there is no call, and the objects and the buffer are empty.
LEMMA Vst3Initially ==
  ASSUME Vst3!Init
  PROVE  Vst3Inv
<1>1. BufferInv
  BY DEF Vst3!Init, BufferInv
<1>2. IsVst3Object(native) /\ IsVst3Object(wine)
  BY DEF Vst3!Init, Vst3!YaProcessData, IsVst3Object
<1>3. phase = "idle"
  BY DEF Vst3!Init
<1> QED
  BY <1>1, <1>2, <1>3 DEF Vst3Inv, Vst3!PluginSeesThisCycle, Vst3!HostGetsThisCycle

\* The channels both sides have are a number, no greater than either.
LEMMA Vst3Smaller ==
  ASSUME NEW a \in Nat, NEW b \in Nat
  PROVE  Vst3!Smaller(a, b) \in Nat /\ Vst3!Smaller(a, b) <= a /\ Vst3!Smaller(a, b) <= b
BY DEF Vst3!Smaller

\* A sequence is a tuple of its length.
LEMMA Vst3SeqIsTuple ==
  ASSUME NEW s, Vst3!IsSeq(s)
  PROVE  Len(s) \in Nat /\ s = [i \in 1 .. Len(s) |-> s[i]]
<1>1. PICK T : s \in Seq(T)
  BY DEF Vst3!IsSeq
<1> QED
  BY <1>1, LenProperties

\* The events a list is made of are in place in it.
LEMMA EventListInPlace ==
  ASSUME NEW events
  PROVE  Vst3!EventsInPlace(Vst3!YaEventList(events), events)
BY DEF Vst3!EventsInPlace, Vst3!YaEventList, Vst3!YaEvent

\* repopulate() takes over all the host passes.
LEMMA Vst3ProcessStep ==
  ASSUME Vst3Inv, NEW pd \in Vst3HostData, Vst3!Process(pd)
  PROVE  Vst3Inv'
<1>1. /\ phase' = "sent" /\ data' = pd /\ wine' = wine
      /\ native' = Vst3!Repopulate(native, pd)
  BY DEF Vst3!Process
<1>2. /\ \A b \in DOMAIN InChannels : InChannels[b] \in Nat
      /\ \A b \in DOMAIN OutChannels : OutChannels[b] \in Nat
      /\ Vst3!IsProcessData(pd) /\ Null # <<>>
  BY CycleAssumption DEF Vst3!DataAssumption
<1>3. /\ native'.inputs = [b \in DOMAIN pd.inputs |->
                             [channels |-> Vst3!Smaller(InChannels[b], Len(pd.inputs[b].audio)),
                              silence |-> pd.inputs[b].silence]]
      /\ native'.outputs = [b \in DOMAIN pd.outputs |->
                              [channels |-> Vst3!Smaller(OutChannels[b], pd.outputs[b].channels),
                               silence |-> pd.outputs[b].silence]]
      /\ native'.in_params = IF pd.in_params = Null THEN <<>> ELSE pd.in_params
      /\ native'.out_params = IF ~pd.out_params THEN Null
                              ELSE IF native.out_params = Null THEN <<>> ELSE native.out_params
      /\ native'.in_events = IF pd.in_events = Null THEN Null
                             ELSE Vst3!YaEventList(pd.in_events)
      /\ native'.out_events = IF ~pd.out_events THEN Null
                              ELSE IF native.out_events = Null THEN <<>> ELSE native.out_events
      /\ native'.context = pd.context /\ native'.mode = pd.mode
      /\ IsVst3Object(native)'
  BY <1>1 DEF Vst3!Repopulate, IsVst3Object
<1>4. /\ shm'.in = [b \in DOMAIN shm.in |-> [c \in DOMAIN shm.in[b] |->
                      IF b \in DOMAIN pd.inputs /\ c <= native'.inputs[b].channels
                      THEN pd.inputs[b].audio[c] ELSE shm.in[b][c]]]
      /\ shm'.out = shm.out /\ shm' = [in |-> shm'.in, out |-> shm'.out]
  <2>1. shm = [in |-> shm.in, out |-> shm.out]
    BY DEF Vst3Inv, BufferInv
  <2> QED
    BY <2>1 DEF Vst3!Process
<1>5. DOMAIN shm.in = DOMAIN InChannels
      /\ \A b \in DOMAIN InChannels : DOMAIN shm.in[b] = 1 .. InChannels[b]
  BY DEF Vst3Inv, BufferInv
<1>6. BufferInv'
  <2>1. shm'.in = [b \in DOMAIN InChannels |-> [c \in 1 .. InChannels[b] |-> shm'.in[b][c]]]
    BY <1>4, <1>5
  <2>2. shm'.out = [b \in DOMAIN OutChannels |-> [c \in 1 .. OutChannels[b] |-> shm'.out[b][c]]]
    BY <1>4 DEF Vst3Inv, BufferInv
  <2> QED
    BY <1>4, <2>1, <2>2 DEF BufferInv
<1>7. ASSUME NEW b \in DOMAIN pd.inputs
      PROVE  /\ native'.inputs[b].channels = Vst3!Smaller(InChannels[b], Len(pd.inputs[b].audio))
             /\ \A c \in 1 .. native'.inputs[b].channels : shm'.in[b][c] = pd.inputs[b].audio[c]
  <2>1. native'.inputs[b].channels = Vst3!Smaller(InChannels[b], Len(pd.inputs[b].audio))
    BY <1>3
  <2>2. b \in DOMAIN InChannels /\ Len(pd.inputs[b].audio) \in Nat
    BY <1>2, Vst3SeqIsTuple DEF Vst3!IsProcessData
  <2>3. PICK k \in Nat : k = native'.inputs[b].channels /\ k <= InChannels[b]
    BY <1>2, <2>1, <2>2, Vst3Smaller
  <2>4. \A c \in 1 .. k : shm'.in[b][c] = pd.inputs[b].audio[c]
    BY <1>2, <1>4, <1>5, <2>2, <2>3
  <2> QED
    BY <2>1, <2>3, <2>4
<1>8. Vst3Buses(native)'
  BY <1>1, <1>3 DEF Vst3Buses
<1>9. IF pd.in_events = Null THEN native'.in_events = Null
      ELSE Vst3!EventsInPlace(native'.in_events, pd.in_events)
  BY <1>3, EventListInPlace, Zenon
<1>10. (pd.out_params <=> native'.out_params # Null) /\ (pd.out_events <=> native'.out_events # Null)
  BY <1>2, <1>3 DEF Vst3!IsProcessData
<1>11. Vst3Sent'
  <2>1. DOMAIN native'.inputs = DOMAIN pd.inputs
    BY <1>3
  <2>2. /\ \A b \in DOMAIN pd.inputs : native'.inputs[b].silence = pd.inputs[b].silence
        /\ \A b \in DOMAIN pd.outputs : native'.outputs[b].silence = pd.outputs[b].silence
    BY <1>3
  <2> QED
    BY <1>1, <1>3, <1>7, <1>8, <1>9, <1>10, <2>1, <2>2, Zenon DEF Vst3Sent
<1>12. IsVst3Object(wine)'
  BY <1>1 DEF Vst3Inv, IsVst3Object
<1>13. ~(phase' = "idle") /\ ~(phase' = "processing") /\ ~(phase' = "responding")
       /\ ~(phase' = "writing") /\ ~(phase' = "returned")
  BY <1>1
<1> QED
  BY <1>1, <1>3, <1>6, <1>11, <1>12, <1>13, Zenon
     DEF Vst3Inv, Vst3!PluginSeesThisCycle, Vst3!HostGetsThisCycle

\* reconstruct() gives the plugin all of it, with empty lists to fill.
LEMMA Vst3ReceiveStep ==
  ASSUME Vst3Inv, Vst3!Receive
  PROVE  Vst3Inv'
<1>1. /\ phase = "sent" /\ phase' = "processing" /\ data' = data /\ shm' = shm
      /\ native' = native /\ wine' = Vst3!Reconstruct(native)
      /\ seen' = [object |-> wine',
                  audio |-> [b \in DOMAIN wine'.inputs |->
                               SubSeq(shm.in[b], 1, wine'.inputs[b].channels)]]
  BY DEF Vst3!Receive
<1>2. Vst3Sent /\ data \in Vst3HostData /\ IsVst3Object(native) /\ BufferInv
  BY <1>1 DEF Vst3Inv
<1>3. /\ wine'.inputs = native.inputs /\ wine'.outputs = native.outputs
      /\ wine'.in_params = native.in_params /\ wine'.in_events = native.in_events
      /\ wine'.context = native.context /\ wine'.mode = native.mode
      /\ wine'.out_params = IF native.out_params = Null THEN Null ELSE <<>>
      /\ wine'.out_events = IF native.out_events = Null THEN Null ELSE <<>>
      /\ IsVst3Object(wine)'
  BY <1>1, <1>2 DEF Vst3!Reconstruct, IsVst3Object
<1>4. /\ \A b \in DOMAIN InChannels : InChannels[b] \in Nat
      /\ Vst3!IsProcessData(data) /\ Null # <<>>
  BY <1>2, CycleAssumption DEF Vst3!DataAssumption
<1>5. /\ wine'.out_params = IF data.out_params THEN <<>> ELSE Null
      /\ wine'.out_events = IF data.out_events THEN <<>> ELSE Null
  BY <1>2, <1>3, <1>4 DEF Vst3Sent, Vst3!IsProcessData
<1>6. Vst3Buses(wine)'
  BY <1>1, <1>2, <1>3 DEF Vst3Sent, Vst3Buses
<1>7. Vst3Processing'
  BY <1>1, <1>5, <1>6, Zenon DEF Vst3Processing
<1>8. /\ seen'.object = wine'
      /\ seen'.audio = [b \in DOMAIN native.inputs |->
                          SubSeq(shm.in[b], 1, native.inputs[b].channels)]
  BY <1>1, <1>3
<1>9. ASSUME NEW b \in DOMAIN data.inputs
      PROVE  seen'.audio[b] = SubSeq(data.inputs[b].audio, 1,
                                     Vst3!Smaller(InChannels[b], Len(data.inputs[b].audio)))
  <2>1. PICK k : k = Vst3!Smaller(InChannels[b], Len(data.inputs[b].audio))
    OBVIOUS
  <2>2. b \in DOMAIN InChannels /\ Vst3!IsSeq(data.inputs[b].audio)
    BY <1>4 DEF Vst3!IsProcessData
  <2>3. PICK x, y : x = shm.in[b] /\ y = data.inputs[b].audio
    OBVIOUS
  <2>4. PICK m, n : m = InChannels[b] /\ n = Len(y)
    OBVIOUS
  <2>5. m \in Nat /\ n \in Nat /\ y = [c \in 1 .. n |-> y[c]]
    BY <1>4, <2>2, <2>3, <2>4, Vst3SeqIsTuple
  <2>6. k \in Nat /\ k <= m /\ k <= n
    BY <2>1, <2>3, <2>4, <2>5, Vst3Smaller
  <2>7. x = [c \in 1 .. m |-> x[c]]
    BY <1>2, <2>2, <2>3, <2>4 DEF BufferInv
  <2>8. IsStart(SubSeq(x, 1, k), x, k) /\ IsStart(SubSeq(y, 1, k), y, k)
    BY <2>5, <2>6, <2>7, PrefixOfTuple, Zenon
  <2>9. native.inputs[b].channels = k /\ \A c \in 1 .. k : x[c] = y[c]
    BY <1>2, <2>1, <2>3 DEF Vst3Sent
  <2>10. SubSeq(x, 1, k) = SubSeq(y, 1, k)
    BY <2>8, <2>9 DEF IsStart
  <2>11. b \in DOMAIN native.inputs
    BY <1>2 DEF Vst3Sent
  <2>12. seen'.audio[b] = SubSeq(x, 1, k)
    BY <1>8, <2>3, <2>9, <2>11
  <2> QED
    BY <2>1, <2>3, <2>10, <2>12, Zenon
<1>10. Vst3!PluginSeesThisCycle'
  <2>1. DOMAIN seen'.audio = DOMAIN data.inputs
    BY <1>2, <1>8 DEF Vst3Sent
  <2>2. DOMAIN seen'.object.outputs = DOMAIN data.outputs
    BY <1>1, <1>6, <1>8 DEF Vst3Buses
  <2>3. /\ seen'.object.in_params = IF data.in_params = Null THEN <<>> ELSE data.in_params
        /\ seen'.object.context = data.context
        /\ IF data.in_events = Null THEN seen'.object.in_events = Null
           ELSE Vst3!EventsInPlace(seen'.object.in_events, data.in_events)
    BY <1>2, <1>3, <1>8, Zenon DEF Vst3Sent
  <2>4. /\ seen'.object.mode = data.mode
        /\ \A b \in DOMAIN data.inputs :
             seen'.object.inputs[b].silence = data.inputs[b].silence
        /\ \A b \in DOMAIN data.outputs :
             seen'.object.outputs[b].silence = data.outputs[b].silence
    BY <1>2, <1>3, <1>8, Zenon DEF Vst3Sent
  <2> QED
    BY <1>1, <1>5, <1>8, <1>9, <2>1, <2>2, <2>3, <2>4, Zenon DEF Vst3!PluginSeesThisCycle
<1>11. BufferInv' /\ IsVst3Object(native)'
  BY <1>1, <1>2 DEF BufferInv, IsVst3Object
<1>12. ~(phase' = "idle") /\ ~(phase' = "sent") /\ ~(phase' = "responding")
       /\ ~(phase' = "writing") /\ ~(phase' = "returned")
  BY <1>1
<1> QED
  BY <1>1, <1>2, <1>3, <1>7, <1>10, <1>11, <1>12, Zenon DEF Vst3Inv, Vst3!HostGetsThisCycle

\* To an empty list the events are added as they are.
LEMMA Vst3AddedEvents ==
  ASSUME NEW events, Vst3!IsSeq(events)
  PROVE  <<>> \o Vst3!YaEventList(events) = Vst3!YaEventList(events)
<1>1. PICK n : n = Len(events)
  OBVIOUS
<1>2. n \in Nat /\ DOMAIN events = 1 .. n
  BY <1>1, Vst3SeqIsTuple
<1>3. PICK list : list = Vst3!YaEventList(events)
  OBVIOUS
<1>4. PICK T : T = {list[i] : i \in 1 .. n}
  OBVIOUS
<1>5. list \in [1 .. n -> T]
  BY <1>2, <1>3, <1>4 DEF Vst3!YaEventList
<1>6. list \in Seq(T)
  BY <1>2, <1>5, TupleIsSeq
<1>7. <<>> \o list = list
  BY <1>6, ConcatEmptySeq
<1> QED
  BY <1>3, <1>7, Zenon

\* What the plugin puts out is in the object and the buffer.
LEMMA Vst3PluginStep ==
  ASSUME Vst3Inv, NEW o \in Vst3Output, Vst3!PluginProcesses(o)
  PROVE  Vst3Inv'
<1>1. /\ phase = "processing" /\ phase' = "responding" /\ data' = data /\ native' = native
      /\ gave' = [audio |-> [b \in DOMAIN wine.outputs |->
                               [c \in 1 .. wine.outputs[b].channels |-> <<cycle, b, c>>]],
                  silence |-> [b \in DOMAIN wine.outputs |-> Vst3!Silence(o, wine.outputs[b])],
                  params |-> IF wine.out_params = Null THEN <<>> ELSE o.params,
                  events |-> IF wine.out_events = Null THEN <<>> ELSE o.events]
  BY DEF Vst3!PluginProcesses
<1>2. Vst3Processing /\ data \in Vst3HostData /\ IsVst3Object(wine) /\ BufferInv
  BY <1>1 DEF Vst3Inv
<1>3. /\ wine'.outputs = [b \in DOMAIN wine.outputs |->
                            [wine.outputs[b] EXCEPT !.silence = Vst3!Silence(o, wine.outputs[b])]]
      /\ wine'.out_params = IF wine.out_params = Null THEN Null
                            ELSE Vst3!AddQueues(wine.out_params, o.params)
      /\ wine'.out_events = IF wine.out_events = Null THEN Null
                            ELSE wine.out_events \o Vst3!YaEventList(o.events)
      /\ IsVst3Object(wine)'
  BY <1>2 DEF Vst3!PluginProcesses, IsVst3Object
<1>4. /\ \A b \in DOMAIN OutChannels : OutChannels[b] \in Nat
      /\ Vst3!IsProcessData(data) /\ Vst3!IsOutput(o) /\ Null # <<>>
  BY <1>2, CycleAssumption DEF Vst3!DataAssumption
<1>5. /\ shm'.out = [b \in DOMAIN shm.out |-> [c \in DOMAIN shm.out[b] |->
                       IF b \in DOMAIN wine.outputs /\ c <= wine.outputs[b].channels
                       THEN <<cycle, b, c>> ELSE shm.out[b][c]]]
      /\ shm'.in = shm.in /\ shm' = [in |-> shm'.in, out |-> shm'.out]
  BY <1>2 DEF Vst3!PluginProcesses, BufferInv
<1>6. /\ DOMAIN shm.out = DOMAIN OutChannels
      /\ \A b \in DOMAIN OutChannels : DOMAIN shm.out[b] = 1 .. OutChannels[b]
  BY <1>2 DEF BufferInv
<1>7. BufferInv'
  <2>1. shm'.out = [b \in DOMAIN OutChannels |-> [c \in 1 .. OutChannels[b] |-> shm'.out[b][c]]]
    BY <1>5, <1>6
  <2>2. shm'.in = [b \in DOMAIN InChannels |-> [c \in 1 .. InChannels[b] |-> shm'.in[b][c]]]
    BY <1>2, <1>5 DEF BufferInv
  <2> QED
    BY <1>5, <2>1, <2>2 DEF BufferInv
<1>8. DOMAIN wine.outputs = DOMAIN data.outputs /\ DOMAIN wine'.outputs = DOMAIN data.outputs
  BY <1>2, <1>3 DEF Vst3Processing, Vst3Buses
<1>9. ASSUME NEW b \in DOMAIN data.outputs
      PROVE  /\ wine'.outputs[b] = [channels |-> Vst3!Smaller(OutChannels[b], data.outputs[b].channels),
                                    silence |-> wine'.outputs[b].silence]
             /\ wine'.outputs[b].channels = Vst3!Smaller(OutChannels[b], data.outputs[b].channels)
             /\ wine'.outputs[b].channels = wine.outputs[b].channels
             /\ wine'.outputs[b].silence = Vst3!Silence(o, wine.outputs[b])
  <2>1. wine.outputs[b] = [channels |-> Vst3!Smaller(OutChannels[b], data.outputs[b].channels),
                           silence |-> wine.outputs[b].silence]
    BY <1>2 DEF Vst3Processing, Vst3Buses
  <2>2. wine'.outputs[b] = [wine.outputs[b] EXCEPT !.silence = Vst3!Silence(o, wine.outputs[b])]
    BY <1>3, <1>8
  <2> QED
    BY <2>1, <2>2
<1>10. Vst3Buses(wine)'
  BY <1>1, <1>8, <1>9 DEF Vst3Buses
<1>11. gave'.audio = [b \in DOMAIN data.outputs |->
                        [c \in 1 .. wine'.outputs[b].channels |-> shm'.out[b][c]]]
  <2>1. ASSUME NEW b \in DOMAIN data.outputs, NEW c \in 1 .. wine'.outputs[b].channels
        PROVE  shm'.out[b][c] = <<cycle, b, c>>
    <3>1. b \in DOMAIN OutChannels /\ data.outputs[b].channels \in Nat /\ OutChannels[b] \in Nat
      BY <1>4 DEF Vst3!IsProcessData
    <3>2. PICK k \in Nat : k = wine'.outputs[b].channels /\ k <= OutChannels[b]
      <4>1. wine'.outputs[b].channels = Vst3!Smaller(OutChannels[b], data.outputs[b].channels)
        BY <1>9, Zenon
      <4> QED
        BY <3>1, <4>1, Vst3Smaller
    <3>3. c \in 1 .. OutChannels[b] /\ c <= wine.outputs[b].channels
      <4>1. c \in 1 .. k /\ wine.outputs[b].channels = k
        BY <1>9, <3>2, Zenon
      <4> QED
        BY <3>1, <3>2, <4>1
    <3> QED
      BY <1>5, <1>6, <1>8, <3>1, <3>3
  <2>2. ASSUME NEW b \in DOMAIN data.outputs
        PROVE  [c \in 1 .. wine.outputs[b].channels |-> <<cycle, b, c>>] =
               [c \in 1 .. wine'.outputs[b].channels |-> shm'.out[b][c]]
    <3>1. wine'.outputs[b].channels = wine.outputs[b].channels
      BY <1>9
    <3> QED
      BY <2>1, <3>1
  <2>3. gave'.audio = [b \in DOMAIN data.outputs |->
                         [c \in 1 .. wine.outputs[b].channels |-> <<cycle, b, c>>]]
    BY <1>1, <1>8
  <2> QED
    BY <2>2, <2>3
<1>12. gave'.silence = [b \in DOMAIN data.outputs |-> wine'.outputs[b].silence]
  BY <1>1, <1>8, <1>9
<1>13. IF data.out_params
       THEN /\ wine'.out_params = gave'.params /\ gave'.params # Null
            /\ \E p \in Vst3Output : gave'.params = p.params
       ELSE gave'.params = <<>>
  <2>1. CASE data.out_params
    <3>1. wine.out_params = <<>>
      BY <1>2, <2>1 DEF Vst3Processing
    <3>2. wine'.out_params = <<>> \o o.params /\ gave'.params = o.params
      BY <1>1, <1>3, <1>4, <3>1, Zenon DEF Vst3!AddQueues
    <3>3. PICK T : o.params \in Seq(T)
      BY <1>4 DEF Vst3!IsOutput, Vst3!IsSeq
    <3>4. <<>> \o o.params = o.params
      BY <3>3, ConcatEmptySeq
    <3> QED
      BY <1>4, <2>1, <3>2, <3>4, Zenon DEF Vst3!IsOutput
  <2>2. CASE ~data.out_params
    BY <1>1, <1>2, <2>2 DEF Vst3Processing
  <2> QED
    BY <2>1, <2>2
<1>14. IF data.out_events
       THEN wine'.out_events # Null /\ Vst3!EventsInPlace(wine'.out_events, gave'.events)
       ELSE gave'.events = <<>>
  <2>1. CASE data.out_events
    <3>1. wine.out_events = <<>>
      BY <1>2, <2>1 DEF Vst3Processing
    <3>2. wine'.out_events = <<>> \o Vst3!YaEventList(o.events) /\ gave'.events = o.events
      BY <1>1, <1>3, <1>4, <3>1, Zenon
    <3>3. Vst3!IsSeq(o.events) /\ Vst3!YaEventList(o.events) # Null
      BY <1>4 DEF Vst3!IsOutput
    <3>4. wine'.out_events = Vst3!YaEventList(o.events)
      BY <3>2, <3>3, Vst3AddedEvents
    <3> QED
      BY <2>1, <3>2, <3>3, <3>4, EventListInPlace, Zenon
  <2>2. CASE ~data.out_events
    BY <1>1, <1>2, <2>2 DEF Vst3Processing
  <2> QED
    BY <2>1, <2>2
<1>15. Vst3Answer(wine)'
  BY <1>1, <1>10, <1>11, <1>12, <1>13, <1>14, Zenon DEF Vst3Answer
<1>16. IsVst3Object(native)'
  BY <1>1 DEF Vst3Inv, IsVst3Object
<1>17. ~(phase' = "idle") /\ ~(phase' = "sent") /\ ~(phase' = "processing")
       /\ ~(phase' = "writing") /\ ~(phase' = "returned")
  BY <1>1
<1> QED
  BY <1>1, <1>2, <1>3, <1>7, <1>15, <1>16, <1>17, Zenon
     DEF Vst3Inv, Vst3!PluginSeesThisCycle, Vst3!HostGetsThisCycle

\* The response makes the object of the other half say the same.
LEMMA Vst3RespondStep ==
  ASSUME Vst3Inv, Vst3!Respond
  PROVE  Vst3Inv'
<1>1. /\ phase = "responding" /\ phase' = "writing" /\ data' = data /\ wine' = wine
      /\ shm' = shm /\ gave' = gave
  BY DEF Vst3!Respond
<1>2. Vst3Answer(wine) /\ data \in Vst3HostData /\ IsVst3Object(native) /\ BufferInv
      /\ IsVst3Object(wine)
  BY <1>1 DEF Vst3Inv
<1>3. /\ native'.outputs = wine.outputs /\ native'.out_params = wine.out_params
      /\ native'.out_events = wine.out_events /\ IsVst3Object(native)'
  BY <1>2 DEF Vst3!Respond, IsVst3Object
<1>4. Vst3Buses(native)'
  BY <1>1, <1>2, <1>3 DEF Vst3Answer, Vst3Buses
<1>5. Vst3Answer(native)'
  BY <1>1, <1>2, <1>3, <1>4, Zenon DEF Vst3Answer
<1>6. BufferInv' /\ IsVst3Object(wine)'
  BY <1>1, <1>2 DEF BufferInv, IsVst3Object
<1>7. ~(phase' = "idle") /\ ~(phase' = "sent") /\ ~(phase' = "processing")
      /\ ~(phase' = "responding") /\ ~(phase' = "returned")
  BY <1>1
<1> QED
  BY <1>1, <1>2, <1>3, <1>5, <1>6, <1>7, Zenon
     DEF Vst3Inv, Vst3!PluginSeesThisCycle, Vst3!HostGetsThisCycle

\* The queues of a plugin are gathered by the host.
LEMMA OutputGathered ==
  ASSUME NEW params, Vst3!IsSeq(params),
         \A i \in DOMAIN params :
           /\ params[i] = [id |-> params[i].id, points |-> params[i].points]
           /\ Vst3!IsSeq(params[i].points)
  PROVE  Vst3!Gathered(Vst3!HostQueues(params), params)
<1>1. PICK n : n = Len(params)
  OBVIOUS
<1>2. n \in Nat /\ params = [i \in 1 .. n |-> params[i]] /\ DOMAIN params = 1 .. n
  BY <1>1, Vst3SeqIsTuple
<1>3. PICK I : I = {params[i].id : i \in 1 .. n}
  OBVIOUS
<1>4. PICK X : X = UNION {{params[i].points[j] : j \in DOMAIN params[i].points} : i \in 1 .. n}
  OBVIOUS
<1>5. ASSUME NEW i \in 1 .. n
      PROVE  params[i].points \in Seq(X)
  <2>1. PICK x : x = params[i].points
    OBVIOUS
  <2>2. Len(x) \in Nat /\ x = [j \in 1 .. Len(x) |-> x[j]]
    BY <1>2, <2>1, Vst3SeqIsTuple
  <2>3. \A j \in 1 .. Len(x) : x[j] \in X
    BY <1>4, <2>1, <2>2
  <2>4. x \in [1 .. Len(x) -> X]
    BY <2>2, <2>3
  <2>5. x \in Seq(X)
    BY <2>2, <2>4, TupleIsSeq
  <2> QED
    BY <2>1, <2>5
<1>6. \A i \in 1 .. n : params[i] \in [id : I, points : Seq(X)]
  BY <1>2, <1>3, <1>5
<1>7. params \in [1 .. n -> [id : I, points : Seq(X)]]
  BY <1>2, <1>6
<1>8. params \in Seq([id : I, points : Seq(X)])
  BY <1>2, <1>7, TupleIsSeq
<1> QED
  BY <1>8, QueuesGathered

\* No queue is gathered from no queue, and no event is in place in no list.
LEMMA NothingGathered ==
  Vst3!Gathered(<<>>, <<>>) /\ Vst3!EventsInPlace(<<>>, <<>>)
BY DEF Vst3!Gathered, Vst3!EventsInPlace

\* write_back_outputs() gives it to the host.
LEMMA Vst3WriteBackStep ==
  ASSUME Vst3Inv, Vst3!WriteBack
  PROVE  Vst3Inv'
<1>1. /\ phase = "writing" /\ phase' = "returned" /\ data' = data /\ wine' = wine
      /\ native' = native /\ shm' = shm /\ gave' = gave
      /\ got' = Vst3!WriteBackOutputs(native, data)
  BY DEF Vst3!WriteBack
<1>2. Vst3Answer(native) /\ data \in Vst3HostData /\ IsVst3Object(native) /\ BufferInv
      /\ IsVst3Object(wine)
  BY <1>1 DEF Vst3Inv
<1>3. /\ got'.audio = [b \in DOMAIN data.outputs |->
                         SubSeq(shm.out[b], 1, native.outputs[b].channels)]
      /\ got'.silence = [b \in DOMAIN data.outputs |-> native.outputs[b].silence]
      /\ got'.params = IF native.out_params # Null /\ data.out_params
                       THEN Vst3!HostQueues(native.out_params) ELSE <<>>
      /\ got'.events = IF native.out_events # Null /\ data.out_events
                       THEN native.out_events ELSE <<>>
  BY <1>1 DEF Vst3!WriteBackOutputs
<1>4. /\ \A b \in DOMAIN OutChannels : OutChannels[b] \in Nat
      /\ Vst3!IsProcessData(data)
      /\ \A p \in Vst3Output : Vst3!IsOutput(p)
  BY <1>2, CycleAssumption DEF Vst3!DataAssumption
<1>5. got'.audio = gave.audio
  <2>1. ASSUME NEW b \in DOMAIN data.outputs
        PROVE  SubSeq(shm.out[b], 1, native.outputs[b].channels) =
               [c \in 1 .. native.outputs[b].channels |-> shm.out[b][c]]
    <3>1. PICK x, n, k : x = shm.out[b] /\ n = OutChannels[b] /\ k = native.outputs[b].channels
      OBVIOUS
    <3>2. b \in DOMAIN OutChannels /\ n \in Nat /\ data.outputs[b].channels \in Nat
      BY <1>4, <3>1 DEF Vst3!IsProcessData
    <3>3. k = Vst3!Smaller(n, data.outputs[b].channels)
      <4>1. native.outputs[b] = [channels |-> Vst3!Smaller(OutChannels[b], data.outputs[b].channels),
                                 silence |-> native.outputs[b].silence]
        BY <1>2 DEF Vst3Answer, Vst3Buses
      <4>2. native.outputs[b].channels = Vst3!Smaller(OutChannels[b], data.outputs[b].channels)
        BY <4>1
      <4> QED
        BY <3>1, <4>2, Zenon
    <3>4. k \in Nat /\ k <= n
      BY <3>2, <3>3, Vst3Smaller
    <3>5. x = [c \in 1 .. n |-> x[c]]
      BY <1>2, <3>1, <3>2 DEF BufferInv
    <3>6. IsStart(SubSeq(x, 1, k), x, k)
      BY <3>2, <3>4, <3>5, PrefixOfTuple, Zenon
    <3> QED
      BY <3>1, <3>6, Zenon DEF IsStart
  <2>2. gave.audio = [b \in DOMAIN data.outputs |->
                        [c \in 1 .. native.outputs[b].channels |-> shm.out[b][c]]]
    BY <1>2 DEF Vst3Answer
  <2> QED
    BY <1>3, <2>1, <2>2
<1>6. got'.silence = gave.silence
  BY <1>2, <1>3, Zenon DEF Vst3Answer
<1>7. Vst3!Gathered(got'.params, gave.params)
  <2>1. CASE data.out_params
    <3>1. PICK p \in Vst3Output : gave.params = p.params
      BY <1>2, <2>1, Zenon DEF Vst3Answer
    <3>2. got'.params = Vst3!HostQueues(gave.params)
      BY <1>2, <1>3, <2>1, Zenon DEF Vst3Answer
    <3>3. Vst3!IsOutput(p)
      BY <1>4
    <3>4. Vst3!Gathered(Vst3!HostQueues(p.params), p.params)
      BY <3>3, OutputGathered, Zenon DEF Vst3!IsOutput
    <3> QED
      BY <3>1, <3>2, <3>4, Zenon
  <2>2. CASE ~data.out_params
    <3>1. got'.params = <<>> /\ gave.params = <<>>
      BY <1>2, <1>3, <2>2, Zenon DEF Vst3Answer
    <3> QED
      BY <3>1, NothingGathered, Zenon
  <2> QED
    BY <2>1, <2>2
<1>8. Vst3!EventsInPlace(got'.events, gave.events)
  <2>1. CASE data.out_events
    BY <1>2, <1>3, <2>1, Zenon DEF Vst3Answer
  <2>2. CASE ~data.out_events
    <3>1. got'.events = <<>> /\ gave.events = <<>>
      BY <1>2, <1>3, <2>2, Zenon DEF Vst3Answer
    <3> QED
      BY <3>1, NothingGathered, Zenon
  <2> QED
    BY <2>1, <2>2
<1>9. Vst3!HostGetsThisCycle'
  BY <1>1, <1>5, <1>6, <1>7, <1>8, Zenon DEF Vst3!HostGetsThisCycle
<1>10. BufferInv' /\ IsVst3Object(wine)' /\ IsVst3Object(native)'
  BY <1>1, <1>2 DEF BufferInv, IsVst3Object
<1>11. ~(phase' = "idle") /\ ~(phase' = "sent") /\ ~(phase' = "processing")
       /\ ~(phase' = "responding") /\ ~(phase' = "writing")
  BY <1>1
<1> QED
  BY <1>1, <1>2, <1>9, <1>10, <1>11, Zenon DEF Vst3Inv, Vst3!PluginSeesThisCycle

\* Each step of a VST3 cycle keeps its invariant.
LEMMA Vst3Step ==
  ASSUME Vst3Inv, Vst3!Next
  PROVE  Vst3Inv'
BY Vst3ProcessStep, Vst3ReceiveStep, Vst3PluginStep, Vst3RespondStep, Vst3WriteBackStep
   DEF Vst3!Next

-----------------------------------------------------------------------------
(* CLAP: every step keeps ClapInv.                                         *)

\* Initially there is no call, and the objects and the buffer are empty.
LEMMA ClapInitially ==
  ASSUME Clap!Init
  PROVE  ClapInv
<1>1. BufferInv
  BY DEF Clap!Init, BufferInv
<1>2. IsClapObject(native) /\ IsClapObject(wine)
  BY DEF Clap!Init, Clap!Process, IsClapObject
<1>3. phase = "idle"
  BY DEF Clap!Init
<1> QED
  BY <1>1, <1>2, <1>3 DEF ClapInv, Clap!PluginSeesThisCycle, Clap!HostGetsThisCycle

\* The channels both sides have are a number, no greater than either.
LEMMA ClapSmaller ==
  ASSUME NEW a \in Nat, NEW b \in Nat
  PROVE  /\ Clap!Smaller(a, b) \in Nat /\ Clap!Smaller(a, b) <= a /\ Clap!Smaller(a, b) <= b
         /\ b <= a => Clap!Smaller(a, b) = b
BY DEF Clap!Smaller

\* A sequence is a tuple of its length.
LEMMA ClapSeqIsTuple ==
  ASSUME NEW s, Clap!IsSeq(s)
  PROVE  Len(s) \in Nat /\ s = [i \in 1 .. Len(s) |-> s[i]]
<1>1. PICK T : s \in Seq(T)
  BY DEF Clap!IsSeq
<1> QED
  BY <1>1, LenProperties

\* To an empty list the events that were parsed are added as they are.
LEMMA ClapAddedEvents ==
  ASSUME NEW events, Clap!IsSeq(events)
  PROVE  <<>> \o Clap!EventList(events) = Clap!EventList(events)
<1>1. PICK n : n = Len(events)
  OBVIOUS
<1>2. n \in Nat /\ DOMAIN events = 1 .. n
  BY <1>1, ClapSeqIsTuple
<1>3. PICK T : T = {events[i] : i \in 1 .. n}
  OBVIOUS
<1>4. PICK s : s = [i \in DOMAIN events |->
                      IF events[i].type \in Clap!Parsed THEN <<events[i]>> ELSE <<>>]
  OBVIOUS
<1>5. \A i \in 1 .. n : <<events[i]>> \in Seq(T) /\ <<>> \in Seq(T)
  BY <1>3
<1>6. s \in [1 .. n -> Seq(T)]
  BY <1>2, <1>4, <1>5
<1>7. s \in Seq(Seq(T))
  BY <1>2, <1>6, TupleIsSeq
<1>8. FlattenSeq(s) \in Seq(T)
  BY <1>7, FlattenType
<1>9. <<>> \o FlattenSeq(s) = FlattenSeq(s)
  BY <1>8, ConcatEmptySeq
<1>10. Clap!EventList(events) = FlattenSeq(s)
  BY <1>4, ClapFlatten, Zenon DEF Clap!EventList
<1> QED
  BY <1>9, <1>10, Zenon

\* Whatever is written into the input channels, the buffer keeps its shape.
InputsShaped(in) ==
  in = [b \in DOMAIN InChannels |-> [c \in 1 .. InChannels[b] |-> in[b][c]]]

\* That is so of the input that is copied ...
LEMMA CopyShaped ==
  ASSUME BufferInv, NEW pd
  PROVE  InputsShaped(Clap!CopyInputs(pd))
<1>1. DOMAIN shm.in = DOMAIN InChannels
      /\ \A b \in DOMAIN InChannels : DOMAIN shm.in[b] = 1 .. InChannels[b]
  BY DEF BufferInv
<1> QED
  BY <1>1 DEF Clap!CopyInputs, InputsShaped

\* ... and if one channel is overwritten.
LEMMA OverwrittenShaped ==
  ASSUME NEW in, InputsShaped(in), NEW p \in DOMAIN InChannels, NEW c, NEW v
  PROVE  InputsShaped([in EXCEPT ![p][c] = v])
<1>1. PICK e : e = [in EXCEPT ![p][c] = v]
  OBVIOUS
<1>2. DOMAIN in = DOMAIN InChannels
      /\ \A b \in DOMAIN InChannels : in[b] = [d \in 1 .. InChannels[b] |-> in[b][d]]
  BY DEF InputsShaped
<1>3. e = [b \in DOMAIN InChannels |-> e[b]]
  BY <1>1, <1>2
<1>4. ASSUME NEW b \in DOMAIN InChannels
      PROVE  e[b] = [d \in 1 .. InChannels[b] |-> e[b][d]]
  <2>1. CASE b = p
    <3>1. e[b] = [in[b] EXCEPT ![c] = v]
      BY <1>1, <1>2, <2>1
    <3> QED
      BY <1>2, <3>1
  <2>2. CASE b # p
    BY <1>1, <1>2, <2>2
  <2> QED
    BY <2>1, <2>2
<1> QED
  BY <1>1, <1>3, <1>4 DEF InputsShaped

\* repopulate() takes over all the host passes, in the types of the host.
LEMMA ClapProcessStep ==
  ASSUME ClapInv, NEW pd \in ClapHostData, Clap!ProcessCall(pd)
  PROVE  ClapInv'
<1>1. /\ phase' = "sent" /\ data' = pd /\ wine' = wine
      /\ native' = Clap!Repopulate(native, pd)
      /\ \/ shm' = [shm EXCEPT !.in = Clap!CopyInputs(pd)]
         \/ /\ Clap!ExtraChannels(pd)
            /\ \E p \in DOMAIN shm.in : \E c \in DOMAIN shm.in[p] :
                 shm' = [shm EXCEPT !.in = [Clap!CopyInputs(pd) EXCEPT ![p][c] = "overwritten"]]
  BY DEF Clap!ProcessCall
<1>2. /\ \A b \in DOMAIN InChannels : InChannels[b] \in Nat
      /\ Clap!IsProcess(pd) /\ Null \notin Clap!SampleTypes
  BY CycleAssumption DEF Clap!DataAssumption
<1>3. BufferInv
  BY DEF ClapInv
<1>4. /\ native'.inputs = [p \in DOMAIN pd.inputs |->
                             [channels |-> Clap!Smaller(InChannels[p], Len(pd.inputs[p].audio)),
                              type |-> Clap!PortType(native.inputs, p, pd.inputs[p]),
                              mask |-> pd.inputs[p].mask]]
      /\ native'.outputs = [p \in DOMAIN pd.outputs |->
                              [channels |-> Clap!Smaller(OutChannels[p], pd.outputs[p].channels),
                               type |-> Clap!PortType(native.outputs, p, pd.outputs[p]),
                               mask |-> pd.outputs[p].mask]]
      /\ native'.in_events = Clap!EventList(pd.in_events)
      /\ native'.transport = pd.transport
      /\ IsClapObject(native)'
  BY <1>1 DEF Clap!Repopulate, IsClapObject
<1>5. /\ shm'.out = shm.out /\ shm' = [in |-> shm'.in, out |-> shm'.out]
      /\ InputsShaped(shm'.in)
      /\ ~Clap!ExtraChannels(pd) => shm'.in = Clap!CopyInputs(pd)
  <2>1. shm = [in |-> shm.in, out |-> shm.out] /\ DOMAIN shm.in = DOMAIN InChannels
    BY <1>3 DEF BufferInv
  <2>2. PICK x : x = Clap!CopyInputs(pd)
    OBVIOUS
  <2>3. InputsShaped(x)
    BY <1>3, <2>2, CopyShaped
  <2>4. CASE shm' = [shm EXCEPT !.in = x]
    <3>1. shm'.in = x /\ shm'.out = shm.out /\ shm' = [in |-> shm'.in, out |-> shm'.out]
      BY <2>1, <2>4
    <3> QED
      BY <2>2, <2>3, <3>1, Zenon
  <2>5. ASSUME Clap!ExtraChannels(pd), NEW p \in DOMAIN shm.in, NEW c \in DOMAIN shm.in[p],
               shm' = [shm EXCEPT !.in = [x EXCEPT ![p][c] = "overwritten"]]
        PROVE  /\ shm'.out = shm.out /\ shm' = [in |-> shm'.in, out |-> shm'.out]
               /\ InputsShaped(shm'.in)
    <3>1. PICK y : y = [x EXCEPT ![p][c] = "overwritten"]
      OBVIOUS
    <3>2. InputsShaped(y)
      BY <2>1, <2>3, <3>1, OverwrittenShaped
    <3>3. shm' = [shm EXCEPT !.in = y]
      BY <2>5, <3>1, Zenon
    <3>4. shm'.in = y /\ shm'.out = shm.out /\ shm' = [in |-> shm'.in, out |-> shm'.out]
      BY <2>1, <3>3
    <3> QED
      BY <3>2, <3>4, Zenon
  <2> QED
    BY <1>1, <2>2, <2>4, <2>5, Zenon
<1>6. BufferInv'
  <2>1. shm'.out = [b \in DOMAIN OutChannels |-> [c \in 1 .. OutChannels[b] |-> shm'.out[b][c]]]
    BY <1>3, <1>5 DEF BufferInv
  <2> QED
    BY <1>5, <2>1, Zenon DEF BufferInv, InputsShaped
<1>7. ASSUME NEW p \in DOMAIN pd.inputs
      PROVE  /\ native'.inputs[p].channels =
                  Clap!Smaller(InChannels[p], Len(pd.inputs[p].audio))
             /\ pd.inputs[p].audio # <<>> => native'.inputs[p].type = pd.inputs[p].type
  <2>1. native'.inputs[p].channels = Clap!Smaller(InChannels[p], Len(pd.inputs[p].audio))
        /\ native'.inputs[p].type = Clap!PortType(native.inputs, p, pd.inputs[p])
    BY <1>4
  <2>2. pd.inputs[p].audio # <<>> => pd.inputs[p].type \in Clap!SampleTypes
    BY <1>2 DEF Clap!IsProcess
  <2>3. pd.inputs[p].type \in Clap!SampleTypes =>
          Clap!PortType(native.inputs, p, pd.inputs[p]) = pd.inputs[p].type
    BY <1>2, Zenon DEF Clap!PortType
  <2> QED
    BY <2>1, <2>2, <2>3
<1>8. ClapPorts'
  <2>1. DOMAIN native'.outputs = DOMAIN pd.outputs
    BY <1>4
  <2>2. ASSUME NEW p \in DOMAIN pd.outputs
        PROVE  /\ native'.outputs[p] =
                    [channels |-> Clap!Smaller(OutChannels[p], pd.outputs[p].channels),
                     type |-> native'.outputs[p].type, mask |-> native'.outputs[p].mask]
               /\ pd.outputs[p].channels > 0 => native'.outputs[p].type = pd.outputs[p].type
    <3>1. native'.outputs[p] =
            [channels |-> Clap!Smaller(OutChannels[p], pd.outputs[p].channels),
             type |-> Clap!PortType(native.outputs, p, pd.outputs[p]),
             mask |-> pd.outputs[p].mask]
      BY <1>4
    <3>2. native'.outputs[p].type = Clap!PortType(native.outputs, p, pd.outputs[p])
          /\ native'.outputs[p].mask = pd.outputs[p].mask
      BY <3>1
    <3>3. pd.outputs[p].channels > 0 => pd.outputs[p].type \in Clap!SampleTypes
      BY <1>2 DEF Clap!IsProcess
    <3>4. pd.outputs[p].type \in Clap!SampleTypes =>
            Clap!PortType(native.outputs, p, pd.outputs[p]) = pd.outputs[p].type
      BY <1>2, Zenon DEF Clap!PortType
    <3> QED
      BY <3>1, <3>2, <3>3, <3>4
  <2> QED
    BY <1>1, <2>1, <2>2, Zenon DEF ClapPorts
<1>9. ASSUME ~Clap!ExtraChannels(pd), NEW p \in DOMAIN pd.inputs,
              NEW c \in 1 .. Len(pd.inputs[p].audio)
       PROVE  shm'.in[p][c] = pd.inputs[p].audio[c]
  <2>1. p \in DOMAIN InChannels /\ InChannels[p] \in Nat /\ Len(pd.inputs[p].audio) \in Nat
    BY <1>2, ClapSeqIsTuple DEF Clap!IsProcess
  <2>2. Len(pd.inputs[p].audio) <= InChannels[p]
    BY <1>9, <2>1 DEF Clap!ExtraChannels
  <2>3. p \in DOMAIN shm.in /\ DOMAIN shm.in[p] = 1 .. InChannels[p]
    BY <1>3, <2>1 DEF BufferInv
  <2>4. c \in DOMAIN shm.in[p] /\ c <= Len(pd.inputs[p].audio)
    BY <2>1, <2>2, <2>3
  <2>5. shm'.in = Clap!CopyInputs(pd)
    BY <1>5, <1>9
  <2> QED
    BY <2>3, <2>4, <2>5 DEF Clap!CopyInputs
<1>10. ClapSent'
  <2>1. DOMAIN native'.inputs = DOMAIN pd.inputs
    BY <1>4
  <2>2. Clap!ExtraChannels(data)' <=> Clap!ExtraChannels(pd)
    BY <1>1 DEF Clap!ExtraChannels
  <2>3. /\ \A p \in DOMAIN pd.inputs : native'.inputs[p].mask = pd.inputs[p].mask
        /\ \A p \in DOMAIN pd.outputs : native'.outputs[p].mask = pd.outputs[p].mask
    BY <1>4
  <2> QED
    BY <1>1, <1>4, <1>7, <1>9, <2>1, <2>2, <2>3, Zenon DEF ClapSent
<1>11. IsClapObject(wine)'
  BY <1>1 DEF ClapInv, IsClapObject
<1>12. ~(phase' = "idle") /\ ~(phase' = "processing") /\ ~(phase' = "responding")
       /\ ~(phase' = "writing") /\ ~(phase' = "returned")
  BY <1>1
<1> QED
  BY <1>1, <1>4, <1>6, <1>8, <1>10, <1>11, <1>12, Zenon
     DEF ClapInv, Clap!PluginSeesThisCycle, Clap!HostGetsThisCycle

\* A port is pointed at the buffer by its type alone, whatever it held before.
LEMMA PortsPointed ==
  ASSUME NEW old, NEW ports, NEW p \in DOMAIN ports
  PROVE  /\ DOMAIN Clap!PointPorts(old, ports) = DOMAIN ports
         /\ Clap!PointPorts(old, ports)[p] =
              [channels |-> ports[p].channels, type |-> ports[p].type, mask |-> ports[p].mask,
               data32 |-> ports[p].type # "Double64", data64 |-> ports[p].type = "Double64"]
<1>1. CASE ports[p].type = "Double64"
  BY <1>1 DEF Clap!PointPorts, Clap!ReadPort
<1>2. CASE ports[p].type # "Double64"
  BY <1>2 DEF Clap!PointPorts, Clap!ReadPort
<1> QED
  BY <1>1, <1>2

\* What PortsAsGiven asks for, of ports with the masks and types of the host.
LEMMA PointedAsGiven ==
  ASSUME NEW given, NEW old, NEW ports, NEW channels, DOMAIN ports = DOMAIN given,
         \A p \in DOMAIN given : ports[p].mask = given[p].mask,
         \A p \in DOMAIN given : channels[p] > 0 =>
           ports[p].type = given[p].type /\ given[p].type \in Clap!SampleTypes
  PROVE  Clap!PortsAsGiven(given, Clap!PointPorts(old, ports), channels)
<1>1. PICK pointed : pointed = Clap!PointPorts(old, ports)
  OBVIOUS
<1>2. DOMAIN pointed = DOMAIN given
  BY <1>1 DEF Clap!PointPorts
<1>3. ASSUME NEW p \in DOMAIN given, channels[p] > 0
      PROVE  /\ pointed[p].data32 = (given[p].type = "Float32")
             /\ pointed[p].data64 = (given[p].type = "Double64")
  <2>1. pointed[p] =
          [channels |-> ports[p].channels, type |-> ports[p].type, mask |-> ports[p].mask,
           data32 |-> ports[p].type # "Double64", data64 |-> ports[p].type = "Double64"]
    BY <1>1, PortsPointed
  <2>2. ports[p].type = given[p].type /\ given[p].type \in {"Float32", "Double64"}
    BY <1>3 DEF Clap!SampleTypes
  <2> QED
    BY <2>1, <2>2
<1>4. ASSUME NEW p \in DOMAIN given
      PROVE  pointed[p].mask = given[p].mask
  <2>1. pointed[p] =
          [channels |-> ports[p].channels, type |-> ports[p].type, mask |-> ports[p].mask,
           data32 |-> ports[p].type # "Double64", data64 |-> ports[p].type = "Double64"]
    BY <1>1, PortsPointed
  <2> QED
    BY <2>1
<1> QED
  BY <1>1, <1>2, <1>3, <1>4 DEF Clap!PortsAsGiven

\* reconstruct() gives the plugin all of it, and an empty list to push to.
LEMMA ClapReceiveStep ==
  ASSUME ClapInv, Clap!Receive
  PROVE  ClapInv'
<1>1. /\ phase = "sent" /\ phase' = "processing" /\ data' = data /\ shm' = shm
      /\ native' = native
      /\ wine' = [inputs |-> Clap!PointPorts(wine.inputs, native.inputs),
                  outputs |-> Clap!PointPorts(wine.outputs, native.outputs),
                  in_events |-> native.in_events, out_events |-> <<>>,
                  transport |-> native.transport]
      /\ seen' = [object |-> wine',
                  audio |-> [p \in DOMAIN wine'.inputs |->
                               SubSeq(shm.in[p], 1, wine'.inputs[p].channels)]]
  BY DEF Clap!Receive
<1>2. ClapSent /\ ClapPorts /\ data \in ClapHostData /\ IsClapObject(native) /\ BufferInv
  BY <1>1 DEF ClapInv
<1>3. /\ \A p \in DOMAIN InChannels : InChannels[p] \in Nat
      /\ Clap!IsProcess(data)
  BY <1>2, CycleAssumption DEF Clap!DataAssumption
<1>4. /\ wine'.inputs = Clap!PointPorts(wine.inputs, native.inputs)
      /\ wine'.outputs = Clap!PointPorts(wine.outputs, native.outputs)
      /\ wine'.in_events = native.in_events /\ wine'.out_events = <<>>
      /\ wine'.transport = native.transport /\ IsClapObject(wine)'
  BY <1>1 DEF IsClapObject
<1>5. DOMAIN native.inputs = DOMAIN data.inputs /\ DOMAIN native.outputs = DOMAIN data.outputs
  BY <1>2 DEF ClapSent, ClapPorts
<1>6. /\ DOMAIN wine'.inputs = DOMAIN data.inputs
      /\ \A p \in DOMAIN data.inputs : wine'.inputs[p].channels = native.inputs[p].channels
  BY <1>4, <1>5 DEF Clap!PointPorts, Clap!ReadPort
<1>7. ClapGiven'
  <2>1. DOMAIN wine'.outputs = DOMAIN data.outputs
    BY <1>4, <1>5 DEF Clap!PointPorts
  <2>2. ASSUME NEW p \in DOMAIN data.outputs
        PROVE  wine'.outputs[p] =
                 [channels |-> native.outputs[p].channels, type |-> wine'.outputs[p].type,
                  mask |-> wine'.outputs[p].mask, data32 |-> wine'.outputs[p].data32,
                  data64 |-> wine'.outputs[p].data64]
    <3>1. PICK o : o = wine'.outputs[p]
      OBVIOUS
    <3>2. o = [channels |-> native.outputs[p].channels, type |-> native.outputs[p].type,
               mask |-> native.outputs[p].mask,
               data32 |-> native.outputs[p].type # "Double64",
               data64 |-> native.outputs[p].type = "Double64"]
      BY <1>4, <1>5, <3>1, PortsPointed
    <3> QED
      BY <3>1, <3>2
  <2> QED
    BY <1>1, <2>1, <2>2, Zenon DEF ClapGiven
<1>8. /\ seen'.object = wine'
      /\ seen'.audio = [p \in DOMAIN data.inputs |->
                          SubSeq(shm.in[p], 1, native.inputs[p].channels)]
  BY <1>1, <1>6
<1>9. ASSUME ~Clap!ExtraChannels(data), NEW p \in DOMAIN data.inputs
      PROVE  SubSeq(shm.in[p], 1, native.inputs[p].channels) = data.inputs[p].audio
  <2>1. PICK x, y, n, k : /\ x = shm.in[p] /\ y = data.inputs[p].audio
                          /\ n = InChannels[p] /\ k = native.inputs[p].channels
    OBVIOUS
  <2>2. p \in DOMAIN InChannels /\ Clap!IsSeq(y) /\ n \in Nat
    BY <1>3, <2>1 DEF Clap!IsProcess
  <2>3. Len(y) \in Nat /\ y = [c \in 1 .. Len(y) |-> y[c]]
    BY <2>2, ClapSeqIsTuple
  <2>4. Len(y) <= n
    BY <1>9, <2>1, <2>2, <2>3 DEF Clap!ExtraChannels
  <2>5. k = Clap!Smaller(n, Len(y))
    BY <1>2, <2>1, Zenon DEF ClapSent
  <2>6. k = Len(y) /\ k \in Nat /\ k <= n
    BY <2>2, <2>3, <2>4, <2>5, ClapSmaller
  <2>7. x = [c \in 1 .. n |-> x[c]]
    BY <1>2, <2>1, <2>2 DEF BufferInv
  <2>8. IsStart(SubSeq(x, 1, k), x, k)
    BY <2>2, <2>6, <2>7, PrefixOfTuple, Zenon
  <2>9. \A c \in 1 .. Len(y) : x[c] = y[c]
    BY <1>2, <1>9, <2>1, Zenon DEF ClapSent
  <2>10. SubSeq(x, 1, k) = y
    BY <2>3, <2>6, <2>8, <2>9 DEF IsStart
  <2> QED
    BY <2>1, <2>10, Zenon
<1>10. ~Clap!ExtraChannels(data) =>
         seen'.audio = [p \in DOMAIN data.inputs |-> data.inputs[p].audio]
  BY <1>8, <1>9
<1>11. Clap!PortsAsGiven(data.inputs, wine'.inputs,
                         [p \in DOMAIN data.inputs |-> Len(data.inputs[p].audio)])
  <2>1. PICK channels : channels = [p \in DOMAIN data.inputs |-> Len(data.inputs[p].audio)]
    OBVIOUS
  <2>2. ASSUME NEW p \in DOMAIN data.inputs, channels[p] > 0
        PROVE  native.inputs[p].type = data.inputs[p].type
               /\ data.inputs[p].type \in Clap!SampleTypes
    <3>1. data.inputs[p].audio # <<>>
      BY <2>1, <2>2
    <3> QED
      BY <1>2, <1>3, <3>1, Zenon DEF ClapSent, Clap!IsProcess
  <2>3. \A p \in DOMAIN data.inputs : native.inputs[p].mask = data.inputs[p].mask
    BY <1>2, Zenon DEF ClapSent
  <2> QED
    BY <1>4, <1>5, <2>1, <2>2, <2>3, PointedAsGiven
<1>12. Clap!PortsAsGiven(data.outputs, wine'.outputs,
                         [p \in DOMAIN data.outputs |-> data.outputs[p].channels])
  <2>1. PICK channels : channels = [p \in DOMAIN data.outputs |-> data.outputs[p].channels]
    OBVIOUS
  <2>2. ASSUME NEW p \in DOMAIN data.outputs, channels[p] > 0
        PROVE  native.outputs[p].type = data.outputs[p].type
               /\ data.outputs[p].type \in Clap!SampleTypes
    <3>1. data.outputs[p].channels > 0
      BY <2>1, <2>2
    <3> QED
      BY <1>2, <1>3, <3>1, Zenon DEF ClapPorts, Clap!IsProcess
  <2>3. \A p \in DOMAIN data.outputs : native.outputs[p].mask = data.outputs[p].mask
    BY <1>2, Zenon DEF ClapSent
  <2> QED
    BY <1>4, <1>5, <2>1, <2>2, <2>3, PointedAsGiven
<1>13. Clap!PluginSeesThisCycle'
  <2>1. Clap!ExtraChannels(data)' <=> Clap!ExtraChannels(data)
    BY <1>1 DEF Clap!ExtraChannels
  <2>2. native.in_events = Clap!EventList(data.in_events)
        /\ native.transport = data.transport
    BY <1>2, Zenon DEF ClapSent
  <2> QED
    BY <1>1, <1>4, <1>8, <1>10, <1>11, <1>12, <2>1, <2>2, Zenon
       DEF Clap!PluginSeesThisCycle, Clap!InputChannels, Clap!OutputChannels
<1>14. BufferInv' /\ IsClapObject(native)' /\ ClapPorts'
  BY <1>1, <1>2 DEF BufferInv, IsClapObject, ClapPorts
<1>15. ~(phase' = "idle") /\ ~(phase' = "sent") /\ ~(phase' = "responding")
       /\ ~(phase' = "writing") /\ ~(phase' = "returned")
  BY <1>1
<1> QED
  BY <1>1, <1>2, <1>4, <1>7, <1>13, <1>14, <1>15, Zenon DEF ClapInv, Clap!HostGetsThisCycle

\* What the plugin puts out is in the object and the buffer.
LEMMA ClapPluginStep ==
  ASSUME ClapInv, NEW o \in ClapOutput, Clap!PluginProcesses(o)
  PROVE  ClapInv'
<1>1. /\ phase = "processing" /\ phase' = "responding" /\ data' = data /\ native' = native
      /\ gave' = [audio |-> [p \in DOMAIN wine.outputs |->
                               [c \in 1 .. wine.outputs[p].channels |-> <<cycle, p, c>>]],
                  mask |-> [p \in DOMAIN wine.outputs |-> Clap!Mask(o, wine.outputs[p])],
                  events |-> o.events]
  BY DEF Clap!PluginProcesses
<1>2. /\ ClapGiven /\ wine.out_events = <<>> /\ ClapPorts /\ data \in ClapHostData
      /\ IsClapObject(wine) /\ IsClapObject(native) /\ BufferInv
  BY <1>1 DEF ClapInv
<1>3. /\ wine'.outputs = [p \in DOMAIN wine.outputs |->
                            [wine.outputs[p] EXCEPT !.mask = Clap!Mask(o, wine.outputs[p])]]
      /\ wine'.out_events = wine.out_events \o Clap!EventList(o.events)
      /\ IsClapObject(wine)'
  BY <1>2 DEF Clap!PluginProcesses, IsClapObject
<1>4. /\ \A p \in DOMAIN OutChannels : OutChannels[p] \in Nat
      /\ Clap!IsProcess(data) /\ Clap!IsSeq(o.events)
  BY <1>2, CycleAssumption DEF Clap!DataAssumption
<1>5. /\ shm'.out = [p \in DOMAIN shm.out |-> [c \in DOMAIN shm.out[p] |->
                       IF p \in DOMAIN wine.outputs /\ c <= wine.outputs[p].channels
                       THEN <<cycle, p, c>> ELSE shm.out[p][c]]]
      /\ shm'.in = shm.in /\ shm' = [in |-> shm'.in, out |-> shm'.out]
  BY <1>2 DEF Clap!PluginProcesses, BufferInv
<1>6. /\ DOMAIN shm.out = DOMAIN OutChannels
      /\ \A p \in DOMAIN OutChannels : DOMAIN shm.out[p] = 1 .. OutChannels[p]
  BY <1>2 DEF BufferInv
<1>7. BufferInv'
  <2>1. shm'.out = [b \in DOMAIN OutChannels |-> [c \in 1 .. OutChannels[b] |-> shm'.out[b][c]]]
    BY <1>5, <1>6
  <2>2. shm'.in = [b \in DOMAIN InChannels |-> [c \in 1 .. InChannels[b] |-> shm'.in[b][c]]]
    BY <1>2, <1>5 DEF BufferInv
  <2> QED
    BY <1>5, <2>1, <2>2 DEF BufferInv
<1>8. DOMAIN wine.outputs = DOMAIN data.outputs /\ DOMAIN wine'.outputs = DOMAIN data.outputs
  BY <1>2, <1>3 DEF ClapGiven
<1>9. ASSUME NEW p \in DOMAIN data.outputs
      PROVE  /\ wine'.outputs[p] =
                  [channels |-> native.outputs[p].channels, type |-> wine'.outputs[p].type,
                   mask |-> wine'.outputs[p].mask, data32 |-> wine'.outputs[p].data32,
                   data64 |-> wine'.outputs[p].data64]
             /\ wine'.outputs[p].mask = Clap!Mask(o, wine.outputs[p])
             /\ wine.outputs[p].channels = native.outputs[p].channels
  <2>1. wine.outputs[p] =
          [channels |-> native.outputs[p].channels, type |-> wine.outputs[p].type,
           mask |-> wine.outputs[p].mask, data32 |-> wine.outputs[p].data32,
           data64 |-> wine.outputs[p].data64]
    BY <1>2 DEF ClapGiven
  <2>2. wine'.outputs[p] = [wine.outputs[p] EXCEPT !.mask = Clap!Mask(o, wine.outputs[p])]
    BY <1>3, <1>8
  <2> QED
    BY <2>1, <2>2
<1>10. ClapGiven'
  BY <1>1, <1>8, <1>9, Zenon DEF ClapGiven
<1>11. gave'.audio = [p \in DOMAIN data.outputs |->
                        [c \in 1 .. native.outputs[p].channels |-> shm'.out[p][c]]]
  <2>1. ASSUME NEW p \in DOMAIN data.outputs, NEW c \in 1 .. native.outputs[p].channels
        PROVE  shm'.out[p][c] = <<cycle, p, c>>
    <3>1. p \in DOMAIN OutChannels /\ data.outputs[p].channels \in Nat /\ OutChannels[p] \in Nat
      BY <1>4 DEF Clap!IsProcess
    <3>2. PICK k \in Nat : k = native.outputs[p].channels /\ k <= OutChannels[p]
      <4>1. native.outputs[p] =
              [channels |-> Clap!Smaller(OutChannels[p], data.outputs[p].channels),
               type |-> native.outputs[p].type, mask |-> native.outputs[p].mask]
        BY <1>2, Zenon DEF ClapPorts
      <4>2. native.outputs[p].channels = Clap!Smaller(OutChannels[p], data.outputs[p].channels)
        BY <4>1
      <4> QED
        BY <3>1, <4>2, ClapSmaller
    <3>3. c \in 1 .. OutChannels[p] /\ c <= wine.outputs[p].channels
      <4>1. c \in 1 .. k /\ wine.outputs[p].channels = k
        BY <1>9, <3>2, Zenon
      <4> QED
        BY <3>1, <3>2, <4>1
    <3> QED
      BY <1>5, <1>6, <1>8, <3>1, <3>3
  <2>2. ASSUME NEW p \in DOMAIN data.outputs
        PROVE  [c \in 1 .. wine.outputs[p].channels |-> <<cycle, p, c>>] =
               [c \in 1 .. native.outputs[p].channels |-> shm'.out[p][c]]
    <3>1. wine.outputs[p].channels = native.outputs[p].channels
      BY <1>9, Zenon
    <3> QED
      BY <2>1, <3>1
  <2>3. gave'.audio = [p \in DOMAIN data.outputs |->
                         [c \in 1 .. wine.outputs[p].channels |-> <<cycle, p, c>>]]
    BY <1>1, <1>8
  <2> QED
    BY <2>2, <2>3
<1>12. gave'.mask = [p \in DOMAIN data.outputs |-> wine'.outputs[p].mask]
  BY <1>1, <1>8, <1>9
<1>13. wine'.out_events = Clap!EventList(gave'.events)
  <2>1. wine'.out_events = <<>> \o Clap!EventList(o.events) /\ gave'.events = o.events
    BY <1>1, <1>2, <1>3
  <2>2. <<>> \o Clap!EventList(o.events) = Clap!EventList(o.events)
    BY <1>4, ClapAddedEvents
  <2> QED
    BY <2>1, <2>2, Zenon
<1>14. ClapAnswer(wine)'
  BY <1>1, <1>11, <1>12, <1>13, Zenon DEF ClapAnswer
<1>15. IsClapObject(native)' /\ ClapPorts'
  BY <1>1, <1>2 DEF IsClapObject, ClapPorts
<1>16. ~(phase' = "idle") /\ ~(phase' = "sent") /\ ~(phase' = "processing")
       /\ ~(phase' = "writing") /\ ~(phase' = "returned")
  BY <1>1
<1> QED
  BY <1>1, <1>2, <1>3, <1>7, <1>10, <1>14, <1>15, <1>16, Zenon
     DEF ClapInv, Clap!PluginSeesThisCycle, Clap!HostGetsThisCycle

\* The response makes the object of the other half say the same.
LEMMA ClapRespondStep ==
  ASSUME ClapInv, Clap!Respond
  PROVE  ClapInv'
<1>1. /\ phase = "responding" /\ phase' = "writing" /\ data' = data /\ wine' = wine
      /\ shm' = shm /\ gave' = gave
  BY DEF Clap!Respond
<1>2. /\ ClapGiven /\ ClapAnswer(wine) /\ ClapPorts /\ data \in ClapHostData
      /\ IsClapObject(wine) /\ IsClapObject(native) /\ BufferInv
  BY <1>1 DEF ClapInv
<1>3. /\ native'.outputs = [p \in DOMAIN wine.outputs |->
                              [native.outputs[p] EXCEPT !.mask = wine.outputs[p].mask]]
      /\ native'.out_events = wine.out_events /\ IsClapObject(native)'
  BY <1>2 DEF Clap!Respond, IsClapObject
<1>4. DOMAIN native'.outputs = DOMAIN data.outputs
  BY <1>2, <1>3 DEF ClapGiven
<1>5. ASSUME NEW p \in DOMAIN data.outputs
      PROVE  /\ native'.outputs[p] =
                  [channels |-> Clap!Smaller(OutChannels[p], data.outputs[p].channels),
                   type |-> native'.outputs[p].type, mask |-> native'.outputs[p].mask]
             /\ native'.outputs[p].type = native.outputs[p].type
             /\ native'.outputs[p].channels = native.outputs[p].channels
             /\ native'.outputs[p].mask = wine.outputs[p].mask
  <2>1. native.outputs[p] =
          [channels |-> Clap!Smaller(OutChannels[p], data.outputs[p].channels),
           type |-> native.outputs[p].type, mask |-> native.outputs[p].mask]
    BY <1>2, Zenon DEF ClapPorts
  <2>2. native'.outputs[p] = [native.outputs[p] EXCEPT !.mask = wine.outputs[p].mask]
    BY <1>2, <1>3 DEF ClapGiven
  <2> QED
    BY <2>1, <2>2
<1>6. ClapPorts'
  <2>1. \A p \in DOMAIN data.outputs : data.outputs[p].channels > 0 =>
          native'.outputs[p].type = data.outputs[p].type
    BY <1>2, <1>5 DEF ClapPorts
  <2> QED
    BY <1>1, <1>4, <1>5, <2>1, Zenon DEF ClapPorts
<1>7. ClapAnswer(native)'
  <2>1. gave.audio = [p \in DOMAIN data.outputs |->
                        [c \in 1 .. native'.outputs[p].channels |-> shm.out[p][c]]]
    BY <1>2, <1>5 DEF ClapAnswer
  <2>2. gave.mask = [p \in DOMAIN data.outputs |-> native'.outputs[p].mask]
    BY <1>2, <1>5 DEF ClapAnswer
  <2>3. native'.out_events = Clap!EventList(gave.events)
    BY <1>2, <1>3, Zenon DEF ClapAnswer
  <2> QED
    BY <1>1, <2>1, <2>2, <2>3, Zenon DEF ClapAnswer
<1>8. BufferInv' /\ IsClapObject(wine)'
  BY <1>1, <1>2 DEF BufferInv, IsClapObject
<1>9. ~(phase' = "idle") /\ ~(phase' = "sent") /\ ~(phase' = "processing")
      /\ ~(phase' = "responding") /\ ~(phase' = "returned")
  BY <1>1
<1> QED
  BY <1>1, <1>2, <1>3, <1>6, <1>7, <1>8, <1>9, Zenon
     DEF ClapInv, Clap!PluginSeesThisCycle, Clap!HostGetsThisCycle

\* write_back_outputs() gives it to the host, in the types of the host.
LEMMA ClapWriteBackStep ==
  ASSUME ClapInv, Clap!WriteBack
  PROVE  ClapInv'
<1>1. /\ phase = "writing" /\ phase' = "returned" /\ data' = data /\ wine' = wine
      /\ native' = native /\ shm' = shm /\ gave' = gave
      /\ got' = [audio |-> [p \in DOMAIN data.outputs |->
                              SubSeq(shm.out[p], 1, native.outputs[p].channels)],
                 type |-> [p \in DOMAIN data.outputs |-> native.outputs[p].type],
                 mask |-> [p \in DOMAIN data.outputs |-> native.outputs[p].mask],
                 events |-> native.out_events]
  BY DEF Clap!WriteBack
<1>2. /\ ClapAnswer(native) /\ ClapPorts /\ data \in ClapHostData
      /\ IsClapObject(wine) /\ IsClapObject(native) /\ BufferInv
  BY <1>1 DEF ClapInv
<1>3. /\ \A p \in DOMAIN OutChannels : OutChannels[p] \in Nat
      /\ Clap!IsProcess(data)
  BY <1>2, CycleAssumption DEF Clap!DataAssumption
<1>4. got'.audio = gave.audio
  <2>1. ASSUME NEW p \in DOMAIN data.outputs
        PROVE  SubSeq(shm.out[p], 1, native.outputs[p].channels) =
               [c \in 1 .. native.outputs[p].channels |-> shm.out[p][c]]
    <3>1. PICK x, n, k : x = shm.out[p] /\ n = OutChannels[p] /\ k = native.outputs[p].channels
      OBVIOUS
    <3>2. p \in DOMAIN OutChannels /\ n \in Nat /\ data.outputs[p].channels \in Nat
      BY <1>3, <3>1 DEF Clap!IsProcess
    <3>3. k = Clap!Smaller(n, data.outputs[p].channels)
      <4>1. native.outputs[p] =
              [channels |-> Clap!Smaller(OutChannels[p], data.outputs[p].channels),
               type |-> native.outputs[p].type, mask |-> native.outputs[p].mask]
        BY <1>2, Zenon DEF ClapPorts
      <4>2. native.outputs[p].channels = Clap!Smaller(OutChannels[p], data.outputs[p].channels)
        BY <4>1
      <4> QED
        BY <3>1, <4>2, Zenon
    <3>4. k \in Nat /\ k <= n
      BY <3>2, <3>3, ClapSmaller
    <3>5. x = [c \in 1 .. n |-> x[c]]
      BY <1>2, <3>1, <3>2 DEF BufferInv
    <3>6. IsStart(SubSeq(x, 1, k), x, k)
      BY <3>2, <3>4, <3>5, PrefixOfTuple, Zenon
    <3> QED
      BY <3>1, <3>6, Zenon DEF IsStart
  <2>2. gave.audio = [p \in DOMAIN data.outputs |->
                        [c \in 1 .. native.outputs[p].channels |-> shm.out[p][c]]]
    BY <1>2 DEF ClapAnswer
  <2>3. got'.audio = [p \in DOMAIN data.outputs |->
                        SubSeq(shm.out[p], 1, native.outputs[p].channels)]
    BY <1>1
  <2> QED
    BY <2>1, <2>2, <2>3
<1>5. got'.mask = gave.mask /\ got'.events = Clap!EventList(gave.events)
  <2>1. got'.mask = [p \in DOMAIN data.outputs |-> native.outputs[p].mask]
        /\ got'.events = native.out_events
    BY <1>1
  <2> QED
    BY <1>2, <2>1, Zenon DEF ClapAnswer
<1>6. \A p \in DOMAIN data.outputs : data.outputs[p].channels > 0 =>
        got'.type[p] = data.outputs[p].type
  <2>1. got'.type = [p \in DOMAIN data.outputs |-> native.outputs[p].type]
    BY <1>1
  <2> QED
    BY <1>2, <2>1 DEF ClapPorts
<1>7. Clap!HostGetsThisCycle'
  BY <1>1, <1>4, <1>5, <1>6, Zenon DEF Clap!HostGetsThisCycle
<1>8. BufferInv' /\ IsClapObject(wine)' /\ IsClapObject(native)'
  BY <1>1, <1>2 DEF BufferInv, IsClapObject
<1>9. ~(phase' = "idle") /\ ~(phase' = "sent") /\ ~(phase' = "processing")
      /\ ~(phase' = "responding") /\ ~(phase' = "writing")
  BY <1>1
<1>10. ~(phase' \in {"sent", "processing", "responding", "writing"})
  BY <1>1
<1> QED
  BY <1>1, <1>2, <1>7, <1>8, <1>9, <1>10, Zenon DEF ClapInv, Clap!PluginSeesThisCycle

\* Each step of a CLAP cycle keeps its invariant.
LEMMA ClapStep ==
  ASSUME ClapInv, Clap!Next
  PROVE  ClapInv'
BY ClapProcessStep, ClapReceiveStep, ClapPluginStep, ClapRespondStep, ClapWriteBackStep
   DEF Clap!Next

-----------------------------------------------------------------------------
(* The theorems.                                                           *)

\* A step that changes nothing keeps the invariant.
LEMMA CycleStutters ==
  ASSUME CycleInv, UNCHANGED cycleVars
  PROVE  CycleInv'
<1>1. /\ format' = format /\ phase' = phase /\ data' = data /\ native' = native
      /\ wine' = wine /\ shm' = shm /\ seen' = seen /\ gave' = gave /\ got' = got
  BY DEF cycleVars
<1>2. /\ BufferInv => BufferInv'
      /\ IsVst3Object(native) => IsVst3Object(native)'
      /\ IsVst3Object(wine) => IsVst3Object(wine)'
      /\ IsClapObject(native) => IsClapObject(native)'
      /\ IsClapObject(wine) => IsClapObject(wine)'
  BY <1>1 DEF BufferInv, IsVst3Object, IsClapObject
<1>3. /\ Vst3Buses(native) => Vst3Buses(native)'
      /\ Vst3Buses(wine) => Vst3Buses(wine)'
  BY <1>1 DEF Vst3Buses
<1>4. Vst3Sent => Vst3Sent'
  BY <1>1, <1>3, Zenon DEF Vst3Sent
<1>5. Vst3Processing => Vst3Processing'
  BY <1>1, <1>3, Zenon DEF Vst3Processing
<1>6. /\ Vst3Answer(wine) => Vst3Answer(wine)'
      /\ Vst3Answer(native) => Vst3Answer(native)'
  BY <1>1, <1>3, Zenon DEF Vst3Answer
<1>7. /\ Vst3!PluginSeesThisCycle => Vst3!PluginSeesThisCycle'
      /\ Vst3!HostGetsThisCycle => Vst3!HostGetsThisCycle'
  BY <1>1, Zenon DEF Vst3!PluginSeesThisCycle, Vst3!HostGetsThisCycle
<1>8. Vst3Inv => Vst3Inv'
  BY <1>1, <1>2, <1>4, <1>5, <1>6, <1>7, Zenon DEF Vst3Inv
<1>9. (ClapPorts => ClapPorts') /\ (ClapGiven => ClapGiven')
  BY <1>1, Zenon DEF ClapPorts, ClapGiven
<1>10. Clap!ExtraChannels(data)' <=> Clap!ExtraChannels(data)
  BY <1>1, Zenon DEF Clap!ExtraChannels
<1>11. ClapSent => ClapSent'
  BY <1>1, <1>10, Zenon DEF ClapSent
<1>12. /\ ClapAnswer(wine) => ClapAnswer(wine)'
       /\ ClapAnswer(native) => ClapAnswer(native)'
  BY <1>1, Zenon DEF ClapAnswer
<1>13. /\ Clap!PluginSeesThisCycle => Clap!PluginSeesThisCycle'
       /\ Clap!HostGetsThisCycle => Clap!HostGetsThisCycle'
  BY <1>1, <1>10, Zenon
     DEF Clap!PluginSeesThisCycle, Clap!HostGetsThisCycle, Clap!InputChannels,
         Clap!OutputChannels
<1>14. ClapInv => ClapInv'
  BY <1>1, <1>2, <1>9, <1>11, <1>12, <1>13, Zenon DEF ClapInv
<1> QED
  BY <1>1, <1>8, <1>14, Zenon DEF CycleInv

\* Every step keeps the invariant, in either format.
LEMMA CycleStep ==
  ASSUME CycleInv, [Next]_cycleVars
  PROVE  CycleInv'
<1>1. CASE format = "vst3" /\ Vst3!Next /\ format' = format
  BY <1>1, Vst3Step, Zenon DEF CycleInv
<1>2. CASE format = "clap" /\ Clap!Next /\ format' = format
  <2>1. format # "vst3" /\ format' # "vst3"
    BY <1>2
  <2> QED
    BY <1>2, <2>1, ClapStep, Zenon DEF CycleInv
<1>3. CASE UNCHANGED cycleVars
  BY <1>3, CycleStutters
<1> QED
  BY <1>1, <1>2, <1>3, Zenon DEF Next

\* It holds initially, in either format.
LEMMA CycleInitially ==
  ASSUME Init
  PROVE  CycleInv
<1>1. CASE format = "vst3" /\ Vst3!Init
  BY <1>1, Vst3Initially, Zenon DEF CycleInv
<1>2. CASE format = "clap" /\ Clap!Init
  <2>1. format # "vst3"
    BY <1>2
  <2> QED
    BY <1>2, <2>1, ClapInitially, Zenon DEF CycleInv
<1> QED
  BY <1>1, <1>2 DEF Init

\* The inductive invariant holds of every reachable state, for any number of buses
\* the plugin announces, channels, events and cycles.
THEOREM CycleInvariant == Spec => []CycleInv
BY CycleInitially, CycleStep, PTL DEF Spec

\* repopulate() and reconstruct() fill kept objects so that nothing of an earlier
\* cycle is seen by the plugin, and all of this one is: for hosts with no more buses
\* or ports than the plugin has announced, and in CLAP for the audio of hosts with no
\* more channels on any port either.  The code has no such luck with others: a bus
\* more reads beyond the table of offsets (audio-shm.h:143-149), a channel more
\* overwrites audio (clap/process.cpp:76).
THEOREM PluginsSeeTheirCycle == Spec => []PluginSeesThisCycle
<1>1. CycleInv => PluginSeesThisCycle
  BY Zenon DEF CycleInv, Vst3Inv, ClapInv, PluginSeesThisCycle
<1> QED
  BY <1>1, CycleInvariant, PTL

\* create_response() and write_back_outputs() hand on the output of this cycle,
\* whole, once and in order, the points of a parameter from however many queues, to
\* hosts with no more buses or ports than the plugin has announced, however many
\* channels they have.
THEOREM HostsGetTheirCycle == Spec => []HostGetsThisCycle
<1>1. CycleInv => HostGetsThisCycle
  BY Zenon DEF CycleInv, Vst3Inv, ClapInv, HostGetsThisCycle
<1> QED
  BY <1>1, CycleInvariant, PTL

=============================================================================

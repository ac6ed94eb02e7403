-------------------------- MODULE SerialWireProofs --------------------------
(***************************************************************************)
(* SerialWire.tla for any plugin, parameters, values and blocks: WireInv   *)
(* is an inductive invariant, and every step implements one of             *)
(* FrameLink.tla or stutters.  On the way, what the encoders write the     *)
(* readers read, for frames of any size; FlattenSeq and the drain loop,    *)
(* which are recursive, are unfolded by an induction over sets (NatInd).   *)
(*                                                                         *)
(* An equation is often given a name (IsU32At, Associate, SameBytes ...)   *)
(* by which the lemma that states it can be cited.                         *)
(***************************************************************************)
EXTENDS SerialWire, WellFoundedInduction, SequenceTheorems, TLAPS

-----------------------------------------------------------------------------
(* Induction over the naturals, for sets.                                  *)

\* The order of the naturals is well founded.
LEMMA NatOrder ==
  \E R : IsWellFoundedOn(R, Nat) /\ \A m, n \in Nat : <<m, n>> \in R <=> m < n
<1>1. \A m, n \in Nat : <<m, n>> \in OpToRel(<, Nat) <=> m < n
  BY DEF OpToRel
<1>2. IsWellFoundedOn(OpToRel(<, Nat), Nat)
  BY NatLessThanWellFounded, Zenon
<1> QED
  BY <1>1, <1>2, Zenon

\* A non-empty set of naturals has a least element.
LEMMA NatLeast ==
  ASSUME NEW T \in SUBSET Nat, T # {}
  PROVE  \E n \in T : \A m \in T : n <= m
<1>1. PICK R : IsWellFoundedOn(R, Nat) /\ \A m, n \in Nat : <<m, n>> \in R <=> m < n
  BY NatOrder
<1>2. PICK n \in T : \A m \in T : ~ (<<m, n>> \in R)
  <2>1. T \subseteq Nat /\ IsWellFoundedOn(R, Nat)
    BY <1>1
  <2> HIDE <1>1
  <2>2. \E x \in T : \A y \in T : ~ (<<y, x>> \in R)
    BY <2>1, WFMin
  <2> QED
    BY <2>2
<1>3. n \in Nat /\ \A m \in T : m \in Nat
  OBVIOUS
<1>4. \A m \in T : ~(m < n)
  BY <1>1, <1>2, <1>3, Zenon
<1> QED
  BY <1>3, <1>4

\* A set that holds 0 and the successor of each of its naturals holds them all.
LEMMA NatInd ==
  ASSUME NEW S, 0 \in S, \A n \in Nat : n \in S => n + 1 \in S
  PROVE  Nat \subseteq S
<1> SUFFICES ASSUME Nat \ S # {} PROVE FALSE
  OBVIOUS
<1>1. PICK n \in Nat \ S : \A m \in Nat \ S : n <= m
  BY NatLeast
<1>2. n # 0 /\ n - 1 \in Nat /\ n - 1 \in S
  BY <1>1
<1>3. n - 1 + 1 \in S /\ n - 1 + 1 = n
  BY <1>2
<1> QED
  BY <1>3

-----------------------------------------------------------------------------
(* FlattenSeq: its recursive function exists, and what it computes.        *)

\* `f' is the recursive function inside FlattenSeq.
Joined(f, seqs) ==
  f = [i \in 1 .. Len(seqs) |-> IF i = 1 THEN seqs[i] ELSE f[i - 1] \o seqs[i]]

\* The recursive function inside FlattenSeq exists.
LEMMA JoinedExists ==
  ASSUME NEW seqs, Len(seqs) \in Nat
  PROVE  \E f : Joined(f, seqs)
<1> DEFINE J(f, n) == f = [i \in 1 .. n |-> IF i = 1 THEN seqs[i] ELSE f[i - 1] \o seqs[i]]
           S == {n \in Nat : \E f : J(f, n)}
<1>1. 0 \in S
  <2> DEFINE e == [i \in 1 .. 0 |-> 0]
  <2>1. e = [i \in 1 .. 0 |-> IF i = 1 THEN seqs[i] ELSE e[i - 1] \o seqs[i]]
    OBVIOUS
  <2> QED
    BY <2>1
<1>2. ASSUME NEW n \in Nat, n \in S
      PROVE  n + 1 \in S
  <2>1. PICK f : J(f, n)
    BY <1>2
  <2> DEFINE last == IF n = 0 THEN seqs[1] ELSE f[n] \o seqs[n + 1]
             g == [i \in 1 .. n + 1 |-> IF i = n + 1 THEN last ELSE f[i]]
  <2>2. ASSUME NEW i \in 1 .. n + 1
        PROVE  g[i] = IF i = 1 THEN seqs[i] ELSE g[i - 1] \o seqs[i]
    <3>1. CASE i = n + 1 /\ n = 0
      BY <3>1
    <3>2. CASE i = n + 1 /\ n # 0
      <4>1. g[i] = f[n] \o seqs[n + 1]
        BY <3>2
      <4>2. n \in 1 .. n + 1 /\ n # n + 1 /\ i - 1 = n /\ i # 1
        BY <3>2
      <4>3. g[n] = f[n]
        BY <4>2
      <4> QED
        BY <4>1, <4>2, <4>3, <3>2
    <3>3. CASE i # n + 1
      <4>1. i \in 1 .. n /\ g[i] = f[i]
        BY <3>3
      <4>2. f[i] = [j \in 1 .. n |-> IF j = 1 THEN seqs[j] ELSE f[j - 1] \o seqs[j]][i]
        BY <2>1, Zenon
      <4>3. f[i] = IF i = 1 THEN seqs[i] ELSE f[i - 1] \o seqs[i]
        BY <4>1, <4>2
      <4>4. i # 1 => i - 1 \in 1 .. n + 1 /\ i - 1 # n + 1
        BY <4>1
      <4>5. i # 1 => g[i - 1] = f[i - 1]
        BY <4>4
      <4> QED
        BY <4>1, <4>3, <4>5, Zenon
    <3> QED
      BY <3>1, <3>2, <3>3
  <2>3. g = [i \in 1 .. n + 1 |-> g[i]]
    OBVIOUS
  <2> HIDE DEF g
  <2>4. J(g, n + 1)
    BY <2>2, <2>3, Zenon
  <2>5. n + 1 \in Nat
    OBVIOUS
  <2> QED
    BY <2>4, <2>5, Zenon
<1> HIDE DEF S
<1>3. Nat \subseteq S
  BY <1>1, <1>2, NatInd
<1> QED
  BY <1>3 DEF S, Joined

\* ... and obeys its definition at every index.
LEMMA JoinedAt ==
  ASSUME NEW f, NEW seqs, Len(seqs) \in Nat, Joined(f, seqs), NEW i \in 1 .. Len(seqs)
  PROVE  f[i] = IF i = 1 THEN seqs[1] ELSE f[i - 1] \o seqs[i]
<1>1. f[i] = [j \in 1 .. Len(seqs) |-> IF j = 1 THEN seqs[j] ELSE f[j - 1] \o seqs[j]][i]
  BY Zenon DEF Joined
<1> QED
  BY <1>1

\* The value of FlattenSeq is that function at the last index.
LEMMA FlattenIsJoined ==
  ASSUME NEW seqs, Len(seqs) \in Nat, Len(seqs) # 0
  PROVE  \E f : Joined(f, seqs) /\ FlattenSeq(seqs) = f[Len(seqs)]
<1>1. \E f : f = [i \in 1 .. Len(seqs) |-> IF i = 1 THEN seqs[i] ELSE f[i - 1] \o seqs[i]]
  BY JoinedExists DEF Joined
<1>2. \E f : /\ f = [i \in 1 .. Len(seqs) |-> IF i = 1 THEN seqs[i] ELSE f[i - 1] \o seqs[i]]
             /\ FlattenSeq(seqs) = f[Len(seqs)]
  BY <1>1, Zenon DEF FlattenSeq
<1> QED
  BY <1>2 DEF Joined

\* Nothing flattened is nothing.
LEMMA FlattenEmpty ==
  ASSUME NEW seqs, Len(seqs) = 0 PROVE FlattenSeq(seqs) = seqs
BY Zenon DEF FlattenSeq

\* Its values are sequences of the same elements.
LEMMA JoinedType ==
  ASSUME NEW T, NEW seqs \in Seq(Seq(T)), NEW f, Joined(f, seqs)
  PROVE  \A i \in 1 .. Len(seqs) : f[i] \in Seq(T)
<1> DEFINE S == {n \in Nat : n \in 1 .. Len(seqs) => f[n] \in Seq(T)}
<1>0. Len(seqs) \in Nat /\ \A i \in 1 .. Len(seqs) : seqs[i] \in Seq(T)
  BY LenProperties, ElementOfSeq
<1>1. 0 \in S
  OBVIOUS
<1>2. ASSUME NEW n \in Nat, n \in S
      PROVE  n + 1 \in S
  <2> SUFFICES ASSUME n + 1 \in 1 .. Len(seqs) PROVE f[n + 1] \in Seq(T)
    OBVIOUS
  <2>1. f[n + 1] = IF n + 1 = 1 THEN seqs[1] ELSE f[n + 1 - 1] \o seqs[n + 1]
    BY JoinedAt, <1>0
  <2>2. CASE n = 0
    BY <2>1, <2>2, <1>0
  <2>3. CASE n # 0
    <3>1. f[n] \in Seq(T) /\ seqs[n + 1] \in Seq(T) /\ n + 1 # 1 /\ n + 1 - 1 = n
      BY <1>0, <1>2, <2>3
    <3> QED
      BY <2>1, <3>1, ConcatProperties
  <2> QED
    BY <2>2, <2>3
<1> HIDE DEF S
<1>3. Nat \subseteq S
  BY <1>1, <1>2, NatInd
<1> QED
  BY <1>3, <1>0 DEF S

\* Flattening gives a sequence of the same elements.
LEMMA FlattenType ==
  ASSUME NEW T, NEW seqs \in Seq(Seq(T))
  PROVE  FlattenSeq(seqs) \in Seq(T)
<1>0. Len(seqs) \in Nat
  OBVIOUS
<1>1. CASE Len(seqs) = 0
  <2>1. seqs = <<>> /\ FlattenSeq(seqs) = seqs
    BY <1>1, FlattenEmpty
  <2>2. <<>> \in Seq(T)
    OBVIOUS
  <2> QED
    BY <2>1, <2>2, Zenon
<1>2. CASE Len(seqs) # 0
  <2>1. PICK f : Joined(f, seqs) /\ FlattenSeq(seqs) = f[Len(seqs)]
    BY <1>0, <1>2, FlattenIsJoined
  <2>2. \A i \in 1 .. Len(seqs) : f[i] \in Seq(T)
    BY <2>1, JoinedType
  <2>3. Len(seqs) \in 1 .. Len(seqs)
    BY <1>0, <1>2
  <2> QED
    BY <2>1, <2>2, <2>3
<1> QED
  BY <1>1, <1>2

\* Two sequences that agree up to k are flattened alike up to k.
LEMMA JoinedAgree ==
  ASSUME NEW s, NEW t, NEW f, NEW g, Len(s) \in Nat, Len(t) \in Nat,
         Joined(f, s), Joined(g, t), NEW k \in Nat, k <= Len(s), k <= Len(t),
         \A i \in 1 .. k : s[i] = t[i]
  PROVE  \A i \in 1 .. k : f[i] = g[i]
<1> DEFINE S == {n \in Nat : n \in 1 .. k => f[n] = g[n]}
<1>1. 0 \in S
  OBVIOUS
<1>2. ASSUME NEW n \in Nat, n \in S
      PROVE  n + 1 \in S
  <2> SUFFICES ASSUME n + 1 \in 1 .. k PROVE f[n + 1] = g[n + 1]
    OBVIOUS
  <2>0. n + 1 \in 1 .. Len(s) /\ n + 1 \in 1 .. Len(t) /\ n + 1 - 1 = n /\ s[n + 1] = t[n + 1]
    OBVIOUS
  <2>1. f[n + 1] = IF n + 1 = 1 THEN s[1] ELSE f[n + 1 - 1] \o s[n + 1]
    BY JoinedAt, <2>0
  <2>2. g[n + 1] = IF n + 1 = 1 THEN t[1] ELSE g[n + 1 - 1] \o t[n + 1]
    BY JoinedAt, <2>0
  <2>3. CASE n = 0
    BY <2>0, <2>1, <2>2, <2>3
  <2>4. CASE n # 0
    <3>1. f[n] = g[n] /\ n + 1 # 1
      BY <1>2, <2>4
    <3> QED
      BY <2>0, <2>1, <2>2, <3>1, Zenon
  <2> QED
    BY <2>3, <2>4
<1> HIDE DEF S
<1>3. Nat \subseteq S
  BY <1>1, <1>2, NatInd
<1> QED
  BY <1>3 DEF S

\* One sequence more is one sequence more at the end.
LEMMA FlattenMore ==
  ASSUME NEW s, NEW t, Len(s) \in Nat, Len(s) # 0, Len(t) = Len(s) + 1,
         \A i \in 1 .. Len(s) : t[i] = s[i]
  PROVE  FlattenSeq(t) = FlattenSeq(s) \o t[Len(t)]
<1>1. PICK f : Joined(f, s) /\ FlattenSeq(s) = f[Len(s)]
  BY FlattenIsJoined
<1>2. PICK g : Joined(g, t) /\ FlattenSeq(t) = g[Len(t)]
  BY FlattenIsJoined
<1>3. \A i \in 1 .. Len(s) : s[i] = t[i]
  OBVIOUS
<1>4. Len(s) <= Len(s) /\ Len(s) <= Len(t) /\ Len(t) \in Nat
  OBVIOUS
<1>5. \A i \in 1 .. Len(s) : f[i] = g[i]
  BY <1>1, <1>2, <1>3, <1>4, JoinedAgree
<1>6. g[Len(t)] = IF Len(t) = 1 THEN t[1] ELSE g[Len(t) - 1] \o t[Len(t)]
  BY <1>2, JoinedAt
<1>7. Len(t) # 1 /\ Len(t) - 1 = Len(s) /\ f[Len(s)] = g[Len(s)]
  BY <1>5
<1> QED
  BY <1>1, <1>2, <1>6, <1>7

\* One sequence flattened is that sequence.
LEMMA FlattenOne ==
  ASSUME NEW s, Len(s) = 1
  PROVE  FlattenSeq(s) = s[1]
<1>0. Len(s) \in Nat /\ Len(s) # 0 /\ 1 \in 1 .. Len(s)
  OBVIOUS
<1>1. PICK f : Joined(f, s) /\ FlattenSeq(s) = f[Len(s)]
  BY <1>0, FlattenIsJoined
<1>2. f[1] = IF 1 = 1 THEN s[1] ELSE f[1 - 1] \o s[1]
  BY <1>0, <1>1, JoinedAt
<1> QED
  BY <1>1, <1>2

\* The same for Append.
LEMMA FlattenAppend ==
  ASSUME NEW T, NEW seqs \in Seq(Seq(T)), NEW x \in Seq(T)
  PROVE  FlattenSeq(Append(seqs, x)) = FlattenSeq(seqs) \o x
<1>1. PICK more : more = Append(seqs, x)
  OBVIOUS
<1>2. /\ Len(seqs) \in Nat /\ Len(more) = Len(seqs) + 1 /\ more[Len(seqs) + 1] = x
      /\ \A i \in 1 .. Len(seqs) : more[i] = seqs[i]
  BY <1>1, AppendProperties
<1>3. CASE Len(seqs) = 0
  <2>1. seqs = <<>> /\ FlattenSeq(seqs) = seqs
    BY <1>3, FlattenEmpty
  <2>2. <<>> \o x = x
    OBVIOUS
  <2>3. FlattenSeq(more) = x
    BY <1>2, <1>3, FlattenOne
  <2> QED
    BY <1>1, <2>1, <2>2, <2>3, Zenon
<1>4. CASE Len(seqs) # 0
  BY <1>1, <1>2, <1>4, FlattenMore
<1> QED
  BY <1>3, <1>4

Associate(a, b, c) == (a \o b) \o c = a \o (b \o c)

\* Concatenation is associative.
LEMMA Associative ==
  ASSUME NEW T, NEW a \in Seq(T), NEW b \in Seq(T), NEW c \in Seq(T)
  PROVE  Associate(a, b, c)
BY DEF Associate

\* Flattening distributes over concatenation.
LEMMA FlattenConcat ==
  ASSUME NEW T, NEW s \in Seq(Seq(T)), NEW t \in Seq(Seq(T))
  PROVE  FlattenSeq(s \o t) = FlattenSeq(s) \o FlattenSeq(t)
<1> DEFINE S == {n \in Nat : \A u \in Seq(Seq(T)) :
                   Len(u) = n => FlattenSeq(s \o u) = FlattenSeq(s) \o FlattenSeq(u)}
<1>1. 0 \in S
  <2> SUFFICES ASSUME NEW u \in Seq(Seq(T)), Len(u) = 0
               PROVE  FlattenSeq(s \o u) = FlattenSeq(s) \o FlattenSeq(u)
    OBVIOUS
  <2>1. u = <<>> /\ FlattenSeq(u) = u /\ s \o u = s
    BY FlattenEmpty, ConcatEmptySeq
  <2>2. FlattenSeq(s) \in Seq(T)
    BY FlattenType
  <2>3. FlattenSeq(s) \o <<>> = FlattenSeq(s)
    BY <2>2, ConcatEmptySeq
  <2> QED
    BY <2>1, <2>3
<1>2. ASSUME NEW n \in Nat, n \in S
      PROVE  n + 1 \in S
  <2> SUFFICES ASSUME NEW u \in Seq(Seq(T)), Len(u) = n + 1
               PROVE  FlattenSeq(s \o u) = FlattenSeq(s) \o FlattenSeq(u)
    OBVIOUS
  <2>1. u # <<>>
    BY EmptySeq
  <2>2. PICK v \in Seq(Seq(T)), x \in Seq(T) : u = Append(v, x)
    BY <2>1, SequenceEmptyOrAppend
  <2>3. Len(v) = n
    BY <2>2, AppendProperties
  <2>4. FlattenSeq(s \o v) = FlattenSeq(s) \o FlattenSeq(v)
    BY <2>3, <1>2
  <2>5. s \o u = Append(s \o v, x) /\ s \o v \in Seq(Seq(T))
    <3>1. /\ u = v \o <<x>> /\ <<x>> \in Seq(Seq(T))
          /\ s \o v \in Seq(Seq(T))
      BY <2>2, AppendIsConcat, ConcatProperties
    <3>2. (s \o v) \o <<x>> = s \o (v \o <<x>>)
      BY <3>1
    <3>3. Append(s \o v, x) = (s \o v) \o <<x>>
      BY <3>1, AppendIsConcat
    <3> QED
      BY <3>1, <3>2, <3>3
  <2>6. FlattenSeq(s \o u) = FlattenSeq(s \o v) \o x
    BY <2>5, FlattenAppend
  <2>7. FlattenSeq(u) = FlattenSeq(v) \o x
    BY <2>2, FlattenAppend
  <2>8. FlattenSeq(s) \in Seq(T) /\ FlattenSeq(v) \in Seq(T)
    BY FlattenType
  <2>9. Associate(FlattenSeq(s), FlattenSeq(v), x)
    BY <2>2, <2>8, Associative, Zenon
  <2> QED
    BY <2>4, <2>6, <2>7, <2>9, Zenon DEF Associate
<1> HIDE DEF S
<1>3. Nat \subseteq S
  BY <1>1, <1>2, NatInd
<1>4. Len(t) \in S
  BY <1>3
<1> QED
  BY <1>4 DEF S

\* Pieces of one length: where each is found.
LEMMA Place ==
  ASSUME NEW n \in Nat, NEW k \in Nat, NEW i \in 1 .. n, NEW j \in 1 .. k
  PROVE  (i - 1) * k + j \in 1 .. n * k
<1>1. (i - 1) * k >= 0 /\ i * k <= n * k /\ i * k = (i - 1) * k + k
  <2>1. i - 1 \in Nat /\ n - i \in Nat
    OBVIOUS
  <2>2. (i - 1) * k >= 0 /\ (n - i) * k >= 0
    BY <2>1
  <2>3. (n - i) * k = n * k - i * k /\ i * k = (i - 1) * k + k
    OBVIOUS
  <2>4. i * k \in Nat /\ n * k \in Nat /\ (i - 1) * k \in Nat
    BY <2>1
  <2> QED
    BY <2>2, <2>3, <2>4
<1>2. (i - 1) * k \in Nat /\ i * k \in Nat /\ n * k \in Nat
  OBVIOUS
<1> QED
  BY <1>1, <1>2

\* ConcatProperties, as a predicate.
Glued(a, b) ==
  /\ Len(a \o b) = Len(a) + Len(b)
  /\ \A p \in 1 .. Len(a) + Len(b) :
       (a \o b)[p] = IF p <= Len(a) THEN a[p] ELSE b[p - Len(a)]

\* Concatenation is what Glued says.
LEMMA GluedConcat ==
  ASSUME NEW T, NEW a \in Seq(T), NEW b \in Seq(T)
  PROVE  Glued(a, b)
BY ConcatProperties DEF Glued

\* Every piece of length k is where it should be.
Even(seqs, k) ==
  /\ Len(FlattenSeq(seqs)) = Len(seqs) * k
  /\ \A i \in 1 .. Len(seqs), j \in 1 .. k : FlattenSeq(seqs)[(i - 1) * k + j] = seqs[i][j]

\* One more piece of the same length keeps the pieces in place.
LEMMA EvenAppend ==
  ASSUME NEW T, NEW k \in Nat, NEW v \in Seq(Seq(T)), NEW x \in Seq(T), Len(x) = k,
         Even(v, k)
  PROVE  Even(Append(v, x), k)
<1>1. PICK u, n, g : u = Append(v, x) /\ n = Len(v) /\ g = FlattenSeq(v)
  OBVIOUS
<1>2. FlattenSeq(u) = g \o x /\ g \in Seq(T)
  BY <1>1, FlattenAppend, FlattenType
<1>3. /\ n \in Nat /\ Len(u) = n + 1 /\ u[n + 1] = x
      /\ \A i \in 1 .. n : u[i] = v[i]
  BY <1>1, AppendProperties
<1>4. Len(g) = n * k /\ \A i \in 1 .. n, j \in 1 .. k : g[(i - 1) * k + j] = v[i][j]
  BY <1>1 DEF Even
<1>5. PICK w \in Nat : w = n * k /\ (n + 1) * k = w + k
  BY <1>3
<1>6. /\ Len(g \o x) = w + k
      /\ \A p \in 1 .. w + k : (g \o x)[p] = IF p <= w THEN g[p] ELSE x[p - w]
  <2>1. Glued(g, x)
    BY <1>2, GluedConcat, Zenon
  <2> QED
    BY <1>4, <1>5, <2>1, Zenon DEF Glued
<1>7. ASSUME NEW i \in 1 .. n + 1, NEW j \in 1 .. k
      PROVE  (g \o x)[(i - 1) * k + j] = u[i][j]
  <2>1. CASE i \in 1 .. n
    <3>1. PICK p : p = (i - 1) * k + j /\ p \in 1 .. w
      BY <1>3, <1>5, <2>1, Place
    <3>2. (g \o x)[p] = g[p]
      BY <1>5, <1>6, <3>1
    <3> QED
      BY <1>3, <1>4, <2>1, <3>1, <3>2
  <2>2. CASE i = n + 1
    <3>1. (i - 1) * k + j = w + j
      BY <1>3, <1>5, <2>2
    <3>2. w + j \in 1 .. w + k /\ ~(w + j <= w) /\ w + j - w = j
      BY <1>5
    <3> QED
      BY <1>3, <1>6, <2>2, <3>1, <3>2
  <2>3. i \in 1 .. n \/ i = n + 1
    BY <1>3
  <2> QED
    BY <2>1, <2>2, <2>3
<1>8. Len(u) = n + 1 /\ FlattenSeq(u) = g \o x
  BY <1>2, <1>3
<1>9. Even(u, k)
  <2>1. Len(FlattenSeq(u)) = Len(u) * k
    BY <1>5, <1>6, <1>8
  <2>2. \A i \in 1 .. Len(u), j \in 1 .. k : FlattenSeq(u)[(i - 1) * k + j] = u[i][j]
    BY <1>7, <1>8
  <2> QED
    BY <2>1, <2>2, Zenon DEF Even
<1> QED
  BY <1>1, <1>9

\* Pieces of length k are found at the multiples of k.
LEMMA FlattenEven ==
  ASSUME NEW T, NEW k \in Nat, NEW seqs \in Seq(Seq(T)),
         \A i \in 1 .. Len(seqs) : Len(seqs[i]) = k
  PROVE  Even(seqs, k)
<1> DEFINE S == {n \in Nat : \A u \in Seq(Seq(T)) :
                   Len(u) = n /\ (\A i \in 1 .. n : Len(u[i]) = k) => Even(u, k)}
<1>1. 0 \in S
  <2> SUFFICES ASSUME NEW u \in Seq(Seq(T)), Len(u) = 0
               PROVE  Even(u, k)
    OBVIOUS
  <2>1. FlattenSeq(u) = u /\ 0 * k = 0 /\ 1 .. Len(u) = {}
    BY FlattenEmpty
  <2> QED
    BY <2>1 DEF Even
<1>2. ASSUME NEW n \in Nat, n \in S
      PROVE  n + 1 \in S
  <2> SUFFICES ASSUME NEW u \in Seq(Seq(T)), Len(u) = n + 1,
                      \A i \in 1 .. n + 1 : Len(u[i]) = k
               PROVE  Even(u, k)
    OBVIOUS
  <2>1. u # <<>>
    BY EmptySeq
  <2>2. PICK v \in Seq(Seq(T)), x \in Seq(T) : u = Append(v, x)
    BY <2>1, SequenceEmptyOrAppend
  <2>3. Len(v) = n /\ u[n + 1] = x /\ \A i \in 1 .. n : u[i] = v[i]
    BY <2>2, AppendProperties
  <2>4. Len(x) = k /\ \A i \in 1 .. n : Len(v[i]) = k
    BY <2>3
  <2>5. Even(v, k)
    BY <1>2, <2>2, <2>3, <2>4
  <2> QED
    BY <2>2, <2>4, <2>5, EvenAppend
<1> HIDE DEF S
<1>3. Nat \subseteq S
  BY <1>1, <1>2, NatInd
<1>4. Len(seqs) \in S
  BY <1>3
<1> QED
  BY <1>4 DEF S

-----------------------------------------------------------------------------
(* Fields of a frame.                                                      *)

\* `buf' has the bytes of `s' at offset `off'.
Holds(buf, off, s) ==
  /\ off + Len(s) <= Len(buf)
  /\ \A i \in 1 .. Len(s) : buf[off + i] = s[i]

\* Both parts of a concatenation are where they should be.
LEMMA HoldsConcat ==
  ASSUME NEW T, NEW a \in Seq(T), NEW b \in Seq(T)
  PROVE  /\ a \o b \in Seq(T)
         /\ Holds(a \o b, 0, a)
         /\ Holds(a \o b, Len(a), b)
         /\ \A off \in Nat, s \in Seq(T) : Holds(a, off, s) => Holds(a \o b, off, s)
<1> USE DEF Holds
<1>1. a \o b \in Seq(T) /\ Len(a \o b) = Len(a) + Len(b)
  OBVIOUS
<1>2. Holds(a \o b, 0, a)
  OBVIOUS
<1>3. Holds(a \o b, Len(a), b)
  OBVIOUS
<1>4. ASSUME NEW off \in Nat, NEW s \in Seq(T), Holds(a, off, s)
      PROVE  Holds(a \o b, off, s)
  <2>1. off + Len(s) <= Len(a \o b)
    BY <1>1, <1>4
  <2>2. ASSUME NEW i \in 1 .. Len(s)
        PROVE  (a \o b)[off + i] = s[i]
    <3>1. off + i \in 1 .. Len(a) /\ a[off + i] = s[i]
      BY <1>4
    <3> QED
      BY <3>1
  <2> QED
    BY <2>1, <2>2
<1> QED
  BY <1>1, <1>2, <1>3, <1>4

\* Without the tag everything is one byte earlier.
LEMMA HoldsTail ==
  ASSUME NEW T, NEW buf \in Seq(T), NEW off \in Nat, NEW s \in Seq(T),
         Holds(buf, off + 1, s)
  PROVE  Holds(Tail(buf), off, s)
BY DEF Holds

\* A beginning holds the fields that end in it.
LEMMA HoldsPrefix ==
  ASSUME NEW T, NEW buf \in Seq(T), NEW f \in Seq(T), NEW off \in Nat, NEW s \in Seq(T),
         \A i \in 1 .. Len(buf) : buf[i] = f[i],
         Holds(f, off, s), off + Len(s) <= Len(buf)
  PROVE  Holds(buf, off, s)
BY DEF Holds

IsBytesAt(buf, off, s) == BytesAt(buf, off, Len(s)) = s

\* BytesAt reads the bytes that are there.
LEMMA HoldsBytes ==
  ASSUME NEW T, NEW buf \in Seq(T), NEW off \in Nat, NEW s \in Seq(T), Holds(buf, off, s)
  PROVE  IsBytesAt(buf, off, s)
<1>1. \A i \in off + 1 .. off + Len(s) : buf[i] \in T
  BY DEF Holds
<1>2. /\ BytesAt(buf, off, Len(s)) \in Seq(T) /\ Len(BytesAt(buf, off, Len(s))) = Len(s)
      /\ \A i \in 1 .. Len(s) : BytesAt(buf, off, Len(s))[i] = buf[off + i]
  <2>1. PICK b : b = SubSeq(buf, off + 1, off + Len(s))
    OBVIOUS
  <2>2. /\ b \in Seq(T)
        /\ Len(b) = IF off + 1 <= off + Len(s) THEN off + Len(s) - (off + 1) + 1 ELSE 0
        /\ \A i \in 1 .. off + Len(s) - (off + 1) + 1 : b[i] = buf[off + 1 + i - 1]
    BY <1>1, <2>1, SubSeqProperties
  <2>3. Len(s) \in Nat /\ off + Len(s) - (off + 1) + 1 = Len(s)
    OBVIOUS
  <2>4. \A i \in 1 .. Len(s) : off + 1 + i - 1 = off + i
    OBVIOUS
  <2>5. \A i \in 1 .. Len(s) : b[i] = buf[off + i]
    BY <2>2, <2>3, <2>4
  <2>6. Len(b) = Len(s)
    BY <2>2, <2>3
  <2> QED
    BY <2>1, <2>2, <2>5, <2>6 DEF BytesAt
<1> QED
  BY <1>2, SeqEqual DEF Holds, IsBytesAt

\* A number is written as four bytes.
LEMMA U32BytesType ==
  ASSUME NEW n \in Nat
  PROVE  U32Bytes(n) \in Seq(Byte) /\ Len(U32Bytes(n)) = 4
<1>1. /\ n % 256 \in Byte /\ (n \div 256) % 256 \in Byte
      /\ (n \div 65536) % 256 \in Byte /\ (n \div 16777216) % 256 \in Byte
  BY DEF Byte
<1> QED
  BY <1>1 DEF U32Bytes

IsU32At(buf, off, n) == U32At(buf, off) = n

\* U32At reads the number U32Bytes wrote.
LEMMA HoldsU32 ==
  ASSUME NEW buf \in Seq(Byte), NEW off \in Nat, NEW n \in U32, Holds(buf, off, U32Bytes(n))
  PROVE  IsU32At(buf, off, n)
<1>1. n \in Nat /\ n \div 16777216 < 256
  BY DEF U32
<1>2. n = (n % 256) + 256 * ((n \div 256) % 256)
            + 65536 * ((n \div 65536) % 256) + 16777216 * ((n \div 16777216) % 256)
  BY <1>1
<1>3. Len(U32Bytes(n)) = 4
  BY <1>1, U32BytesType
<1>4. /\ U32Bytes(n)[1] = n % 256 /\ U32Bytes(n)[2] = (n \div 256) % 256
      /\ U32Bytes(n)[3] = (n \div 65536) % 256 /\ U32Bytes(n)[4] = (n \div 16777216) % 256
  BY DEF U32Bytes
<1>5. \A i \in 1 .. 4 : buf[off + i] = U32Bytes(n)[i]
  BY <1>3 DEF Holds
<1> QED
  BY <1>2, <1>4, <1>5 DEF U32At, IsU32At

\* U32At reads a number of 32 bits, whatever is there.
LEMMA U32AtType ==
  ASSUME NEW buf \in Seq(Byte), NEW off \in Nat, off + 4 <= Len(buf)
  PROVE  U32At(buf, off) \in U32
<1>1. \A i \in 1 .. 4 : buf[off + i] \in 0 .. 255
  <2> SUFFICES ASSUME NEW i \in 1 .. 4 PROVE buf[off + i] \in 0 .. 255
    OBVIOUS
  <2>1. off + i \in 1 .. Len(buf)
    OBVIOUS
  <2> QED
    BY <2>1, ElementOfSeq DEF Byte
<1>3. PICK a, b, c, d \in 0 .. 255 :
        buf[off + 1] = a /\ buf[off + 2] = b /\ buf[off + 3] = c /\ buf[off + 4] = d
  <2>1. 1 \in 1 .. 4 /\ 2 \in 1 .. 4 /\ 3 \in 1 .. 4 /\ 4 \in 1 .. 4
    OBVIOUS
  <2> QED
    BY <1>1, <2>1, Zenon
<1>4. U32At(buf, off) = a + 256 * b + 65536 * c + 16777216 * d
  BY <1>3 DEF U32At
<1>5. PICK n : n = a + 256 * b + 65536 * c + 16777216 * d
  OBVIOUS
<1>6. n \in Nat /\ n \div 16777216 < 256
  BY <1>5
<1> QED
  BY <1>4, <1>5, <1>6 DEF U32

-----------------------------------------------------------------------------
(* Audio: samples, channels and blocks as bytes.                           *)

\* A function on 1 .. n is a sequence.
LEMMA TupleIsSeq ==
  ASSUME NEW T, NEW n \in Nat, NEW x \in [1 .. n -> T]
  PROVE  x \in Seq(T) /\ Len(x) = n
<1>1. x \in Seq(T)
  <2>1. [1 .. n -> T] \in {[1 .. m -> T] : m \in Nat}
    OBVIOUS
  <2>2. x \in UNION {[1 .. m -> T] : m \in Nat}
    BY <2>1, Zenon
  <2> QED
    BY <2>2, SeqDef, Zenon
<1>2. DOMAIN x = 1 .. Len(x) /\ Len(x) \in Nat
  BY <1>1, LenProperties
<1>3. DOMAIN x = 1 .. n
  OBVIOUS
<1>4. 1 .. Len(x) = 1 .. n
  BY <1>2, <1>3
<1> QED
  BY <1>1, <1>2, <1>4

\* Samples and doubles are sequences of bytes.
LEMMA SampleIsSeq ==
  /\ \A x \in Sample : x \in Seq(Byte) /\ Len(x) = 4
  /\ \A x \in Double : x \in Seq(Byte) /\ Len(x) = 8
<1>1. 4 \in Nat /\ 8 \in Nat
  OBVIOUS
<1> QED
  BY <1>1, TupleIsSeq DEF Sample, Double

\* What holds within a part holds within the whole.
LEMMA HoldsWithin ==
  ASSUME NEW T, NEW a \in Seq(T), NEW b \in Seq(T), NEW c \in Seq(T), NEW m \in Nat, NEW n \in Nat,
         Holds(a, m, b), Holds(b, n, c)
  PROVE  Holds(a, m + n, c)
<1>1. m + n + Len(c) <= Len(a)
  BY DEF Holds
<1>2. ASSUME NEW i \in 1 .. Len(c)
      PROVE  a[m + n + i] = c[i]
  <2>1. n + i \in 1 .. Len(b) /\ m + (n + i) = m + n + i
    BY DEF Holds
  <2>2. a[m + (n + i)] = b[n + i] /\ b[n + i] = c[i]
    BY <2>1 DEF Holds
  <2> QED
    BY <2>1, <2>2
<1> QED
  BY <1>1, <1>2 DEF Holds

\* FlattenEven, in terms of Holds.
LEMMA EvenHolds ==
  ASSUME NEW T, NEW k \in Nat, NEW seqs \in Seq(Seq(T)),
         \A i \in 1 .. Len(seqs) : Len(seqs[i]) = k
  PROVE  /\ Len(FlattenSeq(seqs)) = Len(seqs) * k
         /\ \A i \in 1 .. Len(seqs) : Holds(FlattenSeq(seqs), (i - 1) * k, seqs[i])
<1>1. Even(seqs, k)
  BY FlattenEven
<1>0. Len(seqs) \in Nat
  BY LenProperties
<1>2. PICK f, n : f = FlattenSeq(seqs) /\ n = Len(seqs) /\ n \in Nat
  BY <1>0
<1>3. Len(f) = n * k /\ \A i \in 1 .. n, j \in 1 .. k : f[(i - 1) * k + j] = seqs[i][j]
  BY <1>1, <1>2, Zenon DEF Even
<1>4. ASSUME NEW i \in 1 .. n
      PROVE  Holds(f, (i - 1) * k, seqs[i])
  <2>1. Len(seqs[i]) = k
    BY <1>2
  <2>2. (i - 1) * k + k <= n * k
    <3>1. i - 1 \in Nat /\ n - i \in Nat
      BY <1>2
    <3>2. (n - i) * k >= 0 /\ (n - i) * k = n * k - i * k /\ i * k = (i - 1) * k + k
      <4>1. n - i \in Nat => (n - i) * k >= 0
        OBVIOUS
      <4>2. n \in Nat /\ i \in Nat
        BY <1>2
      <4>3. \A p, q \in Nat : (p - q) * k = p * k - q * k /\ q * k = (q - 1) * k + k
        OBVIOUS
      <4> QED
        BY <3>1, <4>1, <4>2, <4>3
    <3>3. i * k \in Nat /\ n * k \in Nat /\ (i - 1) * k \in Nat
      BY <1>2, <3>1
    <3> QED
      BY <3>2, <3>3
  <2> QED
    BY <1>3, <2>1, <2>2 DEF Holds
<1> QED
  BY <1>2, <1>3, <1>4

\* A channel of samples.
LEMMA ChannelBytes ==
  ASSUME NEW ch \in Seq(Sample)
  PROVE  /\ FlattenSeq(ch) \in Seq(Byte)
         /\ Len(FlattenSeq(ch)) = Len(ch) * 4
         /\ \A i \in 1 .. Len(ch) : Holds(FlattenSeq(ch), (i - 1) * 4, ch[i])
<1>1. ch \in Seq(Seq(Byte))
  <2>1. Sample \subseteq Seq(Byte)
    BY SampleIsSeq
  <2> QED
    BY <2>1, SeqMonotonic
<1>2. \A i \in 1 .. Len(ch) : Len(ch[i]) = 4
  BY SampleIsSeq, ElementOfSeq
<1>3. FlattenSeq(ch) \in Seq(Byte)
  BY <1>1, FlattenType
<1>4. 4 \in Nat
  OBVIOUS
<1> QED
  BY <1>1, <1>2, <1>3, <1>4, EvenHolds, Zenon

IsPieces(bytes, pieces) == Pieces(bytes, 4) = pieces

\* Pieces takes a channel apart as it was put together.
LEMMA PiecesOfChannel ==
  ASSUME NEW ch \in Seq(Sample)
  PROVE  IsPieces(FlattenSeq(ch), ch)
<1>1. PICK f \in Seq(Byte) : f = FlattenSeq(ch)
  BY ChannelBytes
<1>2. Len(f) = Len(ch) * 4 /\ \A i \in 1 .. Len(ch) : Holds(f, (i - 1) * 4, ch[i])
  BY <1>1, ChannelBytes
<1>3. ASSUME NEW i \in 1 .. Len(ch)
      PROVE  BytesAt(f, (i - 1) * 4, 4) = ch[i]
  <2>1. ch[i] \in Seq(Byte) /\ Len(ch[i]) = 4 /\ (i - 1) * 4 \in Nat
    BY SampleIsSeq, ElementOfSeq
  <2>2. IsBytesAt(f, (i - 1) * 4, ch[i])
    BY <1>2, <2>1, HoldsBytes
  <2> QED
    BY <2>1, <2>2 DEF IsBytesAt
<1>4. Len(f) \div 4 = Len(ch)
  BY <1>2
<1>5. Pieces(f, 4) = [i \in 1 .. Len(ch) |-> ch[i]]
  BY <1>3, <1>4 DEF Pieces
<1>6. ch = [i \in 1 .. Len(ch) |-> ch[i]]
  OBVIOUS
<1> QED
  BY <1>1, <1>5, <1>6 DEF IsPieces

Payload(block) == FlattenSeq([c \in DOMAIN block |-> FlattenSeq(block[c])])

\* The audio of a block: its length, and where each channel is.
LEMMA PayloadBytes ==
  ASSUME NEW block \in Seq(Seq(Sample)), NEW n \in Nat,
         \A c \in 1 .. Len(block) : Len(block[c]) = n
  PROVE  /\ Payload(block) \in Seq(Byte)
         /\ Len(Payload(block)) = Len(block) * (n * 4)
         /\ \A c \in 1 .. Len(block) : Holds(Payload(block), (c - 1) * (n * 4), FlattenSeq(block[c]))
<1>1. PICK rows : rows = [c \in DOMAIN block |-> FlattenSeq(block[c])]
  OBVIOUS
<1>2. \A c \in 1 .. Len(block) : /\ FlattenSeq(block[c]) \in Seq(Byte)
                                 /\ Len(FlattenSeq(block[c])) = n * 4
  BY ChannelBytes, ElementOfSeq
<1>3. Len(block) \in Nat /\ DOMAIN block = 1 .. Len(block)
  BY LenProperties
<1>4. rows \in [1 .. Len(block) -> Seq(Byte)]
  BY <1>1, <1>2, <1>3
<1>5. rows \in Seq(Seq(Byte)) /\ Len(rows) = Len(block)
  BY <1>3, <1>4, TupleIsSeq
<1>6. \A c \in 1 .. Len(rows) : rows[c] = FlattenSeq(block[c]) /\ Len(rows[c]) = n * 4
  BY <1>1, <1>2, <1>3, <1>5
<1>7. n * 4 \in Nat
  OBVIOUS
<1>8. /\ Len(FlattenSeq(rows)) = Len(rows) * (n * 4)
      /\ \A c \in 1 .. Len(rows) : Holds(FlattenSeq(rows), (c - 1) * (n * 4), rows[c])
  BY <1>5, <1>6, <1>7, EvenHolds
<1>9. FlattenSeq(rows) \in Seq(Byte)
  BY <1>5, FlattenType
<1>10. Payload(block) = FlattenSeq(rows)
  BY <1>1 DEF Payload
<1> QED
  BY <1>5, <1>6, <1>8, <1>9, <1>10

\* A block as the page sends it: every channel as long as the first.
Padded(block) ==
  [c \in DOMAIN block |->
     [i \in 1 .. SampleCount(block) |-> IF i <= Len(block[c]) THEN block[c][i] ELSE F32Zero]]

\* Silence is a sample.
LEMMA ZeroIsSample == F32Zero \in Sample
<1>1. 0 \in Byte
  BY DEF Byte
<1> QED
  BY <1>1 DEF F32Zero, Sample

\* Padding gives every channel the length of the first.
LEMMA PaddedBlock ==
  ASSUME NEW block \in Seq(Seq(Sample)), SampleCount(block) \in Nat
  PROVE  /\ Padded(block) \in Seq(Seq(Sample)) /\ Len(Padded(block)) = Len(block)
         /\ \A c \in 1 .. Len(block) : Len(Padded(block)[c]) = SampleCount(block)
<1>1. PICK n \in Nat : n = SampleCount(block)
  OBVIOUS
<1>2. Len(block) \in Nat /\ DOMAIN block = 1 .. Len(block)
  BY LenProperties
<1>3. ASSUME NEW c \in 1 .. Len(block)
      PROVE  Padded(block)[c] \in Seq(Sample) /\ Len(Padded(block)[c]) = n
  <2>1. Padded(block)[c] = [i \in 1 .. n |-> IF i <= Len(block[c]) THEN block[c][i] ELSE F32Zero]
    BY <1>1, <1>2 DEF Padded
  <2>2. block[c] \in Seq(Sample)
    BY ElementOfSeq
  <2>3. \A i \in 1 .. n : i <= Len(block[c]) => block[c][i] \in Sample
    BY <2>2
  <2>4. Padded(block)[c] \in [1 .. n -> Sample]
    BY <2>1, <2>3, ZeroIsSample
  <2> QED
    BY <2>4, TupleIsSeq
<1>4. Padded(block) = [c \in 1 .. Len(block) |-> Padded(block)[c]]
  BY <1>2 DEF Padded
<1>5. Padded(block) \in [1 .. Len(block) -> Seq(Sample)]
  BY <1>3, <1>4
<1>6. Padded(block) \in Seq(Seq(Sample)) /\ Len(Padded(block)) = Len(block)
  BY <1>2, <1>5, TupleIsSeq
<1> QED
  BY <1>1, <1>3, <1>6

-----------------------------------------------------------------------------
(* Frames: the fields of each, where they are.                             *)

\* Frame `f' consists of these parts, in this order.
TwoParts(f, a, b) ==
  /\ f \in Seq(Byte) /\ Len(f) = Len(a) + Len(b)
  /\ Holds(f, 0, a) /\ Holds(f, Len(a), b)
  /\ \A off \in Nat, s \in Seq(Byte) : Holds(a, off, s) => Holds(f, off, s)

\* Two parts joined.
LEMMA Two ==
  ASSUME NEW a \in Seq(Byte), NEW b \in Seq(Byte)
  PROVE  TwoParts(a \o b, a, b)
<1>1. Len(a \o b) = Len(a) + Len(b)
  OBVIOUS
<1> QED
  BY <1>1, HoldsConcat DEF TwoParts

ThreeParts(f, a, b, c) ==
  /\ f \in Seq(Byte) /\ Len(f) = Len(a) + Len(b) + Len(c)
  /\ Holds(f, 0, a) /\ Holds(f, Len(a), b) /\ Holds(f, Len(a) + Len(b), c)

\* Three parts joined.
LEMMA Three ==
  ASSUME NEW a \in Seq(Byte), NEW b \in Seq(Byte), NEW c \in Seq(Byte)
  PROVE  ThreeParts(a \o b \o c, a, b, c)
<1>1. PICK g : g = a \o b
  OBVIOUS
<1>2. /\ g \in Seq(Byte) /\ Len(g) = Len(a) + Len(b)
      /\ Holds(g, 0, a) /\ Holds(g, Len(a), b)
  BY <1>1, HoldsConcat
<1>3. PICK f : f = g \o c
  OBVIOUS
<1>4. /\ f \in Seq(Byte) /\ Len(f) = Len(g) + Len(c) /\ Holds(f, Len(g), c)
      /\ \A off \in Nat, s \in Seq(Byte) : Holds(g, off, s) => Holds(f, off, s)
  <2>1. TwoParts(g \o c, g, c)
    BY <1>2, Two, Zenon
  <2> QED
    BY <1>3, <2>1 DEF TwoParts
<1>5. Holds(f, 0, a) /\ Holds(f, Len(a), b)
  <2>1. 0 \in Nat /\ Len(a) \in Nat
    OBVIOUS
  <2> QED
    BY <1>2, <1>4, <2>1
<1> QED
  BY <1>1, <1>2, <1>3, <1>4, <1>5 DEF ThreeParts

FiveParts(f, a, b, c, d, e) ==
  /\ f \in Seq(Byte) /\ Len(f) = Len(a) + Len(b) + Len(c) + Len(d) + Len(e)
  /\ Holds(f, 0, a) /\ Holds(f, Len(a), b) /\ Holds(f, Len(a) + Len(b), c)
  /\ Holds(f, Len(a) + Len(b) + Len(c), d) /\ Holds(f, Len(a) + Len(b) + Len(c) + Len(d), e)

\* Five parts joined.
LEMMA Five ==
  ASSUME NEW a \in Seq(Byte), NEW b \in Seq(Byte), NEW c \in Seq(Byte), NEW d \in Seq(Byte),
         NEW e \in Seq(Byte)
  PROVE  FiveParts(a \o b \o c \o d \o e, a, b, c, d, e)
<1>1. PICK g : g = a \o b \o c
  OBVIOUS
<1>2. ThreeParts(g, a, b, c)
  BY <1>1, Three
<1>3. PICK f : f = g \o d \o e
  OBVIOUS
<1>4. ThreeParts(f, g, d, e)
  <2>1. g \in Seq(Byte)
    BY <1>2 DEF ThreeParts
  <2>2. ThreeParts(g \o d \o e, g, d, e)
    BY <2>1, Three, Zenon
  <2> QED
    BY <1>3, <2>2, Zenon
<1>5. PICK l, m, n, o, p \in Nat :
        l = Len(a) /\ m = Len(b) /\ n = Len(c) /\ o = Len(d) /\ p = Len(e)
  OBVIOUS
<1>6. Len(g) = l + m + n /\ Len(f) = l + m + n + o + p
  BY <1>2, <1>4, <1>5 DEF ThreeParts
<1>7. Holds(f, l + m + n, d) /\ Holds(f, l + m + n + o, e) /\ Holds(f, 0, g)
  BY <1>4, <1>5, <1>6 DEF ThreeParts
<1>8. Holds(f, 0, a) /\ Holds(f, l, b) /\ Holds(f, l + m, c)
  <2>1. \A off \in Nat, s \in Seq(Byte) : Holds(g, off, s) => Holds(f, 0 + off, s)
    BY <1>2, <1>4, <1>7, HoldsWithin DEF ThreeParts
  <2>2. \A off \in Nat, s \in Seq(Byte) : Holds(g, off, s) => Holds(f, off, s)
    BY <2>1
  <2>3. Holds(g, 0, a) /\ Holds(g, l, b) /\ Holds(g, l + m, c)
    BY <1>2, <1>5 DEF ThreeParts
  <2>4. 0 \in Nat /\ l \in Nat /\ l + m \in Nat
    BY <1>5
  <2> QED
    BY <2>2, <2>3, <2>4
<1>9. f \in Seq(Byte)
  BY <1>4 DEF ThreeParts
<1>10. FiveParts(f, a, b, c, d, e)
  BY <1>5, <1>6, <1>7, <1>8, <1>9 DEF FiveParts
<1>11. f = a \o b \o c \o d \o e
  BY <1>1, <1>3, Zenon
<1> QED
  BY <1>10, <1>11, Zenon

-----------------------------------------------------------------------------
(* What the host reads.                                                    *)

\* `body' is what follows the tag of frame `f' in the stream.
InStream(body, f) ==
  /\ body \in Seq(Byte) /\ Len(body) >= Len(f) - 1
  /\ \A off \in Nat, s \in Seq(Byte) : Holds(f, off + 1, s) => Holds(body, off, s)

\* A stream that begins with frame f: its first byte, its body, what follows.
LEMMA Stream ==
  ASSUME NEW f \in Seq(Byte), f # <<>>, NEW rest \in Seq(Byte)
  PROVE  /\ f \o rest \in Seq(Byte) /\ f \o rest # <<>> /\ (f \o rest)[1] = f[1]
         /\ InStream(Tail(f \o rest), f)
         /\ SubSeq(f \o rest, Len(f) + 1, Len(f \o rest)) = rest
<1>1. PICK d : d = f \o rest
  OBVIOUS
<1>2. /\ d \in Seq(Byte) /\ Len(d) = Len(f) + Len(rest) /\ d # <<>> /\ d[1] = f[1]
      /\ Tail(d) \in Seq(Byte) /\ Len(Tail(d)) = Len(d) - 1
  BY <1>1
<1>3. ASSUME NEW off \in Nat, NEW s \in Seq(Byte), Holds(f, off + 1, s)
      PROVE  Holds(Tail(d), off, s)
  <2>1. off + 1 \in Nat
    OBVIOUS
  <2>2. Holds(d, off + 1, s)
    BY <1>1, <1>3, <2>1, Two DEF TwoParts
  <2> QED
    BY <1>2, <2>2, HoldsTail
<1>4. SubSeq(d, Len(f) + 1, Len(d)) = rest
  <2>1. PICK r : r = SubSeq(d, Len(f) + 1, Len(d))
    OBVIOUS
  <2>2. r \in Seq(Byte) /\ Len(r) = Len(rest) /\ \A i \in 1 .. Len(rest) : r[i] = d[Len(f) + i]
    BY <1>2, <2>1
  <2>3. \A i \in 1 .. Len(rest) : d[Len(f) + i] = rest[i]
    BY <1>1
  <2> QED
    BY <2>1, <2>2, <2>3, SeqEqual
<1> QED
  BY <1>1, <1>2, <1>3, <1>4 DEF InStream

\* A buffer that holds a tag at 0 begins with it.
LEMMA HoldsFirst ==
  ASSUME NEW buf \in Seq(Byte), NEW x, Holds(buf, 0, <<x>>)
  PROVE  buf[1] = x /\ buf # <<>>
BY DEF Holds

\* A tag is one byte.
LEMMA TagIsSeq ==
  \A t \in 0 .. 255 : <<t>> \in Seq(Byte) /\ Len(<<t>>) = 1
BY DEF Byte

\* A text is a sequence of bytes.
LEMMA TextIsSeq ==
  ASSUME NEW n \in Nat
  PROVE  Text(n) \in Seq(Byte) /\ Len(Text(n)) = n
<1>1. Text(n) \in [1 .. n -> Byte]
  BY DEF Text, Byte
<1> QED
  BY <1>1, TupleIsSeq

\* read_load_frame_body takes the frame encodeLoad wrote, whole.
LEMMA LoadFrame ==
  ASSUME NEW n \in U32, NEW f, f = encodeLoad(Text(n))
  PROVE  /\ f \in Seq(Byte) /\ f[1] = 1 /\ f # <<>>
         /\ \A body : InStream(body, f) =>
              /\ read_load_frame_body(body).complete
              /\ 1 + read_load_frame_body(body).need = Len(f)
<1>0. n \in Nat
  BY DEF U32
<1>1. PICK p : p = Text(n) /\ p \in Seq(Byte) /\ Len(p) = n
  BY <1>0, TextIsSeq
<1>2. U32Bytes(n) \in Seq(Byte) /\ Len(U32Bytes(n)) = 4
  BY <1>0, U32BytesType
<1>3. <<1>> \in Seq(Byte) /\ Len(<<1>>) = 1
  BY TagIsSeq
<1>4. f = <<1>> \o U32Bytes(n) \o p
  BY <1>1 DEF encodeLoad, FrameTag
<1>5. ThreeParts(f, <<1>>, U32Bytes(n), p)
  BY <1>1, <1>2, <1>3, <1>4, Three
<1>6. f \in Seq(Byte) /\ Len(f) = 1 + 4 + n /\ Holds(f, 0, <<1>>) /\ Holds(f, 1, U32Bytes(n))
  BY <1>1, <1>2, <1>3, <1>5 DEF ThreeParts
<1>7. ASSUME NEW body, InStream(body, f)
      PROVE  /\ read_load_frame_body(body).complete
             /\ 1 + read_load_frame_body(body).need = Len(f)
  <2>1. body \in Seq(Byte) /\ Len(body) >= 4 + n /\ Holds(body, 0, U32Bytes(n))
    <3>1. 0 \in Nat /\ 0 + 1 = 1
      OBVIOUS
    <3> QED
      BY <1>0, <1>2, <1>6, <1>7, <3>1 DEF InStream
  <2>2. U32At(body, 0) = n
    BY <2>1, HoldsU32 DEF IsU32At
  <2> QED
    BY <1>0, <1>6, <2>1, <2>2 DEF read_load_frame_body
<1> QED
  BY <1>6, <1>7, HoldsFirst

\* read_get_param_frame_body reads what encodeGetParam wrote.
LEMMA GetParamFrame ==
  ASSUME NEW id \in U32, NEW f, f = encodeGetParam(id)
  PROVE  /\ f \in Seq(Byte) /\ f[1] = 5 /\ f # <<>>
         /\ \A body : InStream(body, f) =>
              /\ read_get_param_frame_body(body).complete
              /\ 1 + read_get_param_frame_body(body).need = Len(f)
              /\ read_get_param_frame_body(body).id = id
<1>0. id \in Nat
  BY DEF U32
<1>2. U32Bytes(id) \in Seq(Byte) /\ Len(U32Bytes(id)) = 4
  BY <1>0, U32BytesType
<1>3. <<5>> \in Seq(Byte) /\ Len(<<5>>) = 1
  BY TagIsSeq
<1>4. f = <<5>> \o U32Bytes(id)
  BY DEF encodeGetParam, FrameTag
<1>5. TwoParts(f, <<5>>, U32Bytes(id))
  BY <1>2, <1>3, <1>4, Two
<1>6. f \in Seq(Byte) /\ Len(f) = 5 /\ Holds(f, 0, <<5>>) /\ Holds(f, 1, U32Bytes(id))
  BY <1>2, <1>3, <1>5 DEF TwoParts
<1>7. ASSUME NEW body, InStream(body, f)
      PROVE  /\ read_get_param_frame_body(body).complete
             /\ 1 + read_get_param_frame_body(body).need = Len(f)
             /\ read_get_param_frame_body(body).id = id
  <2>1. body \in Seq(Byte) /\ Len(body) >= 4 /\ Holds(body, 0, U32Bytes(id))
    <3>1. 0 \in Nat /\ 0 + 1 = 1
      OBVIOUS
    <3> QED
      BY <1>2, <1>6, <1>7, <3>1 DEF InStream
  <2>2. U32At(body, 0) = id
    BY <2>1, HoldsU32 DEF IsU32At
  <2> QED
    BY <1>6, <2>1, <2>2 DEF read_get_param_frame_body
<1> QED
  BY <1>6, <1>7, HoldsFirst

\* read_set_param_frame_body reads what encodeSetParam wrote.
LEMMA SetParamFrame ==
  ASSUME NEW id \in U32, NEW value \in Double, NEW f, f = encodeSetParam(id, value)
  PROVE  /\ f \in Seq(Byte) /\ f[1] = 4 /\ f # <<>>
         /\ \A body : InStream(body, f) =>
              /\ read_set_param_frame_body(body).complete
              /\ 1 + read_set_param_frame_body(body).need = Len(f)
              /\ read_set_param_frame_body(body).id = id
              /\ read_set_param_frame_body(body).value = value
<1>0. id \in Nat
  BY DEF U32
<1>1. value \in Seq(Byte) /\ Len(value) = 8
  BY SampleIsSeq
<1>2. U32Bytes(id) \in Seq(Byte) /\ Len(U32Bytes(id)) = 4
  BY <1>0, U32BytesType
<1>3. <<4>> \in Seq(Byte) /\ Len(<<4>>) = 1
  BY TagIsSeq
<1>4. f = <<4>> \o U32Bytes(id) \o value
  BY DEF encodeSetParam, FrameTag
<1>5. ThreeParts(f, <<4>>, U32Bytes(id), value)
  BY <1>1, <1>2, <1>3, <1>4, Three
<1>6. /\ f \in Seq(Byte) /\ Len(f) = 13 /\ Holds(f, 0, <<4>>) /\ Holds(f, 1, U32Bytes(id))
      /\ Holds(f, 5, value)
  BY <1>1, <1>2, <1>3, <1>5 DEF ThreeParts
<1>7. ASSUME NEW body, InStream(body, f)
      PROVE  /\ read_set_param_frame_body(body).complete
             /\ 1 + read_set_param_frame_body(body).need = Len(f)
             /\ read_set_param_frame_body(body).id = id
             /\ read_set_param_frame_body(body).value = value
  <2>1. /\ body \in Seq(Byte) /\ Len(body) >= 12 /\ Holds(body, 0, U32Bytes(id))
        /\ Holds(body, 4, value)
    <3>1. 0 \in Nat /\ 0 + 1 = 1 /\ 4 \in Nat /\ 4 + 1 = 5
      OBVIOUS
    <3> QED
      BY <1>1, <1>2, <1>6, <1>7, <3>1 DEF InStream
  <2>2. U32At(body, 0) = id
    BY <2>1, HoldsU32 DEF IsU32At
  <2>3. BytesAt(body, 4, 8) = value
    BY <1>1, <2>1, HoldsBytes DEF IsBytesAt
  <2> QED
    BY <1>6, <2>1, <2>2, <2>3 DEF read_set_param_frame_body
<1> QED
  BY <1>6, <1>7, HoldsFirst

\* The counts of the block fit their fields.
Sendable(block) ==
  /\ block \in Seq(Seq(Sample))
  /\ SampleCount(block) \in U32 /\ Len(block) \in U32
  /\ Len(block) * SampleCount(block) * 4 \in U32

\* encodeProcess, with its padding named.
LEMMA EncodeProcess ==
  ASSUME NEW block \in Seq(Seq(Sample))
  PROVE  encodeProcess(block) =
           <<2>> \o U32Bytes(SampleCount(block)) \o U32Bytes(Len(block))
             \o U32Bytes(Len(block) * SampleCount(block) * 4) \o Payload(Padded(block))
<1>1. DOMAIN Padded(block) = DOMAIN block
  BY DEF Padded
<1> QED
  BY <1>1 DEF encodeProcess, FrameTag, Payload, Padded, SampleCount

\* Sample `s' of channel `c' in the audio of a block whose channels have n samples.
LEMMA SampleInPayload ==
  ASSUME NEW block \in Seq(Seq(Sample)), NEW n \in Nat,
         \A c \in 1 .. Len(block) : Len(block[c]) = n,
         NEW c \in 1 .. Len(block), NEW s \in 1 .. n
  PROVE  \E i \in 1 .. Len(block) * n : /\ i = (c - 1) * n + s
                                        /\ Holds(Payload(block), (i - 1) * 4, block[c][s])
<1>1. block[c] \in Seq(Sample) /\ Len(block[c]) = n /\ Len(block) \in Nat
  BY ElementOfSeq, LenProperties
<1>2. block[c][s] \in Sample
  BY <1>1
<1>3. PICK q, r, x : q = Payload(block) /\ r = FlattenSeq(block[c]) /\ x = block[c][s]
  OBVIOUS
<1>4. /\ q \in Seq(Byte) /\ r \in Seq(Byte) /\ x \in Seq(Byte)
      /\ Holds(q, (c - 1) * (n * 4), r) /\ Holds(r, (s - 1) * 4, x)
  BY <1>1, <1>2, <1>3, PayloadBytes, ChannelBytes, SampleIsSeq
<1>5. (c - 1) * (n * 4) \in Nat /\ (s - 1) * 4 \in Nat
  OBVIOUS
<1>6. Holds(q, (c - 1) * (n * 4) + (s - 1) * 4, x)
  BY <1>4, <1>5, HoldsWithin
<1>7. PICK i : i = (c - 1) * n + s
  OBVIOUS
<1>8. i \in 1 .. Len(block) * n
  BY <1>1, <1>7, Place
<1>9. (c - 1) * (n * 4) + (s - 1) * 4 = (i - 1) * 4
  BY <1>7
<1>10. Holds(q, (i - 1) * 4, x)
  BY <1>6, <1>9, Zenon
<1> QED
  BY <1>3, <1>7, <1>8, <1>10, Zenon

\* read_process_frame_body reads what encodeProcess wrote, sample by sample.
LEMMA ProcessFrame ==
  ASSUME NEW block, Sendable(block), NEW f, f = encodeProcess(block)
  PROVE  /\ f \in Seq(Byte) /\ f[1] = 2 /\ f # <<>>
         /\ \A body : InStream(body, f) =>
              /\ read_process_frame_body(body).complete
              /\ 1 + read_process_frame_body(body).need = Len(f)
              /\ read_process_frame_body(body).sample_count = SampleCount(block)
              /\ read_process_frame_body(body).channel_count = Len(block)
              /\ \A c \in 1 .. Len(block), s \in 1 .. SampleCount(block) :
                   read_process_frame_body(body).samples[(c - 1) * SampleCount(block) + s]
                     = Padded(block)[c][s]
<1>0. PICK n, k, t : n = SampleCount(block) /\ k = Len(block) /\ t = k * n * 4
  OBVIOUS
<1>1. /\ n \in U32 /\ k \in U32 /\ t \in U32 /\ block \in Seq(Seq(Sample))
      /\ n \in Nat /\ k \in Nat /\ t \in Nat
  BY <1>0 DEF Sendable, U32
<1>2. PICK p, q : p = Padded(block) /\ q = Payload(p)
  OBVIOUS
<1>3. p \in Seq(Seq(Sample)) /\ Len(p) = k /\ \A c \in 1 .. k : Len(p[c]) = n
  BY <1>0, <1>1, <1>2, PaddedBlock
<1>4. q \in Seq(Byte) /\ Len(q) = k * (n * 4)
  BY <1>1, <1>2, <1>3, PayloadBytes
<1>5. Len(q) = t
  <2>1. k * (n * 4) = k * n * 4
    BY <1>1
  <2> QED
    BY <1>0, <1>4, <2>1
<1>6. /\ U32Bytes(n) \in Seq(Byte) /\ Len(U32Bytes(n)) = 4
      /\ U32Bytes(k) \in Seq(Byte) /\ Len(U32Bytes(k)) = 4
      /\ U32Bytes(t) \in Seq(Byte) /\ Len(U32Bytes(t)) = 4
      /\ <<2>> \in Seq(Byte) /\ Len(<<2>>) = 1
  BY <1>1, U32BytesType, TagIsSeq
<1>7. FiveParts(f, <<2>>, U32Bytes(n), U32Bytes(k), U32Bytes(t), q)
  <2>1. f = <<2>> \o U32Bytes(n) \o U32Bytes(k) \o U32Bytes(t) \o q
    BY <1>0, <1>1, <1>2, EncodeProcess, Zenon
  <2> QED
    BY <1>4, <1>6, <2>1, Five
<1>8. /\ f \in Seq(Byte) /\ Len(f) = 13 + t /\ Holds(f, 0, <<2>>)
      /\ Holds(f, 1, U32Bytes(n)) /\ Holds(f, 5, U32Bytes(k)) /\ Holds(f, 9, U32Bytes(t))
      /\ Holds(f, 13, q)
  BY <1>1, <1>5, <1>6, <1>7 DEF FiveParts
<1>9. ASSUME NEW body, InStream(body, f)
      PROVE  /\ read_process_frame_body(body).complete
             /\ 1 + read_process_frame_body(body).need = Len(f)
             /\ read_process_frame_body(body).sample_count = n
             /\ read_process_frame_body(body).channel_count = k
             /\ \A c \in 1 .. k, s \in 1 .. n :
                  read_process_frame_body(body).samples[(c - 1) * n + s] = p[c][s]
  <2>1. /\ body \in Seq(Byte) /\ Len(body) >= 12 + t
        /\ Holds(body, 0, U32Bytes(n)) /\ Holds(body, 4, U32Bytes(k))
        /\ Holds(body, 8, U32Bytes(t)) /\ Holds(body, 12, q)
    <3>1. /\ 0 \in Nat /\ 0 + 1 = 1 /\ 4 \in Nat /\ 4 + 1 = 5 /\ 8 \in Nat /\ 8 + 1 = 9
          /\ 12 \in Nat /\ 12 + 1 = 13
      OBVIOUS
    <3> QED
      BY <1>1, <1>4, <1>6, <1>8, <1>9, <3>1 DEF InStream
  <2>2. U32At(body, 0) = n /\ U32At(body, 4) = k /\ U32At(body, 8) = t
    BY <1>1, <2>1, HoldsU32 DEF IsU32At
  <2>3. BytesAt(body, 12, t) = q
    BY <1>4, <1>5, <2>1, HoldsBytes DEF IsBytesAt
  <2>4. read_process_frame_body(body) =
          [complete |-> TRUE, need |-> 12 + t, sample_count |-> n, channel_count |-> k,
           samples |-> Pieces(q, 4)]
    <3>1. ~(Len(body) < 12 \/ Len(body) < 12 + t)
      BY <1>1, <2>1
    <3> QED
      BY <2>2, <2>3, <3>1, Zenon DEF read_process_frame_body
  <2>5. ASSUME NEW c \in 1 .. k, NEW s \in 1 .. n
        PROVE  Pieces(q, 4)[(c - 1) * n + s] = p[c][s]
    <3>1. PICK i \in 1 .. k * n : i = (c - 1) * n + s /\ Holds(q, (i - 1) * 4, p[c][s])
      BY <1>1, <1>2, <1>3, SampleInPayload
    <3>2. p[c][s] \in Seq(Byte) /\ Len(p[c][s]) = 4
      <4>1. p[c] \in Seq(Sample) /\ Len(p[c]) = n
        BY <1>3, ElementOfSeq
      <4> QED
        BY <4>1, SampleIsSeq
    <3>4. PICK w : w = k * n /\ w \in Nat
      BY <1>1
    <3>5. i \in 1 .. w /\ (i - 1) * 4 \in Nat /\ Holds(q, (i - 1) * 4, p[c][s]) /\ Len(q) \div 4 = w
      <4>1. i \in 1 .. w /\ Len(q) = w * 4
        BY <1>0, <1>5, <3>1, <3>4
      <4> QED
        BY <3>1, <3>4, <4>1
    <3>6. Pieces(q, 4)[i] = BytesAt(q, (i - 1) * 4, 4)
      BY <3>5 DEF Pieces
    <3>7. BytesAt(q, (i - 1) * 4, 4) = p[c][s]
      BY <1>4, <3>2, <3>5, HoldsBytes DEF IsBytesAt
    <3> QED
      BY <3>1, <3>6, <3>7
  <2> QED
    BY <1>1, <1>8, <2>4, <2>5
<1> QED
  BY <1>0, <1>2, <1>8, <1>9, HoldsFirst

-----------------------------------------------------------------------------
(* What the page makes of a reply.                                         *)

\* The frame `f' of reply `m' is taken when it is whole and not before.
Drained(m, f) ==
  /\ f \in Seq(Byte) /\ Len(f) >= 9
  /\ \E msg : DrainTurn(f) = Take(Len(f), msg) /\ AsReply(msg) = m
  /\ \A buf \in Seq(Byte) :
       /\ buf # <<>> /\ Len(buf) < Len(f)
       /\ \A i \in 1 .. Len(buf) : buf[i] = f[i]
       => DrainTurn(buf).act \in {"wait", "throw"}

\* The drain loop takes what write_get_param_resp wrote.
LEMMA GetParamRespFrame ==
  ASSUME NEW id \in U32, NEW value \in Double, NEW f, f = write_get_param_resp(id, value)
  PROVE  Drained([type |-> "getParamResp", id |-> id, value |-> value], f)
<1>0. id \in Nat
  BY DEF U32
<1>1. value \in Seq(Byte) /\ Len(value) = 8
  BY SampleIsSeq
<1>2. U32Bytes(id) \in Seq(Byte) /\ Len(U32Bytes(id)) = 4
  BY <1>0, U32BytesType
<1>3. <<6>> \in Seq(Byte) /\ Len(<<6>>) = 1
  BY TagIsSeq
<1>4. f = <<6>> \o U32Bytes(id) \o value
  BY DEF write_get_param_resp, FrameTag
<1>5. ThreeParts(f, <<6>>, U32Bytes(id), value)
  BY <1>1, <1>2, <1>3, <1>4, Three
<1>6. /\ f \in Seq(Byte) /\ Len(f) = 13 /\ Holds(f, 0, <<6>>) /\ Holds(f, 1, U32Bytes(id))
      /\ Holds(f, 5, value)
  BY <1>1, <1>2, <1>3, <1>5 DEF ThreeParts
<1>7. f[1] = 6
  BY <1>6, HoldsFirst
<1>8. U32At(f, 1) = id /\ BytesAt(f, 5, 8) = value
  BY <1>1, <1>6, HoldsU32, HoldsBytes DEF IsU32At, IsBytesAt
<1>9. DrainTurn(f) = Take(13, [type |-> "getParamResp", id |-> id, value |-> value])
  BY <1>6, <1>7, <1>8 DEF DrainTurn, GetParamRespTurn, FrameTag
<1>10. AsReply([type |-> "getParamResp", id |-> id, value |-> value])
         = [type |-> "getParamResp", id |-> id, value |-> value]
  BY DEF AsReply
<1>11. ASSUME NEW buf \in Seq(Byte), buf # <<>>, Len(buf) < Len(f),
              \A i \in 1 .. Len(buf) : buf[i] = f[i]
       PROVE  DrainTurn(buf).act \in {"wait", "throw"}
  <2>1. buf[1] = 6 /\ Len(buf) < 13
    BY <1>6, <1>7, <1>11, EmptySeq
  <2> QED
    BY <2>1 DEF DrainTurn, GetParamRespTurn, FrameTag, Wait
<1> QED
  BY <1>6, <1>9, <1>10, <1>11 DEF Drained

\* The drain loop takes what write_log wrote.
LEMMA LogReplyFrame ==
  ASSUME NEW level \in Byte, NEW a \in U32, NEW b \in U32, NEW m, NEW f,
         m = LogFrame(level, a, b), f = m.bytes
  PROVE  Drained(m, f)
<1>0. a \in Nat /\ b \in Nat
  BY DEF U32
<1>1. PICK s, t : /\ s = Text(a) /\ s \in Seq(Byte) /\ Len(s) = a
                  /\ t = Text(b) /\ t \in Seq(Byte) /\ Len(t) = b
  BY <1>0, TextIsSeq
<1>2. /\ U32Bytes(a) \in Seq(Byte) /\ Len(U32Bytes(a)) = 4
      /\ U32Bytes(b) \in Seq(Byte) /\ Len(U32Bytes(b)) = 4
  BY <1>0, U32BytesType
<1>3. <<7, level>> \in Seq(Byte) /\ Len(<<7, level>>) = 2
  BY DEF Byte
<1>4. f = write_log(level, s, t) /\ m = [type |-> "log", bytes |-> f]
  BY <1>1 DEF LogFrame
<1>5. FiveParts(f, <<7, level>>, U32Bytes(a), s, U32Bytes(b), t)
  <2>1. f = <<7, level>> \o U32Bytes(a) \o s \o U32Bytes(b) \o t
    BY <1>1, <1>4 DEF write_log, FrameTag
  <2>2. FiveParts(<<7, level>> \o U32Bytes(a) \o s \o U32Bytes(b) \o t,
                  <<7, level>>, U32Bytes(a), s, U32Bytes(b), t)
    BY <1>1, <1>2, <1>3, Five, Zenon
  <2> QED
    BY <2>1, <2>2, Zenon
<1>6. /\ f \in Seq(Byte) /\ Len(f) = 10 + a + b /\ Holds(f, 0, <<7, level>>)
      /\ Holds(f, 2, U32Bytes(a)) /\ Holds(f, 6, s) /\ Holds(f, 6 + a, U32Bytes(b))
      /\ Holds(f, 10 + a, t)
  <2>1. 2 + 4 + a = 6 + a /\ 2 + 4 + a + 4 = 10 + a
    BY <1>0
  <2> QED
    BY <1>0, <1>1, <1>2, <1>3, <1>5, <2>1 DEF FiveParts
<1>7. f[1] = 7 /\ f[2] = level
  BY <1>6 DEF Holds
<1>8. /\ U32At(f, 2) = a /\ U32At(f, 6 + a) = b
      /\ BytesAt(f, 6, a) = s /\ BytesAt(f, 10 + a, b) = t
  <2>1. 6 + a \in Nat /\ 10 + a \in Nat
    BY <1>0
  <2>2. IsU32At(f, 2, a) /\ IsU32At(f, 6 + a, b)
    BY <1>6, <2>1, HoldsU32
  <2>3. IsBytesAt(f, 6, s) /\ IsBytesAt(f, 10 + a, t)
    BY <1>1, <1>6, <2>1, HoldsBytes
  <2> QED
    BY <1>1, <2>2, <2>3 DEF IsU32At, IsBytesAt
<1>9. DrainTurn(f) = Take(Len(f), [type |-> "log", level |-> level, subsystem |-> s, message |-> t])
  <2>1. ~(Len(f) < 10) /\ ~(Len(f) < 10 + a) /\ ~(Len(f) < 10 + a + b)
    BY <1>0, <1>6
  <2>2. LogTurn(f) = Take(10 + a + b, [type |-> "log", level |-> level, subsystem |-> s, message |-> t])
    BY <1>7, <1>8, <2>1, Zenon DEF LogTurn
  <2> QED
    BY <1>6, <1>7, <2>2 DEF DrainTurn, FrameTag
<1>10. AsReply([type |-> "log", level |-> level, subsystem |-> s, message |-> t]) = m
  BY <1>4 DEF AsReply
<1>11. ASSUME NEW buf \in Seq(Byte), buf # <<>>, Len(buf) < Len(f),
              \A i \in 1 .. Len(buf) : buf[i] = f[i]
       PROVE  DrainTurn(buf).act \in {"wait", "throw"}
  <2>1. buf[1] = 7
    BY <1>7, <1>11, EmptySeq
  <2>2. DrainTurn(buf) = LogTurn(buf)
    BY <2>1 DEF DrainTurn, FrameTag
  <2>3. CASE Len(buf) < 10
    BY <2>2, <2>3 DEF LogTurn, Wait
  <2>4. CASE ~(Len(buf) < 10)
    <3>1. Holds(buf, 2, U32Bytes(a))
      <4>1. 2 \in Nat /\ 2 + Len(U32Bytes(a)) <= Len(buf)
        BY <1>2, <2>4
      <4> QED
        BY <1>2, <1>6, <1>11, <4>1, HoldsPrefix, Zenon
    <3>2. U32At(buf, 2) = a
      BY <3>1, HoldsU32 DEF IsU32At
    <3>3. CASE Len(buf) < 10 + a
      BY <2>2, <2>4, <3>2, <3>3 DEF LogTurn, Throw
    <3>4. CASE ~(Len(buf) < 10 + a)
      <4>1. Holds(buf, 6 + a, U32Bytes(b)) /\ 6 + a \in Nat
        <5>1. 6 + a \in Nat /\ 6 + a + 4 <= Len(buf)
          BY <1>0, <3>4
        <5> QED
          BY <1>2, <1>6, <1>11, <5>1, HoldsPrefix
      <4>2. U32At(buf, 6 + a) = b
        BY <4>1, HoldsU32 DEF IsU32At
      <4>3. LogTurn(buf) = Wait
        BY <1>6, <1>11, <2>4, <3>2, <3>4, <4>2 DEF LogTurn
      <4> QED
        BY <2>2, <4>3 DEF Wait
    <3> QED
      BY <3>3, <3>4
  <2> QED
    BY <2>3, <2>4
<1>12. Len(f) >= 9
  BY <1>0, <1>6
<1> QED
  BY <1>6, <1>9, <1>10, <1>11, <1>12, Zenon DEF Drained

\* A block the host may answer: its channels have one length.
Rendered ==
  {block \in Seq(Seq(Sample)) :
     /\ SampleCount(block) \in U32 /\ Len(block) \in U32
     /\ \A c \in 1 .. Len(block) : Len(block[c]) = SampleCount(block)}

\* All the bytes of a frame are the frame.
LEMMA SubSeqWhole ==
  ASSUME NEW f \in Seq(Byte)
  PROVE  BytesAt(f, 0, Len(f)) = f
BY SubSeqFull DEF BytesAt

\* The drain loop takes what write_process_resp wrote.
LEMMA ProcessRespFrame ==
  ASSUME NEW block \in Rendered, NEW f,
         f = write_process_resp(SampleCount(block), Len(block), block)
  PROVE  Drained([type |-> "processResp", block |-> block], f)
<1>0. PICK n, k : n = SampleCount(block) /\ k = Len(block)
  OBVIOUS
<1>1. /\ n \in U32 /\ k \in U32 /\ n \in Nat /\ k \in Nat /\ block \in Seq(Seq(Sample))
      /\ \A c \in 1 .. k : Len(block[c]) = n
  BY <1>0 DEF Rendered, U32
<1>2. PICK q : q = Payload(block)
  OBVIOUS
<1>3. /\ q \in Seq(Byte) /\ Len(q) = k * (n * 4)
      /\ \A c \in 1 .. k : Holds(q, (c - 1) * (n * 4), FlattenSeq(block[c]))
  BY <1>0, <1>1, <1>2, PayloadBytes
<1>4. PICK w \in Nat : w = n * k * 4 /\ w = k * (n * 4)
  BY <1>1
<1>5. /\ U32Bytes(n) \in Seq(Byte) /\ Len(U32Bytes(n)) = 4
      /\ U32Bytes(k) \in Seq(Byte) /\ Len(U32Bytes(k)) = 4
      /\ <<3>> \in Seq(Byte) /\ Len(<<3>>) = 1
      /\ <<>> \in Seq(Byte) /\ Len(<<>>) = 0
  BY <1>1, U32BytesType, TagIsSeq, EmptySeq
<1>6. f = <<3>> \o U32Bytes(n) \o U32Bytes(k) \o q
  <2>1. DOMAIN block = 1 .. k
    BY <1>0, <1>1, LenProperties
  <2> QED
    BY <1>0, <1>2, <2>1 DEF write_process_resp, FrameTag, Payload
<1>7. PICK h : h = <<3>> \o U32Bytes(n) \o U32Bytes(k)
  OBVIOUS
<1>8. ThreeParts(h, <<3>>, U32Bytes(n), U32Bytes(k))
  BY <1>5, <1>7, Three
<1>9. h \in Seq(Byte) /\ Len(h) = 9
  BY <1>5, <1>8 DEF ThreeParts
<1>10. TwoParts(f, h, q)
  BY <1>3, <1>6, <1>7, <1>9, Two
<1>11. /\ f \in Seq(Byte) /\ Len(f) = 9 + w /\ Holds(f, 0, <<3>>)
       /\ Holds(f, 1, U32Bytes(n)) /\ Holds(f, 5, U32Bytes(k)) /\ Holds(f, 9, q)
  <2>1. Holds(h, 0, <<3>>) /\ Holds(h, 1, U32Bytes(n)) /\ Holds(h, 5, U32Bytes(k))
    BY <1>5, <1>8 DEF ThreeParts
  <2>2. 0 \in Nat /\ 1 \in Nat /\ 5 \in Nat
    OBVIOUS
  <2> QED
    BY <1>3, <1>4, <1>5, <1>9, <1>10, <2>1, <2>2 DEF TwoParts
<1>12. f[1] = 3
  BY <1>11, HoldsFirst
<1>13. U32At(f, 1) = n /\ U32At(f, 5) = k
  <2>1. 1 \in Nat /\ 5 \in Nat
    OBVIOUS
  <2>2. IsU32At(f, 1, n) /\ IsU32At(f, 5, k)
    BY <1>1, <1>11, <2>1, HoldsU32
  <2> QED
    BY <2>2 DEF IsU32At
<1>14. ASSUME NEW c \in 1 .. k
       PROVE  Pieces(BytesAt(f, 9 + (c - 1) * n * 4, n * 4), 4) = block[c]
  <2>1. block[c] \in Seq(Sample) /\ Len(block[c]) = n
    BY <1>0, <1>1, ElementOfSeq
  <2>2. PICK r \in Seq(Byte) : r = FlattenSeq(block[c]) /\ Len(r) = n * 4
    BY <2>1, ChannelBytes
  <2>3. PICK o \in Nat : o = (c - 1) * (n * 4) /\ 9 + o = 9 + (c - 1) * n * 4
    BY <1>1
  <2>4. Holds(f, 9 + o, r)
    <3>1. 9 \in Nat /\ Holds(q, o, r)
      BY <1>3, <2>2, <2>3
    <3> QED
      BY <1>3, <1>11, <3>1, HoldsWithin
  <2>5. BytesAt(f, 9 + o, n * 4) = r
    <3>1. 9 + o \in Nat
      OBVIOUS
    <3>2. IsBytesAt(f, 9 + o, r)
      BY <1>11, <2>4, <3>1, HoldsBytes, Zenon
    <3> QED
      BY <2>2, <3>2 DEF IsBytesAt
  <2>6. Pieces(r, 4) = block[c]
    BY <2>1, <2>2, PiecesOfChannel DEF IsPieces
  <2> QED
    BY <2>3, <2>5, <2>6
<1>15. decodeProcessResp(f) = [type |-> "processResp", channels |-> block]
  <2>1. block = [c \in 1 .. k |-> block[c]]
    BY <1>0, <1>1
  <2>2. [c \in 1 .. k |-> Pieces(BytesAt(f, 9 + (c - 1) * n * 4, n * 4), 4)]
          = [c \in 1 .. k |-> block[c]]
    BY <1>14, Zenon
  <2> QED
    BY <1>13, <2>1, <2>2, Zenon DEF decodeProcessResp
<1>16. DrainTurn(f) = Take(Len(f), [type |-> "processResp", channels |-> block])
  <2>1. ~(Len(f) < 9) /\ ~(Len(f) < 9 + n * k * 4) /\ 9 + n * k * 4 = Len(f)
    BY <1>4, <1>11
  <2>2. BytesAt(f, 0, Len(f)) = f
    BY <1>11, SubSeqWhole
  <2>3. ProcessRespTurn(f) = Take(Len(f), decodeProcessResp(f))
    BY <1>13, <2>1, <2>2, Zenon DEF ProcessRespTurn
  <2>4. DrainTurn(f) = ProcessRespTurn(f)
    BY <1>12 DEF DrainTurn, FrameTag
  <2> QED
    BY <1>15, <2>3, <2>4, Zenon
<1>17. AsReply([type |-> "processResp", channels |-> block]) = [type |-> "processResp", block |-> block]
  BY DEF AsReply
<1>18. ASSUME NEW buf \in Seq(Byte), buf # <<>>, Len(buf) < Len(f),
              \A i \in 1 .. Len(buf) : buf[i] = f[i]
       PROVE  DrainTurn(buf).act \in {"wait", "throw"}
  <2>1. buf[1] = 3
    BY <1>12, <1>18, EmptySeq
  <2>2. DrainTurn(buf) = ProcessRespTurn(buf)
    BY <2>1 DEF DrainTurn, FrameTag
  <2>3. CASE Len(buf) < 9
    BY <2>2, <2>3 DEF ProcessRespTurn, Wait
  <2>4. CASE ~(Len(buf) < 9)
    <3>1. 1 \in Nat /\ 5 \in Nat /\ 1 + Len(U32Bytes(n)) <= Len(buf) /\ 5 + Len(U32Bytes(k)) <= Len(buf)
      BY <1>5, <2>4
    <3>2. Holds(buf, 1, U32Bytes(n)) /\ Holds(buf, 5, U32Bytes(k))
      BY <1>5, <1>11, <1>18, <3>1, HoldsPrefix, Zenon
    <3>3. U32At(buf, 1) = n /\ U32At(buf, 5) = k
      <4>1. IsU32At(buf, 1, n) /\ IsU32At(buf, 5, k)
        BY <1>1, <3>1, <3>2, HoldsU32
      <4> QED
        BY <4>1 DEF IsU32At
    <3>4. Len(buf) < 9 + n * k * 4
      BY <1>4, <1>11, <1>18
    <3>5. ProcessRespTurn(buf) = Wait
      BY <2>4, <3>3, <3>4, Zenon DEF ProcessRespTurn
    <3> QED
      BY <2>2, <3>5 DEF Wait
  <2> QED
    BY <2>3, <2>4
<1>19. Len(f) >= 9
  BY <1>11
<1> QED
  BY <1>11, <1>16, <1>17, <1>18, <1>19, Zenon DEF Drained

-----------------------------------------------------------------------------
(* The drain loop: every turn that goes on takes bytes away, so the loop   *)
(* has a result for every buffer.                                          *)

\* The loop ends with this turn.
Stops(buf) == DrainTurn(buf).act \in {"wait", "throw"}

\* What a turn that goes on leaves.
Left(buf) == SubSeq(buf, DrainTurn(buf).n + 1, Len(buf))

\* Lengths computed from fields are naturals.
LEMMA U32Product ==
  ASSUME NEW a \in U32, NEW b \in U32
  PROVE  a * b * 4 \in Nat /\ a + b \in Nat
<1>1. a \in Nat /\ b \in Nat
  BY DEF U32
<1>2. a * b \in Nat
  BY <1>1
<1> QED
  BY <1>1, <1>2

\* A turn that goes on takes at least one byte.
LEMMA TurnTakes ==
  ASSUME NEW buf \in Seq(Byte), buf # <<>>, ~Stops(buf)
  PROVE  DrainTurn(buf).n \in Nat /\ DrainTurn(buf).n > 0
<1>0. Len(buf) \in Nat
  OBVIOUS
<1>1. CASE buf[1] = 3
  <2>1. DrainTurn(buf) = ProcessRespTurn(buf)
    BY <1>1 DEF DrainTurn, FrameTag
  <2>2. ~(Len(buf) < 9)
    BY <2>1 DEF ProcessRespTurn, Wait, Stops
  <2>3. U32At(buf, 1) \in U32 /\ U32At(buf, 5) \in U32
    <3>1. 1 \in Nat /\ 5 \in Nat /\ 1 + 4 <= Len(buf) /\ 5 + 4 <= Len(buf)
      BY <2>2
    <3> QED
      BY <3>1, U32AtType
  <2>4. PICK w \in Nat : w = U32At(buf, 1) * U32At(buf, 5) * 4
    BY <2>3, U32Product
  <2>5. DrainTurn(buf).n = 9 + w
    BY <2>1, <2>2, <2>4 DEF ProcessRespTurn, Wait, Take, Stops
  <2> QED
    BY <2>5
<1>2. CASE buf[1] = 6
  <2>1. DrainTurn(buf) = GetParamRespTurn(buf)
    BY <1>2 DEF DrainTurn, FrameTag
  <2> QED
    BY <2>1 DEF GetParamRespTurn, Wait, Take, Stops
<1>3. CASE buf[1] = 7
  <2>1. DrainTurn(buf) = LogTurn(buf)
    BY <1>3 DEF DrainTurn, FrameTag
  <2>2. ~(Len(buf) < 10)
    BY <2>1 DEF LogTurn, Wait, Stops
  <2>3. PICK a \in U32 : a = U32At(buf, 2)
    BY <1>0, <2>2, U32AtType
  <2>4. ~(Len(buf) < 10 + a)
    BY <2>1, <2>2, <2>3 DEF LogTurn, Throw, Stops
  <2>5. PICK b \in U32 : b = U32At(buf, 6 + a)
    <3>1. 6 + a \in Nat /\ 6 + a + 4 <= Len(buf)
      BY <1>0, <2>4 DEF U32
    <3> QED
      BY <3>1, U32AtType
  <2>6. DrainTurn(buf).n = 10 + a + b
    BY <2>1, <2>2, <2>3, <2>4, <2>5 DEF LogTurn, Wait, Take, Stops
  <2> QED
    BY <2>6 DEF U32
<1>4. CASE buf[1] \notin {3, 6, 7}
  BY <1>4 DEF DrainTurn, FrameTag, Skip
<1> QED
  BY <1>1, <1>2, <1>3, <1>4

\* ... so what it leaves is shorter.
LEMMA LeftShorter ==
  ASSUME NEW buf \in Seq(Byte), buf # <<>>, ~Stops(buf)
  PROVE  Left(buf) \in Seq(Byte) /\ Len(Left(buf)) < Len(buf)
<1>1. PICK n \in Nat : n = DrainTurn(buf).n /\ n > 0
  BY TurnTakes
<1>2. Left(buf) = SubSeq(buf, n + 1, Len(buf))
  BY <1>1 DEF Left
<1>3. Len(buf) \in Nat /\ Len(buf) > 0
  BY EmptySeq
<1> QED
  BY <1>1, <1>2, <1>3

\* drainAndDispatch, with `f' for what it does with the bytes it leaves.
DrainStep(f, buf) ==
  IF buf = <<>> THEN [rest |-> buf, out |-> <<>>, threw |-> FALSE]
  ELSE LET turn == DrainTurn(buf)
       IN  IF turn.act \in {"wait", "throw"}
           THEN [rest |-> buf, out |-> <<>>, threw |-> turn.act = "throw"]
           ELSE LET more == f[SubSeq(buf, turn.n + 1, Len(buf))]
                IN  [more EXCEPT !.out = turn.out \o @]

\* A turn uses the result for shorter buffers only.
LEMMA DrainStepLocal ==
  ASSUME NEW f, NEW g, NEW buf \in Seq(Byte),
         \A b \in Seq(Byte) : Len(b) < Len(buf) => f[b] = g[b]
  PROVE  DrainStep(f, buf) = DrainStep(g, buf)
<1>1. CASE buf = <<>> \/ Stops(buf)
  BY <1>1, Zenon DEF DrainStep, Stops
<1>2. CASE ~(buf = <<>> \/ Stops(buf))
  <2>1. Left(buf) \in Seq(Byte) /\ Len(Left(buf)) < Len(buf)
    BY <1>2, LeftShorter
  <2>2. f[Left(buf)] = g[Left(buf)]
    BY <2>1
  <2> QED
    BY <1>2, <2>2, Zenon DEF DrainStep, Left
<1> QED
  BY <1>1, <1>2

\* Buffers of at most n bytes.
Short(n) == {b \in Seq(Byte) : Len(b) <= n}

DrainsTo(f, n) == f = [buf \in Short(n) |-> DrainStep(f, buf)]

\* A function that drains buffers up to n obeys DrainStep.
LEMMA DrainsToAt ==
  ASSUME NEW f, NEW n \in Nat, DrainsTo(f, n), NEW buf \in Short(n)
  PROVE  f[buf] = DrainStep(f, buf)
<1>1. f[buf] = [b \in Short(n) |-> DrainStep(f, b)][buf]
  BY Zenon DEF DrainsTo
<1> QED
  BY <1>1

\* Two such functions agree where both are defined.
LEMMA DrainsToAgree ==
  ASSUME NEW f, NEW g, NEW m \in Nat, NEW n \in Nat, DrainsTo(f, m), DrainsTo(g, n), m <= n
  PROVE  \A b \in Short(m) : f[b] = g[b]
<1> DEFINE S == {j \in Nat : \A b \in Short(m) : Len(b) < j => f[b] = g[b]}
<1>0. \A b \in Short(m) : b \in Short(n) /\ b \in Seq(Byte) /\ Len(b) \in Nat
  BY DEF Short
<1>1. 0 \in S
  BY <1>0
<1>2. ASSUME NEW j \in Nat, j \in S
      PROVE  j + 1 \in S
  <2> SUFFICES ASSUME NEW b \in Short(m), Len(b) < j + 1
               PROVE  f[b] = g[b]
    OBVIOUS
  <2>1. f[b] = DrainStep(f, b) /\ g[b] = DrainStep(g, b)
    BY <1>0, DrainsToAt
  <2>2. \A x \in Seq(Byte) : Len(x) < Len(b) => f[x] = g[x]
    <3> SUFFICES ASSUME NEW x \in Seq(Byte), Len(x) < Len(b) PROVE f[x] = g[x]
      OBVIOUS
    <3>1. x \in Short(m) /\ Len(x) < j
      BY <1>0 DEF Short
    <3> QED
      BY <1>2, <3>1
  <2>3. DrainStep(f, b) = DrainStep(g, b)
    BY <1>0, <2>2, DrainStepLocal
  <2> QED
    BY <2>1, <2>3
<1> HIDE DEF S
<1>3. Nat \subseteq S
  BY <1>1, <1>2, NatInd
<1>4. ASSUME NEW b \in Short(m)
      PROVE  f[b] = g[b]
  <2>1. Len(b) + 1 \in S /\ Len(b) < Len(b) + 1
    BY <1>0, <1>3
  <2> QED
    BY <2>1 DEF S
<1> QED
  BY <1>4

\* There is one for every n.
LEMMA DrainsToExists ==
  ASSUME NEW n \in Nat
  PROVE  \E f : DrainsTo(f, n)
<1> DEFINE S == {j \in Nat : \E f : DrainsTo(f, j)}
           e == [b \in Short(0) |-> [rest |-> b, out |-> <<>>, threw |-> FALSE]]
<1>1. 0 \in S
  <2>1. \A b \in Short(0) : b = <<>>
    BY DEF Short
  <2>2. \A b \in Short(0) : DrainStep(e, b) = [rest |-> b, out |-> <<>>, threw |-> FALSE]
    BY <2>1, Zenon DEF DrainStep
  <2>3. e = [b \in Short(0) |-> DrainStep(e, b)]
    <3> HIDE DEF e
    <3>1. e = [b \in Short(0) |-> [rest |-> b, out |-> <<>>, threw |-> FALSE]]
      BY DEF e
    <3> QED
      BY <2>2, <3>1, Zenon
  <2> QED
    BY <2>3 DEF DrainsTo
<1>2. ASSUME NEW j \in Nat, j \in S
      PROVE  j + 1 \in S
  <2>1. PICK f : DrainsTo(f, j)
    BY <1>2
  <2> DEFINE g == [b \in Short(j + 1) |-> IF Len(b) <= j THEN f[b] ELSE DrainStep(f, b)]
  <2>2. \A b \in Short(j + 1) : g[b] = IF Len(b) <= j THEN f[b] ELSE DrainStep(f, b)
    OBVIOUS
  <2>3. ASSUME NEW b \in Short(j + 1)
        PROVE  g[b] = DrainStep(g, b)
    <3>0. b \in Seq(Byte) /\ Len(b) \in Nat /\ Len(b) <= j + 1
      BY DEF Short
    <3>1. g[b] = DrainStep(f, b)
      <4>1. CASE Len(b) <= j
        <5>1. b \in Short(j)
          BY <3>0, <4>1 DEF Short
        <5> QED
          BY <2>1, <2>2, <4>1, <5>1, DrainsToAt
      <4>2. CASE ~(Len(b) <= j)
        BY <2>2, <4>2
      <4> QED
        BY <4>1, <4>2
    <3> HIDE DEF g
    <3>2. \A x \in Seq(Byte) : Len(x) < Len(b) => f[x] = g[x]
      <4> SUFFICES ASSUME NEW x \in Seq(Byte), Len(x) < Len(b) PROVE f[x] = g[x]
        OBVIOUS
      <4>1. x \in Short(j + 1) /\ Len(x) <= j
        BY <3>0 DEF Short
      <4> QED
        BY <2>2, <4>1
    <3>3. DrainStep(f, b) = DrainStep(g, b)
      BY <3>0, <3>2, DrainStepLocal
    <3> QED
      BY <3>1, <3>3
  <2>4. g = [b \in Short(j + 1) |-> g[b]]
    OBVIOUS
  <2> HIDE DEF g
  <2>5. DrainsTo(g, j + 1)
    BY <2>3, <2>4, Zenon DEF DrainsTo
  <2>6. j + 1 \in Nat
    OBVIOUS
  <2> QED
    BY <2>5, <2>6, Zenon
<1> HIDE DEF S
<1>3. Nat \subseteq S
  BY <1>1, <1>2, NatInd
<1> QED
  BY <1>3 DEF S

\* The loop obeys its definition for every buffer.
LEMMA DrainUnfolds ==
  ASSUME NEW buf \in Seq(Byte)
  PROVE  drainAndDispatch[buf] = DrainStep(drainAndDispatch, buf)
<1> DEFINE G(n) == CHOOSE f : DrainsTo(f, n)
           F == [b \in Seq(Byte) |-> G(Len(b))[b]]
<1>1. \A n \in Nat : DrainsTo(G(n), n)
  BY DrainsToExists, Zenon
<1>2. \A b \in Seq(Byte) : F[b] = G(Len(b))[b]
  OBVIOUS
<1> HIDE DEF G
<1>3. ASSUME NEW b \in Seq(Byte)
      PROVE  F[b] = DrainStep(F, b)
  <2>0. Len(b) \in Nat /\ b \in Short(Len(b))
    BY DEF Short
  <2>1. G(Len(b))[b] = DrainStep(G(Len(b)), b)
    BY <1>1, <2>0, DrainsToAt
  <2>2. ASSUME NEW x \in Seq(Byte), Len(x) < Len(b)
        PROVE  G(Len(b))[x] = F[x]
    <3>1. Len(x) \in Nat /\ x \in Short(Len(x)) /\ Len(x) <= Len(b)
      BY <2>0, <2>2 DEF Short
    <3>2. G(Len(x))[x] = G(Len(b))[x]
      BY <1>1, <2>0, <3>1, DrainsToAgree
    <3> QED
      BY <1>2, <3>2
  <2> HIDE DEF F
  <2>3. DrainStep(G(Len(b)), b) = DrainStep(F, b)
    BY <2>2, DrainStepLocal
  <2> QED
    BY <1>2, <2>1, <2>3
<1>4. F = [b \in Seq(Byte) |-> F[b]]
  OBVIOUS
<1> HIDE DEF F
<1>5. F = [b \in Seq(Byte) |-> DrainStep(F, b)]
  BY <1>3, <1>4, Zenon
<1>6. drainAndDispatch = [b \in Seq(Byte) |-> DrainStep(drainAndDispatch, b)]
  <2>1. \E f : f = [b \in Seq(Byte) |-> DrainStep(f, b)]
    BY <1>5
  <2> QED
    BY <2>1, Zenon DEF drainAndDispatch, DrainStep
<1>7. drainAndDispatch[buf] = [b \in Seq(Byte) |-> DrainStep(drainAndDispatch, b)][buf]
  BY <1>6, Zenon
<1> QED
  BY <1>7

\* The loop over the beginning of a frame: nothing is taken.
LEMMA DrainPartial ==
  ASSUME NEW m, NEW f, Drained(m, f), NEW buf \in Seq(Byte), buf # <<>>, Len(buf) < Len(f),
         \A i \in 1 .. Len(buf) : buf[i] = f[i]
  PROVE  drainAndDispatch[buf].rest = buf /\ drainAndDispatch[buf].out = <<>>
<1>1. DrainTurn(buf).act \in {"wait", "throw"}
  BY Zenon DEF Drained
<1>2. PICK e : DrainStep(drainAndDispatch, buf) = [rest |-> buf, out |-> <<>>, threw |-> e]
  BY <1>1, Zenon DEF DrainStep
<1>3. drainAndDispatch[buf] = [rest |-> buf, out |-> <<>>, threw |-> e]
  BY <1>2, DrainUnfolds, Zenon
<1> QED
  BY <1>3

\* The loop over one frame: it is taken and nothing is left.
LEMMA DrainWhole ==
  ASSUME NEW m, NEW f, Drained(m, f)
  PROVE  /\ drainAndDispatch[f].rest = <<>>
         /\ \E msg : drainAndDispatch[f].out = <<msg>> /\ AsReply(msg) = m
<1>1. f \in Seq(Byte) /\ Len(f) >= 9
  BY DEF Drained
<1>2. PICK msg : DrainTurn(f) = Take(Len(f), msg) /\ AsReply(msg) = m
  BY Zenon DEF Drained
<1>3. /\ DrainTurn(f).act = "take" /\ DrainTurn(f).n = Len(f) /\ DrainTurn(f).out = <<msg>>
      /\ DrainTurn(f).act \notin {"wait", "throw"}
  BY <1>2 DEF Take
<1>4. f # <<>> /\ SubSeq(f, Len(f) + 1, Len(f)) = <<>>
  BY <1>1
<1>5. <<>> \in Seq(Byte)
  OBVIOUS
<1>6. drainAndDispatch[<<>>] = [rest |-> <<>>, out |-> <<>>, threw |-> FALSE]
  <2>1. DrainStep(drainAndDispatch, <<>>) = [rest |-> <<>>, out |-> <<>>, threw |-> FALSE]
    BY Zenon DEF DrainStep
  <2> QED
    BY <1>5, <2>1, DrainUnfolds, Zenon
<1>7. DrainStep(drainAndDispatch, f)
        = [drainAndDispatch[<<>>] EXCEPT !.out = <<msg>> \o drainAndDispatch[<<>>].out]
  BY <1>3, <1>4, Zenon DEF DrainStep
<1>8. drainAndDispatch[f]
        = [drainAndDispatch[<<>>] EXCEPT !.out = <<msg>> \o drainAndDispatch[<<>>].out]
  BY <1>1, <1>7, DrainUnfolds, Zenon
<1>9. <<msg>> \o <<>> = <<msg>>
  OBVIOUS
<1>10. drainAndDispatch[f].rest = <<>> /\ drainAndDispatch[f].out = <<msg>>
  <2>1. PICK d : d = drainAndDispatch[f]
    OBVIOUS
  <2>2. d = [[rest |-> <<>>, out |-> <<>>, threw |-> FALSE] EXCEPT !.out = <<msg>>]
    BY <1>6, <1>8, <1>9, <2>1
  <2> QED
    BY <2>1, <2>2
<1> QED
  BY <1>2, <1>10

-----------------------------------------------------------------------------
(* Frames in a row, each written by a code `g'.                            *)

Coded(g, s) == [i \in DOMAIN s |-> g[s[i]]]

Bytes(g, s) == FlattenSeq(Coded(g, s))

IsCoded(c, g, s, T) ==
  /\ c \in Seq(Seq(T)) /\ Len(c) = Len(s)
  /\ \A i \in 1 .. Len(s) : c[i] = g[s[i]]

\* Coding gives a sequence of sequences.
LEMMA CodedType ==
  ASSUME NEW S, NEW T, NEW g \in [S -> Seq(T)], NEW s \in Seq(S)
  PROVE  IsCoded(Coded(g, s), g, s, T)
<1>1. Len(s) \in Nat /\ DOMAIN s = 1 .. Len(s) /\ \A i \in 1 .. Len(s) : s[i] \in S
  BY LenProperties, ElementOfSeq
<1>2. Coded(g, s) \in [1 .. Len(s) -> Seq(T)]
  BY <1>1 DEF Coded
<1> QED
  BY <1>1, <1>2, TupleIsSeq DEF Coded, IsCoded

SameBytes(g, s, b) == Bytes(g, s) = b

\* ... and so bytes.
LEMMA BytesType ==
  ASSUME NEW S, NEW T, NEW g \in [S -> Seq(T)], NEW s \in Seq(S)
  PROVE  Bytes(g, s) \in Seq(T)
<1>1. Coded(g, s) \in Seq(Seq(T))
  BY CodedType, Zenon DEF IsCoded
<1> QED
  BY <1>1, FlattenType DEF Bytes

\* No frames, no bytes.
LEMMA BytesEmpty ==
  ASSUME NEW g
  PROVE  Bytes(g, <<>>) = <<>>
<1>1. Coded(g, <<>>) = <<>>
  BY DEF Coded
<1> QED
  BY <1>1, FlattenEmpty DEF Bytes

\* Frames after frames are bytes after bytes.
LEMMA BytesConcat ==
  ASSUME NEW S, NEW T, NEW g \in [S -> Seq(T)], NEW s \in Seq(S), NEW t \in Seq(S)
  PROVE  SameBytes(g, s \o t, Bytes(g, s) \o Bytes(g, t))
<1>1. PICK a, b, c : a = Coded(g, s) /\ b = Coded(g, t) /\ c = Coded(g, s \o t)
  OBVIOUS
<1>2. s \o t \in Seq(S) /\ Len(s \o t) = Len(s) + Len(t)
  OBVIOUS
<1>3. /\ a \in Seq(Seq(T)) /\ Len(a) = Len(s) /\ \A i \in 1 .. Len(s) : a[i] = g[s[i]]
      /\ b \in Seq(Seq(T)) /\ Len(b) = Len(t) /\ \A i \in 1 .. Len(t) : b[i] = g[t[i]]
  <2>1. IsCoded(a, g, s, T)
    BY <1>1, CodedType, Zenon
  <2>2. IsCoded(b, g, t, T)
    BY <1>1, CodedType, Zenon
  <2> QED
    BY <2>1, <2>2, Zenon DEF IsCoded
<1>4. /\ c \in Seq(Seq(T)) /\ Len(c) = Len(s) + Len(t)
      /\ \A i \in 1 .. Len(s) + Len(t) : c[i] = g[(s \o t)[i]]
  <2>1. IsCoded(c, g, s \o t, T)
    BY <1>1, <1>2, CodedType, Zenon
  <2> QED
    BY <1>2, <2>1, Zenon DEF IsCoded
<1>5. PICK d : d = a \o b
  OBVIOUS
<1>6. /\ d \in Seq(Seq(T)) /\ Len(d) = Len(s) + Len(t)
      /\ \A i \in 1 .. Len(s) + Len(t) : d[i] = IF i <= Len(s) THEN a[i] ELSE b[i - Len(s)]
  <2>1. Glued(a, b) /\ a \o b \in Seq(Seq(T))
    BY <1>3, GluedConcat, ConcatProperties, Zenon
  <2> QED
    BY <1>3, <1>5, <2>1, Zenon DEF Glued
<1>7. ASSUME NEW i \in 1 .. Len(s) + Len(t)
      PROVE  c[i] = d[i]
  <2>1. (s \o t)[i] = IF i <= Len(s) THEN s[i] ELSE t[i - Len(s)]
    OBVIOUS
  <2>2. CASE i <= Len(s)
    <3>1. i \in 1 .. Len(s)
      BY <2>2
    <3> QED
      BY <1>3, <1>4, <1>6, <2>1, <2>2, <3>1, Zenon
  <2>3. CASE ~(i <= Len(s))
    <3>1. i - Len(s) \in 1 .. Len(t)
      BY <2>3
    <3> QED
      BY <1>3, <1>4, <1>6, <2>1, <2>3, <3>1, Zenon
  <2> QED
    BY <2>2, <2>3
<1>8. c = d
  BY <1>4, <1>6, <1>7, SeqEqual
<1>9. FlattenSeq(a \o b) = FlattenSeq(a) \o FlattenSeq(b)
  BY <1>3, FlattenConcat
<1> QED
  BY <1>1, <1>5, <1>8, <1>9, Zenon DEF SameBytes, Bytes

\* One frame.
LEMMA BytesOne ==
  ASSUME NEW S, NEW T, NEW g \in [S -> Seq(T)], NEW m \in S
  PROVE  SameBytes(g, <<m>>, g[m])
<1>1. <<m>> \in Seq(S) /\ Len(<<m>>) = 1 /\ <<m>>[1] = m
  OBVIOUS
<1>2. Len(Coded(g, <<m>>)) = 1 /\ Coded(g, <<m>>)[1] = g[m]
  <2>1. IsCoded(Coded(g, <<m>>), g, <<m>>, T)
    BY <1>1, CodedType, Zenon
  <2>2. 1 \in 1 .. 1
    OBVIOUS
  <2> QED
    BY <1>1, <2>1, <2>2, Zenon DEF IsCoded
<1> QED
  BY <1>2, FlattenOne DEF Bytes, SameBytes

\* One frame more at the end.
LEMMA BytesAppend ==
  ASSUME NEW S, NEW T, NEW g \in [S -> Seq(T)], NEW s \in Seq(S), NEW m \in S
  PROVE  SameBytes(g, Append(s, m), Bytes(g, s) \o g[m])
<1>1. <<m>> \in Seq(S) /\ Append(s, m) = s \o <<m>>
  BY AppendIsConcat
<1>2. SameBytes(g, s \o <<m>>, Bytes(g, s) \o Bytes(g, <<m>>))
  BY <1>1, BytesConcat, Zenon
<1>3. SameBytes(g, <<m>>, g[m])
  BY BytesOne, Zenon
<1> QED
  BY <1>1, <1>2, <1>3, Zenon DEF SameBytes

\* The first frame comes first.
LEMMA BytesFirst ==
  ASSUME NEW S, NEW T, NEW g \in [S -> Seq(T)], NEW s \in Seq(S), s # <<>>
  PROVE  SameBytes(g, s, g[s[1]] \o Bytes(g, Tail(s)))
<1>1. s[1] \in S /\ Tail(s) \in Seq(S) /\ <<s[1]>> \in Seq(S) /\ s = <<s[1]>> \o Tail(s)
  OBVIOUS
<1>2. SameBytes(g, <<s[1]>> \o Tail(s), Bytes(g, <<s[1]>>) \o Bytes(g, Tail(s)))
  BY <1>1, BytesConcat, Zenon
<1>3. SameBytes(g, <<s[1]>>, g[s[1]])
  BY <1>1, BytesOne, Zenon
<1> QED
  BY <1>1, <1>2, <1>3, Zenon DEF SameBytes

-----------------------------------------------------------------------------
(* The frames of the two ends.                                            *)

\* What the page may have sent, and what the host may have answered.
Sent == {[type |-> "load"]} \cup PageRequest

Answers ==
  {LogFrame(level, a, b) : level \in Byte, a \in U32, b \in U32}
    \cup [type : {"processResp"}, block : Rendered]
    \cup [type : {"getParamResp"}, id : U32, value : Double]

\* How each end writes.
RequestCode == [m \in Sent |-> RequestBytes(m)]

ReplyCode == [m \in Answers |-> ReplyBytes(m)]

\* The counts of a block fit their fields.
LEMMA BlockIsSendable ==
  ASSUME NEW block \in Blocks
  PROVE  Sendable(block)
BY WireAssumption DEF Sendable

\* The four requests.
LEMMA SentCases ==
  ASSUME NEW m \in Sent
  PROVE  \/ m = [type |-> "load"]
         \/ \E block \in Blocks : m = [type |-> "process", block |-> block]
         \/ \E id \in ParamIds, value \in SetValues :
              m = [type |-> "setParam", id |-> id, value |-> value]
         \/ \E id \in ParamIds : m = [type |-> "getParam", id |-> id]
<1>1. CASE m \in [type : {"process"}, block : Blocks]
  <2>1. m.block \in Blocks /\ m = [type |-> "process", block |-> m.block]
    BY <1>1
  <2> QED
    BY <2>1, Zenon
<1>2. CASE m \in [type : {"setParam"}, id : ParamIds, value : SetValues]
  <2>1. m.id \in ParamIds /\ m.value \in SetValues /\ m = [type |-> "setParam", id |-> m.id, value |-> m.value]
    BY <1>2
  <2> QED
    BY <2>1, Zenon
<1>3. CASE m \in [type : {"getParam"}, id : ParamIds]
  <2>1. m.id \in ParamIds /\ m = [type |-> "getParam", id |-> m.id]
    BY <1>3
  <2> QED
    BY <2>1, Zenon
<1> QED
  BY <1>1, <1>2, <1>3 DEF Sent, PageRequest

\* What the host finds at the head of the stream, when frame `f' of request
\* `m' is there.
Readable(m, f) ==
  /\ f \in Seq(Byte) /\ f # <<>>
  /\ \/ /\ m.type = "load" /\ f[1] = 1
        /\ \A body : InStream(body, f) =>
             1 + read_load_frame_body(body).need = Len(f)
     \/ /\ m.type = "process" /\ f[1] = 2 /\ Sendable(m.block)
        /\ \A body : InStream(body, f) =>
             /\ 1 + read_process_frame_body(body).need = Len(f)
             /\ read_process_frame_body(body).sample_count = SampleCount(m.block)
             /\ read_process_frame_body(body).channel_count = Len(m.block)
             /\ \A c \in 1 .. Len(m.block), s \in 1 .. SampleCount(m.block) :
                  read_process_frame_body(body).samples[(c - 1) * SampleCount(m.block) + s]
                    = Padded(m.block)[c][s]
     \/ /\ m.type = "setParam" /\ f[1] = 4 /\ m.id \in ParamIds /\ m.value \in Values
        /\ \A body : InStream(body, f) =>
             /\ 1 + read_set_param_frame_body(body).need = Len(f)
             /\ read_set_param_frame_body(body).id = m.id
             /\ read_set_param_frame_body(body).value = m.value
     \/ /\ m.type = "getParam" /\ f[1] = 5 /\ m.id \in ParamIds
        /\ \A body : InStream(body, f) =>
             /\ 1 + read_get_param_frame_body(body).need = Len(f)
             /\ read_get_param_frame_body(body).id = m.id

\* Every request the page writes is read as what it is.
LEMMA RequestIsReadable ==
  ASSUME NEW m \in Sent
  PROVE  Readable(m, RequestBytes(m))
<1>1. PICK f : f = RequestBytes(m)
  OBVIOUS
<1>2. CASE m = [type |-> "load"]
  <2>1. f = encodeLoad(Text(PathLength)) /\ m.type = "load"
    BY <1>1, <1>2 DEF RequestBytes
  <2>2. PathLength \in U32
    BY WireAssumption
  <2>3. /\ f \in Seq(Byte) /\ f[1] = 1 /\ f # <<>>
        /\ \A body : InStream(body, f) => 1 + read_load_frame_body(body).need = Len(f)
    BY <2>1, <2>2, LoadFrame, Zenon
  <2> QED
    BY <1>1, <2>1, <2>3, Zenon DEF Readable
<1>3. ASSUME NEW block \in Blocks, m = [type |-> "process", block |-> block]
      PROVE  Readable(m, f)
  <2>1. f = encodeProcess(block) /\ m.type = "process" /\ m.block = block
    BY <1>1, <1>3 DEF RequestBytes
  <2>2. Sendable(block)
    BY BlockIsSendable
  <2>3. /\ f \in Seq(Byte) /\ f[1] = 2 /\ f # <<>>
        /\ \A body : InStream(body, f) =>
             /\ 1 + read_process_frame_body(body).need = Len(f)
             /\ read_process_frame_body(body).sample_count = SampleCount(block)
             /\ read_process_frame_body(body).channel_count = Len(block)
             /\ \A c \in 1 .. Len(block), s \in 1 .. SampleCount(block) :
                  read_process_frame_body(body).samples[(c - 1) * SampleCount(block) + s]
                    = Padded(block)[c][s]
    BY <2>1, <2>2, ProcessFrame
  <2> QED
    BY <2>1, <2>2, <2>3, Zenon DEF Readable
<1>4. ASSUME NEW id \in ParamIds, NEW value \in SetValues,
             m = [type |-> "setParam", id |-> id, value |-> value]
      PROVE  Readable(m, f)
  <2>1. f = encodeSetParam(id, value) /\ m.type = "setParam" /\ m.id = id /\ m.value = value
    BY <1>1, <1>4 DEF RequestBytes
  <2>2. id \in U32 /\ value \in Double /\ value \in Values
    BY WireAssumption
  <2>3. /\ f \in Seq(Byte) /\ f[1] = 4 /\ f # <<>>
        /\ \A body : InStream(body, f) =>
             /\ 1 + read_set_param_frame_body(body).need = Len(f)
             /\ read_set_param_frame_body(body).id = id
             /\ read_set_param_frame_body(body).value = value
    BY <2>1, <2>2, SetParamFrame
  <2> QED
    BY <2>1, <2>2, <2>3, Zenon DEF Readable
<1>5. ASSUME NEW id \in ParamIds, m = [type |-> "getParam", id |-> id]
      PROVE  Readable(m, f)
  <2>1. f = encodeGetParam(id) /\ m.type = "getParam" /\ m.id = id
    BY <1>1, <1>5 DEF RequestBytes
  <2>2. id \in U32
    BY WireAssumption
  <2>3. /\ f \in Seq(Byte) /\ f[1] = 5 /\ f # <<>>
        /\ \A body : InStream(body, f) =>
             /\ 1 + read_get_param_frame_body(body).need = Len(f)
             /\ read_get_param_frame_body(body).id = id
    BY <2>1, <2>2, GetParamFrame, Zenon
  <2> QED
    BY <2>1, <2>2, <2>3, Zenon DEF Readable
<1> QED
  BY <1>1, <1>2, <1>3, <1>4, <1>5, SentCases, Zenon

\* Every reply the host writes is taken as what it is, once it is whole.
LEMMA AnswerIsDrained ==
  ASSUME NEW m \in Answers
  PROVE  Drained(m, ReplyBytes(m))
<1>1. ASSUME NEW level \in Byte, NEW a \in U32, NEW b \in U32, m = LogFrame(level, a, b)
      PROVE  Drained(m, ReplyBytes(m))
  <2>1. ReplyBytes(m) = m.bytes
    BY <1>1 DEF ReplyBytes, LogFrame
  <2> QED
    BY <1>1, <2>1, LogReplyFrame, Zenon
<1>2. CASE m \in [type : {"processResp"}, block : Rendered]
  <2>1. m = [type |-> "processResp", block |-> m.block] /\ m.block \in Rendered
    BY <1>2
  <2>2. ReplyBytes(m) = write_process_resp(SampleCount(m.block), Len(m.block), m.block)
    BY <1>2 DEF ReplyBytes
  <2> QED
    BY <2>1, <2>2, ProcessRespFrame, Zenon
<1>3. CASE m \in [type : {"getParamResp"}, id : U32, value : Double]
  <2>1. m = [type |-> "getParamResp", id |-> m.id, value |-> m.value] /\ m.id \in U32 /\ m.value \in Double
    BY <1>3
  <2>2. ReplyBytes(m) = write_get_param_resp(m.id, m.value)
    BY <1>3 DEF ReplyBytes
  <2> QED
    BY <2>1, <2>2, GetParamRespFrame, Zenon
<1> QED
  BY <1>1, <1>2, <1>3 DEF Answers

\* The two codes write bytes.
LEMMA CodeTypes ==
  RequestCode \in [Sent -> Seq(Byte)] /\ ReplyCode \in [Answers -> Seq(Byte)]
<1>1. \A m \in Sent : RequestBytes(m) \in Seq(Byte)
  BY RequestIsReadable, Zenon DEF Readable
<1>2. \A m \in Answers : ReplyBytes(m) \in Seq(Byte)
  BY AnswerIsDrained, Zenon DEF Drained
<1> QED
  BY <1>1, <1>2, Zenon DEF RequestCode, ReplyCode


\* HostInSync's right side, by the code of requests.
LEMMA RequestsCoded ==
  ASSUME NEW s \in Seq(Sent)
  PROVE  SameBytes(RequestCode, s, FlattenSeq([i \in DOMAIN s |-> RequestBytes(s[i])]))
<1>1. \A i \in DOMAIN s : RequestCode[s[i]] = RequestBytes(s[i])
  <2>1. \A i \in DOMAIN s : s[i] \in Sent
    BY ElementOfSeq
  <2> QED
    BY <2>1, Zenon DEF RequestCode
<1>2. Coded(RequestCode, s) = [i \in DOMAIN s |-> RequestBytes(s[i])]
  BY <1>1, Zenon DEF Coded
<1> QED
  BY <1>2, Zenon DEF SameBytes, Bytes

\* PageInSync's right side, by the code of replies.
LEMMA RepliesCoded ==
  ASSUME NEW s \in Seq(Answers)
  PROVE  SameBytes(ReplyCode, s, FlattenSeq([i \in DOMAIN s |-> ReplyBytes(s[i])]))
<1>1. \A i \in DOMAIN s : ReplyCode[s[i]] = ReplyBytes(s[i])
  <2>1. \A i \in DOMAIN s : s[i] \in Answers
    BY ElementOfSeq
  <2> QED
    BY <2>1, Zenon DEF ReplyCode
<1>2. Coded(ReplyCode, s) = [i \in DOMAIN s |-> ReplyBytes(s[i])]
  BY <1>1, Zenon DEF Coded
<1> QED
  BY <1>2, Zenon DEF SameBytes, Bytes

-----------------------------------------------------------------------------
(* The invariant.                                                          *)

\* The inductive invariant.  The frames in `requests' and `replies' are
\* frames the two ends can write, which makes them readable; and the three
\* properties of the line, of which only the host's depends on the format.
WireInv ==
  /\ WireTypeOK /\ requests \in Seq(Sent) /\ replies \in Seq(Answers)
  /\ ~Vst3 => HostInSync
  /\ PageInSync
  /\ NothingHeldBack

\* The invariant holds initially ...
LEMMA WireInitially == WireInit => WireInv
<1> SUFFICES ASSUME WireInit PROVE WireInv
  OBVIOUS
<1>1. WireTypeOK /\ requests \in Seq(Sent) /\ replies \in Seq(Answers)
  BY WireAssumption DEF WireInit, WireTypeOK
<1>2. requests = <<>> /\ down = <<>> /\ replies = <<>> /\ up = <<>> /\ rxBuf = <<>>
  BY DEF WireInit
<1>3. Len([i \in DOMAIN <<>> |-> RequestBytes(<<>>[i])]) = 0
  OBVIOUS
<1>4. Len([i \in DOMAIN <<>> |-> ReplyBytes(<<>>[i])]) = 0
  OBVIOUS
<1>5. HostInSync
  <2>1. PICK e : e = [i \in DOMAIN <<>> |-> RequestBytes(<<>>[i])]
    OBVIOUS
  <2>2. e = <<>> /\ FlattenSeq(e) = e
    BY <1>3, <2>1, FlattenEmpty
  <2> QED
    BY <1>2, <2>1, <2>2, Zenon DEF HostInSync
<1>6. PageInSync
  <2>1. PICK e : e = [i \in DOMAIN <<>> |-> ReplyBytes(<<>>[i])]
    OBVIOUS
  <2>2. e = <<>> /\ FlattenSeq(e) = e /\ <<>> \o <<>> = <<>>
    BY <1>4, <2>1, FlattenEmpty
  <2> QED
    BY <1>2, <2>1, <2>2, Zenon DEF PageInSync
<1>7. NothingHeldBack
  BY <1>2 DEF NothingHeldBack
<1> QED
  BY <1>1, <1>5, <1>6, <1>7 DEF WireInv

\* What the line holds, as codes.
LEMMA Lines ==
  ASSUME WireInv
  PROVE  /\ ~Vst3 => Bytes(RequestCode, requests) = down
         /\ Bytes(ReplyCode, replies) = rxBuf \o up
<1>1. requests \in Seq(Sent) /\ replies \in Seq(Answers)
  BY DEF WireInv
<1>2. ~Vst3 => Bytes(RequestCode, requests) = down
  <2>1. SameBytes(RequestCode, requests, FlattenSeq([i \in DOMAIN requests |-> RequestBytes(requests[i])]))
    BY <1>1, RequestsCoded, Zenon
  <2> QED
    BY <2>1, Zenon DEF WireInv, HostInSync, SameBytes
<1>3. Bytes(ReplyCode, replies) = rxBuf \o up
  <2>1. SameBytes(ReplyCode, replies, FlattenSeq([i \in DOMAIN replies |-> ReplyBytes(replies[i])]))
    BY <1>1, RepliesCoded, Zenon
  <2> QED
    BY <2>1, Zenon DEF WireInv, PageInSync, SameBytes
<1> QED
  BY <1>2, <1>3

\* The page writes a frame.
LEMMA WriteKeeps ==
  ASSUME WireInv, NEW m \in Sent, serialWrite(m),
         loadState' \in {"booting", "polling", "ready"}, sent' \in 0 .. MaxRequests
  PROVE  WireInv'
<1>1. /\ requests \in Seq(Sent) /\ down \in Seq(Byte)
      /\ requests' = Append(requests, m) /\ down' = down \o RequestBytes(m)
      /\ up' = up /\ rxBuf' = rxBuf /\ host' = host /\ params' = params
      /\ replies' = replies
  BY DEF serialWrite, guestVars, WireInv, WireTypeOK
<1>2. requests' \in Seq(Sent)
  BY <1>1
<1>3. RequestBytes(m) \in Seq(Byte) /\ RequestCode[m] = RequestBytes(m)
  BY RequestIsReadable, Zenon DEF Readable, RequestCode
<1>4. down' \in Seq(Byte)
  BY <1>1, <1>3, ConcatProperties, Zenon
<1>5. WireTypeOK'
  BY <1>1, <1>4 DEF WireInv, WireTypeOK
<1>6. ~Vst3 => HostInSync'
  <2>1. SameBytes(RequestCode, Append(requests, m), Bytes(RequestCode, requests) \o RequestCode[m])
    BY <1>1, BytesAppend, CodeTypes, Zenon
  <2>2. SameBytes(RequestCode, requests', FlattenSeq([i \in DOMAIN requests' |-> RequestBytes(requests'[i])]))
    BY <1>2, RequestsCoded, Zenon
  <2>3. ~Vst3 => Bytes(RequestCode, requests) = down
    BY Lines
  <2>4. ~Vst3 => down' = Bytes(RequestCode, requests')
    BY <1>1, <1>3, <2>1, <2>3, Zenon DEF SameBytes
  <2> QED
    BY <2>2, <2>4, Zenon DEF SameBytes, HostInSync
<1>7. PageInSync' /\ NothingHeldBack' /\ replies' \in Seq(Answers)
  BY <1>1 DEF WireInv, PageInSync, NothingHeldBack
<1> QED
  BY <1>2, <1>5, <1>6, <1>7 DEF WireInv

\* ... when the LOAD frame goes out,
LEMMA EmulatorReadyKeeps ==
  ASSUME WireInv, EmulatorReady
  PROVE  WireInv'
<1>1. [type |-> "load"] \in Sent
  BY DEF Sent
<1>2. loadState' = "polling" /\ sent' = sent /\ serialWrite([type |-> "load"])
  BY DEF EmulatorReady
<1> QED
  BY <1>1, <1>2, WriteKeeps DEF WireInv, WireTypeOK

\* when the page sends,
LEMMA PageSendsKeeps ==
  ASSUME WireInv, NEW m \in PageRequest, PageSends(m)
  PROVE  WireInv'
<1>1. m \in Sent
  BY DEF Sent
<1>2. /\ loadState' \in {"booting", "polling", "ready"} /\ sent' \in 0 .. MaxRequests
      /\ serialWrite(m)
  BY WireAssumption DEF PageSends, WireInv, WireTypeOK
<1> QED
  BY <1>1, <1>2, WriteKeeps, Zenon

\* and when the timer finds a byte.
LEMMA PollKeeps ==
  ASSUME WireInv, Poll
  PROVE  WireInv'
BY DEF WireInv, Poll, guestVars, WireTypeOK, HostInSync, PageInSync, NothingHeldBack

\* `d' consists of `a' and then `b'.
Parted(d, a, b) ==
  /\ Len(d) = Len(a) + Len(b)
  /\ \A i \in 1 .. Len(a) : d[i] = a[i]
  /\ \A i \in 1 .. Len(b) : d[Len(a) + i] = b[i]

\* Concatenation is what Parted says.
LEMMA ConcatParted ==
  ASSUME NEW T, NEW a \in Seq(T), NEW b \in Seq(T)
  PROVE  Parted(a \o b, a, b)
<1>1. \A i \in 1 .. Len(b) : Len(a) + i \in 1 .. Len(a) + Len(b) /\ ~(Len(a) + i <= Len(a)) /\ Len(a) + i - Len(a) = i
  OBVIOUS
<1> QED
  BY <1>1, ConcatProperties DEF Parted

\* A byte reaches the page.
\* `e' is `a' and the first byte of `b': a longer prefix of `f \o g'.
Prolongs(e, a, b, f, g) ==
  /\ e \in Seq(Byte) /\ Len(e) = Len(a) + 1
  /\ \A i \in 1 .. Len(a) + 1 : e[i] = f[i]
  /\ e \o Tail(b) = a \o b
  /\ Len(e) = Len(f) => e = f /\ Tail(b) = g

\* One byte more of the stream is one byte more of its first frame.
LEMMA Prefix ==
  ASSUME NEW a \in Seq(Byte), NEW b \in Seq(Byte), NEW f \in Seq(Byte), NEW g \in Seq(Byte),
         a \o b = f \o g, Len(a) < Len(f)
  PROVE  Prolongs(Append(a, Head(b)), a, b, f, g)
<1>1. PICK d : d = a \o b
  OBVIOUS
<1>2. /\ d \in Seq(Byte) /\ Len(d) = Len(a) + Len(b) /\ Len(d) = Len(f) + Len(g)
      /\ \A i \in 1 .. Len(a) : d[i] = a[i]
      /\ \A i \in 1 .. Len(b) : d[Len(a) + i] = b[i]
      /\ \A i \in 1 .. Len(f) : d[i] = f[i]
      /\ \A i \in 1 .. Len(g) : d[Len(f) + i] = g[i]
  <2>1. d = f \o g
    BY <1>1
  <2>2. Parted(d, a, b)
    BY <1>1, ConcatParted, Zenon
  <2>3. Parted(d, f, g)
    BY <2>1, ConcatParted, Zenon
  <2>4. d \in Seq(Byte)
    BY <1>1
  <2> QED
    BY <2>2, <2>3, <2>4, Zenon DEF Parted
<1>3. b # <<>> /\ Len(b) > 0
  BY <1>2
<1>4. PICK e : e = Append(a, Head(b))
  OBVIOUS
<1>5. /\ Head(b) \in Byte /\ Head(b) = b[1] /\ Tail(b) \in Seq(Byte) /\ Len(Tail(b)) = Len(b) - 1
      /\ \A i \in 1 .. Len(b) - 1 : Tail(b)[i] = b[i + 1]
  BY <1>3
<1>6. /\ e \in Seq(Byte) /\ Len(e) = Len(a) + 1 /\ e[Len(a) + 1] = b[1]
      /\ \A i \in 1 .. Len(a) : e[i] = a[i]
  BY <1>4, <1>5
<1>7. \A i \in 1 .. Len(a) + 1 : e[i] = d[i]
  <2>1. 1 \in 1 .. Len(b)
    BY <1>3
  <2>2. d[Len(a) + 1] = b[1]
    BY <1>2, <2>1
  <2>3. \A x \in Nat : \A i \in 1 .. x + 1 : i \in 1 .. x \/ i = x + 1
    OBVIOUS
  <2>4. Len(a) \in Nat
    OBVIOUS
  <2> QED
    BY <1>2, <1>6, <2>2, <2>3, <2>4, Zenon
<1>8. \A i \in 1 .. Len(a) + 1 : e[i] = f[i]
  BY <1>2, <1>7
<1>9. e \o Tail(b) = d
  <2>1. PICK h : h = e \o Tail(b)
    OBVIOUS
  <2>2. /\ h \in Seq(Byte) /\ Len(h) = Len(d) /\ \A i \in 1 .. Len(e) : h[i] = e[i]
        /\ \A i \in 1 .. Len(b) - 1 : h[Len(a) + 1 + i] = Tail(b)[i]
    <3>1. Parted(h, e, Tail(b))
      BY <1>5, <1>6, <2>1, ConcatParted, Zenon
    <3>2. Len(b) \in Nat /\ Len(a) \in Nat
      OBVIOUS
    <3>3. /\ Len(h) = Len(e) + Len(Tail(b)) /\ \A i \in 1 .. Len(e) : h[i] = e[i]
          /\ \A i \in 1 .. Len(Tail(b)) : h[Len(e) + i] = Tail(b)[i]
      BY <3>1, Zenon DEF Parted
    <3>4. h \in Seq(Byte)
      BY <1>5, <1>6, <2>1, ConcatProperties, Zenon
    <3> HIDE <1>6
    <3>5. Len(e) = Len(a) + 1
      BY <1>6
    <3>6. Len(h) = Len(d)
      BY <1>2, <1>5, <3>2, <3>3, <3>5
    <3> QED
      BY <1>5, <3>3, <3>4, <3>5, <3>6
  <2>3. ASSUME NEW i \in 1 .. Len(d)
        PROVE  h[i] = d[i]
    <3>1. CASE i <= Len(a) + 1
      BY <1>6, <1>7, <2>2, <3>1
    <3>2. CASE i > Len(a) + 1
      <4>1. PICK j \in 1 .. Len(b) - 1 : i = Len(a) + 1 + j
        <5>1. i - (Len(a) + 1) \in 1 .. Len(b) - 1 /\ i = Len(a) + 1 + (i - (Len(a) + 1))
          BY <1>2, <3>2
        <5> QED
          BY <5>1
      <4>2. h[i] = b[j + 1]
        BY <1>5, <2>2, <4>1
      <4>3. j + 1 \in 1 .. Len(b) /\ Len(a) + (j + 1) = i
        BY <4>1
      <4> QED
        BY <1>2, <4>2, <4>3
    <3> QED
      BY <3>1, <3>2
  <2> QED
    BY <1>2, <2>1, <2>2, <2>3, SeqEqual
<1>10. ASSUME Len(e) = Len(f)
       PROVE  e = f /\ Tail(b) = g
  <2>1. e = f
    BY <1>6, <1>8, <1>10, SeqEqual
  <2>2. Len(Tail(b)) = Len(g)
    BY <1>2, <1>5, <1>6, <1>10
  <2>3. ASSUME NEW i \in 1 .. Len(g)
        PROVE  Tail(b)[i] = g[i]
    <3>0. PICK x, y, z, w \in Nat : x = Len(a) /\ y = Len(b) /\ z = Len(f) /\ w = Len(g)
      OBVIOUS
    <3>4. x + 1 = z /\ w = y - 1
      BY <1>5, <1>6, <1>10, <2>2, <3>0
    <3>5. i \in 1 .. w
      BY <3>0, Zenon
    <3>6. i \in 1 .. y - 1 /\ i + 1 \in 1 .. y /\ x + (i + 1) = z + i
      <4> HIDE <3>0
      <4> QED
        BY <3>4, <3>5
    <3>1. i \in 1 .. Len(b) - 1 /\ i + 1 \in 1 .. Len(b) /\ Len(a) + (i + 1) = Len(f) + i
      BY <3>0, <3>6, Zenon
    <3> QED
      BY <1>2, <1>5, <3>1
  <2> QED
    BY <1>5, <2>1, <2>2, <2>3, SeqEqual
<1> QED
  BY <1>1, <1>3, <1>4, <1>6, <1>8, <1>9, <1>10, Zenon DEF Prolongs

\* What one byte does: either it is not the last of the first frame in
\* `replies', and is kept, or it is, and the frame is handed on.
ByteKept ==
  /\ rxBuf' \o up' = rxBuf \o up /\ replies' = replies /\ dispatched' = dispatched
  /\ rxBuf' # <<>> /\ Len(rxBuf') < Len(ReplyBytes(replies[1]))

ByteCompletes ==
  /\ rxBuf # <<>> /\ rxBuf' = <<>> /\ up' = Bytes(ReplyCode, Tail(replies))
  /\ replies' = Tail(replies) /\ dispatched' = replies[1]

\* A byte from the guest is kept or completes the first frame of replies.
LEMMA ByteCases ==
  ASSUME WireInv, SerialByte
  PROVE  replies # <<>> /\ rxBuf' \in Seq(Byte) /\ up' \in Seq(Byte) /\ (ByteKept \/ ByteCompletes)
<1>1. /\ replies \in Seq(Answers) /\ rxBuf \in Seq(Byte) /\ up \in Seq(Byte) /\ up # <<>>
      /\ up' = Tail(up)
  BY DEF WireInv, WireTypeOK, SerialByte
<1>2. PICK drained :
        /\ drained = drainAndDispatch[Append(rxBuf, Head(up))]
        /\ rxBuf' = drained.rest
        /\ dispatched' = IF drained.out = <<>> THEN dispatched ELSE AsReply(Last(drained.out))
        /\ replies' = SubSeq(replies, Len(drained.out) + 1, Len(replies))
  BY Zenon DEF SerialByte
<1>3. Bytes(ReplyCode, replies) = rxBuf \o up
  BY Lines
<1>4. replies # <<>>
  <2> SUFFICES ASSUME replies = <<>> PROVE FALSE
    OBVIOUS
  <2>1. rxBuf \o up = <<>>
    BY <1>3, BytesEmpty, Zenon
  <2> HIDE <1>3
  <2> QED
    BY <1>1, <2>1
<1>5. PICK m, f, g : m = replies[1] /\ f = ReplyBytes(m) /\ g = Bytes(ReplyCode, Tail(replies))
  OBVIOUS
<1>6. m \in Answers /\ Tail(replies) \in Seq(Answers)
  BY <1>1, <1>4, <1>5
<1>7. Drained(m, f)
  BY <1>5, <1>6, AnswerIsDrained
<1>8. f \in Seq(Byte) /\ Len(f) >= 9
  BY <1>7 DEF Drained
<1>9. g \in Seq(Byte)
  BY <1>5, <1>6, BytesType, CodeTypes
<1>10. rxBuf \o up = f \o g
  <2>1. SameBytes(ReplyCode, replies, ReplyCode[replies[1]] \o Bytes(ReplyCode, Tail(replies)))
    BY <1>1, <1>4, BytesFirst, CodeTypes, Zenon
  <2>2. ReplyCode[replies[1]] = f
    BY <1>5, <1>6, Zenon DEF ReplyCode
  <2> QED
    BY <1>3, <1>5, <2>1, <2>2, Zenon DEF SameBytes
<1>11. Len(rxBuf) < Len(f)
  BY <1>5, <1>8 DEF WireInv, NothingHeldBack
<1>12. PICK buf : buf = Append(rxBuf, Head(up))
  OBVIOUS
<1>13. /\ buf \in Seq(Byte) /\ Len(buf) = Len(rxBuf) + 1
       /\ \A i \in 1 .. Len(rxBuf) + 1 : buf[i] = f[i]
       /\ buf \o Tail(up) = rxBuf \o up
       /\ Len(buf) = Len(f) => buf = f /\ Tail(up) = g
  <2>1. Prolongs(buf, rxBuf, up, f, g)
    BY <1>1, <1>8, <1>9, <1>10, <1>11, <1>12, Prefix, Zenon
  <2> QED
    BY <2>1, Zenon DEF Prolongs
<1>14. PICK j, k \in Nat : j = Len(rxBuf) /\ k = Len(f)
  BY <1>1, <1>8
<1>15. Len(buf) = j + 1 /\ j < k
  BY <1>11, <1>13, <1>14, Zenon
<1>16. drained = drainAndDispatch[buf]
  BY <1>2, <1>12, Zenon
<1>17. CASE j + 1 < k
  <2>1. buf # <<>>
    BY <1>15, <1>14
  <2>2. Len(buf) < Len(f) /\ \A i \in 1 .. Len(buf) : buf[i] = f[i]
    BY <1>13, <1>14, <1>15, <1>17, Zenon
  <2>3. drained.rest = buf /\ drained.out = <<>>
    BY <1>7, <1>13, <1>16, <2>1, <2>2, DrainPartial, Zenon
  <2>4. rxBuf' = buf /\ dispatched' = dispatched
    BY <1>2, <2>3, Zenon
  <2>5. replies' = replies
    <3>1. replies' = SubSeq(replies, Len(<<>>) + 1, Len(replies))
      BY <1>2, <2>3, Zenon
    <3> QED
      BY <1>1, <3>1
  <2>6. ByteKept
    BY <1>1, <1>5, <1>13, <2>1, <2>2, <2>4, <2>5, Zenon DEF ByteKept
  <2> QED
    BY <1>1, <1>4, <1>13, <2>4, <2>6
<1>18. CASE ~(j + 1 < k)
  <2>1. j + 1 = k
    BY <1>15, <1>18
  <2>2. buf = f /\ Tail(up) = g
    BY <1>13, <1>14, <1>15, <2>1, Zenon
  <2>3. drained.rest = <<>> /\ \E msg : drained.out = <<msg>> /\ AsReply(msg) = m
    BY <1>7, <1>16, <2>2, DrainWhole, Zenon
  <2>4. PICK msg : drained.out = <<msg>> /\ AsReply(msg) = m
    BY <2>3, Zenon
  <2>5. Last(<<msg>>) = msg /\ <<msg>> # <<>>
    BY DEF Last
  <2>6. dispatched' = replies[1]
    BY <1>2, <1>5, <2>4, <2>5, Zenon
  <2>7. replies' = Tail(replies)
    <3>1. replies' = SubSeq(replies, Len(<<msg>>) + 1, Len(replies))
      BY <1>2, <2>4, Zenon
    <3> QED
      BY <1>1, <1>4, <3>1
  <2>8. rxBuf # <<>>
    BY <1>8, <1>14, <2>1
  <2>9. rxBuf' = <<>> /\ up' = Bytes(ReplyCode, Tail(replies))
    BY <1>1, <1>2, <1>5, <2>2, <2>3, Zenon
  <2>10. ByteCompletes
    BY <2>6, <2>7, <2>8, <2>9, Zenon DEF ByteCompletes
  <2>11. rxBuf' \in Seq(Byte) /\ up' \in Seq(Byte)
    BY <1>1, <2>9
  <2> QED
    BY <1>4, <2>10, <2>11
<1> QED
  BY <1>17, <1>18

\* Either way the listener keeps the invariant.
LEMMA SerialByteKeeps ==
  ASSUME WireInv, SerialByte
  PROVE  WireInv'
<1>1. /\ replies # <<>> /\ rxBuf' \in Seq(Byte) /\ up' \in Seq(Byte)
      /\ ByteKept \/ ByteCompletes
  BY ByteCases
<1>2. /\ loadState' = loadState /\ sent' = sent /\ down' = down /\ host' = host
      /\ params' = params /\ requests' = requests
  BY DEF SerialByte, guestVars
<1>3. WireTypeOK' /\ requests' \in Seq(Sent) /\ (~Vst3 => HostInSync')
  BY <1>1, <1>2 DEF WireInv, WireTypeOK, HostInSync
<1>4. replies \in Seq(Answers)
  BY DEF WireInv
<1>5. CASE ByteKept
  <2>1. replies' = replies /\ rxBuf' \o up' = rxBuf \o up
    BY <1>5, Zenon DEF ByteKept
  <2>2. PageInSync'
    BY <2>1, Zenon DEF WireInv, PageInSync
  <2>3. NothingHeldBack'
    BY <1>1, <1>5, <2>1, Zenon DEF ByteKept, NothingHeldBack
  <2> QED
    BY <1>3, <1>4, <2>1, <2>2, <2>3, Zenon DEF WireInv
<1>6. CASE ByteCompletes
  <2>1. replies' = Tail(replies) /\ rxBuf' = <<>> /\ up' = Bytes(ReplyCode, Tail(replies))
    BY <1>6, Zenon DEF ByteCompletes
  <2>2. replies' \in Seq(Answers)
    BY <1>1, <1>4, <2>1
  <2>3. PageInSync'
    <3>1. SameBytes(ReplyCode, replies', FlattenSeq([i \in DOMAIN replies' |-> ReplyBytes(replies'[i])]))
      BY <2>2, RepliesCoded, Zenon
    <3>2. rxBuf' \o up' = up'
      BY <1>1, <2>1
    <3> QED
      BY <2>1, <3>1, <3>2, Zenon DEF PageInSync, SameBytes
  <2>4. NothingHeldBack'
    BY <2>1, Zenon DEF NothingHeldBack
  <2> QED
    BY <1>3, <2>2, <2>3, <2>4, Zenon DEF WireInv
<1> QED
  BY <1>1, <1>5, <1>6

-----------------------------------------------------------------------------
(* The host.                                                               *)

\* What the host writes keeps the page in sync.
LEMMA HostWrites ==
  ASSUME WireInv, NEW out \in Seq(Answers), NEW n, HostConsumes(n, out)
  PROVE  /\ replies' \in Seq(Answers) /\ up' \in Seq(Byte)
         /\ PageInSync' /\ NothingHeldBack'
<1>1. /\ replies \in Seq(Answers) /\ up \in Seq(Byte) /\ rxBuf \in Seq(Byte)
      /\ rxBuf' = rxBuf /\ replies' = replies \o out
      /\ up' = up \o FlattenSeq([i \in DOMAIN out |-> ReplyBytes(out[i])])
  BY DEF HostConsumes, pageVars, WireInv, WireTypeOK
<1>2. PICK b : b = Bytes(ReplyCode, out)
  OBVIOUS
<1>3. b \in Seq(Byte)
  BY <1>2, BytesType, CodeTypes
<1>4. up' = up \o b
  <2>1. SameBytes(ReplyCode, out, FlattenSeq([i \in DOMAIN out |-> ReplyBytes(out[i])]))
    BY RepliesCoded, Zenon
  <2> QED
    BY <1>1, <1>2, <2>1, Zenon DEF SameBytes
<1>5. replies' \in Seq(Answers) /\ up' \in Seq(Byte)
  BY <1>1, <1>3, <1>4, ConcatProperties, Zenon
<1>6. PageInSync'
  <2>1. SameBytes(ReplyCode, replies', FlattenSeq([i \in DOMAIN replies' |-> ReplyBytes(replies'[i])]))
    BY <1>5, RepliesCoded, Zenon
  <2>2. SameBytes(ReplyCode, replies \o out, Bytes(ReplyCode, replies) \o Bytes(ReplyCode, out))
    BY <1>1, BytesConcat, CodeTypes, Zenon
  <2>3. Bytes(ReplyCode, replies) = rxBuf \o up
    BY Lines
  <2>4. Associate(rxBuf, up, b)
    BY <1>1, <1>3, Associative, Zenon
  <2>5. FlattenSeq([i \in DOMAIN replies' |-> ReplyBytes(replies'[i])]) = (rxBuf \o up) \o b
    BY <1>1, <1>2, <2>1, <2>2, <2>3, Zenon DEF SameBytes
  <2> QED
    BY <1>1, <1>4, <2>4, <2>5, Zenon DEF PageInSync, Associate
<1>7. NothingHeldBack'
  <2>1. replies # <<>> => replies' # <<>> /\ replies'[1] = replies[1]
    <3>1. Parted(replies', replies, out) /\ Len(out) \in Nat
      BY <1>1, ConcatParted, Zenon, LenProperties
    <3> SUFFICES ASSUME replies # <<>> PROVE replies' # <<>> /\ replies'[1] = replies[1]
      OBVIOUS
    <3>2. 1 \in 1 .. Len(replies) /\ Len(replies) \in Nat /\ Len(replies) > 0
      BY <1>1
    <3>3. replies'[1] = replies[1] /\ Len(replies') = Len(replies) + Len(out)
      BY <3>1, <3>2, Zenon DEF Parted
    <3>4. Len(replies') > 0
      BY <3>1, <3>2, <3>3
    <3> QED
      BY <1>5, <3>3, <3>4, EmptySeq
  <2> QED
    BY <1>1, <2>1, Zenon DEF WireInv, NothingHeldBack
<1> QED
  BY <1>5, <1>6, <1>7

\* What the host finds: the first frame of `requests'.
LEMMA HostFinds ==
  ASSUME WireInv, ~Vst3, down # <<>>
  PROVE  /\ requests # <<>> /\ requests[1] \in Sent
         /\ Readable(requests[1], RequestBytes(requests[1]))
         /\ down[1] = RequestBytes(requests[1])[1]
         /\ InStream(Body, RequestBytes(requests[1]))
         /\ SubSeq(down, Len(RequestBytes(requests[1])) + 1, Len(down))
              = Bytes(RequestCode, Tail(requests))
         /\ Tail(requests) \in Seq(Sent) /\ Bytes(RequestCode, Tail(requests)) \in Seq(Byte)
<1>1. requests \in Seq(Sent) /\ down \in Seq(Byte)
  BY DEF WireInv, WireTypeOK
<1>2. Bytes(RequestCode, requests) = down
  BY Lines
<1>3. requests # <<>>
  BY <1>2, BytesEmpty, Zenon
<1>4. requests[1] \in Sent /\ Tail(requests) \in Seq(Sent)
  BY <1>1, <1>3
<1>5. PICK f, g : f = RequestBytes(requests[1]) /\ g = Bytes(RequestCode, Tail(requests))
  OBVIOUS
<1>6. Readable(requests[1], f)
  BY <1>4, <1>5, RequestIsReadable, Zenon
<1>7. f \in Seq(Byte) /\ f # <<>>
  BY <1>6, Zenon DEF Readable
<1>8. g \in Seq(Byte)
  BY <1>4, <1>5, BytesType, CodeTypes
<1>9. down = f \o g
  <2>1. SameBytes(RequestCode, requests, RequestCode[requests[1]] \o Bytes(RequestCode, Tail(requests)))
    BY <1>1, <1>3, BytesFirst, CodeTypes, Zenon
  <2>2. RequestCode[requests[1]] = f
    BY <1>4, <1>5, Zenon DEF RequestCode
  <2> QED
    BY <1>2, <1>5, <2>1, <2>2, Zenon DEF SameBytes
<1>10. /\ down[1] = f[1] /\ InStream(Tail(down), f)
       /\ SubSeq(down, Len(f) + 1, Len(down)) = g
  BY <1>7, <1>8, <1>9, Stream
<1> QED
  BY <1>3, <1>4, <1>5, <1>6, <1>8, <1>10, Zenon DEF Body

\* The host takes exactly that frame.
LEMMA HostTakes ==
  ASSUME WireInv, ~Vst3, down # <<>>, NEW out,
         HostConsumes(Len(RequestBytes(requests[1])), out), NextRequest
  PROVE  down' \in Seq(Byte) /\ requests' \in Seq(Sent) /\ HostInSync'
<1>1. /\ requests # <<>> /\ requests \in Seq(Sent) /\ Tail(requests) \in Seq(Sent)
      /\ Bytes(RequestCode, Tail(requests)) \in Seq(Byte)
  BY HostFinds DEF WireInv
<1>2. down' = Bytes(RequestCode, Tail(requests))
  BY HostFinds DEF HostConsumes
<1>3. requests' = Tail(requests)
  BY <1>1 DEF NextRequest
<1>4. SameBytes(RequestCode, requests', FlattenSeq([i \in DOMAIN requests' |-> RequestBytes(requests'[i])]))
  BY <1>1, <1>3, RequestsCoded, Zenon
<1> QED
  BY <1>1, <1>2, <1>3, <1>4, Zenon DEF HostInSync, SameBytes

\* What the host consumes leaves bytes and requests.
LEMMA HostConsumesTypes ==
  ASSUME WireInv, NEW n \in Nat, NEW out, HostConsumes(n, out), NextRequest
  PROVE  /\ down' \in Seq(Byte) /\ requests' \in Seq(Sent)
         /\ loadState' = loadState /\ sent' = sent /\ rxBuf' = rxBuf
<1>1. down \in Seq(Byte) /\ requests \in Seq(Sent)
  BY DEF WireInv, WireTypeOK
<1>2. /\ down' = SubSeq(down, n + 1, Len(down)) /\ requests' = SubSeq(requests, 2, Len(requests))
      /\ loadState' = loadState /\ sent' = sent /\ rxBuf' = rxBuf
  BY DEF HostConsumes, NextRequest, pageVars
<1>3. down' \in Seq(Byte)
  BY <1>1, <1>2
<1>4. requests' \in Seq(Sent)
  BY <1>1, <1>2
<1> QED
  BY <1>2, <1>3, <1>4

\* A step of the host that keeps the types and, for a VST2 plugin, takes the
\* first frame whole.
LEMMA HostKeeps ==
  ASSUME WireInv, down # <<>>, NEW n \in Nat, NEW out \in Seq(Answers),
         HostConsumes(n, out), NextRequest,
         host' \in {"starting", "running", "dead"}, params' \in [ParamIds -> Values],
         ~Vst3 => n = Len(RequestBytes(requests[1]))
  PROVE  WireInv'
<1>1. /\ down' \in Seq(Byte) /\ requests' \in Seq(Sent)
      /\ loadState' = loadState /\ sent' = sent /\ rxBuf' = rxBuf
  BY HostConsumesTypes
<1>2. /\ replies' \in Seq(Answers) /\ up' \in Seq(Byte) /\ PageInSync' /\ NothingHeldBack'
  BY HostWrites
<1>3. ~Vst3 => HostInSync'
  <2> SUFFICES ASSUME ~Vst3 PROVE HostInSync'
    OBVIOUS
  <2>1. HostConsumes(Len(RequestBytes(requests[1])), out)
    OBVIOUS
  <2> QED
    BY <2>1, HostTakes, Zenon
<1>4. WireTypeOK'
  BY <1>1, <1>2 DEF WireInv, WireTypeOK
<1> QED
  BY <1>1, <1>2, <1>3, <1>4, Zenon DEF WireInv

\* The four bytes the host reads are a number.
LEMMA BodyType ==
  ASSUME WireInv, down # <<>>
  PROVE  /\ Body \in Seq(Byte) /\ Len(Body) \in Nat
         /\ \A off \in Nat : off + 4 <= Len(Body) => U32At(Body, off) \in U32
<1>1. down \in Seq(Byte)
  BY DEF WireInv, WireTypeOK
<1>2. Body \in Seq(Byte)
  BY <1>1 DEF Body
<1> QED
  BY <1>2, U32AtType

\* A byte is a number of 32 bits.
LEMMA SmallNumbers ==
  \A n \in 0 .. 255 : n \in U32 /\ n \in Byte
BY DEF U32, Byte

\* The lines the host starts with are replies.
LEMMA StartupLogsType ==
  StartupLogs \in Seq(Answers)
<1>1. /\ LogFrame(1, 9, 18) \in Answers /\ LogFrame(2, 9, 45) \in Answers
      /\ LogFrame(1, 9, 27) \in Answers
  <2>1. 1 \in 0 .. 255 /\ 2 \in 0 .. 255 /\ 9 \in 0 .. 255 /\ 18 \in 0 .. 255 /\ 45 \in 0 .. 255 /\ 27 \in 0 .. 255
    OBVIOUS
  <2>2. \A level \in Byte, a \in U32, b \in U32 : LogFrame(level, a, b) \in Answers
    BY DEF Answers
  <2> QED
    BY <2>1, <2>2, SmallNumbers, Zenon
<1>2. \A x, y \in Answers : <<x, y>> \in Seq(Answers) /\ <<x>> \in Seq(Answers)
  OBVIOUS
<1> QED
  BY <1>1, <1>2, Zenon DEF StartupLogs

\* main reads the LOAD frame.
LEMMA HostLoadKeeps ==
  ASSUME WireInv, HostLoad
  PROVE  WireInv'
<1>1. down # <<>> /\ down[1] = 1 /\ NextRequest /\ params' = params
  BY DEF HostLoad, HasTag, FrameTag
<1>2. PICK body : /\ body = read_load_frame_body(Body) /\ body.complete
                  /\ \/ host' = "running" /\ HostConsumes(1 + body.need, StartupLogs)
                     \/ host' = "dead" /\ HostConsumes(1 + body.need, <<>>)
  BY Zenon DEF HostLoad
<1>3. body.need \in Nat
  <2>1. ~(Len(Body) < 4 \/ Len(Body) < 4 + U32At(Body, 0))
    BY <1>2 DEF read_load_frame_body, Blocked
  <2>2. body.need = 4 + U32At(Body, 0)
    BY <1>2, <2>1 DEF read_load_frame_body
  <2>3. Len(Body) \in Nat /\ ~(Len(Body) < 4)
    BY <1>1, <2>1, BodyType
  <2>4. U32At(Body, 0) \in U32
    <3>1. 0 \in Nat /\ 0 + 4 <= Len(Body)
      BY <2>3
    <3> QED
      BY <1>1, <3>1, BodyType, Zenon
  <2> QED
    BY <2>2, <2>4 DEF U32
<1>4. ASSUME ~Vst3
      PROVE  1 + body.need = Len(RequestBytes(requests[1]))
  <2>1. PICK f : f = RequestBytes(requests[1])
    OBVIOUS
  <2>2. Readable(requests[1], f) /\ f[1] = 1 /\ InStream(Body, f)
    BY <1>1, <1>4, <2>1, HostFinds
  <2>3. \A b : InStream(b, f) => 1 + read_load_frame_body(b).need = Len(f)
    BY <2>2 DEF Readable
  <2> QED
    BY <1>2, <2>1, <2>2, <2>3, Zenon
<1>5. PICK n, out : /\ n = 1 + body.need /\ HostConsumes(n, out) /\ out \in Seq(Answers)
                    /\ host' \in {"running", "dead"}
  <2>1. <<>> \in Seq(Answers)
    OBVIOUS
  <2> QED
    BY <1>2, <2>1, StartupLogsType, Zenon
<1>6. n \in Nat
  BY <1>3, <1>5
<1>7. params' \in [ParamIds -> Values]
  BY <1>1 DEF WireInv, WireTypeOK
<1>8. ~Vst3 => n = Len(RequestBytes(requests[1]))
  BY <1>4, <1>5, Zenon
<1>9. host' \in {"starting", "running", "dead"}
  BY <1>5
<1> QED
  BY <1>1, <1>5, <1>6, <1>7, <1>8, <1>9, HostKeeps, Zenon

\* The block the plugin is given is the one sent, padded.
GivenBlock(frame) ==
  [c \in 1 .. frame.channel_count |->
     [s \in 1 .. frame.sample_count |-> frame.samples[(c - 1) * frame.sample_count + s]]]

\* The host lays the samples out as the page did.
LEMMA GivenIsPadded ==
  ASSUME NEW block, Sendable(block), NEW frame,
         frame.sample_count = SampleCount(block), frame.channel_count = Len(block),
         \A c \in 1 .. Len(block), s \in 1 .. SampleCount(block) :
           frame.samples[(c - 1) * SampleCount(block) + s] = Padded(block)[c][s]
  PROVE  GivenBlock(frame) = Padded(block)
<1>1. block \in Seq(Seq(Sample)) /\ DOMAIN block = 1 .. Len(block)
  BY LenProperties DEF Sendable
<1>2. PICK n, k : n = SampleCount(block) /\ k = Len(block)
  OBVIOUS
<1>3. GivenBlock(frame) = [c \in 1 .. k |-> [s \in 1 .. n |-> frame.samples[(c - 1) * n + s]]]
  BY <1>2, Zenon DEF GivenBlock
<1>4. \A c \in 1 .. k : [s \in 1 .. n |-> frame.samples[(c - 1) * n + s]] = Padded(block)[c]
  <2> SUFFICES ASSUME NEW c \in 1 .. k
               PROVE  [s \in 1 .. n |-> frame.samples[(c - 1) * n + s]] = Padded(block)[c]
    OBVIOUS
  <2>1. Padded(block)[c] = [i \in 1 .. n |-> IF i <= Len(block[c]) THEN block[c][i] ELSE F32Zero]
    BY <1>1, <1>2 DEF Padded
  <2>2. Padded(block)[c] = [i \in 1 .. n |-> Padded(block)[c][i]]
    BY <2>1
  <2>3. \A s \in 1 .. n : frame.samples[(c - 1) * n + s] = Padded(block)[c][s]
    BY <1>2, Zenon
  <2> QED
    BY <2>2, <2>3, Zenon
<1>5. Padded(block) = [c \in 1 .. k |-> Padded(block)[c]]
  BY <1>1, <1>2 DEF Padded
<1> QED
  BY <1>3, <1>4, <1>5, Zenon

\* A padded block can be answered.
LEMMA PaddedIsRendered ==
  ASSUME NEW block, Sendable(block)
  PROVE  Padded(block) \in Rendered
<1>1. /\ block \in Seq(Seq(Sample)) /\ SampleCount(block) \in U32 /\ Len(block) \in U32
      /\ SampleCount(block) \in Nat
  BY DEF Sendable, U32
<1>2. PICK p : p = Padded(block)
  OBVIOUS
<1>3. /\ p \in Seq(Seq(Sample)) /\ Len(p) = Len(block)
      /\ \A c \in 1 .. Len(block) : Len(p[c]) = SampleCount(block)
  BY <1>1, <1>2, PaddedBlock
<1>4. SampleCount(p) = SampleCount(block)
  <2>1. CASE block = <<>>
    <3>1. p = <<>>
      BY <1>3, <2>1
    <3> QED
      BY <1>2, <2>1, <3>1, Zenon
  <2>2. CASE block # <<>>
    <3>1. p # <<>> /\ 1 \in 1 .. Len(block)
      BY <1>1, <1>3, <2>2
    <3> QED
      BY <1>3, <3>1, Zenon DEF SampleCount
  <2> QED
    BY <2>1, <2>2
<1> QED
  BY <1>1, <1>2, <1>3, <1>4 DEF Rendered

\* A PROCESS frame is answered with the padded block it brought.
LEMMA process_blockStep ==
  ASSUME WireInv, process_block
  PROVE  /\ requests # <<>> /\ requests[1].type = "process" /\ Sendable(requests[1].block)
         /\ HostConsumes(Len(RequestBytes(requests[1])),
              <<[type |-> "processResp", block |-> Padded(requests[1].block)]>>)
<1>1. ~Vst3 /\ down # <<>> /\ down[1] = 2
  BY DEF process_block, HasTag, FrameTag
<1>2. PICK frame : /\ frame = read_process_frame_body(Body)
                   /\ HostConsumes(1 + frame.need,
                        <<[type |-> "processResp", block |-> processReplacing(GivenBlock(frame))]>>)
  BY Zenon DEF process_block, GivenBlock
<1>3. PICK m, f : m = requests[1] /\ f = RequestBytes(requests[1])
  OBVIOUS
<1>4. requests # <<>> /\ Readable(m, f) /\ f[1] = 2 /\ InStream(Body, f)
  BY <1>1, <1>3, HostFinds
<1>5. /\ m.type = "process" /\ Sendable(m.block)
      /\ \A body : InStream(body, f) =>
             /\ 1 + read_process_frame_body(body).need = Len(f)
             /\ read_process_frame_body(body).sample_count = SampleCount(m.block)
             /\ read_process_frame_body(body).channel_count = Len(m.block)
             /\ \A c \in 1 .. Len(m.block), s \in 1 .. SampleCount(m.block) :
                  read_process_frame_body(body).samples[(c - 1) * SampleCount(m.block) + s]
                    = Padded(m.block)[c][s]
  BY <1>4 DEF Readable
<1>6. /\ 1 + frame.need = Len(f)
      /\ frame.sample_count = SampleCount(m.block)
      /\ frame.channel_count = Len(m.block)
      /\ \A c \in 1 .. Len(m.block), s \in 1 .. SampleCount(m.block) :
           frame.samples[(c - 1) * SampleCount(m.block) + s] = Padded(m.block)[c][s]
  BY <1>2, <1>4, <1>5, Zenon
<1>7. GivenBlock(frame) = Padded(m.block)
  BY <1>5, <1>6, GivenIsPadded
<1> QED
  BY <1>2, <1>3, <1>4, <1>5, <1>6, <1>7, Zenon DEF processReplacing

\* ... which keeps the invariant.
LEMMA process_blockKeeps ==
  ASSUME WireInv, process_block
  PROVE  WireInv'
<1>1. down # <<>> /\ NextRequest /\ host' = host /\ params' = params
  BY DEF process_block, HasTag, guestVars
<1>2. PICK f, out : /\ f = RequestBytes(requests[1])
                    /\ out = <<[type |-> "processResp", block |-> Padded(requests[1].block)]>>
  OBVIOUS
<1>3. HostConsumes(Len(f), out) /\ Sendable(requests[1].block) /\ requests # <<>>
  BY <1>2, process_blockStep, Zenon
<1>4. Len(f) \in Nat
  <2>1. requests \in Seq(Sent)
    BY DEF WireInv
  <2>2. requests[1] \in Sent
    BY <1>3, <2>1
  <2>3. f \in Seq(Byte)
    BY <1>2, <2>2, RequestIsReadable, Zenon DEF Readable
  <2> QED
    BY <2>3
<1>5. out \in Seq(Answers)
  <2>1. Padded(requests[1].block) \in Rendered
    BY <1>3, PaddedIsRendered
  <2>2. [type |-> "processResp", block |-> Padded(requests[1].block)] \in Answers
    BY <2>1 DEF Answers
  <2>3. \A x \in Answers : <<x>> \in Seq(Answers)
    OBVIOUS
  <2> QED
    BY <1>2, <2>2, <2>3, Zenon
<1>6. host' \in {"starting", "running", "dead"} /\ params' \in [ParamIds -> Values]
  BY <1>1 DEF WireInv, WireTypeOK
<1> QED
  BY <1>1, <1>2, <1>3, <1>4, <1>5, <1>6, HostKeeps, Zenon

\* A SET_PARAM frame changes the parameter it names.
LEMMA handle_set_paramStep ==
  ASSUME WireInv, handle_set_param
  PROVE  /\ requests # <<>> /\ requests[1].type = "setParam"
         /\ requests[1].id \in ParamIds /\ requests[1].value \in Values
         /\ HostConsumes(Len(RequestBytes(requests[1])), <<>>)
         /\ params' = [params EXCEPT ![requests[1].id] = ToFloat[requests[1].value]]
<1>1. ~Vst3 /\ down # <<>> /\ down[1] = 4
  BY DEF handle_set_param, HasTag, FrameTag
<1>2. PICK p : /\ p = read_set_param_frame_body(Body)
               /\ params' = [params EXCEPT ![p.id] = ToFloat[p.value]]
               /\ HostConsumes(1 + p.need, <<>>)
  BY Zenon DEF handle_set_param
<1>3. PICK m, f : m = requests[1] /\ f = RequestBytes(requests[1])
  OBVIOUS
<1>4. requests # <<>> /\ Readable(m, f) /\ f[1] = 4 /\ InStream(Body, f)
  BY <1>1, <1>3, HostFinds
<1>5. /\ m.type = "setParam" /\ m.id \in ParamIds /\ m.value \in Values
      /\ \A body : InStream(body, f) =>
             /\ 1 + read_set_param_frame_body(body).need = Len(f)
             /\ read_set_param_frame_body(body).id = m.id
             /\ read_set_param_frame_body(body).value = m.value
  BY <1>4 DEF Readable
<1>6. 1 + p.need = Len(f) /\ p.id = m.id /\ p.value = m.value
  BY <1>2, <1>4, <1>5, Zenon
<1> QED
  BY <1>2, <1>3, <1>4, <1>5, <1>6, Zenon

\* The first frame has a length.
LEMMA FirstLength ==
  ASSUME WireInv, requests # <<>>
  PROVE  Len(RequestBytes(requests[1])) \in Nat
<1>1. requests \in Seq(Sent)
  BY DEF WireInv
<1>2. requests[1] \in Sent
  BY <1>1
<1>3. RequestBytes(requests[1]) \in Seq(Byte)
  BY <1>2, RequestIsReadable, Zenon DEF Readable
<1> QED
  BY <1>3

\* ... which keeps the invariant.
LEMMA handle_set_paramKeeps ==
  ASSUME WireInv, handle_set_param
  PROVE  WireInv'
<1>1. down # <<>> /\ NextRequest /\ host' = host
  BY DEF handle_set_param, HasTag
<1>2. PICK n : n = Len(RequestBytes(requests[1]))
  OBVIOUS
<1>3. /\ requests # <<>> /\ HostConsumes(n, <<>>) /\ requests[1].id \in ParamIds
      /\ requests[1].value \in Values
      /\ params' = [params EXCEPT ![requests[1].id] = ToFloat[requests[1].value]]
  BY <1>2, handle_set_paramStep, Zenon
<1>4. n \in Nat
  BY <1>2, <1>3, FirstLength, Zenon
<1>5. params' \in [ParamIds -> Values]
  <2>1. params \in [ParamIds -> Values] /\ ToFloat \in [Values -> Values]
    BY WireAssumption DEF WireInv, WireTypeOK
  <2>2. ToFloat[requests[1].value] \in Values
    BY <1>3, <2>1
  <2> QED
    BY <1>3, <2>1, <2>2
<1>6. <<>> \in Seq(Answers) /\ host' \in {"starting", "running", "dead"}
  BY <1>1 DEF WireInv, WireTypeOK
<1> QED
  BY <1>1, <1>2, <1>3, <1>4, <1>5, <1>6, HostKeeps, Zenon

\* A GET_PARAM frame is answered with the parameter it names.
LEMMA handle_get_paramStep ==
  ASSUME WireInv, handle_get_param
  PROVE  /\ requests # <<>> /\ requests[1].type = "getParam" /\ requests[1].id \in ParamIds
         /\ HostConsumes(Len(RequestBytes(requests[1])),
              <<[type |-> "getParamResp", id |-> requests[1].id,
                 value |-> params[requests[1].id]]>>)
<1>1. ~Vst3 /\ down # <<>> /\ down[1] = 5
  BY DEF handle_get_param, HasTag, FrameTag
<1>2. PICK p : /\ p = read_get_param_frame_body(Body)
               /\ HostConsumes(1 + p.need,
                    <<[type |-> "getParamResp", id |-> p.id, value |-> params[p.id]]>>)
  BY Zenon DEF handle_get_param
<1>3. PICK m, f : m = requests[1] /\ f = RequestBytes(requests[1])
  OBVIOUS
<1>4. requests # <<>> /\ Readable(m, f) /\ f[1] = 5 /\ InStream(Body, f)
  BY <1>1, <1>3, HostFinds
<1>5. /\ m.type = "getParam" /\ m.id \in ParamIds
      /\ \A body : InStream(body, f) =>
             /\ 1 + read_get_param_frame_body(body).need = Len(f)
             /\ read_get_param_frame_body(body).id = m.id
  BY <1>4 DEF Readable
<1>6. 1 + p.need = Len(f) /\ p.id = m.id
  BY <1>2, <1>4, <1>5, Zenon
<1> QED
  BY <1>2, <1>3, <1>4, <1>5, <1>6, Zenon

\* ... which keeps the invariant.
LEMMA handle_get_paramKeeps ==
  ASSUME WireInv, handle_get_param
  PROVE  WireInv'
<1>1. down # <<>> /\ NextRequest /\ host' = host /\ params' = params
  BY DEF handle_get_param, HasTag, guestVars
<1>2. PICK n, out : /\ n = Len(RequestBytes(requests[1]))
                    /\ out = <<[type |-> "getParamResp", id |-> requests[1].id,
                                value |-> params[requests[1].id]]>>
  OBVIOUS
<1>3. /\ requests # <<>> /\ HostConsumes(n, out) /\ requests[1].id \in ParamIds
  BY <1>2, handle_get_paramStep, Zenon
<1>4. n \in Nat
  BY <1>2, <1>3, FirstLength, Zenon
<1>5. out \in Seq(Answers)
  <2>1. params \in [ParamIds -> Values] /\ ParamIds \subseteq U32 /\ Values \subseteq Double
    BY WireAssumption DEF WireInv, WireTypeOK
  <2>2. requests[1].id \in U32 /\ params[requests[1].id] \in Double
    BY <1>3, <2>1
  <2>3. [type |-> "getParamResp", id |-> requests[1].id, value |-> params[requests[1].id]] \in Answers
    BY <2>2 DEF Answers
  <2>4. \A x \in Answers : <<x>> \in Seq(Answers)
    OBVIOUS
  <2> QED
    BY <1>2, <2>3, <2>4, Zenon
<1>6. host' \in {"starting", "running", "dead"} /\ params' \in [ParamIds -> Values]
  BY <1>1 DEF WireInv, WireTypeOK
<1> QED
  BY <1>1, <1>2, <1>3, <1>4, <1>5, <1>6, HostKeeps, Zenon

\* The VST3 loop answers silence, of whatever length it read.
LEMMA Vst3ProcessKeeps ==
  ASSUME WireInv, Vst3Process
  PROVE  WireInv'
<1>1. Vst3 /\ down # <<>> /\ NextRequest /\ host' = host /\ params' = params
  BY DEF Vst3Process, HasTag, guestVars
<1>2. PICK frame, silence :
        /\ frame = read_process_frame_body(Body) /\ frame.complete
        /\ silence = [s \in 1 .. frame.sample_count |-> F32Zero]
        /\ HostConsumes(1 + frame.need,
             <<[type |-> "processResp", block |-> <<silence, silence>>]>>)
  BY Zenon DEF Vst3Process
<1>3. ~(Len(Body) < 12 \/ Len(Body) < 12 + U32At(Body, 8))
  BY <1>2 DEF read_process_frame_body, Blocked
<1>4. frame.need = 12 + U32At(Body, 8) /\ frame.sample_count = U32At(Body, 0)
  BY <1>2, <1>3 DEF read_process_frame_body
<1>5. U32At(Body, 8) \in U32 /\ U32At(Body, 0) \in U32
  <2>1. Len(Body) \in Nat /\ ~(Len(Body) < 12)
    BY <1>1, <1>3, BodyType
  <2>2. 0 \in Nat /\ 0 + 4 <= Len(Body) /\ 8 \in Nat /\ 8 + 4 <= Len(Body)
    BY <2>1
  <2> QED
    BY <1>1, <2>2, BodyType, Zenon
<1>6. PICK n, k : n = 1 + frame.need /\ k = frame.sample_count
  OBVIOUS
<1>7. n \in Nat /\ k \in U32 /\ k \in Nat
  BY <1>4, <1>5, <1>6 DEF U32
<1>8. silence \in Seq(Sample) /\ Len(silence) = k
  <2>1. silence \in [1 .. k -> Sample]
    BY <1>2, <1>6, ZeroIsSample
  <2> QED
    BY <1>7, <2>1, TupleIsSeq
<1>9. <<silence, silence>> \in Rendered
  <2>1. PICK block : block = <<silence, silence>>
    OBVIOUS
  <2>2. /\ block \in Seq(Seq(Sample)) /\ Len(block) = 2 /\ block # <<>>
        /\ block[1] = silence /\ block[2] = silence
    BY <1>8, <2>1
  <2>3. SampleCount(block) = k
    BY <1>8, <2>2 DEF SampleCount
  <2>4. Len(block) \in U32
    BY <2>2, SmallNumbers
  <2>5. \A c \in 1 .. Len(block) : Len(block[c]) = k
    BY <1>8, <2>2
  <2> QED
    BY <1>7, <2>1, <2>2, <2>3, <2>4, <2>5 DEF Rendered
<1>10. PICK out : out = <<[type |-> "processResp", block |-> <<silence, silence>>]>>
  OBVIOUS
<1>11. out \in Seq(Answers)
  <2>1. [type |-> "processResp", block |-> <<silence, silence>>] \in Answers
    BY <1>9 DEF Answers
  <2>2. \A x \in Answers : <<x>> \in Seq(Answers)
    OBVIOUS
  <2> QED
    BY <1>10, <2>1, <2>2, Zenon
<1>12. HostConsumes(n, out)
  BY <1>2, <1>6, <1>10, Zenon
<1>13. host' \in {"starting", "running", "dead"} /\ params' \in [ParamIds -> Values]
  BY <1>1 DEF WireInv, WireTypeOK
<1> QED
  BY <1>1, <1>7, <1>11, <1>12, <1>13, HostKeeps, Zenon

\* The VST3 loop passes over a tag.
LEMMA Vst3SkipKeeps ==
  ASSUME WireInv, Vst3Skip
  PROVE  WireInv'
<1>1. Vst3 /\ down # <<>> /\ NextRequest /\ host' = host /\ params' = params
  BY DEF Vst3Skip, guestVars
<1>2. HostConsumes(1, <<>>)
  BY DEF Vst3Skip
<1>3. 1 \in Nat /\ <<>> \in Seq(Answers)
  OBVIOUS
<1>4. host' \in {"starting", "running", "dead"} /\ params' \in [ParamIds -> Values]
  BY <1>1 DEF WireInv, WireTypeOK
<1> QED
  BY <1>1, <1>2, <1>3, <1>4, HostKeeps, Zenon

\* Every step keeps the invariant.
LEMMA WireStep ==
  ASSUME WireInv, [WireNext]_wireVars
  PROVE  WireInv'
<1>1. CASE WireNext
  BY <1>1, EmulatorReadyKeeps, PollKeeps, PageSendsKeeps, SerialByteKeeps, HostLoadKeeps,
     process_blockKeeps, handle_set_paramKeeps, handle_get_paramKeeps, Vst3ProcessKeeps,
     Vst3SkipKeeps, Zenon DEF WireNext, HostStep
<1>2. CASE UNCHANGED wireVars
  BY <1>2 DEF wireVars, WireInv, WireTypeOK, HostInSync, PageInSync, NothingHeldBack
<1> QED
  BY <1>1, <1>2

-----------------------------------------------------------------------------
(* The theorems.                                                           *)

\* The inductive invariant holds of every reachable state, for any plugin format,
\* parameters, values and blocks whose counts fit their fields.
THEOREM WireInvariant == WireSpec => []WireInv
BY WireInitially, WireStep, PTL DEF WireSpec

\* Whatever the format of the plugin, both directions of the line carry bytes and
\* the parameters stay values (wasivst.js, main.cpp and the run loops).
THEOREM WireTypeCorrect == WireSpec => []WireTypeOK
<1>1. WireInv => WireTypeOK
  BY DEF WireInv
<1> QED
  BY <1>1, WireInvariant, PTL

\* #drainAndDispatch never loses the frame boundary, however the bytes of the
\* guest are split between calls of the listener, for VST2 and VST3 alike.
THEOREM PageStaysInSync == WireSpec => []PageInSync
<1>1. WireInv => PageInSync
  BY DEF WireInv
<1> QED
  BY <1>1, WireInvariant, PTL

\* #drainAndDispatch hands a frame on with its last byte: what it leaves in rxBuf
\* is the beginning of one frame, whose other bytes are on their way.
THEOREM NothingIsHeldBack == WireSpec => []NothingHeldBack
<1>1. WireInv => NothingHeldBack
  BY DEF WireInv
<1> QED
  BY <1>1, WireInvariant, PTL

\* serial-channel.cpp consumes each frame of the page whole, so the VST2 loop reads
\* a tag wherever it expects one, for frames of any number and size.
THEOREM HostStaysInSync ==
  ASSUME ~Vst3
  PROVE  WireSpec => []HostInSync
<1>1. WireInv => HostInSync
  BY DEF WireInv
<1> QED
  BY <1>1, WireInvariant, PTL

-----------------------------------------------------------------------------
(* The line implements FrameLink.tla.                                      *)

\* LOAD is the first frame, and opens the line.
Opened == loadState = "booting" <=> host = "starting" /\ requests = <<>>

\* Only LOAD opens the line.
LEMMA OpenedStep ==
  ASSUME WireInv, ~Vst3, Opened, [WireNext]_wireVars
  PROVE  Opened'
<1>0. requests \in Seq(Sent)
  BY DEF WireInv
<1>1. CASE EmulatorReady
  BY <1>0, <1>1 DEF EmulatorReady, serialWrite, Opened
<1>2. CASE Poll
  BY <1>2 DEF Poll, guestVars, Opened
<1>3. ASSUME NEW m \in PageRequest, PageSends(m)
      PROVE  Opened'
  BY <1>0, <1>3 DEF PageSends, serialWrite, Opened
<1>4. CASE SerialByte
  BY <1>4 DEF SerialByte, guestVars, Opened
<1>5. CASE HostLoad
  <2>1. down # <<>> /\ host' \in {"running", "dead"} /\ loadState' = loadState
    BY <1>5 DEF HostLoad, HasTag, HostConsumes, pageVars
  <2>2. requests # <<>>
    BY <2>1, HostFinds
  <2> QED
    BY <2>1, <2>2 DEF Opened
<1>6. CASE process_block \/ handle_set_param \/ handle_get_param \/ Vst3Process \/ Vst3Skip
  BY <1>6 DEF process_block, handle_set_param, handle_get_param, Vst3Process, Vst3Skip,
     HostConsumes, pageVars, guestVars, Opened
<1>7. CASE UNCHANGED wireVars
  BY <1>7 DEF wireVars, Opened
<1> QED
  BY <1>1, <1>2, <1>3, <1>4, <1>5, <1>6, <1>7 DEF WireNext, HostStep

-----------------------------------------------------------------------------
(* What the replies are to FrameLink.                                      *)

\* Replies, as what they mean to the page.
Abs(s) == [i \in DOMAIN s |-> AsAbstract(s[i])]

IsAbs(a, s) ==
  /\ Len(a) = Len(s) /\ DOMAIN a = 1 .. Len(s)
  /\ \A i \in 1 .. Len(s) : a[i] = AsAbstract(s[i])

AbsSet == {AsAbstract(m) : m \in Answers}

\* The replies as FrameLink sees them.
LEMMA AbsType ==
  ASSUME NEW s \in Seq(Answers)
  PROVE  Abs(s) \in Seq(AbsSet) /\ IsAbs(Abs(s), s)
<1>1. Len(s) \in Nat /\ DOMAIN s = 1 .. Len(s) /\ \A i \in 1 .. Len(s) : s[i] \in Answers
  BY LenProperties, ElementOfSeq
<1>2. Abs(s) \in [1 .. Len(s) -> AbsSet]
  BY <1>1 DEF Abs, AbsSet
<1> QED
  BY <1>1, <1>2, TupleIsSeq DEF Abs, IsAbs

TailOf(a, b) == a = Tail(b)

\* Taking the first reply.
LEMMA AbsTail ==
  ASSUME NEW s \in Seq(Answers), s # <<>>
  PROVE  TailOf(Abs(Tail(s)), Abs(s)) /\ Abs(s) # <<>> /\ Head(Abs(s)) = AsAbstract(s[1])
<1>1. /\ Tail(s) \in Seq(Answers) /\ Len(Tail(s)) = Len(s) - 1 /\ Len(s) \in Nat /\ Len(s) > 0
      /\ \A i \in 1 .. Len(s) - 1 : Tail(s)[i] = s[i + 1]
  BY EmptySeq
<1>2. PICK a, b : a = Abs(s) /\ b = Abs(Tail(s))
  OBVIOUS
<1>3. /\ a \in Seq(AbsSet) /\ b \in Seq(AbsSet) /\ Len(a) = Len(s) /\ Len(b) = Len(Tail(s))
      /\ \A i \in 1 .. Len(s) : a[i] = AsAbstract(s[i])
      /\ \A i \in 1 .. Len(Tail(s)) : b[i] = AsAbstract(Tail(s)[i])
  BY <1>1, <1>2, AbsType, Zenon DEF IsAbs
<1>4. PICK t : t = Tail(a)
  OBVIOUS
<1>5. /\ t \in Seq(AbsSet) /\ Len(t) = Len(s) - 1 /\ a # <<>> /\ Head(a) = a[1]
      /\ \A i \in 1 .. Len(s) - 1 : t[i] = a[i + 1]
  BY <1>1, <1>3, <1>4
<1>6. \A i \in 1 .. Len(s) - 1 : i + 1 \in 1 .. Len(s) /\ t[i] = b[i]
  BY <1>1, <1>3, <1>5
<1>7. b = t
  BY <1>1, <1>3, <1>5, <1>6, SeqEqual
<1>8. 1 \in 1 .. Len(s)
  BY <1>1
<1> QED
  BY <1>2, <1>3, <1>4, <1>5, <1>7, <1>8, Zenon DEF TailOf

AppendOf(a, b, x) == a = Append(b, x)

\* Adding a reply.
LEMMA AbsAppend ==
  ASSUME NEW s \in Seq(Answers), NEW m \in Answers
  PROVE  AppendOf(Abs(s \o <<m>>), Abs(s), AsAbstract(m))
<1>1. PICK u : u = s \o <<m>>
  OBVIOUS
<1>2. /\ u \in Seq(Answers) /\ Len(u) = Len(s) + 1 /\ Len(s) \in Nat /\ u[Len(s) + 1] = m
      /\ \A i \in 1 .. Len(s) : u[i] = s[i]
  BY <1>1
<1>3. PICK a, b : a = Abs(s) /\ b = Abs(u)
  OBVIOUS
<1>4. /\ a \in Seq(AbsSet) /\ b \in Seq(AbsSet) /\ Len(a) = Len(s) /\ Len(b) = Len(u)
      /\ \A i \in 1 .. Len(s) : a[i] = AsAbstract(s[i])
      /\ \A i \in 1 .. Len(u) : b[i] = AsAbstract(u[i])
  BY <1>2, <1>3, AbsType, Zenon DEF IsAbs
<1>5. PICK x : x = AsAbstract(m) /\ x \in AbsSet
  BY DEF AbsSet
<1>6. PICK t : t = Append(a, x)
  OBVIOUS
<1>7. /\ t \in Seq(AbsSet) /\ Len(t) = Len(s) + 1 /\ t[Len(s) + 1] = x
      /\ \A i \in 1 .. Len(s) : t[i] = a[i]
  BY <1>4, <1>5, <1>6
<1>8. ASSUME NEW i \in 1 .. Len(s) + 1
      PROVE  b[i] = t[i]
  <2>1. CASE i \in 1 .. Len(s)
    BY <1>2, <1>4, <1>7, <2>1
  <2>2. CASE i = Len(s) + 1
    <3>1. b[i] = AsAbstract(u[i]) /\ u[i] = m
      BY <1>2, <1>4, <2>2, Zenon
    <3> QED
      BY <1>5, <1>7, <2>2, <3>1, Zenon
  <2> QED
    BY <1>2, <2>1, <2>2
<1>9. b = t
  BY <1>2, <1>4, <1>7, <1>8, SeqEqual
<1> QED
  BY <1>1, <1>3, <1>5, <1>6, <1>9, Zenon DEF AppendOf

\* The AudioWorklet hands over channels of one length.
EvenBlocks ==
  \A block \in Blocks : \A c \in 1 .. Len(block) : Len(block[c]) = SampleCount(block)

\* A block of the AudioWorklet is padded with nothing.
LEMMA PaddingAddsNothing ==
  ASSUME EvenBlocks, NEW block \in Blocks
  PROVE  Padded(block) = block
<1>1. block \in Seq(Seq(Sample)) /\ DOMAIN block = 1 .. Len(block) /\ Len(block) \in Nat
  BY BlockIsSendable, LenProperties DEF Sendable
<1>2. PICK n : n = SampleCount(block)
  OBVIOUS
<1>3. \A c \in 1 .. Len(block) : Padded(block)[c] = block[c]
  <2> SUFFICES ASSUME NEW c \in 1 .. Len(block) PROVE Padded(block)[c] = block[c]
    OBVIOUS
  <2>1. block[c] \in Seq(Sample) /\ Len(block[c]) = n
    BY <1>1, <1>2 DEF EvenBlocks
  <2>2. Padded(block)[c] = [i \in 1 .. n |-> IF i <= n THEN block[c][i] ELSE F32Zero]
    BY <1>1, <1>2, <2>1 DEF Padded
  <2>3. DOMAIN block[c] = 1 .. n /\ block[c] = [i \in DOMAIN block[c] |-> block[c][i]] /\ n \in Nat
    BY <2>1
  <2>4. \A i \in 1 .. n : i <= n
    BY <2>3
  <2> QED
    BY <2>2, <2>3, <2>4
<1>4. DOMAIN Padded(block) = 1 .. Len(block) /\ Padded(block) = [c \in 1 .. Len(block) |-> Padded(block)[c]]
  BY <1>1 DEF Padded
<1>5. block = [c \in 1 .. Len(block) |-> block[c]]
  BY <1>1
<1> QED
  BY <1>3, <1>4, <1>5, Zenon

\* The line starts as FrameLink does.
LEMMA WireInitImplements == WireInit => Link!LinkInit
<1> SUFFICES ASSUME WireInit PROVE Link!LinkInit
  OBVIOUS
<1>1. /\ requests = <<>> /\ replies = <<>> /\ rxBuf = <<>> /\ host = "starting"
      /\ params = Initial /\ dispatched = [type |-> "none"]
  BY DEF WireInit
<1>2. [i \in DOMAIN replies |-> AsAbstract(replies[i])] = <<>>
  BY <1>1
<1>3. AsAbstract(dispatched) = [type |-> "none"]
  BY <1>1 DEF AsAbstract
<1>4. (rxBuf # <<>>) = FALSE
  BY <1>1
<1> QED
  BY <1>1, <1>2, <1>3, <1>4 DEF Link!LinkInit, Link!Nothing

\* The page sends.
LEMMA SendImplements ==
  ASSUME WireInv, NEW m \in Sent, serialWrite(m), 
         m = [type |-> "load"] <=> host = "starting" /\ requests = <<>>
  PROVE  Link!LinkNext
<1>1. /\ requests' = Append(requests, m) /\ replies' = replies /\ rxBuf' = rxBuf
      /\ host' = host /\ params' = params /\ dispatched' = dispatched
  BY DEF serialWrite, guestVars
<1>2. m \in Link!Request
  BY WireAssumption DEF Sent, PageRequest, Link!Request, Link!LoadRequest
<1>3. Link!PageSends(m)
  BY <1>1 DEF Link!PageSends, Link!Send, Link!LoadRequest
<1> QED
  BY <1>2, <1>3 DEF Link!LinkNext

\* The page sends LOAD from load() only.
LEMMA PageRequestIsNotLoad ==
  ASSUME NEW m \in PageRequest
  PROVE  m # [type |-> "load"]
<1>1. m.type # "load"
  BY DEF PageRequest
<1> QED
  BY <1>1

\* A frame the page writes is one Send.
LEMMA PageImplements ==
  ASSUME WireInv, Opened, EmulatorReady \/ \E m \in PageRequest : PageSends(m)
  PROVE  Link!LinkNext
<1>1. CASE EmulatorReady
  <2>1. [type |-> "load"] \in Sent
    BY DEF Sent
  <2>2. serialWrite([type |-> "load"]) /\ host = "starting" /\ requests = <<>>
    BY <1>1 DEF EmulatorReady, Opened
  <2> QED
    BY <2>1, <2>2, SendImplements
<1>2. ASSUME NEW m \in PageRequest, PageSends(m)
      PROVE  Link!LinkNext
  <2>1. m \in Sent /\ m # [type |-> "load"]
    BY PageRequestIsNotLoad DEF Sent
  <2>2. serialWrite(m) /\ ~(host = "starting" /\ requests = <<>>)
    BY <1>2 DEF PageSends, Opened
  <2> QED
    BY <2>1, <2>2, SendImplements
<1> QED
  BY <1>1, <1>2

\* A byte reaches the page.
LEMMA SerialByteImplements ==
  ASSUME WireInv, SerialByte
  PROVE  Link!LinkNext \/ UNCHANGED Link!linkVars
<1>1. replies # <<>> /\ replies \in Seq(Answers) /\ (ByteKept \/ ByteCompletes)
  BY ByteCases DEF WireInv
<1>2. requests' = requests /\ host' = host /\ params' = params
  BY DEF SerialByte, guestVars
<1>3. PICK r : r = Abs(replies)
  OBVIOUS
<1>4. r # <<>> /\ Head(r) = AsAbstract(replies[1])
  BY <1>1, <1>3, AbsTail
<1>5. CASE ByteKept
  <2>1. replies' = replies /\ dispatched' = dispatched /\ rxBuf' # <<>>
    BY <1>5, Zenon DEF ByteKept
  <2>2. CASE rxBuf = <<>>
    <3>1. Link!ReplyBegins
      BY <1>2, <1>3, <1>4, <2>1, <2>2 DEF Link!ReplyBegins, Abs
    <3> QED
      BY <3>1 DEF Link!LinkNext, Link!ListenerStep
  <2>3. CASE rxBuf # <<>>
    BY <1>2, <2>1, <2>3 DEF Link!linkVars
  <2> QED
    BY <2>2, <2>3
<1>6. CASE ByteCompletes
  <2>1. /\ rxBuf # <<>> /\ rxBuf' = <<>> /\ replies' = Tail(replies)
        /\ dispatched' = replies[1]
    BY <1>6, Zenon DEF ByteCompletes
  <2>2. Abs(replies') = Tail(r)
    <3>1. TailOf(Abs(Tail(replies)), Abs(replies))
      BY <1>1, AbsTail
    <3> QED
      BY <1>3, <2>1, <3>1, Zenon DEF TailOf
  <2>3. AsAbstract(dispatched') = Head(r)
    BY <1>4, <2>1
  <2>4. Link!DispatchReply
    BY <1>2, <1>3, <2>1, <2>2, <2>3 DEF Link!DispatchReply, Abs
  <2> QED
    BY <2>4 DEF Link!LinkNext, Link!ListenerStep
<1> QED
  BY <1>1, <1>5, <1>6

\* What the host writes is one reply to FrameLink, or none.
LEMMA HostWritesOne ==
  ASSUME WireInv, NEW n, NEW m \in Answers, HostConsumes(n, <<m>>)
  PROVE  /\ Abs(replies') = Append(Abs(replies), AsAbstract(m))
         /\ (rxBuf # <<>>)' = (rxBuf # <<>>) /\ dispatched' = dispatched
<1>1. replies \in Seq(Answers)
  BY DEF WireInv
<1>2. replies' = replies \o <<m>> /\ rxBuf' = rxBuf /\ dispatched' = dispatched
  BY DEF HostConsumes, pageVars
<1>3. AppendOf(Abs(replies \o <<m>>), Abs(replies), AsAbstract(m))
  BY <1>1, AbsAppend
<1> QED
  BY <1>2, <1>3, Zenon DEF AppendOf

\* ... and a step without reply writes none.
LEMMA HostWritesNone ==
  ASSUME WireInv, NEW n, HostConsumes(n, <<>>)
  PROVE  replies' = replies /\ (rxBuf # <<>>)' = (rxBuf # <<>>) /\ dispatched' = dispatched
<1>1. replies \in Seq(Answers)
  BY DEF WireInv
<1> QED
  BY <1>1 DEF HostConsumes, pageVars

\* The host takes the first request.
LEMMA NextIsTail ==
  ASSUME WireInv, NextRequest, requests # <<>>
  PROVE  requests' = Tail(requests) /\ Head(requests) = requests[1]
<1>1. requests \in Seq(Sent)
  BY DEF WireInv
<1> QED
  BY <1>1 DEF NextRequest

\* LOAD is taken, and the plugin comes up or the host dies.
LEMMA HostLoadImplements ==
  ASSUME WireInv, ~Vst3, HostLoad
  PROVE  Link!LinkNext
<1>1. down # <<>> /\ down[1] = 1 /\ NextRequest /\ params' = params /\ host = "starting"
  BY DEF HostLoad, HasTag, FrameTag
<1>2. PICK n : \/ host' = "running" /\ HostConsumes(n, StartupLogs)
               \/ host' = "dead" /\ HostConsumes(n, <<>>)
  BY Zenon DEF HostLoad
<1>3. requests # <<>> /\ requests[1].type = "load"
  <2>1. PICK f : f = RequestBytes(requests[1])
    OBVIOUS
  <2>2. requests # <<>> /\ Readable(requests[1], f) /\ f[1] = 1
    BY <1>1, <2>1, HostFinds
  <2> QED
    BY <2>2 DEF Readable
<1>4. requests' = Tail(requests) /\ Head(requests) = requests[1]
  BY <1>1, <1>3, NextIsTail
<1>5. CASE host' = "running" /\ HostConsumes(n, StartupLogs)
  <2>1. PICK m : m = LogFrame(1, 9, 27)
    OBVIOUS
  <2>2. m \in Answers
    <3>1. 1 \in 0 .. 255 /\ 9 \in 0 .. 255 /\ 27 \in 0 .. 255
      OBVIOUS
    <3>2. \A level \in Byte, a \in U32, b \in U32 : LogFrame(level, a, b) \in Answers
      BY DEF Answers
    <3> QED
      BY <2>1, <3>1, <3>2, SmallNumbers, Zenon
  <2>3. StartupLogs = <<m>> /\ AsAbstract(m) = [type |-> "log"]
    BY <2>1 DEF StartupLogs, AsAbstract, LogFrame
  <2>4. /\ Abs(replies') = Append(Abs(replies), [type |-> "log"])
        /\ (rxBuf # <<>>)' = (rxBuf # <<>>) /\ dispatched' = dispatched
    BY <1>5, <2>2, <2>3, HostWritesOne
  <2>5. Link!HostLoad
    BY <1>1, <1>3, <1>4, <1>5, <2>4 DEF Link!HostLoad, Link!TakeRequest, Link!LogReply, Abs
  <2> QED
    BY <2>5 DEF Link!LinkNext, Link!HostStep
<1>6. CASE host' = "dead" /\ HostConsumes(n, <<>>)
  <2>1. replies' = replies /\ (rxBuf # <<>>)' = (rxBuf # <<>>) /\ dispatched' = dispatched
    BY <1>6, HostWritesNone
  <2>2. Link!HostLoadFails
    BY <1>1, <1>3, <1>4, <1>6, <2>1 DEF Link!HostLoadFails
  <2> QED
    BY <2>2 DEF Link!LinkNext, Link!HostStep
<1> QED
  BY <1>2, <1>5, <1>6

\* A block is taken and comes back.
LEMMA process_blockImplements ==
  ASSUME WireInv, EvenBlocks, process_block
  PROVE  Link!LinkNext
<1>1. NextRequest /\ host' = host /\ params' = params /\ host = "running"
  BY DEF process_block, guestVars
<1>2. PICK n, m : /\ n = Len(RequestBytes(requests[1]))
                  /\ m = [type |-> "processResp", block |-> Padded(requests[1].block)]
  OBVIOUS
<1>3. /\ requests # <<>> /\ requests[1].type = "process" /\ Sendable(requests[1].block)
      /\ HostConsumes(n, <<m>>)
  BY <1>2, process_blockStep, Zenon
<1>4. requests' = Tail(requests) /\ Head(requests) = requests[1]
  BY <1>1, <1>3, NextIsTail
<1>5. requests[1].block \in Blocks
  <2>1. requests \in Seq(Sent)
    BY DEF WireInv
  <2>2. requests[1] \in Sent
    BY <1>3, <2>1
  <2> QED
    BY <1>3, <2>2 DEF Sent, PageRequest
<1>6. m = [type |-> "processResp", block |-> requests[1].block]
  BY <1>2, <1>5, PaddingAddsNothing
<1>7. m \in Answers /\ AsAbstract(m) = m
  <2>1. Padded(requests[1].block) \in Rendered
    BY <1>3, PaddedIsRendered
  <2> QED
    BY <1>2, <2>1 DEF Answers, AsAbstract
<1>8. /\ Abs(replies') = Append(Abs(replies), m)
      /\ (rxBuf # <<>>)' = (rxBuf # <<>>) /\ dispatched' = dispatched
  BY <1>3, <1>7, HostWritesOne
<1>9. Link!process_block
  BY <1>1, <1>3, <1>4, <1>6, <1>8 DEF Link!process_block, Link!TakeRequest, Abs
<1> QED
  BY <1>9 DEF Link!LinkNext, Link!HostStep

\* A value is taken and rounded.
LEMMA handle_set_paramImplements ==
  ASSUME WireInv, handle_set_param
  PROVE  Link!LinkNext
<1>1. NextRequest /\ host' = host /\ host = "running"
  BY DEF handle_set_param
<1>2. PICK n : n = Len(RequestBytes(requests[1]))
  OBVIOUS
<1>3. /\ requests # <<>> /\ requests[1].type = "setParam"
      /\ HostConsumes(n, <<>>)
      /\ params' = [params EXCEPT ![requests[1].id] = ToFloat[requests[1].value]]
  BY <1>2, handle_set_paramStep, Zenon
<1>4. requests' = Tail(requests) /\ Head(requests) = requests[1]
  BY <1>1, <1>3, NextIsTail
<1>5. replies' = replies /\ (rxBuf # <<>>)' = (rxBuf # <<>>) /\ dispatched' = dispatched
  BY <1>3, HostWritesNone
<1>6. Link!handle_set_param
  BY <1>1, <1>3, <1>4, <1>5 DEF Link!handle_set_param, Link!TakeRequest
<1> QED
  BY <1>6 DEF Link!LinkNext, Link!HostStep

\* A query is taken and answered.
LEMMA handle_get_paramImplements ==
  ASSUME WireInv, handle_get_param
  PROVE  Link!LinkNext
<1>1. NextRequest /\ host' = host /\ host = "running" /\ params' = params
  BY DEF handle_get_param, guestVars
<1>2. PICK n, m : /\ n = Len(RequestBytes(requests[1]))
                  /\ m = [type |-> "getParamResp", id |-> requests[1].id,
                          value |-> params[requests[1].id]]
  OBVIOUS
<1>3. /\ requests # <<>> /\ requests[1].type = "getParam" /\ requests[1].id \in ParamIds
      /\ HostConsumes(n, <<m>>)
  BY <1>2, handle_get_paramStep, Zenon
<1>4. requests' = Tail(requests) /\ Head(requests) = requests[1]
  BY <1>1, <1>3, NextIsTail
<1>5. m \in Answers /\ AsAbstract(m) = m
  <2>1. params \in [ParamIds -> Values] /\ ParamIds \subseteq U32 /\ Values \subseteq Double
    BY WireAssumption DEF WireInv, WireTypeOK
  <2>2. requests[1].id \in U32 /\ params[requests[1].id] \in Double
    BY <1>3, <2>1
  <2> QED
    BY <1>2, <2>2 DEF Answers, AsAbstract
<1>6. /\ Abs(replies') = Append(Abs(replies), m)
      /\ (rxBuf # <<>>)' = (rxBuf # <<>>) /\ dispatched' = dispatched
  BY <1>3, <1>5, HostWritesOne
<1>7. Link!handle_get_param
  BY <1>1, <1>2, <1>3, <1>4, <1>6 DEF Link!handle_get_param, Link!TakeRequest, Abs
<1> QED
  BY <1>7 DEF Link!LinkNext, Link!HostStep

\* Every step implements one of FrameLink, or leaves its state alone.
LEMMA WireStepImplements ==
  ASSUME WireInv, Opened, ~Vst3, EvenBlocks, [WireNext]_wireVars
  PROVE  [Link!LinkNext]_(Link!linkVars)
<1>1. CASE EmulatorReady \/ \E m \in PageRequest : PageSends(m)
  BY <1>1, PageImplements
<1>2. CASE Poll
  BY <1>2 DEF Poll, guestVars, Link!linkVars
<1>3. CASE SerialByte
  BY <1>3, SerialByteImplements
<1>4. CASE HostLoad
  BY <1>4, HostLoadImplements
<1>5. CASE process_block
  BY <1>5, process_blockImplements
<1>6. CASE handle_set_param
  BY <1>6, handle_set_paramImplements
<1>7. CASE handle_get_param
  BY <1>7, handle_get_paramImplements
<1>8. CASE Vst3Process \/ Vst3Skip
  BY <1>8 DEF Vst3Process, Vst3Skip
<1>9. CASE UNCHANGED wireVars
  BY <1>9 DEF wireVars, Link!linkVars
<1> QED
  BY <1>1, <1>2, <1>3, <1>4, <1>5, <1>6, <1>7, <1>8, <1>9 DEF WireNext, HostStep

\* The bytes implement the frame queues of FrameLink.tla, for a VST2 plugin and
\* blocks as the AudioWorklet hands them over: the two ends take the same frames,
\* whole and in order, each once.  (That a frame arrives stays with TLC.)
THEOREM LineCarriesFrames ==
  ASSUME ~Vst3, EvenBlocks
  PROVE  WireSpec => Link!LinkSafety
<1>1. WireInit => Opened
  BY DEF WireInit, Opened
<1>2. WireInv /\ Opened /\ [WireNext]_wireVars => Opened'
  BY OpenedStep
<1>3. WireSpec => []Opened
  BY <1>1, <1>2, WireInvariant, PTL DEF WireSpec
<1>4. WireInv /\ Opened /\ [WireNext]_wireVars => [Link!LinkNext]_(Link!linkVars)
  BY WireStepImplements
<1> QED
  BY <1>3, <1>4, WireInvariant, WireInitImplements, PTL DEF WireSpec, Link!LinkSafety

=============================================================================

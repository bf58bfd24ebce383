------------------------- MODULE SnapshotWorkerProofs ------------------------
(* Proofs about the snapshot worker, for any vocabulary, prompts, context  *)
(* and decode size: the contexts hold what the runtime takes for resident, *)
(* every cell kept or read is the one the tokens determine, the worker     *)
(* implements SnapshotSemantics, which has no contexts, and the backend    *)
(* believes its answers.                                                   *)
EXTENDS SnapshotWorkerInvariant, SnapshotReplies, SequenceTheorems, FiniteSetTheorems, TLAPS

----------------------------------------------------------------------------
(* Sequences.                                                              *)

\* A sequence over some set, without the set.
LEMMA SeqIs ==
    ASSUME NEW S, NEW s \in Seq(S)
    PROVE  /\ IsSeq(s) /\ Len(s) \in Nat /\ DOMAIN s = 1..Len(s)
           /\ s = [i \in 1..Len(s) |-> s[i]]
<1>1. Len(s) \in Nat /\ DOMAIN s = 1..Len(s) /\ s \in [1..Len(s) -> S]
  BY LenProperties
<1>2. s = [i \in 1..Len(s) |-> s[i]]
  BY <1>1
<1>3. s \in [1..Len(s) -> {s[i] : i \in 1..Len(s)}]
  BY <1>2
<1>4. s \in Seq({s[i] : i \in 1..Len(s)})
  BY <1>1, <1>3, SeqDef
<1> QED BY <1>1, <1>2, <1>4 DEF IsSeq

LEMMA SeqFacts ==
    ASSUME NEW s, IsSeq(s)
    PROVE  /\ Len(s) \in Nat /\ DOMAIN s = 1..Len(s)
           /\ s = [i \in 1..Len(s) |-> s[i]]
  BY SeqIs DEF IsSeq

\* A function on 1..n is a sequence of n elements.
LEMMA MakeSeq ==
    ASSUME NEW n \in Nat, NEW f, f = [i \in 1..n |-> f[i]]
    PROVE  IsSeq(f) /\ Len(f) = n
<1>1. DOMAIN f = 1..n
  OBVIOUS
<1>2. f \in [1..n -> {f[i] : i \in 1..n}]
  BY <1>1
<1>3. f \in Seq({f[i] : i \in 1..n})
  BY <1>2, SeqDef
<1> QED BY <1>1, <1>3, LenProperties DEF IsSeq

\* Sequences of one length with the same elements are the same.
LEMMA SameSeq ==
    ASSUME NEW s, IsSeq(s), NEW t, IsSeq(t), Len(s) = Len(t),
           \A i \in 1..Len(s) : s[i] = t[i]
    PROVE  s = t
<1>1. s = [i \in 1..Len(s) |-> s[i]] /\ t = [i \in 1..Len(s) |-> t[i]]
  BY SeqFacts
<1> QED BY <1>1

\* What a concatenation is, element by element.
LEMMA Joined ==
    ASSUME NEW s, IsSeq(s), NEW t, IsSeq(t)
    PROVE  /\ IsSeq(s \o t) /\ Len(s \o t) = Len(s) + Len(t)
           /\ \A i \in 1..Len(s) : (s \o t)[i] = s[i]
           /\ \A i \in 1..Len(t) : (s \o t)[Len(s) + i] = t[i]
<1> DEFINE S == {s[i] : i \in DOMAIN s} \cup {t[i] : i \in DOMAIN t}
<1>1. s \in Seq(S) /\ t \in Seq(S)
  <2>1. {s[i] : i \in DOMAIN s} \subseteq S /\ {t[i] : i \in DOMAIN t} \subseteq S
    OBVIOUS
  <2> HIDE DEF S
  <2> QED BY <2>1, SeqMonotonic DEF IsSeq
<1> HIDE DEF S
<1>2. s \o t \in Seq(S) /\ Len(s \o t) = Len(s) + Len(t)
  BY <1>1, ConcatProperties
<1>3. \A i \in 1..Len(s) : (s \o t)[i] = s[i]
  BY <1>1, ConcatProperties, LenProperties
<1>4. \A i \in 1..Len(t) : (s \o t)[Len(s) + i] = t[i]
  <2> SUFFICES ASSUME NEW i \in 1..Len(t) PROVE (s \o t)[Len(s) + i] = t[i]
    OBVIOUS
  <2>1. Len(s) \in Nat /\ Len(t) \in Nat
    BY <1>1, LenProperties
  <2>2. Len(s) + i \in 1..(Len(s) + Len(t)) /\ ~(Len(s) + i <= Len(s)) /\ Len(s) + i - Len(s) = i
    BY <2>1
  <2> QED BY <1>1, <2>2, ConcatProperties
<1> QED BY <1>2, <1>3, <1>4, SeqIs

\* A part of a sequence; a part past its end has a length all the same.
LEMMA Part ==
    ASSUME NEW s, NEW m \in Nat, NEW n \in Nat
    PROVE  /\ IsSeq(SubSeq(s, m + 1, m + n)) /\ Len(SubSeq(s, m + 1, m + n)) = n
           /\ \A i \in 1..n : SubSeq(s, m + 1, m + n)[i] = s[m + i]
<1> DEFINE p == SubSeq(s, m + 1, m + n)
<1>1. p = [i \in 1..n |-> s[i + (m + 1) - 1]]
  OBVIOUS
<1>2. \A i \in 1..n : p[i] = s[m + i]
  BY <1>1
<1>3. p = [i \in 1..n |-> p[i]]
  BY <1>1
<1> HIDE DEF p
<1>4. IsSeq(p) /\ Len(p) = n
  BY <1>3, MakeSeq
<1> QED BY <1>2, <1>4 DEF p

\* The first n of a sequence, even of fewer.
LEMMA UptoFacts ==
    ASSUME NEW s, NEW n \in Nat
    PROVE  /\ IsSeq(Upto(s, n)) /\ Len(Upto(s, n)) = n
           /\ \A i \in 1..n : Upto(s, n)[i] = s[i]
  BY Part, 0 + 1 = 1, 0 + n = n DEF Upto

LEMMA UptoAll ==
    ASSUME NEW s, IsSeq(s)
    PROVE  Upto(s, Len(s)) = s
  BY UptoFacts, SameSeq, SeqFacts

\* The rest of a sequence.
LEMMA FromFacts ==
    ASSUME NEW s, IsSeq(s), NEW n \in 0..Len(s)
    PROVE  /\ IsSeq(From(s, n)) /\ Len(From(s, n)) = Len(s) - n
           /\ \A i \in 1..(Len(s) - n) : From(s, n)[i] = s[n + i]
<1>1. n \in Nat /\ Len(s) - n \in Nat /\ n + (Len(s) - n) = Len(s)
  BY SeqFacts
<1> DEFINE k == Len(s) - n
<1>2. /\ IsSeq(SubSeq(s, n + 1, n + k)) /\ Len(SubSeq(s, n + 1, n + k)) = k
      /\ \A i \in 1..k : SubSeq(s, n + 1, n + k)[i] = s[n + i]
  <2> HIDE DEF k
  <2> QED BY <1>1, Part DEF k
<1>3. From(s, n) = SubSeq(s, n + 1, n + k)
  BY <1>1 DEF From
<1> QED BY <1>2, <1>3

\* A sequence is its first n and the rest.
LEMMA Whole ==
    ASSUME NEW s, IsSeq(s), NEW n \in 0..Len(s)
    PROVE  s = Upto(s, n) \o From(s, n)
<1>1. n \in Nat /\ Len(s) \in Nat
  BY SeqFacts
<1> DEFINE u == Upto(s, n)
           f == From(s, n)
<1>2. /\ IsSeq(u) /\ Len(u) = n /\ IsSeq(f) /\ Len(f) = Len(s) - n
      /\ \A i \in 1..n : u[i] = s[i]
      /\ \A i \in 1..(Len(s) - n) : f[i] = s[n + i]
  BY <1>1, UptoFacts, FromFacts
<1> HIDE DEF u, f
<1>a. /\ IsSeq(u \o f) /\ Len(u \o f) = Len(u) + Len(f)
      /\ \A i \in 1..Len(u) : (u \o f)[i] = u[i]
      /\ \A i \in 1..Len(f) : (u \o f)[Len(u) + i] = f[i]
  <2>1. IsSeq(u) /\ IsSeq(f)
    BY <1>2
  <2> QED BY <2>1, Joined
<1>3. /\ IsSeq(u \o f) /\ Len(u \o f) = Len(s)
      /\ \A i \in 1..n : (u \o f)[i] = u[i]
      /\ \A i \in 1..(Len(s) - n) : (u \o f)[n + i] = f[i]
  BY <1>1, <1>2, <1>a
<1>4. ASSUME NEW i \in 1..Len(s) PROVE s[i] = (u \o f)[i]
  <2>1. CASE i <= n
    BY <1>1, <1>2, <1>3, <2>1
  <2>2. CASE i > n
    <3>1. i - n \in 1..(Len(s) - n) /\ n + (i - n) = i
      BY <1>1, <2>2
    <3>2. f[i - n] = s[n + (i - n)] /\ (u \o f)[n + (i - n)] = f[i - n]
      BY <1>2, <1>3, <3>1
    <3> QED BY <3>1, <3>2
  <2>3. i <= n \/ i > n
    BY <1>1
  <2> QED BY <2>1, <2>2, <2>3
<1>5. s = u \o f
  BY <1>3, <1>4, SameSeq
<1> QED BY <1>5 DEF u, f

\* What follows does not change what came before.
LEMMA UptoJoined ==
    ASSUME NEW s, IsSeq(s), NEW t, IsSeq(t), NEW n \in 0..Len(s)
    PROVE  Upto(s \o t, n) = Upto(s, n)
<1>1. n \in Nat /\ n <= Len(s) /\ Len(s) \in Nat
  BY SeqFacts
<1>2. \A i \in 1..n : (s \o t)[i] = s[i]
  BY <1>1, Joined
<1>3. /\ IsSeq(Upto(s \o t, n)) /\ Len(Upto(s \o t, n)) = n
      /\ \A i \in 1..n : Upto(s \o t, n)[i] = (s \o t)[i]
      /\ IsSeq(Upto(s, n)) /\ Len(Upto(s, n)) = n /\ \A i \in 1..n : Upto(s, n)[i] = s[i]
  BY <1>1, UptoFacts
<1> QED BY <1>2, <1>3, SameSeq

LEMMA FromJoined ==
    ASSUME NEW s, IsSeq(s), NEW t, IsSeq(t)
    PROVE  From(s \o t, Len(s)) = t
<1>1. /\ Len(s) \in Nat /\ Len(t) \in Nat /\ IsSeq(s \o t) /\ Len(s \o t) = Len(s) + Len(t)
      /\ \A i \in 1..Len(t) : (s \o t)[Len(s) + i] = t[i]
  <2>1. Len(s) \in Nat /\ Len(t) \in Nat
    BY SeqFacts
  <2> QED BY <2>1, Joined
<1>2. Len(s) \in 0..Len(s \o t) /\ Len(s \o t) - Len(s) = Len(t)
  BY <1>1
<1>3. /\ IsSeq(From(s \o t, Len(s))) /\ Len(From(s \o t, Len(s))) = Len(t)
      /\ \A i \in 1..Len(t) : From(s \o t, Len(s))[i] = (s \o t)[Len(s) + i]
  BY <1>1, <1>2, FromFacts
<1> QED BY <1>1, <1>3, SameSeq

----------------------------------------------------------------------------
(* Cells.                                                                  *)

\* A decode appends a cell an input and changes none before it.
LEMMA Decoded ==
    ASSUME NEW c, IsSeq(c), NEW t, IsSeq(t)
    PROVE  /\ IsSeq(Decode(c, t)) /\ Len(Decode(c, t)) = Len(c) + Len(t)
           /\ Upto(Decode(c, t), Len(c)) = c
           /\ \A n \in 0..Len(c) : Upto(Decode(c, t), n) = Upto(c, n)
<1> DEFINE new == [i \in 1..Len(t) |->
                     LET k == (i - 1) \div Batch IN
                     [input |-> t[i], first |-> Len(c) + k * Batch + 1,
                      size |-> PrefillChunks(Len(t))[k + 1]]]
<1>1. Decode(c, t) = c \o new
  BY DEF Decode
<1>2. new = [i \in 1..Len(t) |-> new[i]]
  OBVIOUS
<1>3. Len(t) \in Nat /\ Len(c) \in Nat
  BY SeqFacts
<1> HIDE DEF new
<1>4. IsSeq(new) /\ Len(new) = Len(t)
  BY <1>2, <1>3, MakeSeq
<1>5. \A n \in 0..Len(c) : Upto(c \o new, n) = Upto(c, n)
  BY <1>4, UptoJoined
<1>6. Upto(c \o new, Len(c)) = c
  BY <1>3, <1>5, UptoAll
<1> QED BY <1>1, <1>4, <1>5, <1>6, Joined

\* The row of a position is the cells up to it.
LEMMA Rows ==
    ASSUME NEW c, IsSeq(c), NEW n \in 0..Len(c)
    PROVE  /\ IsSeq(RowsAfter(c, n)) /\ Len(RowsAfter(c, n)) = Len(c) - n
           /\ \A i \in 1..(Len(c) - n) : RowsAfter(c, n)[i] = Upto(c, n + i)
<1>1. Len(c) - n \in Nat
  BY SeqFacts
<1> DEFINE r == RowsAfter(c, n)
<1>2. r = [i \in 1..(Len(c) - n) |-> r[i]] /\ \A i \in 1..(Len(c) - n) : r[i] = Upto(c, n + i)
  BY DEF RowsAfter, Upto
<1> HIDE DEF r
<1>3. IsSeq(r) /\ Len(r) = Len(c) - n
  BY <1>1, <1>2, MakeSeq
<1> QED BY <1>2, <1>3 DEF r

\* The rows of a context that went on are those it had and the new ones.
LEMMA RowsOn ==
    ASSUME NEW c, IsSeq(c), NEW d, IsSeq(d), Len(c) <= Len(d), Upto(d, Len(c)) = c
    PROVE  RowsAfter(d, 0) = RowsAfter(c, 0) \o RowsAfter(d, Len(c))
<1>1. Len(c) \in Nat /\ Len(d) \in Nat /\ Len(d) - 0 = Len(d) /\ Len(c) - 0 = Len(c)
  BY SeqFacts
<1> DEFINE r == RowsAfter(c, 0)
           q == RowsAfter(d, Len(c))
           w == RowsAfter(d, 0)
<1>2. /\ IsSeq(r) /\ Len(r) = Len(c) /\ \A i \in 1..Len(c) : r[i] = Upto(c, 0 + i)
      /\ IsSeq(w) /\ Len(w) = Len(d) /\ \A i \in 1..Len(d) : w[i] = Upto(d, 0 + i)
      /\ IsSeq(q) /\ Len(q) = Len(d) - Len(c)
      /\ \A i \in 1..(Len(d) - Len(c)) : q[i] = Upto(d, Len(c) + i)
  <2>1. 0 \in 0..Len(c) /\ 0 \in 0..Len(d) /\ Len(c) \in 0..Len(d)
    BY <1>1
  <2> QED BY <1>1, <2>1, Rows
<1> HIDE DEF r, q, w
<1>a. /\ IsSeq(r \o q) /\ Len(r \o q) = Len(r) + Len(q)
      /\ \A i \in 1..Len(r) : (r \o q)[i] = r[i]
      /\ \A i \in 1..Len(q) : (r \o q)[Len(r) + i] = q[i]
  <2>1. IsSeq(r) /\ IsSeq(q)
    BY <1>2
  <2> QED BY <2>1, Joined
<1>3. /\ IsSeq(r \o q) /\ Len(r \o q) = Len(d)
      /\ \A i \in 1..Len(c) : (r \o q)[i] = r[i]
      /\ \A i \in 1..(Len(d) - Len(c)) : (r \o q)[Len(c) + i] = q[i]
  BY <1>1, <1>2, <1>a
<1>4. ASSUME NEW i \in 1..Len(d) PROVE w[i] = (r \o q)[i]
  <2>1. CASE i <= Len(c)
    <3>1. i \in 1..Len(c) /\ 0 + i = i /\ i \in Nat
      BY <1>1, <2>1
    <3>2. Upto(c, i) = Upto(d, i)
      <4>1. \A j \in 1..i : c[j] = d[j]
        BY <1>1, <3>1, UptoFacts
      <4> QED BY <3>1, <4>1, UptoFacts, SameSeq
    <3> QED BY <1>2, <1>3, <3>1, <3>2
  <2>2. CASE i > Len(c)
    <3>1. i - Len(c) \in 1..(Len(d) - Len(c)) /\ Len(c) + (i - Len(c)) = i /\ 0 + i = i
      BY <1>1, <2>2
    <3>2. q[i - Len(c)] = Upto(d, Len(c) + (i - Len(c)))
      BY <1>2, <3>1
    <3>3. (r \o q)[Len(c) + (i - Len(c))] = q[i - Len(c)]
      BY <1>3, <3>1
    <3>4. w[i] = Upto(d, 0 + i)
      BY <1>2
    <3> QED BY <3>1, <3>2, <3>3, <3>4
  <2>3. i <= Len(c) \/ i > Len(c)
    BY <1>1
  <2> QED BY <2>1, <2>2, <2>3
<1>5. w = r \o q
  BY <1>2, <1>3, <1>4, SameSeq
<1> QED BY <1>5 DEF r, q, w

----------------------------------------------------------------------------
(* Induction, stated of a set: the numbers of which something holds.  On   *)
(* the numbers of S up to k, n |-> n + 1 would be injective and miss 0.    *)

LEMMA Induction ==
    ASSUME NEW S, 0 \in S, \A n \in Nat : n \in S => n + 1 \in S
    PROVE  Nat \subseteq S
<1> SUFFICES ASSUME NEW k \in Nat, k \notin S PROVE FALSE
  OBVIOUS
<1> DEFINE A == {n \in 0..k : n \in S}
           next == [n \in A |-> n + 1]
<1>1. IsFiniteSet(A)
  <2>1. IsFiniteSet(0..k)
    BY FS_Interval
  <2>2. A \in SUBSET (0..k)
    OBVIOUS
  <2> HIDE DEF A
  <2> QED BY <2>1, <2>2, FS_Subset
<1>2. 0 \in A /\ \A n \in A : n + 1 \in A \ {0}
  OBVIOUS
<1>3. next \in [A -> A \ {0}] /\ \A n \in A : next[n] = n + 1
  BY <1>2
<1>4. A \subseteq Nat
  OBVIOUS
<1> HIDE DEF A, next
<1>5. IsFiniteSet(A \ {0}) /\ Cardinality(A \ {0}) = Cardinality(A) - 1 /\ Cardinality(A) \in Nat
  BY <1>1, <1>2, FS_RemoveElement, FS_CardinalityType
<1>6. Cardinality(A \ {0}) < Cardinality(A)
  BY <1>5
<1>7. \E m, n \in A : m # n /\ next[m] = next[n]
  BY <1>1, <1>3, <1>5, <1>6, FS_PigeonHole
<1> QED BY <1>3, <1>4, <1>7

----------------------------------------------------------------------------
(* The cells of a prefix run in pieces.                                    *)

Step(inputs, cuts, c, k) == Decode(c, SubSeq(inputs, Len(c) + 1, Len(c) + cuts[k]))

\* f runs the first n pieces one after the other.
Run(inputs, cuts, n, f) ==
    f = [k \in 0..n |-> IF k = 0 THEN <<>> ELSE Step(inputs, cuts, f[k - 1], k)]

\* A run, unfolded once.
LEMMA RunIs ==
    ASSUME NEW inputs, NEW cuts, NEW n \in Nat, NEW f, Run(inputs, cuts, n, f)
    PROVE  /\ f[0] = <<>>
           /\ \A k \in 0..n : k # 0 => f[k] = Step(inputs, cuts, f[k - 1], k)
  BY DEF Run

\* There is a run of any number of pieces: by induction, one piece longer.
LEMMA RunExists ==
    ASSUME NEW inputs, NEW cuts, NEW n \in Nat
    PROVE  \E f : Run(inputs, cuts, n, f)
<1> DEFINE S == {m \in Nat : \E f : Run(inputs, cuts, m, f)}
<1>1. 0 \in S
  <2>1. Run(inputs, cuts, 0, [k \in 0..0 |-> <<>>])
    BY DEF Run
  <2> QED BY <2>1
<1>2. ASSUME NEW m \in Nat, m \in S PROVE m + 1 \in S
  <2>1. PICK f : Run(inputs, cuts, m, f)
    BY <1>2
  <2> DEFINE g == [k \in 0..(m + 1) |->
                     IF k = m + 1 THEN Step(inputs, cuts, f[m], m + 1) ELSE f[k]]
  <2>2. ASSUME NEW k \in 0..(m + 1)
        PROVE  g[k] = IF k = 0 THEN <<>> ELSE Step(inputs, cuts, g[k - 1], k)
    <3>1. CASE k = m + 1
      <4>1. k # 0 /\ k - 1 = m /\ m \in 0..(m + 1) /\ m # m + 1
        BY <3>1
      <4>2. g[m] = f[m] /\ g[k] = Step(inputs, cuts, f[m], k)
        BY <3>1, <4>1
      <4> QED BY <4>1, <4>2
    <3>2. CASE k # m + 1
      <4>1. k \in 0..m /\ g[k] = f[k]
        BY <3>2
      <4>2. k # 0 => k - 1 \in 0..(m + 1) /\ k - 1 # m + 1 /\ g[k - 1] = f[k - 1]
        BY <4>1
      <4>3. f[k] = IF k = 0 THEN <<>> ELSE Step(inputs, cuts, f[k - 1], k)
        BY <2>1, <4>1 DEF Run
      <4> HIDE DEF g
      <4> QED BY <4>1, <4>2, <4>3
    <3> QED BY <3>1, <3>2
  <2>3. g = [k \in 0..(m + 1) |-> g[k]]
    OBVIOUS
  <2> HIDE DEF g
  <2>4. Run(inputs, cuts, m + 1, g)
    BY <2>2, <2>3 DEF Run
  <2> QED BY <2>4
<1> HIDE DEF S
<1>3. n \in S
  BY <1>1, <1>2, Induction
<1> QED BY <1>3 DEF S

\* CellsOf is where the run of all the pieces ends.
LEMMA RunOf ==
    ASSUME NEW inputs, NEW cuts \in Seq(Nat)
    PROVE  \E f : Run(inputs, cuts, Len(cuts), f) /\ CellsOf(inputs, cuts) = f[Len(cuts)]
<1> DEFINE f == CHOOSE f : Run(inputs, cuts, Len(cuts), f)
<1>1. Run(inputs, cuts, Len(cuts), f)
  BY RunExists, LenProperties
<1>2. CellsOf(inputs, cuts) = f[Len(cuts)]
  BY DEF CellsOf, Run, Step
<1> HIDE DEF f
<1> QED BY <1>1, <1>2

\* Every piece is run whole, so the cells never get fewer.
LEMMA RunLengths ==
    ASSUME NEW inputs, NEW cuts \in Seq(Nat), NEW n \in 0..Len(cuts),
           NEW f, Run(inputs, cuts, n, f)
    PROVE  /\ \A k \in 0..n : IsSeq(f[k]) /\ Len(f[k]) \in Nat
           /\ \A k \in 1..n : Len(f[k]) = Len(f[k - 1]) + cuts[k]
           /\ \A k \in 0..n : Len(f[k]) <= Len(f[n])
<1>0. n \in Nat /\ n <= Len(cuts) /\ Len(cuts) \in Nat /\ \A k \in 1..n : cuts[k] \in Nat
  BY LenProperties, ElementOfSeq
<1>1. /\ f[0] = <<>>
      /\ \A k \in 0..n : k # 0 => f[k] = Step(inputs, cuts, f[k - 1], k)
  BY <1>0, RunIs
<1>2. ASSUME NEW k \in 1..n, IsSeq(f[k - 1])
      PROVE  IsSeq(f[k]) /\ Len(f[k]) = Len(f[k - 1]) + cuts[k]
  <2> DEFINE c == f[k - 1]
             p == SubSeq(inputs, Len(c) + 1, Len(c) + cuts[k])
  <2>1. Len(c) \in Nat /\ cuts[k] \in Nat
    BY <1>0, <1>2, SeqFacts
  <2>2. f[k] = Decode(c, p)
    BY <1>0, <1>1 DEF Step
  <2>3. IsSeq(c)
    BY <1>2
  <2> HIDE DEF c
  <2>4. IsSeq(p) /\ Len(p) = cuts[k]
    BY <2>1, Part
  <2> HIDE DEF p
  <2>5. IsSeq(Decode(c, p)) /\ Len(Decode(c, p)) = Len(c) + cuts[k]
    BY <2>3, <2>4, Decoded
  <2> QED BY <2>2, <2>5 DEF c
<1> DEFINE S == {k \in Nat : k <= n => IsSeq(f[k])}
<1>3. 0 \in S
  <2>1. IsSeq(<<>>)
    BY EmptySeq, SeqIs
  <2> QED BY <1>1, <2>1
<1>4. ASSUME NEW k \in Nat, k \in S PROVE k + 1 \in S
  <2> SUFFICES ASSUME k + 1 <= n PROVE IsSeq(f[k + 1])
    OBVIOUS
  <2>1. k + 1 \in 1..n /\ (k + 1) - 1 = k /\ k <= n
    BY <1>0
  <2> QED BY <1>2, <1>4, <2>1
<1>5. \A k \in 0..n : IsSeq(f[k]) /\ Len(f[k]) \in Nat
  <2> HIDE DEF S
  <2>1. Nat \subseteq S
    BY <1>3, <1>4, Induction
  <2>2. \A k \in 0..n : IsSeq(f[k])
    BY <1>0, <2>1 DEF S
  <2> QED BY <2>2, SeqFacts
<1>6. \A k \in 1..n : Len(f[k]) = Len(f[k - 1]) + cuts[k]
  <2> SUFFICES ASSUME NEW k \in 1..n PROVE Len(f[k]) = Len(f[k - 1]) + cuts[k]
    OBVIOUS
  <2>1. k - 1 \in 0..n
    BY <1>0
  <2> QED BY <1>2, <1>5, <2>1
<1> DEFINE T == {m \in Nat : m <= n => \A k \in 0..m : Len(f[k]) <= Len(f[m])}
<1>7. 0 \in T
  BY <1>5
<1>8. ASSUME NEW m \in Nat, m \in T PROVE m + 1 \in T
  <2> SUFFICES ASSUME m + 1 <= n, NEW k \in 0..(m + 1) PROVE Len(f[k]) <= Len(f[m + 1])
    OBVIOUS
  <2>1. m + 1 \in 1..n /\ (m + 1) - 1 = m /\ m \in 0..n /\ m <= n /\ k \in 0..n /\ m + 1 \in 0..n
    BY <1>0
  <2>2. Len(f[m + 1]) = Len(f[m]) + cuts[m + 1] /\ cuts[m + 1] \in Nat
    BY <1>0, <1>6, <2>1
  <2>3. Len(f[m]) \in Nat /\ Len(f[k]) \in Nat /\ Len(f[m + 1]) \in Nat
    BY <1>5, <2>1
  <2>4. k # m + 1 => Len(f[k]) <= Len(f[m])
    BY <1>8, <2>1
  <2>5. k = m + 1 => Len(f[k]) = Len(f[m + 1])
    OBVIOUS
  <2> DEFINE x == Len(f[m])
             y == Len(f[k])
             z == Len(f[m + 1])
             c == cuts[m + 1]
  <2>6. /\ x \in Nat /\ y \in Nat /\ z \in Nat /\ c \in Nat /\ z = x + c
        /\ y <= x \/ y = z
    BY ONLY <2>2, <2>3, <2>4, <2>5
  <2> HIDE DEF x, y, z, c
  <2>7. y <= z
    BY ONLY <2>6
  <2> QED BY ONLY <2>7 DEF y, z
<1>9. \A k \in 0..n : Len(f[k]) <= Len(f[n])
  <2> HIDE DEF T
  <2>1. n \in T
    BY <1>0, <1>7, <1>8, Induction
  <2> QED BY <1>0, <2>1 DEF T
<1> QED BY <1>5, <1>6, <1>9

LEMMA CellsOfSeq ==
    ASSUME NEW inputs, NEW cuts \in Seq(Nat)
    PROVE  IsSeq(CellsOf(inputs, cuts))
<1>1. PICK f : Run(inputs, cuts, Len(cuts), f) /\ CellsOf(inputs, cuts) = f[Len(cuts)]
  BY RunOf
<1>2. Len(cuts) \in 0..Len(cuts)
  BY LenProperties
<1> QED BY <1>1, <1>2, RunLengths

\* Of no pieces there are no cells.
LEMMA CellsOfNothing ==
    ASSUME NEW inputs
    PROVE  CellsOf(inputs, <<>>) = <<>>
<1>1. <<>> \in Seq(Nat) /\ Len(<<>>) = 0
  BY EmptySeq
<1>2. PICK f : Run(inputs, <<>>, 0, f) /\ CellsOf(inputs, <<>>) = f[0]
  BY <1>1, RunOf
<1> QED BY <1>2, RunIs

\* One more piece is one more decode.
LEMMA CellsOfMore ==
    ASSUME NEW inputs, IsSeq(inputs), NEW more, IsSeq(more), NEW cuts \in Seq(Nat),
           Len(CellsOf(inputs, cuts)) = Len(inputs)
    PROVE  CellsOf(inputs \o more, Append(cuts, Len(more))) = Decode(CellsOf(inputs, cuts), more)
<1> DEFINE all == inputs \o more
           next == Append(cuts, Len(more))
           N == Len(cuts)
<1>1. N \in Nat /\ Len(more) \in Nat /\ Len(inputs) \in Nat
  BY LenProperties, SeqFacts
<1>2. /\ next \in Seq(Nat) /\ Len(next) = N + 1
      /\ \A k \in 1..N : next[k] = cuts[k]
      /\ next[N + 1] = Len(more)
  BY <1>1, AppendProperties
<1>3. PICK f : Run(inputs, cuts, N, f) /\ CellsOf(inputs, cuts) = f[N]
  BY RunOf
<1> HIDE DEF next
<1>4. PICK g : Run(all, next, N + 1, g) /\ CellsOf(all, next) = g[N + 1]
  BY <1>2, RunOf
<1>5. /\ \A k \in 0..N : IsSeq(f[k]) /\ Len(f[k]) \in Nat
      /\ \A k \in 1..N : Len(f[k]) = Len(f[k - 1]) + cuts[k]
      /\ \A k \in 0..N : Len(f[k]) <= Len(f[N])
  BY <1>1, <1>3, RunLengths, N \in 0..N
<1>6. /\ f[0] = <<>> /\ g[0] = <<>>
      /\ \A k \in 0..N : k # 0 => f[k] = Step(inputs, cuts, f[k - 1], k)
      /\ \A k \in 0..(N + 1) : k # 0 => g[k] = Step(all, next, g[k - 1], k)
  <2>1. f[0] = <<>> /\ \A k \in 0..N : k # 0 => f[k] = Step(inputs, cuts, f[k - 1], k)
    BY <1>1, <1>3, RunIs
  <2>2. N + 1 \in Nat
    BY <1>1
  <2>3. g[0] = <<>> /\ \A k \in 0..(N + 1) : k # 0 => g[k] = Step(all, next, g[k - 1], k)
    <3> DEFINE m == N + 1
    <3>1. Run(all, next, m, g) /\ m \in Nat
      BY <1>4, <2>2
    <3> HIDE DEF N, m, all
    <3>2. g[0] = <<>> /\ \A k \in 0..m : k # 0 => g[k] = Step(all, next, g[k - 1], k)
      BY <3>1 DEF Run
    <3> QED BY <3>2 DEF m
  <2> QED BY <2>1, <2>3
<1>7. \A i \in 1..Len(inputs) : all[i] = inputs[i]
  BY Joined
<1>8. From(all, Len(inputs)) = more
  BY FromJoined
<1>b. Len(all) = Len(inputs) + Len(more)
  BY Joined
<1> HIDE DEF all
<1> DEFINE S == {k \in Nat : k <= N => g[k] = f[k]}
<1>9. 0 \in S
  BY <1>6
<1>10. ASSUME NEW k \in Nat, k \in S PROVE k + 1 \in S
  <2> SUFFICES ASSUME k + 1 <= N PROVE g[k + 1] = f[k + 1]
    OBVIOUS
  <2>1. /\ k + 1 \in 1..N /\ k + 1 \in 0..N /\ k + 1 \in 0..(N + 1)
        /\ (k + 1) - 1 = k /\ k <= N /\ k \in 0..N
    BY <1>1
  <2> DEFINE c == f[k]
             m == cuts[k + 1]
  <2>2. g[k] = c /\ IsSeq(c) /\ Len(c) \in Nat /\ Len(c) + m <= Len(inputs)
    <3>1. Len(f[k + 1]) = Len(f[k]) + cuts[k + 1] /\ Len(f[k + 1]) <= Len(f[N])
      BY <1>5, <2>1
    <3> QED BY <1>3, <1>5, <1>10, <2>1, <3>1
  <2>3. m \in Nat /\ next[k + 1] = m
    BY <1>2, <2>1, ElementOfSeq
  <2>4. f[k + 1] = Step(inputs, cuts, c, k + 1) /\ g[k + 1] = Step(all, next, c, k + 1)
    BY <1>6, <2>1, <2>2
  <2> HIDE DEF c, m
  <2>5. SubSeq(all, Len(c) + 1, Len(c) + m) = SubSeq(inputs, Len(c) + 1, Len(c) + m)
    <3>1. \A i \in 1..m : Len(c) + i \in 1..Len(inputs)
      BY <1>1, <2>2, <2>3
    <3>2. \A i \in 1..m : all[Len(c) + i] = inputs[Len(c) + i]
      BY <1>7, <3>1
    <3> DEFINE p == SubSeq(all, Len(c) + 1, Len(c) + m)
               q == SubSeq(inputs, Len(c) + 1, Len(c) + m)
    <3>a. Len(c) \in Nat /\ m \in Nat
      BY <2>2, <2>3
    <3>3. IsSeq(p) /\ Len(p) = m /\ \A i \in 1..m : p[i] = all[Len(c) + i]
      BY <3>a, Part
    <3>4. IsSeq(q) /\ Len(q) = m /\ \A i \in 1..m : q[i] = inputs[Len(c) + i]
      BY <3>a, Part
    <3> HIDE DEF p, q
    <3>5. p = q
      BY <3>2, <3>3, <3>4, SameSeq
    <3> QED BY <3>5 DEF p, q
  <2>6. cuts[k + 1] = m
    BY DEF m
  <2> QED BY <2>3, <2>4, <2>5, <2>6 DEF Step
<1>11. g[N] = f[N]
  <2> HIDE DEF S
  <2>1. N \in S
    BY <1>1, <1>9, <1>10, Induction
  <2> QED BY <1>1, <2>1 DEF S
<1>12. g[N + 1] = Decode(f[N], SubSeq(all, Len(f[N]) + 1, Len(f[N]) + Len(more)))
  <2>1. N + 1 \in 0..(N + 1) /\ N + 1 # 0 /\ (N + 1) - 1 = N
    BY <1>1
  <2> QED BY <1>2, <1>6, <1>11, <2>1 DEF Step
<1>13. Len(f[N]) = Len(inputs)
  BY <1>3
<1>14. SubSeq(all, Len(inputs) + 1, Len(inputs) + Len(more)) = more
  BY <1>8, <1>b DEF From
<1> QED BY <1>3, <1>4, <1>12, <1>13, <1>14 DEF all, next

\* The whole prefix in one piece is one decode.
LEMMA CellsOfWhole ==
    ASSUME NEW inputs, IsSeq(inputs)
    PROVE  CellsOf(inputs, <<Len(inputs)>>) = Decode(<<>>, inputs)
<1>1. IsSeq(<<>>) /\ Len(<<>>) = 0 /\ <<>> \in Seq(Nat)
  BY EmptySeq, SeqIs
<1>2. CellsOf(<<>>, <<>>) = <<>>
  BY CellsOfNothing
<1>3. CellsOf(<<>> \o inputs, Append(<<>>, Len(inputs))) = Decode(CellsOf(<<>>, <<>>), inputs)
  <2>1. Len(CellsOf(<<>>, <<>>)) = Len(<<>>)
    BY <1>2
  <2> QED BY <1>1, <2>1, CellsOfMore
<1>4. Append(<<>>, Len(inputs)) = <<Len(inputs)>>
  OBVIOUS
<1>5. <<>> \o inputs = inputs
  BY ConcatEmptySeq DEF IsSeq
<1> QED BY <1>2, <1>3, <1>4, <1>5

----------------------------------------------------------------------------
(* The same of both graphs.                                                *)

\* One piece, in both graphs.
LEMMA SplitWhole ==
    ASSUME NEW tokens, IsSeq(tokens)
    PROVE  SplitCells(tokens, <<Len(tokens)>>) = Decode(<<>>, RowsAfter(Decode(<<>>, tokens), 0))
<1> DEFINE low == Decode(<<>>, tokens)
           rows == RowsAfter(low, 0)
<1>1. IsSeq(<<>>) /\ Len(<<>>) = 0 /\ Len(tokens) \in Nat
  BY EmptySeq, SeqIs, SeqFacts
<1>2. IsSeq(low) /\ Len(low) = Len(tokens)
  <2>1. IsSeq(low) /\ Len(low) = Len(<<>>) + Len(tokens)
    BY <1>1, Decoded
  <2> QED BY <1>1, <2>1
<1>3. CellsOf(tokens, <<Len(tokens)>>) = low
  BY CellsOfWhole
<1> HIDE DEF low
<1>4. IsSeq(rows) /\ Len(rows) = Len(tokens)
  <2>1. 0 \in 0..Len(low) /\ Len(low) - 0 = Len(tokens)
    BY <1>1, <1>2
  <2> QED BY <1>2, <2>1, Rows
<1> HIDE DEF rows
<1>5. CellsOf(rows, <<Len(tokens)>>) = Decode(<<>>, rows)
  BY <1>4, CellsOfWhole
<1> QED BY <1>3, <1>5 DEF SplitCells, rows, low

\* One more piece, in both graphs.
LEMMA SplitMore ==
    ASSUME NEW tokens, IsSeq(tokens), NEW more, IsSeq(more), NEW cuts \in Seq(Nat),
           Len(CellsOf(tokens, cuts)) = Len(tokens),
           Len(SplitCells(tokens, cuts)) = Len(tokens)
    PROVE  SplitCells(tokens \o more, Append(cuts, Len(more))) =
             Decode(SplitCells(tokens, cuts),
                    RowsAfter(Decode(CellsOf(tokens, cuts), more), Len(tokens)))
<1> DEFINE low == CellsOf(tokens, cuts)
           low2 == Decode(low, more)
           rows == RowsAfter(low, 0)
           rows2 == RowsAfter(low2, Len(tokens))
<1>1. IsSeq(low) /\ Len(low) = Len(tokens) /\ Len(tokens) \in Nat /\ Len(more) \in Nat
  BY CellsOfSeq, SeqFacts
<1>2. CellsOf(tokens \o more, Append(cuts, Len(more))) = low2
  BY CellsOfMore
<1>3. SplitCells(tokens, cuts) = CellsOf(rows, cuts)
  BY DEF SplitCells
<1> HIDE DEF low
<1>4. IsSeq(low2) /\ Len(low2) = Len(tokens) + Len(more) /\ Upto(low2, Len(low)) = low
  BY <1>1, Decoded
<1> HIDE DEF low2
<1>5. RowsAfter(low2, 0) = rows \o rows2
  <2>1. Len(low) <= Len(low2)
    BY <1>1, <1>4
  <2>2. RowsAfter(low2, 0) = RowsAfter(low, 0) \o RowsAfter(low2, Len(low))
    BY <1>1, <1>4, <2>1, RowsOn
  <2> QED BY <1>1, <2>2
<1>6. IsSeq(rows) /\ Len(rows) = Len(tokens) /\ IsSeq(rows2) /\ Len(rows2) = Len(more)
  <2>1. /\ 0 \in 0..Len(low) /\ Len(low) - 0 = Len(tokens)
        /\ Len(tokens) \in 0..Len(low2) /\ Len(low2) - Len(tokens) = Len(more)
    BY <1>1, <1>4
  <2> QED BY <1>1, <1>4, <2>1, Rows
<1> HIDE DEF rows, rows2
<1>7. CellsOf(rows \o rows2, Append(cuts, Len(more))) = Decode(CellsOf(rows, cuts), rows2)
  BY <1>3, <1>6, CellsOfMore
<1> QED BY <1>2, <1>3, <1>5, <1>7 DEF SplitCells, rows2, low2, low

----------------------------------------------------------------------------
(* What the worker computes.                                               *)

LEMMA Empty == IsSeq(<<>>) /\ Len(<<>>) = 0 /\ \A S : <<>> \in Seq(S)
  BY EmptySeq, SeqIs

LEMMA ContextIs == Context \in Nat /\ Context > 0 /\ 18 # 30
  BY ContextAssumption

\* The cells and rows of a prefix that is run from nothing.
LEMMA Fresh18 ==
    ASSUME NEW t, IsSeq(t)
    PROVE  LET low == Decode(<<>>, t)
               rows == RowsAfter(low, 0)
               up == Decode(<<>>, rows) IN
           /\ IsSeq(low) /\ Len(low) = Len(t)
           /\ IsSeq(rows) /\ Len(rows) = Len(t)
           /\ IsSeq(up) /\ Len(up) = Len(t)
           /\ low = CellsOf(t, <<Len(t)>>) /\ up = SplitCells(t, <<Len(t)>>)
<1> DEFINE low == Decode(<<>>, t)
           rows == RowsAfter(low, 0)
           up == Decode(<<>>, rows)
<1>1. Len(t) \in Nat
  BY SeqFacts
<1>2. IsSeq(low) /\ Len(low) = Len(t)
  <2>1. IsSeq(low) /\ Len(low) = Len(<<>>) + Len(t)
    BY Empty, Decoded
  <2> QED BY <1>1, <2>1, Empty
<1>3. IsSeq(rows) /\ Len(rows) = Len(t)
  <2> HIDE DEF low
  <2>1. 0 \in 0..Len(low) /\ Len(low) - 0 = Len(t)
    BY <1>1, <1>2
  <2> QED BY <1>2, <2>1, Rows
<1>4. IsSeq(up) /\ Len(up) = Len(t)
  <2> HIDE DEF rows
  <2>1. IsSeq(up) /\ Len(up) = Len(<<>>) + Len(rows)
    BY <1>3, Empty, Decoded
  <2> QED BY <1>1, <1>3, <2>1, Empty
<1>5. low = CellsOf(t, <<Len(t)>>) /\ up = SplitCells(t, <<Len(t)>>)
  BY CellsOfWhole, SplitWhole
<1> HIDE DEF low, rows, up
<1>6. /\ IsSeq(low) /\ Len(low) = Len(t) /\ IsSeq(rows) /\ Len(rows) = Len(t)
      /\ IsSeq(up) /\ Len(up) = Len(t)
      /\ low = CellsOf(t, <<Len(t)>>) /\ up = SplitCells(t, <<Len(t)>>)
  BY <1>2, <1>3, <1>4, <1>5
<1> QED BY <1>6 DEF low, rows, up

\* The cells of a prefix in both graphs, and what is run after them.
Ran(t, cuts, l, u) ==
    /\ IsSeq(t) /\ cuts \in Seq(Nat)
    /\ IsSeq(l) /\ Len(l) = Len(t) /\ l = CellsOf(t, cuts)
    /\ IsSeq(u) /\ Len(u) = Len(t) /\ u = SplitCells(t, cuts)

RunsOn(t, more, cuts, l, u) ==
    LET low == Decode(l, more)
        rows == RowsAfter(low, Len(t))
        up == Decode(u, rows) IN
    /\ IsSeq(low) /\ Len(low) = Len(t) + Len(more)
    /\ IsSeq(rows) /\ Len(rows) = Len(more)
    /\ RowsAfter(low, 0) = RowsAfter(l, 0) \o rows
    /\ IsSeq(up) /\ Len(up) = Len(t) + Len(more)
    /\ \A n \in 0..Len(t) : Upto(low, n) = Upto(l, n) /\ Upto(up, n) = Upto(u, n)
    /\ Upto(low, Len(t)) = l /\ Upto(up, Len(t)) = u
    /\ low = CellsOf(t \o more, Append(cuts, Len(more)))
    /\ up = SplitCells(t \o more, Append(cuts, Len(more)))

LEMMA Onward ==
    ASSUME NEW t, NEW more, IsSeq(more), NEW cuts, NEW l, NEW u, Ran(t, cuts, l, u)
    PROVE  RunsOn(t, more, cuts, l, u)
<1> USE DEF Ran
<1> DEFINE low == Decode(l, more)
           rows == RowsAfter(low, Len(t))
           up == Decode(u, rows)
<1>1. Len(t) \in Nat /\ Len(more) \in Nat
  BY SeqFacts
<1>2. /\ IsSeq(low) /\ Len(low) = Len(l) + Len(more) /\ Upto(low, Len(l)) = l
      /\ \A n \in 0..Len(l) : Upto(low, n) = Upto(l, n)
  <2>1. IsSeq(l) /\ IsSeq(more)
    OBVIOUS
  <2> QED BY ONLY <2>1, Decoded
<1>3. low = CellsOf(t \o more, Append(cuts, Len(more)))
  BY CellsOfMore
<1>4. IsSeq(rows) /\ Len(rows) = Len(more)
  <2> HIDE DEF low
  <2>1. Len(t) \in 0..Len(low) /\ Len(low) - Len(t) = Len(more)
    BY <1>1, <1>2
  <2> QED BY <1>2, <2>1, Rows
<1>5. RowsAfter(low, 0) = RowsAfter(l, 0) \o rows
  <2> HIDE DEF low
  <2>1. Len(l) <= Len(low)
    BY <1>1, <1>2
  <2>2. RowsAfter(low, 0) = RowsAfter(l, 0) \o RowsAfter(low, Len(l))
    BY <1>2, <2>1, RowsOn
  <2> QED BY <2>2
<1>6. /\ IsSeq(up) /\ Len(up) = Len(u) + Len(rows) /\ Upto(up, Len(u)) = u
      /\ \A n \in 0..Len(u) : Upto(up, n) = Upto(u, n)
  <2> HIDE DEF rows
  <2>1. IsSeq(u) /\ IsSeq(rows)
    BY <1>4
  <2> QED BY ONLY <2>1, Decoded
<1>7. up = SplitCells(t \o more, Append(cuts, Len(more)))
  BY SplitMore
<1> HIDE DEF low, rows, up
<1>8. /\ IsSeq(low) /\ Len(low) = Len(t) + Len(more)
      /\ IsSeq(rows) /\ Len(rows) = Len(more)
      /\ RowsAfter(low, 0) = RowsAfter(l, 0) \o rows
      /\ IsSeq(up) /\ Len(up) = Len(t) + Len(more)
      /\ \A n \in 0..Len(t) : Upto(low, n) = Upto(l, n) /\ Upto(up, n) = Upto(u, n)
      /\ Upto(low, Len(t)) = l /\ Upto(up, Len(t)) = u
      /\ low = CellsOf(t \o more, Append(cuts, Len(more)))
      /\ up = SplitCells(t \o more, Append(cuts, Len(more)))
  BY <1>2, <1>3, <1>4, <1>5, <1>6, <1>7
<1> QED BY <1>8 DEF low, rows, up, RunsOn

----------------------------------------------------------------------------
(* New snapshots.                                                          *)

\* Both checkpoints of a freeze are sound.
LEMMA Captured ==
    ASSUME NEW kind \in Kinds, NEW t \in Seq(Tokens), Len(t) \in 1..Context,
           NEW id18 \in Ids \cup {None}
    PROVE  /\ Shape(Captured18(kind, t)) /\ Exact(Captured18(kind, t))
           /\ Shape(Captured30(kind, t, id18)) /\ Exact(Captured30(kind, t, id18))
<1> DEFINE low == Decode(<<>>, t)
           rows == RowsAfter(low, 0)
           up == Decode(<<>>, rows)
           s == Captured18(kind, t)
           r == Captured30(kind, t, id18)
<1>1. IsSeq(t) /\ Len(t) \in Nat
  BY SeqIs
<1>2. /\ IsSeq(low) /\ Len(low) = Len(t) /\ IsSeq(rows) /\ Len(rows) = Len(t)
      /\ IsSeq(up) /\ Len(up) = Len(t)
      /\ low = CellsOf(t, <<Len(t)>>) /\ up = SplitCells(t, <<Len(t)>>)
  BY <1>1, Fresh18
<1>3. <<Len(t)>> \in Seq(Nat)
  BY <1>1
<1>4. s = [blocks |-> 18, kind |-> kind, parent |-> None, tokens |-> t, lower |-> low,
           upper |-> <<>>, h18 |-> rows, owned |-> TRUE, cuts |-> <<Len(t)>>]
  BY DEF Captured18
<1>5. r = [blocks |-> 30, kind |-> kind, parent |-> id18, tokens |-> t, lower |-> low,
           upper |-> up, h18 |-> IF id18 = None THEN rows ELSE <<>>,
           owned |-> (id18 = None), cuts |-> <<Len(t)>>]
  <2>1. rows = s.h18 /\ low = s.lower
    BY <1>4
  <2>2. r = [s EXCEPT !.blocks = 30, !.parent = id18, !.upper = Decode(<<>>, s.h18),
                       !.h18 = IF id18 = None THEN s.h18 ELSE <<>>, !.owned = (id18 = None)]
    BY DEF Captured30
  <2> HIDE DEF low, rows, s, r
  <2>3. Decode(<<>>, s.h18) = up
    BY <2>1
  <2> HIDE DEF up
  <2> QED BY <1>4, <2>1, <2>2, <2>3
<1>6. rows # <<>>
  BY <1>2, Empty
<1> HIDE DEF low, rows, up, s, r
<1>7. Shape(s)
  BY <1>1, <1>2, <1>4, Empty DEF Shape
<1>8. Exact(s)
  <2>1. s.h18 = RowsAfter(s.lower, 0)
    BY <1>4 DEF rows
  <2> QED BY <1>2, <1>3, <1>4, <1>6, <2>1, ContextIs DEF Exact
<1>9. Shape(r)
  BY <1>1, <1>2, <1>5, Empty DEF Shape
<1>10. Exact(r)
  <2>1. r.h18 # <<>> => r.h18 = RowsAfter(r.lower, 0)
    BY <1>5 DEF rows
  <2> QED BY <1>2, <1>3, <1>5, <2>1, ContextIs DEF Exact
<1> QED BY <1>7, <1>8, <1>9, <1>10 DEF s, r

\* A promoted 30 is the one a freeze would have made.
LEMMA PromotedIs ==
    ASSUME NEW s, Shape(s), Exact(s), s.blocks = 18, NEW id \in Ids
    PROVE  LET p == Promoted(id, s) IN
           /\ Shape(p) /\ Exact(p) /\ p.blocks = 30 /\ p.tokens = s.tokens /\ p.lower = s.lower
           /\ p.upper = Decode(<<>>, s.h18)
<1> DEFINE p == Promoted(id, s)
           up == Decode(<<>>, s.h18)
<1>1. s = [blocks |-> s.blocks, kind |-> s.kind, parent |-> s.parent, tokens |-> s.tokens,
           lower |-> s.lower, upper |-> s.upper, h18 |-> s.h18, owned |-> s.owned,
           cuts |-> s.cuts]
  BY DEF Shape
<1>2. p = [blocks |-> 30, kind |-> s.kind, parent |-> id, tokens |-> s.tokens,
           lower |-> s.lower, upper |-> up, h18 |-> <<>>, owned |-> FALSE, cuts |-> s.cuts]
  <2> HIDE DEF up
  <2>1. p = [s EXCEPT !.blocks = 30, !.parent = id, !.upper = up, !.h18 = <<>>, !.owned = FALSE]
    BY DEF Promoted, up
  <2> HIDE DEF p
  <2> QED BY <1>1, <2>1
<1>3. /\ IsSeq(s.tokens) /\ s.lower = Decode(<<>>, s.tokens) /\ s.h18 = RowsAfter(s.lower, 0)
      /\ s.cuts = <<Len(s.tokens)>> /\ s.cuts \in Seq(Nat)
  <2>1. IsSeq(s.tokens) /\ s.cuts = <<Len(s.tokens)>> /\ s.lower = CellsOf(s.tokens, s.cuts)
    BY SeqIs DEF Shape, Exact
  <2> QED BY <2>1, CellsOfWhole DEF Exact
<1>4. IsSeq(up) /\ Len(up) = Len(s.tokens) /\ up = SplitCells(s.tokens, s.cuts)
  BY <1>3, Fresh18
<1> HIDE DEF p, up
<1>5. Shape(p)
  BY <1>2, <1>4, Empty DEF Shape
<1>6. Exact(p)
  BY <1>2, <1>3, <1>4, ContextIs DEF Exact
<1> QED BY <1>2, <1>5, <1>6 DEF p, up

\* A branch from a snapshot, computed from its blobs.
FreshLow(s, full) == Decode(s.lower, From(full, Len(s.tokens)))
FreshUp(s, full) == Decode(s.upper, RowsAfter(FreshLow(s, full), Len(s.tokens)))

\* A branch computes the cells of its whole prompt.
LEMMA BranchIs ==
    ASSUME NEW s, Shape(s), Exact(s), s.blocks = 30,
           NEW full \in Seq(Tokens), Extends(full, s.tokens)
    PROVE  LET low == FreshLow(s, full)
               up == FreshUp(s, full)
               cuts == Append(s.cuts, Len(full) - Len(s.tokens)) IN
           /\ IsSeq(low) /\ Len(low) = Len(full) /\ IsSeq(up) /\ Len(up) = Len(full)
           /\ Upto(low, Len(s.tokens)) = s.lower /\ Upto(up, Len(s.tokens)) = s.upper
           /\ cuts \in Seq(Nat)
           /\ low = CellsOf(full, cuts) /\ up = SplitCells(full, cuts)
           /\ RowsAfter(low, 0) = RowsAfter(s.lower, 0) \o RowsAfter(low, Len(s.tokens))
           /\ IsSeq(RowsAfter(low, Len(s.tokens)))
           /\ Len(RowsAfter(low, Len(s.tokens))) = Len(full) - Len(s.tokens)
<1> DEFINE more == From(full, Len(s.tokens))
           t == s.tokens
           low == FreshLow(s, full)
           up == FreshUp(s, full)
           cuts == Append(s.cuts, Len(full) - Len(s.tokens))
<1>1. /\ IsSeq(t) /\ IsSeq(full) /\ Len(t) \in Nat /\ Len(full) \in Nat /\ Len(full) > Len(t)
      /\ Upto(full, Len(t)) = t
  BY SeqIs DEF Shape, Extends
<1>2. IsSeq(more) /\ Len(more) = Len(full) - Len(t) /\ full = t \o more
  <2>1. Len(t) \in 0..Len(full)
    BY <1>1
  <2> QED BY <1>1, <2>1, FromFacts, Whole
<1>3. /\ s.cuts \in Seq(Nat) /\ IsSeq(s.lower) /\ Len(s.lower) = Len(t)
      /\ s.lower = CellsOf(t, s.cuts)
      /\ IsSeq(s.upper) /\ Len(s.upper) = Len(t) /\ s.upper = SplitCells(t, s.cuts)
  BY DEF Shape, Exact
<1>4. cuts \in Seq(Nat)
  <2>1. Len(full) - Len(t) \in Nat
    BY <1>1
  <2> QED BY <1>3, <2>1, AppendProperties
<1>5. low = Decode(s.lower, more) /\ up = Decode(s.upper, RowsAfter(low, Len(t)))
  BY DEF FreshLow, FreshUp
<1>6. t \o more = full /\ Append(s.cuts, Len(more)) = cuts
  BY <1>2
<1> HIDE DEF t, low, up, cuts, more
<1>7. /\ IsSeq(low) /\ Len(low) = Len(t) + Len(more)
      /\ IsSeq(RowsAfter(low, Len(t))) /\ Len(RowsAfter(low, Len(t))) = Len(more)
      /\ RowsAfter(low, 0) = RowsAfter(s.lower, 0) \o RowsAfter(low, Len(t))
      /\ IsSeq(up) /\ Len(up) = Len(t) + Len(more)
      /\ Upto(low, Len(t)) = s.lower /\ Upto(up, Len(t)) = s.upper
      /\ low = CellsOf(full, cuts)
      /\ up = SplitCells(full, cuts)
  <2>1. Ran(t, s.cuts, s.lower, s.upper)
    BY <1>1, <1>3 DEF Ran
  <2>2. RunsOn(t, more, s.cuts, s.lower, s.upper)
    BY ONLY <1>2, <2>1, Onward
  <2> QED BY <1>5, <1>6, <2>2 DEF RunsOn
<1>8. Len(t) + Len(more) = Len(full)
  BY <1>1, <1>2
<1> QED BY <1>2, <1>4, <1>7, <1>8 DEF t, low, up, cuts

\* A saved branch is a sound snapshot.
LEMMA ChildIs ==
    ASSUME NEW s, Shape(s), Exact(s), s.blocks = 30, NEW id \in Ids,
           NEW full \in Seq(Tokens), Extends(full, s.tokens), Len(full) <= Context
    PROVE  LET c == Child(id, s, full, FreshLow(s, full), FreshUp(s, full)) IN
           Shape(c) /\ Exact(c)
<1> DEFINE low == FreshLow(s, full)
           up == FreshUp(s, full)
           cuts == Append(s.cuts, Len(full) - Len(s.tokens))
           rows == RowsAfter(low, Len(s.tokens))
           h == IF s.h18 = <<>> THEN <<>> ELSE s.h18 \o rows
           c == Child(id, s, full, low, up)
<1>1. /\ IsSeq(low) /\ Len(low) = Len(full) /\ IsSeq(up) /\ Len(up) = Len(full)
      /\ cuts \in Seq(Nat)
      /\ low = CellsOf(full, cuts) /\ up = SplitCells(full, cuts)
      /\ RowsAfter(low, 0) = RowsAfter(s.lower, 0) \o rows
      /\ IsSeq(rows) /\ Len(rows) = Len(full) - Len(s.tokens)
  BY BranchIs
<1>2. c = [blocks |-> 30, kind |-> "readout", parent |-> id, tokens |-> full, lower |-> low,
           upper |-> up, h18 |-> h, owned |-> TRUE, cuts |-> cuts]
  BY DEF Child
<1>3. Len(full) \in 1..Context /\ Len(full) \in Nat /\ Len(s.tokens) \in Nat
  BY SeqIs, ContextIs DEF Extends, Shape
<1>4. /\ IsSeq(s.h18) /\ Len(s.h18) \in {0, Len(s.tokens)}
      /\ s.h18 # <<>> => s.h18 = RowsAfter(s.lower, 0)
  BY DEF Shape, Exact
<1>5. IsSeq(h) /\ Len(h) \in {0, Len(full)}
  <2>1. CASE s.h18 = <<>>
    BY <2>1, Empty
  <2>2. CASE s.h18 # <<>>
    <3>1. Len(s.h18) = Len(s.tokens)
      <4>1. Len(s.h18) # 0
        BY <1>4, <2>2 DEF IsSeq
      <4> QED BY <1>4, <4>1
    <3>2. h = s.h18 \o rows /\ IsSeq(h) /\ Len(h) = Len(s.h18) + Len(rows)
      <4> HIDE DEF rows
      <4>1. h = s.h18 \o rows
        BY <2>2
      <4>2. IsSeq(s.h18) /\ IsSeq(rows)
        BY <1>1, <1>4
      <4> HIDE DEF h
      <4> QED BY <4>1, <4>2, Joined
    <3> HIDE DEF h, rows
    <3> QED BY <1>1, <1>3, <3>1, <3>2
  <2> QED BY <2>1, <2>2
<1>6. h # <<>> => h = RowsAfter(low, 0)
  BY <1>1, <1>4
<1> HIDE DEF low, up, cuts, h, c
<1>7. Shape(c)
  BY <1>1, <1>2, <1>3, <1>5 DEF Shape, Kinds
<1>8. Exact(c)
  BY <1>1, <1>2, <1>6, ContextIs DEF Exact
<1> QED BY <1>7, <1>8 DEF c, low, up

----------------------------------------------------------------------------
(* What every command may leave alone, and how it is answered.             *)

LEMMA NoCmdIs ==
    /\ NoCmd.op = "none" /\ NoCmd.target = None /\ NoCmd.asks = <<>> /\ NoCmd.made = {}
    /\ NoCmd.mode = "none" /\ NoCmd.seq = <<>> /\ NoCmd.left = 0 /\ NoCmd.cuts = <<>>
    /\ NoCmd = [op |-> NoCmd.op, target |-> NoCmd.target, asks |-> NoCmd.asks,
                made |-> NoCmd.made, mode |-> NoCmd.mode, seq |-> NoCmd.seq,
                left |-> NoCmd.left, cuts |-> NoCmd.cuts]
  BY DEF NoCmd

LEMMA NoReplyIs == NoReply \in Reply
  BY DEF NoReply, Reply

\* A command that ended is no command.
LEMMA Answered ==
    ASSUME cmd' = NoCmd, reply' \in Reply
    PROVE  CommandInv'
<1>1. /\ NoCmd.asks \in Seq(Ask) /\ NoCmd.left \in 0..MaxRide /\ NoCmd.made \subseteq Ids
      /\ NoCmd.mode \in Modes \cup {"none"} /\ NoCmd.target \in Ids \cup {None}
  <2>1. <<>> \in Seq(Ask)
    BY Empty
  <2> QED BY <2>1, NoCmdIs, BoundsAssumption
<1>2. Branching' /\ RideHolds'
  BY NoCmdIs DEF Branching, RideHolds
<1>3. /\ NoCmd.op = "none"
      /\ NoCmd = [op |-> NoCmd.op, target |-> NoCmd.target, asks |-> NoCmd.asks,
                  made |-> NoCmd.made, mode |-> NoCmd.mode, seq |-> NoCmd.seq,
                  left |-> NoCmd.left, cuts |-> NoCmd.cuts]
  BY NoCmdIs
<1> QED BY <1>1, <1>2, <1>3 DEF CommandInv

\* Any answer ends the command.
LEMMA RepliesWell ==
    ASSUME NEW code, NEW made, Replies(code, made), made \subseteq Ids,
           code \in {"none", "ok", "execution_error", "invalid_request", "integrity_error",
                     "snapshot_not_found", "snapshot_exists", "capability_unavailable",
                     "followup_unsupported", "snapshot_prefix_mismatch"}
    PROVE  CommandInv' /\ cmd' = NoCmd
<1>1. cmd' = NoCmd /\ reply' \in Reply
  BY DEF Replies, Reply
<1> QED BY <1>1, Answered

LEMMA FailsWell ==
    ASSUME CommandInv, Fails
    PROVE  CommandInv' /\ cmd' = NoCmd
<1>1. cmd.made \subseteq Ids
  BY DEF CommandInv
<1> QED BY <1>1, RepliesWell DEF Fails

\* Between commands no ride holds the contexts.
LEMMA IdleIs ==
    ASSUME CommandInv, Idle
    PROVE  cmd = NoCmd /\ ~RidesSnapshot /\ cmd.op = "none"
  BY NoCmdIs DEF CommandInv, Idle, RidesSnapshot

----------------------------------------------------------------------------
(* Snapshots.                                                              *)

Good(f) == DOMAIN f \subseteq Ids /\ \A id \in DOMAIN f : Shape(f[id]) /\ Exact(f[id])
GoodFiles(fs) == \A f \in fs : f.batch = Batch => Shape(f.snap) /\ Exact(f.snap)

\* The snapshots of a state and of the next, as values.
LEMMA SnapshotsIs ==
    /\ SnapshotsInv <=> Good(snaps) /\ GoodFiles(files)
    /\ SnapshotsInv' <=> Good(snaps') /\ GoodFiles(files')
<1>1. SnapshotsInv <=> Good(snaps) /\ GoodFiles(files)
  BY DEF SnapshotsInv, Good, GoodFiles
<1>2. SnapshotsInv' <=> Good(snaps') /\ GoodFiles(files')
  BY DEF SnapshotsInv, Good, GoodFiles
<1> QED BY <1>1, <1>2

LEMMA GoodWith ==
    ASSUME NEW f, Good(f), NEW id \in Ids, NEW s, Shape(s), Exact(s)
    PROVE  Good(With(f, id, s))
<1> DEFINE g == With(f, id, s)
<1>1. /\ DOMAIN g = DOMAIN f \cup {id} /\ g[id] = s
      /\ \A x \in DOMAIN f : x # id => g[x] = f[x]
  BY DEF With
<1> HIDE DEF g
<1>2. Good(g)
  BY <1>1 DEF Good
<1> QED BY <1>2 DEF g

\* What of a snapshot fits a context.
LEMMA ShapeIs ==
    ASSUME NEW s, Shape(s)
    PROVE  /\ Len(s.tokens) \in Nat /\ Len(s.tokens) <= Context /\ Len(s.tokens) > 0
           /\ IsSeq(s.tokens)
           /\ IsSeq(s.lower) /\ Len(s.lower) = Len(s.tokens)
           /\ IsSeq(s.upper) /\ Len(s.upper) <= Context
           /\ s.blocks = 30 => Len(s.upper) = Len(s.tokens)
           /\ Upto(s.lower, Len(s.tokens)) = s.lower
           /\ s.blocks = 30 => Upto(s.upper, Len(s.tokens)) = s.upper
<1>1. /\ Len(s.tokens) \in Nat /\ Len(s.tokens) <= Context /\ Len(s.tokens) > 0
      /\ IsSeq(s.tokens)
      /\ IsSeq(s.lower) /\ Len(s.lower) = Len(s.tokens)
      /\ IsSeq(s.upper) /\ Len(s.upper) <= Context
      /\ s.blocks = 30 => Len(s.upper) = Len(s.tokens)
  BY SeqIs, ContextIs DEF Shape
<1>2. /\ Upto(s.lower, Len(s.tokens)) = s.lower
      /\ s.blocks = 30 => Upto(s.upper, Len(s.tokens)) = s.upper
  BY <1>1, UptoAll
<1> QED BY <1>1, <1>2

----------------------------------------------------------------------------
(* The contexts.                                                           *)

\* Cleared contexts hold nothing.
LEMMA ClearedContexts ==
    ASSUME Clear, IsSeq(stock'), Len(stock') <= Context
    PROVE  ContextsInv'
<1>1. IsSeq(<<>>) /\ Len(<<>>) <= Context
  BY Empty, ContextIs
<1>2. IsSeq(lower') /\ IsSeq(upper') /\ IsSeq(stock') /\ ContextsFit'
  BY <1>1 DEF Clear, ContextsFit
<1>3. resident' = None /\ residentUpper' = FALSE
  BY DEF Clear
<1> QED BY <1>2, <1>3 DEF ContextsInv

\* Contexts left alone, with a resident snapshot left alone.
LEMMA KeptContexts ==
    ASSUME ContextsInv, UNCHANGED contexts, IsSeq(stock'), Len(stock') <= Context,
           RidesSnapshot => RidesSnapshot',
           resident # None => resident \in DOMAIN snaps' /\ snaps'[resident] = snaps[resident]
    PROVE  ContextsInv'
<1>1. lower' = lower /\ upper' = upper /\ resident' = resident /\ residentUpper' = residentUpper
  BY DEF contexts
<1>2. IsSeq(lower') /\ IsSeq(upper') /\ IsSeq(stock') /\ ContextsFit'
  BY <1>1 DEF ContextsInv, ContextsFit
<1>3. resident' \in Ids \cup {None} /\ residentUpper' \in BOOLEAN
  BY <1>1 DEF ContextsInv
<1>4. ASSUME resident' # None
      PROVE  resident' \in DOMAIN snaps' /\ Holds(snaps[resident])'
  <2>1. /\ resident \in DOMAIN snaps' /\ snaps'[resident] = snaps[resident]
        /\ Holds(snaps[resident])
    BY <1>1, <1>4 DEF ContextsInv
  <2> QED BY <1>1, <2>1 DEF Holds
<1> QED BY <1>2, <1>3, <1>4 DEF ContextsInv

\* Contexts that hold a snapshot and nothing more.
LEMMA LoadedContexts ==
    ASSUME NEW id \in Ids, id \in DOMAIN snaps', Shape(snaps'[id]),
           resident' = id, residentUpper' \in BOOLEAN,
           lower' = snaps'[id].lower, IsSeq(upper'), Len(upper') <= Context,
           residentUpper' => snaps'[id].blocks = 30 /\ upper' = snaps'[id].upper,
           IsSeq(stock'), Len(stock') <= Context
    PROVE  ContextsInv'
<1>1. /\ IsSeq(snaps'[id].lower) /\ Len(snaps'[id].lower) = Len(snaps'[id].tokens)
      /\ Len(snaps'[id].tokens) <= Context
      /\ Upto(snaps'[id].lower, Len(snaps'[id].tokens)) = snaps'[id].lower
      /\ snaps'[id].blocks = 30 =>
            /\ Upto(snaps'[id].upper, Len(snaps'[id].tokens)) = snaps'[id].upper
            /\ Len(snaps'[id].upper) = Len(snaps'[id].tokens)
  BY ShapeIs
<1>2. resident' \in DOMAIN snaps' /\ Holds(snaps[resident])'
  BY <1>1 DEF Holds
<1>3. IsSeq(lower') /\ IsSeq(upper') /\ IsSeq(stock') /\ ContextsFit'
  BY <1>1 DEF ContextsFit
<1> QED BY <1>2, <1>3 DEF ContextsInv

LEMMA StockIs ==
    ASSUME ContextsInv, UNCHANGED stock
    PROVE  IsSeq(stock') /\ Len(stock') <= Context
  BY DEF ContextsInv, ContextsFit

----------------------------------------------------------------------------
(* Branches.                                                               *)

Fits(f, id, full, save) ==
    /\ id \in DOMAIN f /\ f[id].blocks = 30 /\ Len(full) <= Context
    /\ Extends(full, f[id].tokens) /\ save \notin DOMAIN f

\* The preflight lets through what fits.
LEMMA Preflight ==
    ASSUME NEW f, NEW id, NEW full, NEW save, Len(full) \in Nat
    PROVE  BranchError(f, id, full, save) = "none" <=> Fits(f, id, full, save)
<1>0. Context \in Nat
  BY ContextIs
<1>1. CASE Fits(f, id, full, save)
  BY <1>0, <1>1 DEF Fits, BranchError
<1>2. CASE id \notin DOMAIN f
  BY <1>2 DEF Fits, BranchError
<1>3. CASE id \in DOMAIN f /\ f[id].blocks # 30
  BY <1>3 DEF Fits, BranchError
<1>4. CASE id \in DOMAIN f /\ f[id].blocks = 30 /\ Len(full) > Context
  BY <1>0, <1>4 DEF Fits, BranchError
<1> QED BY <1>0, <1>1, <1>2, <1>3, <1>4 DEF Fits, BranchError

----------------------------------------------------------------------------
(* What is read.                                                           *)

LEMMA ReadingIs ==
    ASSUME NEW t, NEW c, NEW x
    PROVE  /\ Reading(t, c, x).tokens = t /\ Reading(t, c, x).cuts = c
           /\ Reading(t, c, x).cells = x
  BY DEF Reading

\* A readout of cells run from nothing.
LEMMA ReadOut ==
    ASSUME NEW t, NEW c, NEW x, readout' = Reading(t, c, x),
           x = SplitCells(t, c) \/ x = CellsOf(t, c)
    PROVE  ReadoutsAreExact'
<1>1. readout'.tokens = t /\ readout'.cuts = c /\ readout'.cells = x
  BY ReadingIs
<1> QED BY <1>1 DEF ReadoutsAreExact

LEMMA ReadNothing ==
    ASSUME readout' = NoReading
    PROVE  ReadoutsAreExact'
<1>1. <<>> = CellsOf(<<>>, <<>>)
  BY CellsOfNothing
<1> QED BY <1>1, ReadOut DEF NoReading

LEMMA ReadKept ==
    ASSUME ReadoutsAreExact, UNCHANGED readout
    PROVE  ReadoutsAreExact'
  BY DEF ReadoutsAreExact

----------------------------------------------------------------------------
(* The freeze: the tokens a context keeps are some of the prompt's first.  *)

\* A rendered prompt has a token.
LEMMA PromptIs ==
    ASSUME NEW full \in Prompts
    PROVE  full \in Seq(Tokens) /\ IsSeq(full) /\ Len(full) \in Nat /\ Len(full) > 0
<1>1. full \in Seq(Tokens) /\ full # <<>>
  BY PromptsAssumption
<1>2. IsSeq(full) /\ Len(full) \in Nat
  BY <1>1, SeqIs
<1>3. Len(full) # 0
  BY <1>1, EmptySeq
<1> QED BY <1>1, <1>2, <1>3

\* The first tokens of a prompt are tokens.
LEMMA UptoTokens ==
    ASSUME NEW full \in Seq(Tokens), NEW n \in 0..Len(full)
    PROVE  Upto(full, n) \in Seq(Tokens)
<1>1. Len(full) \in Nat /\ \A i \in 1..Len(full) : full[i] \in Tokens
  BY ElementOfSeq, LenProperties
<1>2. IsSeq(Upto(full, n)) /\ Len(Upto(full, n)) = n /\ \A i \in 1..n : Upto(full, n)[i] = full[i]
  BY UptoFacts
<1>3. /\ DOMAIN Upto(full, n) = 1..n
      /\ Upto(full, n) = [i \in 1..n |-> Upto(full, n)[i]]
  BY <1>2, SeqFacts
<1>4. \A i \in 1..n : Upto(full, n)[i] \in Tokens
  BY <1>1, <1>2
<1>5. Upto(full, n) \in [1..n -> Tokens]
  BY <1>3, <1>4
<1> QED BY <1>5, SeqDef

LEMMA FromTokens ==
    ASSUME NEW s \in Seq(Tokens), NEW token \in Tokens
    PROVE  Append(s, token) = s \o <<token>> /\ Append(s, token) \in Seq(Tokens)
           /\ IsSeq(<<token>>) /\ Len(<<token>>) = 1
<1>1. <<token>> \in Seq(Tokens) /\ Len(<<token>>) = 1
  OBVIOUS
<1>2. IsSeq(<<token>>)
  BY <1>1, SeqIs
<1>3. Append(s, token) = s \o <<token>>
  BY AppendIsConcat
<1>4. Append(s, token) \in Seq(Tokens)
  OBVIOUS
<1> QED BY <1>1, <1>2, <1>3, <1>4

\* A set of numbers under a limit has a largest: by induction on how far
\* under the limit a member of it is.
LEMMA LargestOf ==
    ASSUME NEW limit \in Nat, NEW S, S \subseteq 0..limit, NEW x \in S
    PROVE  \E n \in S : \A m \in S : m <= n
<1> DEFINE T == {k \in Nat : \A y \in S : y >= limit - k => \E n \in S : \A m \in S : m <= n}
<1>1. 0 \in T
  <2> SUFFICES ASSUME NEW y \in S, y >= limit
               PROVE  \E n \in S : \A m \in S : m <= n
    OBVIOUS
  <2>1. \A m \in S : m <= y
    OBVIOUS
  <2> QED BY <2>1
<1>2. ASSUME NEW k \in Nat, k \in T
      PROVE  k + 1 \in T
  <2> SUFFICES ASSUME NEW y \in S, y >= limit - (k + 1)
               PROVE  \E n \in S : \A m \in S : m <= n
    OBVIOUS
  <2>1. CASE \E z \in S : z > y
    <3>1. PICK z \in S : z > y
      BY <2>1
    <3>2. z >= limit - k
      BY <3>1
    <3> QED BY <1>2, <3>2
  <2>2. CASE \A z \in S : ~(z > y)
    <3>1. \A m \in S : m <= y
      BY <2>2
    <3> QED BY <3>1
  <2> QED BY <2>1, <2>2
<1>3. Nat \subseteq T
  <2> HIDE DEF T
  <2> QED BY <1>1, <1>2, Induction
<1>4. limit \in T /\ x >= limit - limit
  BY <1>3
<1> QED BY <1>4

\* The common prefix stops short of the prompt.
LEMMA CommonPrefixIs ==
    ASSUME NEW head \in Prompts, NEW full \in Prompts
    PROVE  CommonPrefix(head, full) \in 0..(Len(full) - 1)
<1> DEFINE limit == Least(Len(head), Len(full)) - 1
           common == {n \in 0..limit : Upto(head, n) = Upto(full, n)}
<1>1. Len(head) \in Nat /\ Len(full) \in Nat /\ Len(head) > 0 /\ Len(full) > 0
  BY PromptIs
<1>2. limit \in Nat /\ limit <= Len(full) - 1
  BY <1>1 DEF Least
<1>3. 0 \in common
  <2>1. Upto(head, 0) = Upto(full, 0)
    <3>1. /\ IsSeq(Upto(head, 0)) /\ Len(Upto(head, 0)) = 0
          /\ IsSeq(Upto(full, 0)) /\ Len(Upto(full, 0)) = 0
      BY UptoFacts
    <3> QED BY <3>1, SameSeq
  <2> QED BY <1>2, <2>1
<1>4. \E n \in common : \A m \in common : m <= n
  <2>1. common \subseteq 0..limit
    OBVIOUS
  <2> HIDE DEF limit, common
  <2> QED BY <1>2, <1>3, <2>1, LargestOf
<1>5. CommonPrefix(head, full) = CHOOSE n \in common : \A m \in common : m <= n
  BY DEF CommonPrefix
<1>6. CommonPrefix(head, full) \in common
  <2> HIDE DEF common
  <2> QED BY <1>4, <1>5
<1> QED BY <1>1, <1>2, <1>6

\* The 30 of a freeze is over the cells of its 18.
LEMMA CapturedFields ==
    ASSUME NEW kind, NEW t, NEW id18
    PROVE  /\ Captured18(kind, t).tokens = t
           /\ Captured30(kind, t, id18).tokens = t
           /\ Captured30(kind, t, id18).lower = Captured18(kind, t).lower
           /\ Captured30(kind, t, id18).blocks = 30
<1> DEFINE s == Captured18(kind, t)
           up == Decode(<<>>, s.h18)
           h == IF id18 = None THEN s.h18 ELSE <<>>
<1>1. /\ DOMAIN s = {"blocks", "kind", "parent", "tokens", "lower", "upper", "h18", "owned", "cuts"}
      /\ s.tokens = t
  BY DEF Captured18
<1>2. Captured30(kind, t, id18) =
        [s EXCEPT !.blocks = 30, !.parent = id18, !.upper = up, !.h18 = h, !.owned = (id18 = None)]
  BY DEF Captured30
<1> HIDE DEF s, up, h
<1>3. /\ Captured30(kind, t, id18).tokens = s.tokens
      /\ Captured30(kind, t, id18).lower = s.lower
      /\ Captured30(kind, t, id18).blocks = 30
  BY <1>1, <1>2
<1> QED BY <1>1, <1>3 DEF s

\* create(): every checkpoint it publishes is sound, and the last one resident.
LEMMA Creates ==
    ASSUME WInv, NEW kind \in Kinds, NEW t \in Seq(Tokens), Len(t) \in 1..Context,
           NEW id18 \in Ids \cup {None}, NEW id30 \in Ids \cup {None},
           Create(kind, t, id18, id30)
    PROVE  WInv'
<1> DEFINE s18 == Captured18(kind, t)
           s30 == Captured30(kind, t, id18)
           with18 == IF id18 = None THEN snaps ELSE With(snaps, id18, s18)
<1>1. /\ SnapshotsInv /\ ContextsInv /\ CommandInv /\ ReadoutsAreExact
      /\ UNCHANGED stock /\ UNCHANGED files
  BY DEF WInv, Create
<1>2. Shape(s18) /\ Exact(s18) /\ Shape(s30) /\ Exact(s30)
  BY Captured
<1>3. /\ s18.tokens = t /\ s30.tokens = t /\ s30.lower = s18.lower /\ s30.blocks = 30
  BY CapturedFields
<1>4. /\ {id18, id30} # {None} /\ id18 # id30
      /\ snaps' = IF id30 = None THEN with18 ELSE With(with18, id30, s30)
      /\ lower' = s18.lower
      /\ upper' = IF id30 = None THEN <<>> ELSE s30.upper
      /\ readout' = IF id30 = None THEN readout ELSE Reading(t, s30.cuts, s30.upper)
      /\ resident' = IF id30 = None THEN id18 ELSE id30
      /\ residentUpper' = (id30 # None)
      /\ Replies("ok", {id18, id30} \ {None})
  BY DEF Create
<1> HIDE DEF s18, s30
<1>5. CommandInv'
  <2>1. {id18, id30} \ {None} \subseteq Ids
    OBVIOUS
  <2> QED BY <1>4, <2>1, RepliesWell
<1>6. Good(with18)
  <2>1. Good(snaps)
    BY <1>1, SnapshotsIs
  <2>2. CASE id18 = None
    BY <2>1, <2>2
  <2>3. CASE id18 # None
    <3>1. id18 \in Ids
      BY <2>3
    <3>2. Good(With(snaps, id18, s18))
      BY <1>2, <2>1, <3>1, GoodWith
    <3> QED BY <2>3, <3>2
  <2> QED BY <2>2, <2>3
<1>7. Good(snaps')
  <2>1. CASE id30 = None
    BY <1>4, <1>6, <2>1
  <2>2. CASE id30 # None
    <3> HIDE DEF with18
    <3>1. id30 \in Ids
      BY <2>2
    <3>2. Good(With(with18, id30, s30))
      BY <1>2, <1>6, <3>1, GoodWith
    <3> QED BY <1>4, <2>2, <3>2
  <2> QED BY <2>1, <2>2
<1>8. SnapshotsInv'
  <2>1. GoodFiles(files')
    BY <1>1, SnapshotsIs
  <2> QED BY <1>7, <2>1, SnapshotsIs
<1>9. ContextsInv'
  <2>1. IsSeq(stock') /\ Len(stock') <= Context
    BY <1>1, StockIs
  <2>2. CASE id30 = None
    <3>1. id18 \in Ids /\ resident' = id18 /\ residentUpper' = FALSE /\ upper' = <<>>
      BY <1>4, <2>2
    <3>2. snaps' = With(snaps, id18, s18)
      <4>1. id18 # None
        BY <3>1, NoneAssumption
      <4> QED BY <1>4, <2>2, <4>1
    <3>3. id18 \in DOMAIN snaps' /\ snaps'[id18] = s18
      BY <3>2 DEF With
    <3>4. IsSeq(upper') /\ Len(upper') <= Context
      BY <3>1, Empty, ContextIs
    <3>5. Shape(snaps'[id18]) /\ lower' = snaps'[id18].lower
      BY <1>2, <1>4, <3>3
    <3> QED BY <2>1, <3>1, <3>3, <3>4, <3>5, LoadedContexts
  <2>3. CASE id30 # None
    <3>1. /\ id30 \in Ids /\ resident' = id30 /\ residentUpper' = TRUE
          /\ upper' = s30.upper /\ snaps' = With(with18, id30, s30)
      BY <1>4, <2>3
    <3>2. id30 \in DOMAIN snaps' /\ snaps'[id30] = s30
      <4> HIDE DEF with18
      <4> QED BY <3>1 DEF With
    <3>3. /\ Shape(snaps'[id30]) /\ lower' = snaps'[id30].lower
          /\ snaps'[id30].blocks = 30 /\ upper' = snaps'[id30].upper
      BY <1>2, <1>3, <1>4, <3>1, <3>2
    <3>4. IsSeq(upper') /\ Len(upper') <= Context
      BY <1>2, <3>1, ShapeIs
    <3> QED BY <2>1, <3>1, <3>2, <3>3, <3>4, LoadedContexts
  <2> QED BY <2>2, <2>3
<1>10. ReadoutsAreExact'
  <2>1. CASE id30 = None
    <3>1. readout' = readout
      BY <1>4, <2>1
    <3> QED BY <1>1, <3>1, ReadKept
  <2>2. CASE id30 # None
    <3>1. readout' = Reading(t, s30.cuts, s30.upper)
      BY <1>4, <2>2
    <3>2. s30.upper = SplitCells(t, s30.cuts)
      BY <1>2, <1>3 DEF Exact
    <3> QED BY <3>1, <3>2, ReadOut
  <2> QED BY <2>1, <2>2
<1> QED BY <1>5, <1>8, <1>9, <1>10 DEF WInv

\* Which tokens a freeze keeps.
LEMMA Frozen ==
    ASSUME CreateFrozen
    PROVE  \E kind \in Kinds, full \in Prompts, id18, id30 \in Ids \cup {None} :
               \E n \in 1..Len(full) :
                   /\ Upto(full, n) \in Seq(Tokens) /\ Len(Upto(full, n)) \in 1..Context
                   /\ Create(kind, Upto(full, n), id18, id30)
<1>1. PICK full \in Prompts, id18 \in Ids \cup {None}, id30 \in Ids \cup {None} :
          /\ Len(full) <= Context
          /\ \/ Create("readout", full, id18, id30)
             \/ \E head \in Prompts :
                   /\ CommonPrefix(head, full) >= 1
                   /\ Create("context", Upto(full, CommonPrefix(head, full)), id18, id30)
  BY DEF CreateFrozen
<1>2. full \in Seq(Tokens) /\ IsSeq(full) /\ Len(full) \in Nat /\ Len(full) > 0
  BY PromptIs
<1>3. ASSUME NEW n \in 1..Len(full)
      PROVE  Upto(full, n) \in Seq(Tokens) /\ Len(Upto(full, n)) \in 1..Context
  <2>1. n \in 0..Len(full) /\ n \in Nat
    BY <1>2
  <2>2. Len(Upto(full, n)) = n
    BY <2>1, UptoFacts
  <2> QED BY <1>1, <1>2, <2>1, <2>2, UptoTokens, ContextIs
<1>4. CASE Create("readout", full, id18, id30)
  <2>1. Upto(full, Len(full)) = full
    BY <1>2, UptoAll
  <2>2. Create("readout", Upto(full, Len(full)), id18, id30)
    BY <1>4, <2>1
  <2>3. Len(full) \in 1..Len(full)
    BY <1>2
  <2> QED BY <1>3, <2>2, <2>3 DEF Kinds
<1>5. ASSUME NEW head \in Prompts, CommonPrefix(head, full) >= 1,
             Create("context", Upto(full, CommonPrefix(head, full)), id18, id30)
      PROVE  \E n \in 1..Len(full) :
                 Create("context", Upto(full, n), id18, id30)
  <2>1. CommonPrefix(head, full) \in 1..Len(full)
    BY <1>2, <1>5, CommonPrefixIs
  <2> QED BY <1>5, <2>1
<1> QED BY <1>1, <1>3, <1>4, <1>5 DEF Kinds

\* The freeze keeps the invariant.
LEMMA FreezeKeepsInv ==
    ASSUME WInv, CreateFrozen
    PROVE  WInv'
<1>1. PICK kind \in Kinds, full \in Prompts, id18 \in Ids \cup {None},
           id30 \in Ids \cup {None} :
               \E n \in 1..Len(full) :
                   /\ Upto(full, n) \in Seq(Tokens) /\ Len(Upto(full, n)) \in 1..Context
                   /\ Create(kind, Upto(full, n), id18, id30)
  BY Frozen
<1>2. PICK n \in 1..Len(full) :
          /\ Upto(full, n) \in Seq(Tokens) /\ Len(Upto(full, n)) \in 1..Context
          /\ Create(kind, Upto(full, n), id18, id30)
  BY <1>1
<1> QED BY <1>2, Creates

\* So does a promotion, whose boundary the 18 kept.
LEMMA PromoteKeepsInv ==
    ASSUME WInv, NEW id \in Ids, NEW new \in Ids, Promote(id, new)
    PROVE  WInv'
<1> DEFINE s == snaps[id]
           p == Promoted(id, snaps[id])
<1>1. /\ SnapshotsInv /\ ContextsInv /\ CommandInv /\ ReadoutsAreExact
      /\ UNCHANGED stock /\ UNCHANGED files /\ UNCHANGED readout
      /\ id \in DOMAIN snaps /\ s.blocks = 18 /\ new \notin DOMAIN snaps
      /\ snaps' = With(snaps, new, p)
      /\ lower' = s.lower /\ upper' = p.upper
      /\ resident' = new /\ residentUpper' = TRUE
      /\ Replies("ok", {new})
  BY DEF WInv, Promote, Promotable
<1>2. Good(snaps) /\ GoodFiles(files)
  BY <1>1, SnapshotsIs
<1>3. Shape(s) /\ Exact(s)
  BY <1>1, <1>2 DEF Good
<1>4. Shape(p) /\ Exact(p) /\ p.blocks = 30 /\ p.lower = s.lower
  BY <1>1, <1>3, PromotedIs
<1> HIDE DEF s, p
<1>5. SnapshotsInv'
  <2>1. Good(With(snaps, new, p))
    BY <1>2, <1>4, GoodWith
  <2> QED BY <1>1, <1>2, <2>1, SnapshotsIs
<1>6. ContextsInv'
  <2>1. new \in DOMAIN snaps' /\ snaps'[new] = p
    BY <1>1 DEF With
  <2>2. IsSeq(stock') /\ Len(stock') <= Context
    BY <1>1, StockIs
  <2>3. IsSeq(upper') /\ Len(upper') <= Context
    BY <1>1, <1>4, ShapeIs
  <2> QED BY <1>1, <1>4, <2>1, <2>2, <2>3, LoadedContexts
<1>7. CommandInv'
  BY <1>1, RepliesWell
<1>8. ReadoutsAreExact'
  BY <1>1, ReadKept
<1> QED BY <1>5, <1>6, <1>7, <1>8 DEF WInv

\* Only the contexts are touched.
LEMMA InferenceFailsKeepsInv ==
    ASSUME WInv, InferenceFails
    PROVE  WInv'
<1>1. /\ SnapshotsInv /\ ContextsInv /\ CommandInv /\ ReadoutsAreExact
      /\ UNCHANGED stock /\ UNCHANGED files /\ UNCHANGED readout /\ UNCHANGED snaps
      /\ Clear /\ Fails
  BY DEF WInv, InferenceFails
<1>2. SnapshotsInv'
  BY <1>1, SnapshotsIs
<1>3. ContextsInv'
  BY <1>1, StockIs, ClearedContexts
<1> QED BY <1>1, <1>2, <1>3, FailsWell, ReadKept DEF WInv

\* What is resident need not be restored: the contexts hold its blobs.
LEMMA FromBlobs ==
    ASSUME SnapshotsInv, ContextsInv, ~RidesSnapshot, NEW id \in DOMAIN snaps
    PROVE  LowerFor(id) = snaps[id].lower
           /\ (snaps[id].blocks = 30 => UpperFor(id) = snaps[id].upper)
<1> DEFINE s == snaps[id]
<1>1. Shape(s) /\ id \in Ids
  BY DEF SnapshotsInv
<1>2. ASSUME IsResident(id)
      PROVE  lower = s.lower /\ (s.blocks = 30 => upper = s.upper)
  <2>1. /\ resident = id /\ (s.blocks = 30 => residentUpper /\ Len(upper) = Len(s.tokens))
        /\ Len(lower) = Len(s.tokens)
    BY <1>2 DEF IsResident
  <2>2. Holds(s) /\ IsSeq(lower) /\ IsSeq(upper)
    BY <1>1, <2>1, NoneAssumption DEF ContextsInv
  <2>3. Upto(lower, Len(lower)) = lower /\ Upto(upper, Len(upper)) = upper
    BY <2>2, UptoAll
  <2> QED BY <2>1, <2>2, <2>3 DEF Holds
<1> HIDE DEF s
<1>3. (LowerFor(id) = IF IsResident(id) THEN lower ELSE s.lower)
      /\ (UpperFor(id) = IF IsResident(id) THEN upper ELSE s.upper)
  BY DEF LowerFor, UpperFor, s
<1>4. LowerFor(id) = s.lower /\ (s.blocks = 30 => UpperFor(id) = s.upper)
  BY <1>2, <1>3
<1> QED BY <1>4 DEF s

\* So a branch computes what it would from the blobs.
LEMMA BranchFromBlobs ==
    ASSUME SnapshotsInv, ContextsInv, ~RidesSnapshot, NEW id \in DOMAIN snaps,
           snaps[id].blocks = 30, NEW full
    PROVE  /\ BranchLower(id, full) = FreshLow(snaps[id], full)
           /\ BranchUpper(id, full) = FreshUp(snaps[id], full)
<1>1. LowerFor(id) = snaps[id].lower /\ UpperFor(id) = snaps[id].upper
  BY FromBlobs
<1> QED BY <1>1 DEF BranchLower, BranchUpper, FreshLow, FreshUp

LEMMA AskIs ==
    ASSUME NEW q \in Ask
    PROVE  q.full \in Prompts /\ q.save \in Ids \cup {None}
  BY DEF Ask

\* A question that passes the preflight: its branch, and the child it saves.
LEMMA BranchFits ==
    ASSUME SnapshotsInv, NEW id, NEW full \in Prompts, NEW save \in Ids \cup {None},
           BranchError(snaps, id, full, save) = "none"
    PROVE  /\ id \in DOMAIN snaps /\ id \in Ids /\ snaps[id].blocks = 30
           /\ Shape(snaps[id]) /\ Exact(snaps[id])
           /\ full \in Seq(Tokens) /\ Len(full) \in Nat /\ Len(full) <= Context
           /\ Extends(full, snaps[id].tokens) /\ save \notin DOMAIN snaps
           /\ LET c == Child(id, snaps[id], full, FreshLow(snaps[id], full),
                             FreshUp(snaps[id], full)) IN
              Shape(c) /\ Exact(c)
<1>1. full \in Seq(Tokens) /\ Len(full) \in Nat
  BY PromptIs
<1>2. /\ id \in DOMAIN snaps /\ snaps[id].blocks = 30 /\ Len(full) <= Context
      /\ Extends(full, snaps[id].tokens) /\ save \notin DOMAIN snaps
  BY <1>1, Preflight DEF Fits
<1>3. id \in Ids /\ Shape(snaps[id]) /\ Exact(snaps[id])
  BY <1>2 DEF SnapshotsInv
<1>4. LET c == Child(id, snaps[id], full, FreshLow(snaps[id], full),
                     FreshUp(snaps[id], full)) IN
      Shape(c) /\ Exact(c)
  BY <1>1, <1>2, <1>3, ChildIs
<1> QED BY <1>1, <1>2, <1>3, <1>4

\* What a branch publishes leaves every snapshot sound, and its parent alone.
PublishedFresh(id, q) ==
    IF q.save = None THEN snaps
    ELSE With(snaps, q.save,
              Child(id, snaps[id], q.full, FreshLow(snaps[id], q.full), FreshUp(snaps[id], q.full)))

LEMMA Publishing ==
    ASSUME SnapshotsInv, ContextsInv, ~RidesSnapshot, NEW id, NEW q \in Ask,
           BranchError(snaps, id, q.full, q.save) = "none"
    PROVE  /\ Published(id, q) = PublishedFresh(id, q)
           /\ Good(Published(id, q))
           /\ DOMAIN Published(id, q) = DOMAIN snaps \cup Saves(q)
           /\ \A x \in DOMAIN snaps : Published(id, q)[x] = snaps[x]
<1> DEFINE c == Child(id, snaps[id], q.full, FreshLow(snaps[id], q.full),
                      FreshUp(snaps[id], q.full))
<1>1. q.full \in Prompts /\ q.save \in Ids \cup {None}
  BY AskIs
<1>2. /\ id \in DOMAIN snaps /\ snaps[id].blocks = 30 /\ q.save \notin DOMAIN snaps
      /\ Shape(c) /\ Exact(c)
  BY <1>1, BranchFits
<1>3. Good(snaps)
  BY SnapshotsIs
<1>4. Published(id, q) = IF q.save = None THEN snaps ELSE With(snaps, q.save, c)
  <2>1. /\ BranchLower(id, q.full) = FreshLow(snaps[id], q.full)
        /\ BranchUpper(id, q.full) = FreshUp(snaps[id], q.full)
    BY <1>2, BranchFromBlobs
  <2> QED BY <2>1 DEF Published
<1>5. Published(id, q) = PublishedFresh(id, q)
  BY <1>4 DEF PublishedFresh
<1> HIDE DEF c
<1>6. CASE q.save = None
  <2>1. Published(id, q) = snaps /\ Saves(q) = {}
    BY <1>4, <1>6 DEF Saves
  <2> QED BY <1>3, <1>5, <2>1
<1>7. CASE q.save # None
  <2>1. Published(id, q) = With(snaps, q.save, c) /\ Saves(q) = {q.save} /\ q.save \in Ids
    BY <1>1, <1>4, <1>7 DEF Saves
  <2>2. Good(With(snaps, q.save, c))
    BY <1>2, <1>3, <2>1, GoodWith
  <2>3. /\ DOMAIN Published(id, q) = DOMAIN snaps \cup {q.save}
        /\ \A x \in DOMAIN snaps : Published(id, q)[x] = snaps[x]
    BY <1>2, <2>1 DEF With
  <2> QED BY <1>5, <2>1, <2>2, <2>3
<1> QED BY <1>6, <1>7

----------------------------------------------------------------------------

\* A command that passed the preflight has sound questions.
LEMMA StartKeepsInv ==
    ASSUME WInv, StartBranches
    PROVE  WInv'
<1>1. PICK id \in Ids, n \in 1..MaxAsks :
          \E asks \in [1..n -> Ask], op \in {"evaluate", "state_eval"} : Branches(op, id, asks)
  BY DEF StartBranches
<1>2. PICK asks \in [1..n -> Ask], op \in {"evaluate", "state_eval"} : Branches(op, id, asks)
  BY <1>1
<1>3. /\ SnapshotsInv /\ ContextsInv /\ CommandInv /\ ReadoutsAreExact
      /\ Idle
      /\ \A i \in 1..Len(asks) : BranchError(snaps, id, asks[i].full, asks[i].save) = "none"
      /\ \A i, j \in 1..Len(asks) : asks[i].save = asks[j].save => i = j \/ asks[i].save = None
      /\ cmd' = [NoCmd EXCEPT !.op = op, !.target = id, !.asks = asks]
      /\ UNCHANGED <<snaps, contexts, stock, files, readout, reply>>
  BY <1>2 DEF WInv, Branches
<1>4. asks \in Seq(Ask) /\ Len(asks) = n /\ DOMAIN asks = 1..n /\ n >= 1
  <2>1. n \in Nat /\ n >= 1
    BY <1>1, BoundsAssumption
  <2> QED BY <2>1
<1>5. ~RidesSnapshot /\ cmd.op = "none" /\ reply = NoReply
  BY <1>3, IdleIs DEF Idle
<1>6. /\ cmd'.op = op /\ cmd'.target = id /\ cmd'.asks = asks /\ cmd'.made = {}
      /\ cmd'.mode = "none" /\ cmd'.left = 0
      /\ cmd' = [op |-> cmd'.op, target |-> cmd'.target, asks |-> cmd'.asks,
                 made |-> cmd'.made, mode |-> cmd'.mode, seq |-> cmd'.seq,
                 left |-> cmd'.left, cuts |-> cmd'.cuts]
  BY <1>3 DEF NoCmd
<1>7. SnapshotsInv'
  BY <1>3, SnapshotsIs
<1>8. ContextsInv'
  <2>1. IsSeq(stock') /\ Len(stock') <= Context
    BY <1>3, StockIs
  <2>2. resident # None => resident \in DOMAIN snaps' /\ snaps'[resident] = snaps[resident]
    BY <1>3 DEF ContextsInv
  <2> QED BY <1>3, <1>5, <2>1, <2>2, KeptContexts
<1>9. Branching'
  <2>1. id \in DOMAIN snaps
    <3>1. asks[1] \in Ask /\ BranchError(snaps, id, asks[1].full, asks[1].save) = "none"
      BY <1>3, <1>4
    <3> QED BY <1>3, <3>1, AskIs, BranchFits
  <2>2. /\ cmd'.target \in DOMAIN snaps'
        /\ \A i \in DOMAIN cmd'.asks :
              BranchError(snaps', cmd'.target, cmd'.asks[i].full, cmd'.asks[i].save) = "none"
        /\ \A i, j \in DOMAIN cmd'.asks :
              cmd'.asks[i].save = cmd'.asks[j].save => i = j \/ cmd'.asks[i].save = None
    BY <1>3, <1>4, <1>6, <2>1
  <2> QED BY <2>2 DEF Branching
<1>10. RideHolds'
  BY <1>6 DEF RideHolds
<1>11. CommandInv'
  <2>1. /\ cmd'.op \in {"none", "evaluate", "state_eval", "ride"}
        /\ cmd'.target \in Ids \cup {None} /\ cmd'.made \subseteq Ids
        /\ cmd'.asks \in Seq(Ask) /\ cmd'.mode \in Modes \cup {"none"} /\ cmd'.left \in 0..MaxRide
    BY <1>4, <1>6, BoundsAssumption
  <2>2. reply' \in Reply /\ (reply' # NoReply \/ cmd'.op = "none" => cmd' = NoCmd)
    BY <1>3, <1>5, <1>6, NoReplyIs
  <2> QED BY <1>6, <1>9, <1>10, <2>1, <2>2 DEF CommandInv
<1> QED BY <1>3, <1>7, <1>8, <1>11, ReadKept DEF WInv

\* A branch left the contexts as it found them, or with its parent alone.
LEMMA RunBranchKeepsInv ==
    ASSUME WInv, RunBranch
    PROVE  WInv'
<1> DEFINE id == cmd.target
           q == Head(cmd.asks)
           s == snaps[id]
           low == FreshLow(s, q.full)
           up == FreshUp(s, q.full)
           cuts == Append(s.cuts, Len(q.full) - Len(s.tokens))
<1>1. /\ SnapshotsInv /\ ContextsInv /\ CommandInv /\ ReadoutsAreExact
      /\ cmd.op \in {"evaluate", "state_eval"} /\ cmd.asks # <<>>
      /\ UNCHANGED stock /\ UNCHANGED files /\ UNCHANGED reply
      /\ snaps' = Published(id, q)
      /\ readout' = Reading(q.full, cuts, BranchUpper(id, q.full))
      /\ TrimTo(id, BranchLower(id, q.full), BranchUpper(id, q.full))
      /\ cmd' = [cmd EXCEPT !.asks = Tail(@), !.made = @ \cup Saves(q)]
  BY DEF WInv, RunBranch
<1>2. /\ cmd.asks \in Seq(Ask) /\ Len(cmd.asks) \in Nat /\ Len(cmd.asks) > 0
      /\ q = cmd.asks[1] /\ q \in Ask
      /\ Tail(cmd.asks) \in Seq(Ask) /\ Len(Tail(cmd.asks)) = Len(cmd.asks) - 1
      /\ \A i \in 1..Len(Tail(cmd.asks)) : Tail(cmd.asks)[i] = cmd.asks[i + 1]
      /\ DOMAIN cmd.asks = 1..Len(cmd.asks)
      /\ DOMAIN Tail(cmd.asks) = 1..Len(Tail(cmd.asks))
  <2>1. cmd.asks \in Seq(Ask)
    BY <1>1 DEF CommandInv
  <2> QED BY <1>1, <2>1
<1>3. q.full \in Prompts /\ q.save \in Ids \cup {None}
  BY <1>2, AskIs
<1>4. BranchError(snaps, id, q.full, q.save) = "none" /\ ~RidesSnapshot
  BY <1>1, <1>2 DEF CommandInv, Branching, RidesSnapshot
<1>5. /\ id \in DOMAIN snaps /\ id \in Ids /\ s.blocks = 30 /\ Shape(s) /\ Exact(s)
      /\ q.full \in Seq(Tokens) /\ Extends(q.full, s.tokens) /\ q.save \notin DOMAIN snaps
  <2> DEFINE full == q.full
             save == q.save
  <2>1. /\ full \in Prompts /\ save \in Ids \cup {None} /\ SnapshotsInv
        /\ BranchError(snaps, id, full, save) = "none"
    BY <1>1, <1>3, <1>4
  <2> HIDE DEF id, full, save
  <2>2. /\ id \in DOMAIN snaps /\ id \in Ids /\ s.blocks = 30 /\ Shape(s) /\ Exact(s)
        /\ full \in Seq(Tokens) /\ Extends(full, s.tokens) /\ save \notin DOMAIN snaps
    BY <2>1, BranchFits
  <2> QED BY <2>2 DEF full, save
<1>6. BranchLower(id, q.full) = low /\ BranchUpper(id, q.full) = up
  BY <1>1, <1>4, <1>5, BranchFromBlobs
<1>7. /\ Good(snaps') /\ DOMAIN snaps' = DOMAIN snaps \cup Saves(q)
      /\ \A x \in DOMAIN snaps : snaps'[x] = snaps[x]
  BY <1>1, <1>2, <1>4, Publishing
<1>8. /\ Upto(low, Len(s.tokens)) = s.lower /\ Upto(up, Len(s.tokens)) = s.upper
      /\ up = SplitCells(q.full, cuts)
  BY <1>5, BranchIs
<1>9. /\ lower' = s.lower /\ upper' = s.upper /\ resident' = id /\ residentUpper' = TRUE
  BY <1>1, <1>6, <1>8 DEF TrimTo
<1>10. readout' = Reading(q.full, cuts, up)
  BY <1>1, <1>6
<1> HIDE DEF low, up, cuts, s
<1>11. SnapshotsInv'
  BY <1>1, <1>7, SnapshotsIs
<1>12. ContextsInv'
  <2>1. IsSeq(stock') /\ Len(stock') <= Context
    BY <1>1, StockIs
  <2>2. IsSeq(s.upper) /\ Len(s.upper) <= Context
    BY <1>5, ShapeIs
  <2>3. id \in DOMAIN snaps' /\ snaps'[id] = s
    BY <1>5, <1>7 DEF s
  <2> QED BY <1>5, <1>9, <2>1, <2>2, <2>3, LoadedContexts
<1>13. ReadoutsAreExact'
  BY <1>8, <1>10, ReadOut
<1>14. /\ cmd'.op = cmd.op /\ cmd'.target = id /\ cmd'.asks = Tail(cmd.asks)
       /\ cmd'.made = cmd.made \cup Saves(q) /\ cmd'.mode = cmd.mode /\ cmd'.left = cmd.left
       /\ cmd' = [op |-> cmd'.op, target |-> cmd'.target, asks |-> cmd'.asks,
                  made |-> cmd'.made, mode |-> cmd'.mode, seq |-> cmd'.seq,
                  left |-> cmd'.left, cuts |-> cmd'.cuts]
  <2>1. cmd = [op |-> cmd.op, target |-> cmd.target, asks |-> cmd.asks, made |-> cmd.made,
               mode |-> cmd.mode, seq |-> cmd.seq, left |-> cmd.left, cuts |-> cmd.cuts]
    BY <1>1 DEF CommandInv
  <2> HIDE DEF q
  <2> QED BY <1>1, <2>1
<1>15. Branching'
  <2>1. \A i \in 1..Len(Tail(cmd.asks)) :
            BranchError(snaps', id, Tail(cmd.asks)[i].full, Tail(cmd.asks)[i].save) = "none"
    <3> TAKE i \in 1..Len(Tail(cmd.asks))
    <3> DEFINE r == cmd.asks[i + 1]
    <3>1. i + 1 \in DOMAIN cmd.asks /\ i + 1 # 1 /\ 1 \in DOMAIN cmd.asks
          /\ Tail(cmd.asks)[i] = r /\ r \in Ask
      BY <1>2
    <3>2. r.full \in Prompts /\ r.save \in Ids \cup {None}
      BY <3>1, AskIs
    <3>3. /\ BranchError(snaps, id, r.full, r.save) = "none"
          /\ r.save = q.save => r.save = None
      BY <1>1, <1>2, <3>1 DEF CommandInv, Branching
    <3> HIDE DEF r, q
    <3>4. Fits(snaps, id, r.full, r.save) /\ Len(r.full) \in Nat
      BY <3>2, <3>3, PromptIs, Preflight
    <3>5. r.save \notin DOMAIN snaps'
      <4>1. r.save \notin Saves(q)
        BY <3>3 DEF Saves
      <4> QED BY <1>7, <3>4, <4>1 DEF Fits
    <3>6. Fits(snaps', id, r.full, r.save)
      BY <1>5, <1>7, <3>4, <3>5 DEF Fits
    <3> QED BY <3>1, <3>4, <3>6, Preflight
  <2>2. \A i, j \in 1..Len(Tail(cmd.asks)) :
            Tail(cmd.asks)[i].save = Tail(cmd.asks)[j].save =>
                i = j \/ Tail(cmd.asks)[i].save = None
    <3> TAKE i, j \in 1..Len(Tail(cmd.asks))
    <3>1. /\ i + 1 \in DOMAIN cmd.asks /\ j + 1 \in DOMAIN cmd.asks
          /\ Tail(cmd.asks)[i] = cmd.asks[i + 1] /\ Tail(cmd.asks)[j] = cmd.asks[j + 1]
          /\ i \in Nat /\ j \in Nat
      BY <1>2
    <3>2. cmd.asks[i + 1].save = cmd.asks[j + 1].save =>
              i + 1 = j + 1 \/ cmd.asks[i + 1].save = None
      BY <1>1, <3>1 DEF CommandInv, Branching
    <3> QED BY <3>1, <3>2
  <2>3. id \in DOMAIN snaps'
    BY <1>5, <1>7
  <2> HIDE DEF id, q
  <2> QED BY <1>2, <1>14, <2>1, <2>2, <2>3 DEF Branching
<1>16. RideHolds'
  BY <1>1, <1>14 DEF RideHolds
<1>17. CommandInv'
  <2>1. Saves(q) \subseteq Ids
    BY <1>3 DEF Saves
  <2>2. /\ cmd'.op \in {"none", "evaluate", "state_eval", "ride"}
        /\ cmd'.target \in Ids \cup {None} /\ cmd'.made \subseteq Ids
        /\ cmd'.asks \in Seq(Ask) /\ cmd'.mode \in Modes \cup {"none"} /\ cmd'.left \in 0..MaxRide
    <3> HIDE DEF id, q
    <3> QED BY <1>1, <1>2, <1>5, <1>14, <2>1 DEF CommandInv
  <2>3. reply' \in Reply /\ (reply' # NoReply \/ cmd'.op = "none" => cmd' = NoCmd)
    <3>1. reply \in Reply /\ (reply # NoReply => cmd.op = "none")
      BY <1>1, NoCmdIs DEF CommandInv
    <3> HIDE DEF id, q
    <3> QED BY <1>1, <1>14, <3>1
  <2> HIDE DEF id, q
  <2> QED BY <1>14, <1>15, <1>16, <2>2, <2>3 DEF CommandInv
<1> QED BY <1>11, <1>12, <1>13, <1>17 DEF WInv

\* A branch that fails clears the contexts; its child may stay.
LEMMA BranchFailsKeepsInv ==
    ASSUME WInv, BranchFails
    PROVE  WInv'
<1> DEFINE id == cmd.target
           q == Head(cmd.asks)
<1>1. /\ SnapshotsInv /\ ContextsInv /\ CommandInv /\ ReadoutsAreExact
      /\ cmd.op \in {"evaluate", "state_eval"} /\ cmd.asks # <<>>
      /\ UNCHANGED stock /\ UNCHANGED files /\ UNCHANGED readout /\ Clear
      /\ \/ snaps' = snaps /\ Fails
         \/ snaps' = Published(id, q) /\ Replies("execution_error", cmd.made \cup Saves(q))
  BY DEF WInv, BranchFails
<1>2. q = cmd.asks[1] /\ q \in Ask /\ 1 \in DOMAIN cmd.asks
  <2>1. cmd.asks \in Seq(Ask)
    BY <1>1 DEF CommandInv
  <2> QED BY <1>1, <2>1
<1>3. BranchError(snaps, id, q.full, q.save) = "none" /\ ~RidesSnapshot
  BY <1>1, <1>2 DEF CommandInv, Branching, RidesSnapshot
<1>4. Good(Published(id, q))
  BY <1>1, <1>2, <1>3, Publishing
<1> HIDE DEF id, q
<1>5. SnapshotsInv'
  BY <1>1, <1>4, SnapshotsIs
<1>6. ContextsInv'
  BY <1>1, StockIs, ClearedContexts
<1>7. CommandInv'
  <2>1. CASE Fails
    BY <1>1, <2>1, FailsWell
  <2>2. CASE Replies("execution_error", cmd.made \cup Saves(q))
    <3>1. cmd.made \cup Saves(q) \subseteq Ids
      <4>1. q.save \in Ids \cup {None}
        BY <1>2, AskIs
      <4>2. cmd.made \subseteq Ids
        BY <1>1 DEF CommandInv
      <4> QED BY <4>1, <4>2 DEF Saves
    <3> QED BY <2>2, <3>1, RepliesWell
  <2> QED BY <1>1, <2>1, <2>2
<1> QED BY <1>1, <1>5, <1>6, <1>7, ReadKept DEF WInv

\* The last answer of a command that ran its branches.
LEMMA BranchesEndKeepsInv ==
    ASSUME WInv, BranchesEnd \/ ExportFails
    PROVE  WInv'
<1>1. /\ SnapshotsInv /\ ContextsInv /\ CommandInv /\ ReadoutsAreExact
      /\ cmd.op \in {"evaluate", "state_eval"}
      /\ UNCHANGED <<snaps, contexts, stock, files, readout>>
      /\ Replies("ok", cmd.made) \/ Replies("invalid_request", cmd.made)
  BY DEF WInv, BranchesEnd, ExportFails
<1>2. CommandInv'
  <2>1. cmd.made \subseteq Ids
    BY <1>1 DEF CommandInv
  <2> QED BY <1>1, <2>1, RepliesWell
<1>3. SnapshotsInv'
  BY <1>1, SnapshotsIs
<1>4. ContextsInv'
  <2>1. IsSeq(stock') /\ Len(stock') <= Context
    BY <1>1, StockIs
  <2>2. ~RidesSnapshot
    BY <1>1 DEF RidesSnapshot
  <2>3. resident # None => resident \in DOMAIN snaps' /\ snaps'[resident] = snaps[resident]
    BY <1>1 DEF ContextsInv
  <2> QED BY <1>1, <2>1, <2>2, <2>3, KeptContexts
<1> QED BY <1>1, <1>2, <1>3, <1>4, ReadKept DEF WInv

----------------------------------------------------------------------------
(* A baseline's prefill, in one piece or two.                              *)

\* In one piece or two, the prefill is the cells of its pieces.
LEMMA Prefilled ==
    ASSUME NEW full, IsSeq(full), NEW break \in Nat, break < Len(full)
    PROVE  LET pieces == Pieces(full, break)
               low == PrefillFrom(full, pieces)
               up == PrefillFrom(RowsAfter(low, 0), pieces) IN
           /\ pieces \in Seq(Nat)
           /\ IsSeq(low) /\ Len(low) = Len(full) /\ low = CellsOf(full, pieces)
           /\ IsSeq(up) /\ Len(up) = Len(full) /\ up = SplitCells(full, pieces)
<1> DEFINE pieces == Pieces(full, break)
           low == PrefillFrom(full, pieces)
           rows == RowsAfter(low, 0)
           up == PrefillFrom(rows, pieces)
<1>0. Len(full) \in Nat
  BY SeqFacts
<1>1. CASE break = 0
  <2>1. pieces = <<Len(full)>> /\ Len(pieces) = 1 /\ pieces \in Seq(Nat)
    BY <1>0, <1>1 DEF Pieces
  <2>2. \A x : PrefillFrom(x, pieces) = Decode(<<>>, x)
    <3> HIDE DEF pieces
    <3> QED BY <2>1 DEF PrefillFrom
  <2>3. low = Decode(<<>>, full) /\ up = Decode(<<>>, RowsAfter(Decode(<<>>, full), 0))
    <3>1. low = Decode(<<>>, full)
      BY <2>2
    <3>2. up = Decode(<<>>, rows)
      BY <2>2
    <3> QED BY <3>1, <3>2
  <2>4. /\ IsSeq(low) /\ Len(low) = Len(full) /\ low = CellsOf(full, <<Len(full)>>)
        /\ IsSeq(up) /\ Len(up) = Len(full) /\ up = SplitCells(full, <<Len(full)>>)
    <3> HIDE DEF low, up
    <3> QED BY <2>3, Fresh18
  <2> HIDE DEF low, up, pieces
  <2>5. /\ pieces \in Seq(Nat)
        /\ IsSeq(low) /\ Len(low) = Len(full) /\ low = CellsOf(full, pieces)
        /\ IsSeq(up) /\ Len(up) = Len(full) /\ up = SplitCells(full, pieces)
    BY <2>1, <2>4
  <2> QED BY <2>5 DEF low, up, pieces, rows
<1>2. CASE break # 0
  <2> DEFINE t == Upto(full, break)
             more == From(full, break)
             l == Decode(<<>>, t)
             r == RowsAfter(l, 0)
             u == Decode(<<>>, r)
             d == Decode(l, more)
             e == Decode(u, RowsAfter(d, break))
  <2>1. /\ pieces = <<break, Len(full) - break>> /\ Len(pieces) = 2 /\ pieces[1] = break
        /\ pieces \in Seq(Nat)
    BY <1>0, <1>2 DEF Pieces
  <2>2. \A x : PrefillFrom(x, pieces) = Decode(Decode(<<>>, Upto(x, break)), From(x, break))
    <3> HIDE DEF pieces
    <3> QED BY <2>1 DEF PrefillFrom
  <2>3. low = d
    BY <2>2
  <2>4. /\ IsSeq(t) /\ Len(t) = break /\ IsSeq(more) /\ Len(more) = Len(full) - break
        /\ t \o more = full
    <3>1. break \in 0..Len(full)
      BY <1>0
    <3> QED BY <3>1, UptoFacts, FromFacts, Whole
  <2> HIDE DEF t, more
  <2>5. /\ IsSeq(l) /\ Len(l) = Len(t) /\ IsSeq(r) /\ Len(r) = Len(t)
        /\ IsSeq(u) /\ Len(u) = Len(t)
        /\ l = CellsOf(t, <<Len(t)>>) /\ u = SplitCells(t, <<Len(t)>>)
    BY <2>4, Fresh18
  <2>6. Ran(t, <<Len(t)>>, l, u)
    <3>1. <<Len(t)>> \in Seq(Nat)
      BY <2>4
    <3> HIDE DEF l, u
    <3> QED BY <2>4, <2>5, <3>1 DEF Ran
  <2>7. RunsOn(t, more, <<Len(t)>>, l, u)
    <3> HIDE DEF l, u
    <3> QED BY ONLY <2>4, <2>6, Onward
  <2>8. /\ IsSeq(d) /\ Len(d) = Len(t) + Len(more)
        /\ RowsAfter(d, 0) = r \o RowsAfter(d, break)
        /\ IsSeq(RowsAfter(d, break)) /\ Len(RowsAfter(d, break)) = Len(more)
        /\ IsSeq(e) /\ Len(e) = Len(t) + Len(more)
        /\ d = CellsOf(t \o more, Append(<<Len(t)>>, Len(more)))
        /\ e = SplitCells(t \o more, Append(<<Len(t)>>, Len(more)))
    <3>1. Len(t) = break
      BY <2>4
    <3> HIDE DEF l, u
    <3> QED BY <2>7, <3>1 DEF RunsOn
  <2>9. Append(<<Len(t)>>, Len(more)) = pieces
    <3> DEFINE x == Len(t)
               y == Len(more)
    <3>1. pieces = <<x, y>> /\ x \in Nat /\ y \in Nat
      <4> HIDE DEF pieces
      <4> QED BY <1>0, <2>1, <2>4
    <3> HIDE DEF x, y, pieces
    <3>2. Append(<<x>>, y) = <<x, y>>
      <4> DEFINE p == Append(<<x>>, y)
                 q == <<x, y>>
      <4>1. <<x>> \in Seq(Nat) /\ Len(<<x>>) = 1 /\ <<x>>[1] = x
        BY <3>1
      <4>2. p \in Seq(Nat) /\ Len(p) = 2 /\ p[1] = x /\ p[2] = y
        BY <3>1, <4>1, AppendProperties
      <4>3. q \in Seq(Nat) /\ Len(q) = 2 /\ q[1] = x /\ q[2] = y
        BY <3>1
      <4> HIDE DEF p, q
      <4>4. \A i \in 1..2 : p[i] = q[i]
        BY <4>2, <4>3
      <4>5. p = q
        BY <4>2, <4>3, <4>4, SeqIs, SameSeq
      <4> QED BY <4>5 DEF p, q
    <3> QED BY <3>1, <3>2 DEF x, y
  <2>10. up = e
    <3> DEFINE w == RowsAfter(d, break)
    <3> HIDE DEF d, r, w
    <3>1. IsSeq(r) /\ IsSeq(w) /\ Len(r) = break /\ RowsAfter(d, 0) = r \o w
      BY <2>4, <2>5, <2>8 DEF w
    <3>2. Upto(r \o w, break) = r /\ From(r \o w, break) = w
      <4>1. Len(r) \in 0..Len(r)
        BY <3>1
      <4>2. Upto(r \o w, Len(r)) = Upto(r, Len(r)) /\ Upto(r, Len(r)) = r
        BY <3>1, <4>1, UptoJoined, UptoAll
      <4>3. From(r \o w, Len(r)) = w
        BY <3>1, FromJoined
      <4> QED BY <3>1, <4>2, <4>3
    <3>3. rows = r \o w
      BY <2>3, <3>1
    <3> HIDE DEF low, pieces, rows
    <3>4. up = Decode(Decode(<<>>, r), w)
      BY <2>2, <3>2, <3>3
    <3> QED BY <3>4 DEF w
  <2>11. Len(t) + Len(more) = Len(full)
    BY <1>0, <2>4
  <2>12. /\ pieces \in Seq(Nat)
         /\ IsSeq(low) /\ Len(low) = Len(full) /\ low = CellsOf(full, pieces)
         /\ IsSeq(up) /\ Len(up) = Len(full) /\ up = SplitCells(full, pieces)
    <3> HIDE DEF low, up, pieces, d, e
    <3> QED BY <2>1, <2>3, <2>4, <2>8, <2>9, <2>10, <2>11
  <2> HIDE DEF low, up, pieces
  <2> QED BY <2>12 DEF low, up, pieces, rows
<1> QED BY <1>1, <1>2

----------------------------------------------------------------------------

\* A command becomes a ride.
LEMMA Rides ==
    ASSUME CommandInv, Idle, UNCHANGED reply, NEW mode \in Modes, NEW id \in Ids \cup {None},
           NEW full \in Prompts, NEW max \in 1..MaxRide, NEW cuts,
           Riding(mode, id, full, max, cuts)
    PROVE  /\ cmd'.op = "ride" /\ cmd'.mode = mode /\ cmd'.target = id /\ cmd'.seq = full
           /\ cmd'.left = max /\ cmd'.cuts = cuts /\ max \in Nat /\ max > 0
           /\ RideHolds' => CommandInv'
<1>1. /\ cmd'.op = "ride" /\ cmd'.mode = mode /\ cmd'.target = id /\ cmd'.seq = full
      /\ cmd'.left = max /\ cmd'.cuts = cuts /\ cmd'.asks = <<>> /\ cmd'.made = {}
      /\ cmd' = [op |-> cmd'.op, target |-> cmd'.target, asks |-> cmd'.asks,
                 made |-> cmd'.made, mode |-> cmd'.mode, seq |-> cmd'.seq,
                 left |-> cmd'.left, cuts |-> cmd'.cuts]
  BY DEF Riding, NoCmd
<1>2. max \in Nat /\ max > 0 /\ max \in 0..MaxRide /\ <<>> \in Seq(Ask)
  BY BoundsAssumption, Empty
<1>3. reply' = NoReply /\ reply' \in Reply
  BY NoReplyIs DEF Idle
<1>4. Branching'
  BY <1>1 DEF Branching
<1> QED BY <1>1, <1>2, <1>3, <1>4 DEF CommandInv

\* A ride over a snapshot holds the cells of its whole prompt.
LEMMA RideSnapshotKeepsInv ==
    ASSUME WInv, NEW id \in Ids, NEW full \in Prompts, NEW max \in 1..MaxRide,
           RideSnapshot(id, full, max)
    PROVE  WInv'
<1> DEFINE s == snaps[id]
           low == FreshLow(s, full)
           up == FreshUp(s, full)
           cuts == Append(s.cuts, Len(full) - Len(s.tokens))
<1>1. /\ SnapshotsInv /\ ContextsInv /\ CommandInv /\ ReadoutsAreExact
      /\ Idle /\ BranchError(snaps, id, full, None) = "none" /\ Len(full) + max <= Context
      /\ lower' = BranchLower(id, full) /\ upper' = BranchUpper(id, full)
      /\ resident' = id /\ residentUpper' = TRUE
      /\ Riding("snapshot", id, full, max, cuts)
      /\ readout' = Reading(full, cuts, BranchUpper(id, full))
      /\ UNCHANGED snaps /\ UNCHANGED stock /\ UNCHANGED files /\ UNCHANGED reply
  BY DEF WInv, RideSnapshot
<1>2. /\ id \in DOMAIN snaps /\ s.blocks = 30 /\ Shape(s) /\ Exact(s)
      /\ full \in Seq(Tokens) /\ Len(full) \in Nat /\ Len(full) <= Context
      /\ Extends(full, s.tokens)
  BY <1>1, BranchFits
<1>3. ~RidesSnapshot
  BY <1>1, IdleIs
<1>4. lower' = low /\ upper' = up
  BY <1>1, <1>2, <1>3, BranchFromBlobs
<1>5. /\ IsSeq(low) /\ Len(low) = Len(full) /\ IsSeq(up) /\ Len(up) = Len(full)
      /\ Upto(low, Len(s.tokens)) = s.lower /\ Upto(up, Len(s.tokens)) = s.upper
      /\ cuts \in Seq(Nat)
      /\ low = CellsOf(full, cuts) /\ up = SplitCells(full, cuts)
  BY <1>2, BranchIs
<1>6. readout' = Reading(full, cuts, up)
  BY <1>1, <1>4
<1> HIDE DEF low, up, cuts
<1>7. /\ cmd'.op = "ride" /\ cmd'.mode = "snapshot" /\ cmd'.target = id /\ cmd'.seq = full
      /\ cmd'.left = max /\ cmd'.cuts = cuts /\ max \in Nat /\ max > 0
      /\ RideHolds' => CommandInv'
  BY <1>1, Rides DEF Modes
<1>8. SnapshotsInv'
  BY <1>1, SnapshotsIs
<1>9. ContextsInv'
  <2>1. IsSeq(stock') /\ Len(stock') <= Context
    BY <1>1, StockIs
  <2>2. IsSeq(lower') /\ IsSeq(upper') /\ ContextsFit'
    BY <1>2, <1>4, <1>5, <2>1 DEF ContextsFit
  <2>3. Holds(snaps[resident])'
    BY <1>1, <1>4, <1>5, <1>7 DEF Holds, RidesSnapshot
  <2> QED BY <1>1, <1>2, <2>1, <2>2, <2>3 DEF ContextsInv
<1>10. RideHolds'
  <2>1. full # <<>> /\ Len(s.tokens) <= Len(full)
    <3>1. Len(full) > 0 /\ Len(s.tokens) \in Nat
      BY <1>2, PromptIs, ShapeIs
    <3> QED BY <1>2, <3>1, Empty DEF Extends
  <2>2. cmd'.mode \in Modes
    BY <1>7 DEF Modes
  <2> QED BY <1>1, <1>2, <1>4, <1>5, <1>6, <1>7, <2>1, <2>2 DEF RideHolds
<1>11. ReadoutsAreExact'
  BY <1>5, <1>6, ReadOut
<1> QED BY <1>7, <1>8, <1>9, <1>10, <1>11 DEF WInv

\* A split prefill takes over the contexts: nothing is resident.
LEMMA RideSplitKeepsInv ==
    ASSUME WInv, NEW full \in Prompts, NEW break \in 0..Context, NEW max \in 1..MaxRide,
           RideSplit(full, break, max)
    PROVE  WInv'
<1> DEFINE pieces == Pieces(full, break)
           low == PrefillFrom(full, pieces)
           up == PrefillFrom(RowsAfter(low, 0), pieces)
<1>1. /\ SnapshotsInv /\ ContextsInv /\ CommandInv /\ ReadoutsAreExact
      /\ Idle /\ Len(full) + max <= Context /\ break < Len(full)
      /\ lower' = low /\ upper' = up
      /\ resident' = None /\ residentUpper' = FALSE
      /\ Riding("split_prefill", None, full, max, pieces)
      /\ readout' = Reading(full, pieces, up)
      /\ UNCHANGED snaps /\ UNCHANGED stock /\ UNCHANGED files /\ UNCHANGED reply
  BY DEF WInv, RideSplit
<1>2. full \in Seq(Tokens) /\ IsSeq(full) /\ Len(full) \in Nat /\ Len(full) > 0 /\ full # <<>>
  BY PromptIs, Empty
<1>3. /\ pieces \in Seq(Nat)
      /\ IsSeq(low) /\ Len(low) = Len(full) /\ low = CellsOf(full, pieces)
      /\ IsSeq(up) /\ Len(up) = Len(full) /\ up = SplitCells(full, pieces)
  <2>1. break \in Nat
    BY ContextIs
  <2> QED BY <1>1, <1>2, <2>1, Prefilled
<1> HIDE DEF pieces, low, up
<1>4. /\ cmd'.op = "ride" /\ cmd'.mode = "split_prefill" /\ cmd'.target = None
      /\ cmd'.seq = full
      /\ cmd'.left = max /\ cmd'.cuts = pieces /\ max \in Nat /\ max > 0
      /\ RideHolds' => CommandInv'
  BY <1>1, Rides DEF Modes
<1>5. SnapshotsInv'
  BY <1>1, SnapshotsIs
<1>6. ContextsInv'
  <2>1. IsSeq(stock') /\ Len(stock') <= Context
    BY <1>1, StockIs
  <2>2. IsSeq(lower') /\ IsSeq(upper') /\ ContextsFit'
    BY <1>1, <1>2, <1>3, <1>4, <2>1, ContextIs DEF ContextsFit
  <2> QED BY <1>1, <2>1, <2>2 DEF ContextsInv
<1>7. RideHolds'
  <2>1. cmd'.mode \in Modes
    BY <1>4 DEF Modes
  <2> QED BY <1>1, <1>2, <1>3, <1>4, <2>1 DEF RideHolds
<1>8. ReadoutsAreExact'
  BY <1>1, <1>3, ReadOut
<1> QED BY <1>4, <1>5, <1>6, <1>7, <1>8 DEF WInv

\* A reference ride has a context of its own.
LEMMA RideReferenceKeepsInv ==
    ASSUME WInv, NEW full \in Prompts, NEW break \in 0..Context, NEW max \in 1..MaxRide,
           RideReference(full, break, max)
    PROVE  WInv'
<1> DEFINE pieces == Pieces(full, break)
           low == PrefillFrom(full, pieces)
<1>1. /\ SnapshotsInv /\ ContextsInv /\ CommandInv /\ ReadoutsAreExact
      /\ Idle /\ Len(full) + max <= Context /\ break < Len(full)
      /\ stock' = low
      /\ Riding("reference", None, full, max, pieces)
      /\ readout' = Reading(full, pieces, low)
      /\ UNCHANGED snaps /\ UNCHANGED contexts /\ UNCHANGED files /\ UNCHANGED reply
  BY DEF WInv, RideReference
<1>2. full \in Seq(Tokens) /\ IsSeq(full) /\ Len(full) \in Nat /\ Len(full) > 0 /\ full # <<>>
  BY PromptIs, Empty
<1>3. /\ pieces \in Seq(Nat)
      /\ IsSeq(low) /\ Len(low) = Len(full) /\ low = CellsOf(full, pieces)
  <2>1. break \in Nat
    BY ContextIs
  <2> QED BY <1>1, <1>2, <2>1, Prefilled
<1> HIDE DEF pieces, low
<1>4. /\ cmd'.op = "ride" /\ cmd'.mode = "reference" /\ cmd'.target = None
      /\ cmd'.seq = full
      /\ cmd'.left = max /\ cmd'.cuts = pieces /\ max \in Nat /\ max > 0
      /\ RideHolds' => CommandInv'
  BY <1>1, Rides DEF Modes
<1>5. SnapshotsInv'
  BY <1>1, SnapshotsIs
<1>6. ContextsInv'
  <2>1. IsSeq(stock') /\ Len(stock') <= Context
    BY <1>1, <1>2, <1>3, <1>4, ContextIs
  <2>2. ~RidesSnapshot
    BY <1>1, IdleIs
  <2>3. resident # None => resident \in DOMAIN snaps' /\ snaps'[resident] = snaps[resident]
    BY <1>1 DEF ContextsInv
  <2> QED BY <1>1, <2>1, <2>2, <2>3, KeptContexts
<1>7. RideHolds'
  <2>1. cmd'.mode \in Modes
    BY <1>4 DEF Modes
  <2> QED BY <1>1, <1>2, <1>3, <1>4, <2>1 DEF RideHolds
<1>8. ReadoutsAreExact'
  BY <1>1, <1>3, ReadOut
<1> QED BY <1>4, <1>5, <1>6, <1>7, <1>8 DEF WInv

\* A refused break may have cleared the contexts.
LEMMA BreakRefusedKeepsInv ==
    ASSUME WInv, NEW mode, NEW full, NEW break, RideBreakRefused(mode, full, break)
    PROVE  WInv'
<1>1. /\ SnapshotsInv /\ ContextsInv /\ CommandInv /\ ReadoutsAreExact
      /\ Idle /\ (Clear \/ UNCHANGED contexts)
      /\ Replies("invalid_request", {})
      /\ UNCHANGED snaps /\ UNCHANGED stock /\ UNCHANGED files /\ UNCHANGED readout
  BY DEF WInv, RideBreakRefused
<1>2. CommandInv'
  BY <1>1, RepliesWell
<1>3. SnapshotsInv'
  BY <1>1, SnapshotsIs
<1>4. ContextsInv'
  <2>1. IsSeq(stock') /\ Len(stock') <= Context
    BY <1>1, StockIs
  <2>2. CASE Clear
    BY <2>1, <2>2, ClearedContexts
  <2>3. CASE UNCHANGED contexts
    <3>1. ~RidesSnapshot
      BY <1>1, IdleIs
    <3>2. resident # None => resident \in DOMAIN snaps' /\ snaps'[resident] = snaps[resident]
      BY <1>1 DEF ContextsInv
    <3> QED BY <1>1, <2>1, <2>3, <3>1, <3>2, KeptContexts
  <2> QED BY <1>1, <2>2, <2>3
<1> QED BY <1>1, <1>2, <1>3, <1>4, ReadKept DEF WInv

\* One more token, in the contexts of the ride's mode.
LEMMA RideTokenKeepsInv ==
    ASSUME WInv, NEW token \in Tokens, RideToken(token)
    PROVE  WInv'
<1> DEFINE t == cmd.seq
           more == <<token>>
           cuts == Append(cmd.cuts, 1)
           low == Decode(lower, more)
           up == Decode(upper, RowsAfter(low, Len(lower)))
           st == Decode(stock, more)
<1>1. /\ SnapshotsInv /\ ContextsInv /\ CommandInv /\ ReadoutsAreExact
      /\ cmd.op = "ride" /\ cmd.left > 1
      /\ cmd' = [cmd EXCEPT !.seq = Append(t, token), !.left = @ - 1, !.cuts = cuts]
      /\ cmd.mode = "reference" => stock' = st /\ UNCHANGED <<lower, upper>>
      /\ cmd.mode # "reference" => lower' = low /\ upper' = up /\ UNCHANGED stock
      /\ readout' = Reading(cmd'.seq, cmd'.cuts,
                            IF cmd.mode = "reference" THEN stock' ELSE upper')
      /\ UNCHANGED snaps /\ UNCHANGED resident /\ UNCHANGED residentUpper
      /\ UNCHANGED files /\ UNCHANGED reply
  BY DEF WInv, RideToken
<1>2. /\ cmd.mode \in Modes /\ cmd.left > 0
      /\ t \in Seq(Tokens) /\ t # <<>> /\ Len(t) + cmd.left <= Context
      /\ cmd.cuts \in Seq(Nat) /\ cmd.left \in 0..MaxRide /\ cmd.left \in Nat /\ Len(t) \in Nat
  BY <1>1, BoundsAssumption, LenProperties DEF CommandInv, RideHolds
<1>3. /\ Append(t, token) = t \o more /\ Append(t, token) \in Seq(Tokens)
      /\ IsSeq(more) /\ Len(more) = 1 /\ IsSeq(t)
  BY <1>2, FromTokens, SeqIs
<1>4. cuts \in Seq(Nat) /\ cuts = Append(cmd.cuts, Len(more))
  BY <1>2, <1>3, AppendProperties
<1>5. t \o more # <<>> /\ Len(t \o more) = Len(t) + 1
  BY <1>2, <1>3, Joined, Empty
<1>6. /\ cmd'.op = "ride" /\ cmd'.seq = t \o more /\ cmd'.left = cmd.left - 1 /\ cmd'.cuts = cuts
      /\ cmd'.mode = cmd.mode /\ cmd'.target = cmd.target /\ cmd'.made = cmd.made
      /\ cmd'.asks = cmd.asks
      /\ cmd' = [op |-> cmd'.op, target |-> cmd'.target, asks |-> cmd'.asks,
                 made |-> cmd'.made, mode |-> cmd'.mode, seq |-> cmd'.seq,
                 left |-> cmd'.left, cuts |-> cmd'.cuts]
  <2>1. cmd = [op |-> cmd.op, target |-> cmd.target, asks |-> cmd.asks, made |-> cmd.made,
               mode |-> cmd.mode, seq |-> cmd.seq, left |-> cmd.left, cuts |-> cmd.cuts]
    BY <1>1 DEF CommandInv
  <2> HIDE DEF cuts
  <2>2. cmd' = [op |-> "ride", target |-> cmd.target, asks |-> cmd.asks, made |-> cmd.made,
                mode |-> cmd.mode, seq |-> Append(t, token), left |-> cmd.left - 1, cuts |-> cuts]
    BY <1>1, <2>1
  <2> HIDE DEF t, more
  <2> QED BY <1>3, <2>2
<1>7. RideHolds' => CommandInv'
  <2>1. Branching'
    BY <1>6 DEF Branching
  <2>2. reply' \in Reply /\ ~(reply' # NoReply \/ cmd'.op = "none")
    BY <1>1, <1>6, NoCmdIs DEF CommandInv
  <2>3. /\ cmd'.target \in Ids \cup {None} /\ cmd'.made \subseteq Ids
        /\ cmd'.asks \in Seq(Ask) /\ cmd'.mode \in Modes \cup {"none"}
    BY <1>1, <1>6 DEF CommandInv
  <2>4. cmd'.left \in 0..MaxRide
    BY <1>1, <1>2, <1>6, BoundsAssumption
  <2> QED BY <1>6, <2>1, <2>2, <2>3, <2>4 DEF CommandInv
<1>8. SnapshotsInv'
  BY <1>1, SnapshotsIs
<1>9. CASE cmd.mode = "reference"
  <2>1. /\ stock = CellsOf(t, cmd.cuts) /\ Len(stock) = Len(t) /\ IsSeq(stock)
        /\ stock' = st /\ lower' = lower /\ upper' = upper
    BY <1>1, <1>9 DEF CommandInv, RideHolds, ContextsInv
  <2>2. IsSeq(st) /\ Len(st) = Len(stock) + Len(more)
    BY <1>3, <2>1, Decoded
  <2>3. st = CellsOf(t \o more, cuts)
    <3>1. CellsOf(t \o more, Append(cmd.cuts, Len(more))) = Decode(CellsOf(t, cmd.cuts), more)
      BY <1>2, <1>3, <2>1, CellsOfMore
    <3> HIDE DEF cuts, t, more
    <3> QED BY <1>4, <2>1, <3>1
  <2> HIDE DEF st, t, more, cuts
  <2>4. readout' = Reading(t \o more, cuts, st)
    BY <1>1, <1>6, <1>9, <2>1
  <2>5. ReadoutsAreExact'
    BY <2>3, <2>4, ReadOut
  <2>6. ContextsInv'
    <3>1. IsSeq(stock') /\ Len(stock') <= Context
      BY <1>2, <1>3, <2>1, <2>2, ContextIs
    <3>2. UNCHANGED contexts /\ ~RidesSnapshot
      BY <1>1, <1>9, <2>1 DEF contexts, RidesSnapshot
    <3>3. resident # None => resident \in DOMAIN snaps' /\ snaps'[resident] = snaps[resident]
      BY <1>1 DEF ContextsInv
    <3> QED BY <1>1, <3>1, <3>2, <3>3, KeptContexts
  <2>7. RideHolds'
    <3>1. Len(t \o more) + cmd'.left <= Context /\ cmd'.left > 0
      BY <1>1, <1>2, <1>5, <1>6, ContextIs
    <3>2. stock' = CellsOf(t \o more, cuts) /\ Len(stock') = Len(t \o more)
      BY <1>3, <1>5, <2>1, <2>2, <2>3
    <3> QED BY <1>2, <1>3, <1>4, <1>5, <1>6, <1>9, <2>1, <2>4, <3>1, <3>2 DEF RideHolds
  <2> QED BY <1>7, <1>8, <2>5, <2>6, <2>7 DEF WInv
<1>10. CASE cmd.mode # "reference"
  <2>1. /\ lower = CellsOf(t, cmd.cuts) /\ Len(lower) = Len(t) /\ IsSeq(lower)
        /\ upper = SplitCells(t, cmd.cuts) /\ Len(upper) = Len(t) /\ IsSeq(upper)
        /\ lower' = low /\ upper' = up /\ stock' = stock
    BY <1>1, <1>10 DEF CommandInv, RideHolds, ContextsInv
  <2>2. Ran(t, cmd.cuts, lower, upper)
    BY <1>2, <1>3, <2>1 DEF Ran
  <2>3. RunsOn(t, more, cmd.cuts, lower, upper)
    BY <1>3, <2>2, Onward
  <2>4. /\ IsSeq(low) /\ Len(low) = Len(t) + Len(more)
        /\ IsSeq(up) /\ Len(up) = Len(t) + Len(more)
        /\ \A n \in 0..Len(t) : Upto(low, n) = Upto(lower, n) /\ Upto(up, n) = Upto(upper, n)
        /\ low = CellsOf(t \o more, cuts) /\ up = SplitCells(t \o more, cuts)
    <3>1. Len(lower) = Len(t)
      BY <2>1
    <3> HIDE DEF t, more, cuts
    <3> QED BY <1>4, <2>3, <3>1 DEF RunsOn
  <2> HIDE DEF low, up, t, more, cuts
  <2>5. readout' = Reading(t \o more, cuts, up)
    BY <1>1, <1>6, <1>10, <2>1
  <2>6. ReadoutsAreExact'
    BY <2>4, <2>5, ReadOut
  <2>7. Len(low) = Len(t \o more) /\ Len(up) = Len(t \o more) /\ Len(low) <= Context
    BY <1>1, <1>2, <1>3, <1>5, <2>4, ContextIs
  <2>8. RideHolds'
    <3>1. Len(t \o more) + cmd'.left <= Context /\ cmd'.left > 0
      BY <1>1, <1>2, <1>5, <1>6, ContextIs
    <3>2. cmd.mode = "snapshot" =>
              /\ cmd.target \in DOMAIN snaps' /\ resident' = cmd.target /\ residentUpper'
              /\ snaps'[cmd.target].blocks = 30
              /\ Len(snaps'[cmd.target].tokens) <= Len(t)
      BY <1>1 DEF CommandInv, RideHolds, t
    <3>3. cmd.mode = "snapshot" => Len(snaps'[cmd.target].tokens) <= Len(t \o more)
      <4> SUFFICES ASSUME cmd.mode = "snapshot"
                   PROVE  Len(snaps'[cmd.target].tokens) <= Len(t \o more)
        OBVIOUS
      <4>1. Len(snaps[cmd.target].tokens) \in Nat
        <5>1. Shape(snaps[cmd.target])
          BY <1>1, <3>2 DEF SnapshotsInv
        <5> QED BY <5>1, ShapeIs
      <4> QED BY <1>1, <1>2, <1>5, <3>2, <4>1
    <3>4. cmd.mode = "split_prefill" => resident' = None
      BY <1>1 DEF CommandInv, RideHolds
    <3> QED BY <1>2, <1>3, <1>4, <1>5, <1>6, <1>10, <2>1, <2>4, <2>5, <2>7, <3>1, <3>2, <3>3, <3>4
            DEF RideHolds
  <2>9. ContextsInv'
    <3>1. IsSeq(stock') /\ Len(stock') <= Context
      BY <1>1, <2>1, StockIs
    <3>2. IsSeq(lower') /\ IsSeq(upper') /\ ContextsFit'
      BY <2>1, <2>4, <2>7, <3>1 DEF ContextsFit
    <3>3. resident' \in Ids \cup {None} /\ residentUpper' \in BOOLEAN
      BY <1>1 DEF ContextsInv
    <3>4. ASSUME resident' # None
          PROVE  resident' \in DOMAIN snaps' /\ Holds(snaps[resident])'
      <4> DEFINE s == snaps[resident]
      <4>1. cmd.mode = "snapshot"
        BY <1>1, <1>2, <1>10, <3>4 DEF CommandInv, RideHolds, Modes
      <4>2. /\ resident \in DOMAIN snaps /\ Len(s.tokens) <= Len(t) /\ Holds(s)
        BY <1>1, <3>4, <4>1 DEF CommandInv, RideHolds, ContextsInv, t
      <4>3. Len(s.tokens) \in Nat
        <5>1. Shape(s)
          BY <1>1, <4>2 DEF SnapshotsInv
        <5> QED BY <5>1, ShapeIs
      <4>4. Len(s.tokens) \in 0..Len(t)
        BY <1>2, <4>2, <4>3
      <4>5. /\ Upto(low, Len(s.tokens)) = Upto(lower, Len(s.tokens))
            /\ Upto(up, Len(s.tokens)) = Upto(upper, Len(s.tokens))
        BY <2>4, <4>4
      <4>6. RidesSnapshot'
        BY <1>6, <4>1 DEF RidesSnapshot
      <4>7. /\ Upto(low, Len(s.tokens)) = s.lower
            /\ residentUpper => Upto(up, Len(s.tokens)) = s.upper
        BY <4>2, <4>5 DEF Holds
      <4> HIDE DEF s
      <4>8. resident' \in DOMAIN snaps' /\ snaps'[resident'] = s /\ residentUpper' = residentUpper
        BY <1>1, <4>2 DEF s
      <4> QED BY <2>1, <4>6, <4>7, <4>8 DEF Holds
    <3> QED BY <3>1, <3>2, <3>3, <3>4 DEF ContextsInv
  <2> QED BY <1>7, <1>8, <2>6, <2>8, <2>9 DEF WInv
<1> QED BY <1>9, <1>10

\* The parent stays resident, trimmed to its own cells, after a ride over it.
LEMMA RideEndsKeepsInv ==
    ASSUME WInv, RideEnds
    PROVE  WInv'
<1>1. /\ SnapshotsInv /\ ContextsInv /\ CommandInv /\ ReadoutsAreExact
      /\ cmd.op = "ride"
      /\ cmd.mode = "snapshot" => TrimTo(cmd.target, lower, upper) /\ UNCHANGED stock
      /\ cmd.mode = "split_prefill" => Clear /\ UNCHANGED stock
      /\ cmd.mode = "reference" => stock' = <<>> /\ UNCHANGED contexts
      /\ Replies("ok", {})
      /\ UNCHANGED snaps /\ UNCHANGED files /\ UNCHANGED readout
  BY DEF WInv, RideEnds
<1>2. CommandInv' /\ cmd' = NoCmd
  BY <1>1, RepliesWell
<1>3. SnapshotsInv'
  BY <1>1, SnapshotsIs
<1>4. cmd.mode \in {"snapshot", "split_prefill", "reference"}
  BY <1>1 DEF CommandInv, RideHolds, Modes
<1>5. CASE cmd.mode = "snapshot"
  <2> DEFINE s == snaps[cmd.target]
  <2>1. /\ cmd.target \in DOMAIN snaps /\ resident = cmd.target /\ residentUpper
        /\ s.blocks = 30
    BY <1>1, <1>5 DEF CommandInv, RideHolds
  <2>2. cmd.target \in Ids /\ Shape(s)
    BY <1>1, <2>1 DEF SnapshotsInv
  <2>3. Holds(s)
    BY <1>1, <2>1, <2>2, NoneAssumption DEF ContextsInv
  <2>4. /\ lower' = s.lower /\ upper' = s.upper /\ resident' = cmd.target /\ residentUpper' = TRUE
        /\ snaps'[cmd.target] = s /\ cmd.target \in DOMAIN snaps'
    BY <1>1, <1>5, <2>1, <2>3 DEF Holds, TrimTo
  <2>5. IsSeq(s.upper) /\ Len(s.upper) <= Context
    BY <2>2, ShapeIs
  <2>6. IsSeq(stock') /\ Len(stock') <= Context
    BY <1>1, <1>5, StockIs
  <2> HIDE DEF s
  <2>7. ContextsInv'
    BY <2>1, <2>2, <2>4, <2>5, <2>6, LoadedContexts
  <2> QED BY <1>1, <1>2, <1>3, <2>7, ReadKept DEF WInv
<1>6. CASE cmd.mode = "split_prefill"
  <2>1. ContextsInv'
    BY <1>1, <1>6, StockIs, ClearedContexts
  <2> QED BY <1>1, <1>2, <1>3, <2>1, ReadKept DEF WInv
<1>7. CASE cmd.mode = "reference"
  <2>1. IsSeq(stock') /\ Len(stock') <= Context
    BY <1>1, <1>7, Empty, ContextIs
  <2>2. ~RidesSnapshot
    BY <1>7 DEF RidesSnapshot
  <2>3. resident # None => resident \in DOMAIN snaps' /\ snaps'[resident] = snaps[resident]
    BY <1>1 DEF ContextsInv
  <2>4. ContextsInv'
    BY <1>1, <1>7, <2>1, <2>2, <2>3, KeptContexts
  <2> QED BY <1>1, <1>2, <1>3, <2>4, ReadKept DEF WInv
<1> QED BY <1>4, <1>5, <1>6, <1>7

\* A ride that fails clears every context.
LEMMA RideFailsKeepsInv ==
    ASSUME WInv, RideFails
    PROVE  WInv'
<1>1. /\ SnapshotsInv /\ ContextsInv /\ CommandInv /\ ReadoutsAreExact
      /\ Clear /\ stock' = <<>> /\ Fails
      /\ UNCHANGED snaps /\ UNCHANGED files /\ UNCHANGED readout
  BY DEF WInv, RideFails
<1>2. SnapshotsInv'
  BY <1>1, SnapshotsIs
<1>3. IsSeq(stock') /\ Len(stock') <= Context
  BY <1>1, Empty, ContextIs
<1>4. ContextsInv'
  BY <1>1, <1>3, ClearedContexts
<1> QED BY <1>1, <1>2, <1>4, FailsWell, ReadKept DEF WInv

\* A refused decode leaves the reference context with the tokens it took.
LEMMA ReferenceKeepsInv ==
    ASSUME WInv, NEW full \in Prompts, Reference(full)
    PROVE  WInv'
<1> DEFINE n == Least(Batch, Len(full))
<1>1. /\ SnapshotsInv /\ ContextsInv /\ CommandInv /\ ReadoutsAreExact
      /\ Idle /\ Len(full) <= Context
      /\ \/ /\ stock' = <<>>
            /\ readout' = Reading(full, <<Len(full)>>, Decode(<<>>, full))
            /\ Replies("ok", {})
         \/ /\ stock' = Decode(<<>>, Upto(full, n))
            /\ UNCHANGED readout
            /\ Replies("execution_error", {})
      /\ UNCHANGED snaps /\ UNCHANGED contexts /\ UNCHANGED files
  BY DEF WInv, Reference
<1>2. IsSeq(full) /\ Len(full) \in Nat /\ n \in Nat /\ n <= Len(full)
  BY PromptIs, BatchAssumption DEF Least
<1>3. CommandInv'
  BY <1>1, RepliesWell
<1>4. SnapshotsInv'
  BY <1>1, SnapshotsIs
<1>5. IsSeq(stock') /\ Len(stock') <= Context
  <2>1. CASE stock' = <<>>
    BY <2>1, Empty, ContextIs
  <2>2. CASE stock' = Decode(<<>>, Upto(full, n))
    <3> HIDE DEF n
    <3>1. IsSeq(Upto(full, n)) /\ Len(Upto(full, n)) = n
      BY <1>2, UptoFacts
    <3>2. IsSeq(stock') /\ Len(stock') = Len(<<>>) + Len(Upto(full, n))
      BY <2>2, <3>1, Empty, Decoded
    <3> QED BY <1>1, <1>2, <3>1, <3>2, Empty, ContextIs
  <2> QED BY <1>1, <2>1, <2>2
<1>6. ContextsInv'
  <2>1. ~RidesSnapshot
    BY <1>1, IdleIs
  <2>2. resident # None => resident \in DOMAIN snaps' /\ snaps'[resident] = snaps[resident]
    BY <1>1 DEF ContextsInv
  <2> QED BY <1>1, <1>5, <2>1, <2>2, KeptContexts
<1>7. ReadoutsAreExact'
  <2>1. CASE readout' = Reading(full, <<Len(full)>>, Decode(<<>>, full))
    BY <1>2, <2>1, CellsOfWhole, ReadOut
  <2>2. CASE UNCHANGED readout
    BY <1>1, <2>2, ReadKept
  <2> QED BY <1>1, <2>1, <2>2
<1> QED BY <1>3, <1>4, <1>6, <1>7 DEF WInv

\* The contexts forget what is dropped.
LEMMA DropKeepsInv ==
    ASSUME WInv, NEW id \in Ids, Drop(id)
    PROVE  WInv'
<1>1. /\ SnapshotsInv /\ ContextsInv /\ CommandInv /\ ReadoutsAreExact
      /\ Idle /\ id \in DOMAIN snaps
      /\ resident = id => Clear
      /\ resident # id => UNCHANGED contexts
      /\ snaps' = [x \in DOMAIN snaps \ {id} |-> snaps[x]]
      /\ Replies("ok", {})
      /\ UNCHANGED stock /\ UNCHANGED files /\ UNCHANGED readout
  BY DEF WInv, Drop
<1>2. CommandInv'
  BY <1>1, RepliesWell
<1>3. DOMAIN snaps' = DOMAIN snaps \ {id} /\ \A x \in DOMAIN snaps' : snaps'[x] = snaps[x]
  BY <1>1
<1>4. SnapshotsInv'
  <2>1. Good(snaps) /\ GoodFiles(files)
    BY <1>1, SnapshotsIs
  <2>2. Good(snaps')
    BY <1>3, <2>1 DEF Good
  <2> QED BY <1>1, <2>1, <2>2, SnapshotsIs
<1>5. ContextsInv'
  <2>1. IsSeq(stock') /\ Len(stock') <= Context
    BY <1>1, StockIs
  <2>2. CASE resident = id
    BY <1>1, <2>1, <2>2, ClearedContexts
  <2>3. CASE resident # id
    <3>1. ~RidesSnapshot
      BY <1>1, IdleIs
    <3>2. resident # None => resident \in DOMAIN snaps' /\ snaps'[resident] = snaps[resident]
      BY <1>1, <1>3, <2>3 DEF ContextsInv
    <3> QED BY <1>1, <2>1, <2>3, <3>1, <3>2, KeptContexts
  <2> QED BY <2>2, <2>3
<1> QED BY <1>1, <1>2, <1>4, <1>5, ReadKept DEF WInv

\* A file is the snapshot it was saved from.
LEMMA SaveKeepsInv ==
    ASSUME WInv, NEW id \in Ids, Save(id)
    PROVE  WInv'
<1>1. /\ SnapshotsInv /\ ContextsInv /\ CommandInv /\ ReadoutsAreExact
      /\ Idle /\ id \in DOMAIN snaps
      /\ files' = files \cup {[snap |-> snaps[id], batch |-> Batch]} \/ UNCHANGED files
      /\ Replies("ok", {}) \/ Replies("invalid_request", {})
      /\ UNCHANGED snaps /\ UNCHANGED contexts /\ UNCHANGED stock /\ UNCHANGED readout
  BY DEF WInv, Save
<1>2. CommandInv'
  BY <1>1, RepliesWell
<1>3. SnapshotsInv'
  <2>1. Good(snaps) /\ GoodFiles(files)
    BY <1>1, SnapshotsIs
  <2>2. GoodFiles(files')
    BY <1>1, <2>1 DEF Good, GoodFiles
  <2> QED BY <1>1, <2>1, <2>2, SnapshotsIs
<1>4. ContextsInv'
  <2>1. IsSeq(stock') /\ Len(stock') <= Context
    BY <1>1, StockIs
  <2>2. ~RidesSnapshot
    BY <1>1, IdleIs
  <2>3. resident # None => resident \in DOMAIN snaps' /\ snaps'[resident] = snaps[resident]
    BY <1>1 DEF ContextsInv
  <2> QED BY <1>1, <2>1, <2>2, <2>3, KeptContexts
<1> QED BY <1>1, <1>2, <1>3, <1>4, ReadKept DEF WInv

\* A file of this configuration is a snapshot again.
LEMMA Reopened ==
    ASSUME NEW s, Shape(s), Exact(s)
    PROVE  Shape([s EXCEPT !.owned = TRUE]) /\ Exact([s EXCEPT !.owned = TRUE])
<1> DEFINE r == [s EXCEPT !.owned = TRUE]
<1>1. s = [blocks |-> s.blocks, kind |-> s.kind, parent |-> s.parent, tokens |-> s.tokens,
           lower |-> s.lower, upper |-> s.upper, h18 |-> s.h18, owned |-> s.owned,
           cuts |-> s.cuts]
  BY DEF Shape
<1>2. r = [blocks |-> s.blocks, kind |-> s.kind, parent |-> s.parent, tokens |-> s.tokens,
           lower |-> s.lower, upper |-> s.upper, h18 |-> s.h18, owned |-> TRUE,
           cuts |-> s.cuts]
  <2>1. r = [s EXCEPT !.owned = TRUE]
    OBVIOUS
  <2> HIDE DEF r
  <2> QED BY <1>1, <2>1
<1> HIDE DEF r
<1>3. Shape(r)
  BY <1>2 DEF Shape
<1>4. Exact(r)
  BY <1>2 DEF Exact
<1> QED BY <1>3, <1>4 DEF r

\* load: only of one's own configuration.
LEMMA LoadKeepsInv ==
    ASSUME WInv, NEW id \in Ids, NEW file \in files, Load(id, file)
    PROVE  WInv'
<1> DEFINE s == [file.snap EXCEPT !.owned = TRUE]
<1>1. /\ SnapshotsInv /\ ContextsInv /\ CommandInv /\ ReadoutsAreExact
      /\ Idle /\ id \notin DOMAIN snaps
      /\ \/ file.batch = Batch /\ snaps' = With(snaps, id, s)
         \/ UNCHANGED snaps
      /\ Replies("ok", {id}) \/ Replies("integrity_error", {})
      /\ UNCHANGED files /\ UNCHANGED contexts /\ UNCHANGED stock /\ UNCHANGED readout
  BY DEF WInv, Load, Loadable
<1>2. CommandInv'
  BY <1>1, RepliesWell
<1>3. Good(snaps) /\ GoodFiles(files)
  BY <1>1, SnapshotsIs
<1>4. file.batch = Batch => Shape(s) /\ Exact(s)
  BY <1>3, Reopened DEF GoodFiles
<1> HIDE DEF s
<1>5. SnapshotsInv'
  <2>1. file.batch = Batch => Good(With(snaps, id, s))
    BY <1>3, <1>4, GoodWith
  <2> QED BY <1>1, <1>3, <2>1, SnapshotsIs
<1>6. \A x \in DOMAIN snaps : x \in DOMAIN snaps' /\ snaps'[x] = snaps[x]
  BY <1>1 DEF With
<1>7. ContextsInv'
  <2>1. IsSeq(stock') /\ Len(stock') <= Context
    BY <1>1, StockIs
  <2>2. ~RidesSnapshot
    BY <1>1, IdleIs
  <2>3. resident # None => resident \in DOMAIN snaps' /\ snaps'[resident] = snaps[resident]
    BY <1>1, <1>6 DEF ContextsInv
  <2> QED BY <1>1, <2>1, <2>2, <2>3, KeptContexts
<1> QED BY <1>1, <1>2, <1>5, <1>7, ReadKept DEF WInv

\* Every refusal is one of the codes.
LEMMA BranchErrors ==
    ASSUME NEW f, NEW id, NEW full, NEW save
    PROVE  BranchError(f, id, full, save) \in
              {"none", "ok", "execution_error", "invalid_request", "integrity_error",
               "snapshot_not_found", "snapshot_exists", "capability_unavailable",
               "followup_unsupported", "snapshot_prefix_mismatch"}
  BY DEF BranchError

\* A refusal changes nothing.
LEMMA RefusedKeepsInv ==
    ASSUME WInv, Refused
    PROVE  WInv'
<1>1. PICK id \in Ids, q \in Ask : Replies(BranchError(snaps, id, q.full, q.save), {})
  BY DEF Refused
<1>2. /\ SnapshotsInv /\ ContextsInv /\ CommandInv /\ ReadoutsAreExact /\ Idle
      /\ UNCHANGED snaps /\ UNCHANGED files /\ UNCHANGED contexts /\ UNCHANGED stock
      /\ UNCHANGED readout
  BY DEF WInv, Refused
<1>3. CommandInv'
  BY <1>1, BranchErrors, RepliesWell
<1>4. SnapshotsInv'
  BY <1>2, SnapshotsIs
<1>5. ContextsInv'
  <2>1. IsSeq(stock') /\ Len(stock') <= Context
    BY <1>2, StockIs
  <2>2. ~RidesSnapshot
    BY <1>2, IdleIs
  <2>3. resident # None => resident \in DOMAIN snaps' /\ snaps'[resident] = snaps[resident]
    BY <1>2 DEF ContextsInv
  <2> QED BY <1>2, <2>1, <2>2, <2>3, KeptContexts
<1> QED BY <1>2, <1>3, <1>4, <1>5, ReadKept DEF WInv

\* Only files survive a process.
LEMMA RestartKeepsInv ==
    ASSUME WInv, Restart
    PROVE  WInv'
<1>1. /\ SnapshotsInv
      /\ snaps' = [x \in {} |-> {}] /\ Clear /\ stock' = <<>> /\ readout' = NoReading
      /\ cmd' = NoCmd /\ reply' = NoReply /\ UNCHANGED files
  BY DEF WInv, Restart
<1>2. CommandInv'
  BY <1>1, NoReplyIs, Answered
<1>3. SnapshotsInv'
  <2>1. DOMAIN snaps' = {}
    BY <1>1
  <2>2. Good(snaps')
    BY <2>1 DEF Good
  <2> QED BY <1>1, <2>2, SnapshotsIs
<1>4. IsSeq(stock') /\ Len(stock') <= Context
  BY <1>1, Empty, ContextIs
<1> QED BY <1>1, <1>2, <1>3, <1>4, ClearedContexts, ReadNothing DEF WInv

\* The readout goes with the answer.
LEMMA NextLineKeepsInv ==
    ASSUME WInv, NextLine
    PROVE  WInv'
<1>1. /\ SnapshotsInv /\ ContextsInv /\ CommandInv
      /\ reply # NoReply /\ reply' = NoReply /\ readout' = NoReading
      /\ UNCHANGED snaps /\ UNCHANGED files /\ UNCHANGED contexts /\ UNCHANGED stock
      /\ UNCHANGED cmd
  BY DEF WInv, NextLine
<1>2. cmd = NoCmd
  BY <1>1 DEF CommandInv
<1>3. CommandInv'
  BY <1>1, <1>2, NoReplyIs, Answered
<1>4. SnapshotsInv'
  BY <1>1, SnapshotsIs
<1>5. ContextsInv'
  <2>1. IsSeq(stock') /\ Len(stock') <= Context
    BY <1>1, StockIs
  <2>2. ~RidesSnapshot
    BY <1>2, NoCmdIs DEF RidesSnapshot
  <2>3. resident # None => resident \in DOMAIN snaps' /\ snaps'[resident] = snaps[resident]
    BY <1>1 DEF ContextsInv
  <2> QED BY <1>1, <2>1, <2>2, <2>3, KeptContexts
<1> QED BY <1>1, <1>3, <1>4, <1>5, ReadNothing DEF WInv

----------------------------------------------------------------------------
(* The theorems.                                                           *)

\* A new process, with files of other configurations only.
LEMMA StartHolds ==
    ASSUME Init
    PROVE  WInv
<1>1. /\ DOMAIN snaps = {} /\ files = Foreign
      /\ lower = <<>> /\ upper = <<>> /\ resident = None /\ residentUpper = FALSE
      /\ stock = <<>> /\ cmd = NoCmd /\ readout = NoReading /\ reply = NoReply
  BY DEF Init
<1>2. SnapshotsInv
  BY <1>1, ForeignAssumption DEF SnapshotsInv
<1>3. ContextsInv
  <2>1. IsSeq(<<>>) /\ Len(<<>>) <= Context
    BY Empty, ContextIs
  <2>2. IsSeq(lower) /\ IsSeq(upper) /\ IsSeq(stock) /\ ContextsFit
    BY <1>1, <2>1 DEF ContextsFit
  <2> QED BY <1>1, <2>2 DEF ContextsInv
<1>4. CommandInv
  <2>1. <<>> \in Seq(Ask)
    BY Empty
  <2> QED BY <1>1, <2>1, NoCmdIs, NoReplyIs, BoundsAssumption
          DEF CommandInv, Branching, RideHolds
<1>5. ReadoutsAreExact
  <2>1. readout.tokens = <<>> /\ readout.cuts = <<>> /\ readout.cells = <<>>
    BY <1>1, ReadingIs DEF NoReading
  <2> QED BY <2>1, CellsOfNothing DEF ReadoutsAreExact
<1> QED BY <1>2, <1>3, <1>4, <1>5 DEF WInv

\* Every step keeps the invariant.
LEMMA StepKeepsInv ==
    ASSUME WInv, [Next]_vars
    PROVE  WInv'
<1>1. CASE CreateFrozen
  BY <1>1, FreezeKeepsInv
<1>2. CASE StartBranches
  BY <1>2, StartKeepsInv
<1>3. CASE Ride
  <2>1. PICK full \in Prompts, max \in 1..MaxRide :
            \/ \E id \in Ids : RideSnapshot(id, full, max)
            \/ \E break \in 0..Context :
                  \/ RideSplit(full, break, max)
                  \/ RideReference(full, break, max)
                  \/ \E mode \in Modes \ {"snapshot"} : RideBreakRefused(mode, full, break)
    BY <1>3 DEF Ride
  <2> QED BY <2>1, RideSnapshotKeepsInv, RideSplitKeepsInv, RideReferenceKeepsInv,
             BreakRefusedKeepsInv
<1>4. CASE Refused
  BY <1>4, RefusedKeepsInv
<1>5. ASSUME NEW id \in Ids, NEW new \in Ids, Promote(id, new)
      PROVE  WInv'
  BY <1>5, PromoteKeepsInv
<1>6. ASSUME NEW id \in Ids, Drop(id) \/ Save(id)
      PROVE  WInv'
  BY <1>6, DropKeepsInv, SaveKeepsInv
<1>7. ASSUME NEW id \in Ids, NEW file \in files, Load(id, file)
      PROVE  WInv'
  BY <1>7, LoadKeepsInv
<1>8. ASSUME NEW full \in Prompts, Reference(full)
      PROVE  WInv'
  BY <1>8, ReferenceKeepsInv
<1>9. CASE Runs
  BY <1>9, RunBranchKeepsInv, BranchesEndKeepsInv, RideEndsKeepsInv, NextLineKeepsInv,
     RideTokenKeepsInv DEF Runs
<1>10. CASE InferenceFails
  BY <1>10, InferenceFailsKeepsInv
<1>11. CASE BranchFails
  BY <1>11, BranchFailsKeepsInv
<1>12. CASE ExportFails
  BY <1>12, BranchesEndKeepsInv
<1>13. CASE RideFails
  BY <1>13, RideFailsKeepsInv
<1>14. CASE Restart
  BY <1>14, RestartKeepsInv
<1>15. CASE UNCHANGED vars
  <2>1. /\ snaps' = snaps /\ lower' = lower /\ upper' = upper /\ resident' = resident
        /\ residentUpper' = residentUpper /\ stock' = stock /\ files' = files /\ cmd' = cmd
        /\ readout' = readout /\ reply' = reply
    BY <1>15 DEF vars, contexts
  <2> QED BY <2>1 DEF WInv, SnapshotsInv, ContextsInv, ContextsFit, Holds, RidesSnapshot,
                      CommandInv, Branching, RideHolds, ReadoutsAreExact
<1> QED BY <1>1, <1>2, <1>3, <1>4, <1>5, <1>6, <1>7, <1>8, <1>9, <1>10, <1>11, <1>12, <1>13,
           <1>14, <1>15 DEF Next, Takes

\* The invariant of the snapshot worker, of any vocabulary, any prompts, any
\* decode size and any files other configurations left.
THEOREM SnapshotWorkerInvariantHolds == Spec => []WInv
<1>1. Init => WInv
  BY StartHolds
<1>2. WInv /\ [Next]_vars => WInv'
  BY StepKeepsInv
<1> QED BY <1>1, <1>2, PTL DEF Spec

\* What the runs check of the contexts follows from the invariant...
LEMMA InvIsSound == WInv => ContextsAreSound
<1> SUFFICES ASSUME WInv PROVE ContextsAreSound
  OBVIOUS
<1>1. SnapshotsInv /\ ContextsInv /\ CommandInv
  BY DEF WInv
<1>2. \A id \in DOMAIN snaps :
          LET s == snaps[id] IN
          /\ s.blocks \in {18, 30} /\ s.kind \in Kinds /\ s.parent \in Ids \cup {None}
          /\ Len(s.lower) = Len(s.tokens)
          /\ Len(s.upper) = IF s.blocks = 30 THEN Len(s.tokens) ELSE 0
          /\ Len(s.h18) \in {0, Len(s.tokens)} /\ s.owned \in BOOLEAN
  BY <1>1 DEF SnapshotsInv, Shape
<1>3. TypeOK
  BY <1>1, <1>2 DEF TypeOK, SnapshotsInv, ContextsInv, CommandInv
<1>4. ContextsFit
  BY <1>1 DEF ContextsInv
<1>5. ResidentHoldsSnapshot
  BY <1>1 DEF ResidentHoldsSnapshot, ContextsInv, Holds, RidesSnapshot
<1> QED BY <1>3, <1>4, <1>5 DEF ContextsAreSound

\* ... and what they check of the values.
LEMMA InvIsExact == WInv => ValuesAreExact
<1> SUFFICES ASSUME WInv PROVE ValuesAreExact
  OBVIOUS
<1>1. SnapshotsAreExact
  BY DEF WInv, SnapshotsInv, Exact, SnapshotsAreExact
<1> QED BY <1>1 DEF WInv, ValuesAreExact

\* What make_resident() takes for resident is what the contexts hold, and no
\* command runs a context past its size.
THEOREM ContextsAlwaysSound == Spec => []ContextsAreSound
  BY SnapshotWorkerInvariantHolds, InvIsSound, PTL

\* Whatever was resident, whatever failed before and however a snapshot came
\* to be, its cells and the cells of every readout are those of its tokens run
\* from nothing.
THEOREM ValuesAlwaysExact == Spec => []ValuesAreExact
  BY SnapshotWorkerInvariantHolds, InvIsExact, PTL

----------------------------------------------------------------------------
(* The worker without its contexts: SnapshotSemantics computes with the    *)
(* same operators.                                                         *)

\* The cells are the same.
LEMMA SameCells ==
    /\ \A c, x : Semantics!Decode(c, x) = Decode(c, x)
    /\ \A c, n : Semantics!RowsAfter(c, n) = RowsAfter(c, n)
    /\ \A c, n : Semantics!Upto(c, n) = Upto(c, n)
    /\ \A c, n : Semantics!From(c, n) = From(c, n)
<1>1. ASSUME NEW c, NEW x
      PROVE  Semantics!Decode(c, x) = Decode(c, x)
  BY DEF Semantics!Decode, Decode, Semantics!PrefillChunks, PrefillChunks,
         Semantics!Least, Least
<1>2. ASSUME NEW c, NEW n
      PROVE  /\ Semantics!RowsAfter(c, n) = RowsAfter(c, n)
             /\ Semantics!Upto(c, n) = Upto(c, n)
             /\ Semantics!From(c, n) = From(c, n)
  BY DEF Semantics!RowsAfter, RowsAfter, Semantics!Upto, Upto, Semantics!From, From
<1> QED BY <1>1, <1>2

\* So are snapshots, captured, promoted or saved.
LEMMA SameSnapshots ==
    /\ Semantics!Kinds = Kinds
    /\ \A f, id, s : Semantics!With(f, id, s) = With(f, id, s)
    /\ \A t, c, x : Semantics!Reading(t, c, x) = Reading(t, c, x)
    /\ \A k, t : Semantics!Captured18(k, t) = Captured18(k, t)
    /\ \A k, t, id : Semantics!Captured30(k, t, id) = Captured30(k, t, id)
    /\ \A id, s : Semantics!Promoted(id, s) = Promoted(id, s)
    /\ \A id, s, full, low, up :
          Semantics!Child(id, s, full, low, up) = Child(id, s, full, low, up)
<1>1. Semantics!Kinds = Kinds
  BY DEF Semantics!Kinds, Kinds
<1>2. ASSUME NEW f, NEW id, NEW s
      PROVE  Semantics!With(f, id, s) = With(f, id, s)
  BY DEF Semantics!With, With
<1>3. ASSUME NEW t, NEW c, NEW x
      PROVE  Semantics!Reading(t, c, x) = Reading(t, c, x)
  BY DEF Semantics!Reading, Reading
<1>4. ASSUME NEW k, NEW t
      PROVE  Semantics!Captured18(k, t) = Captured18(k, t)
  <2>1. /\ Semantics!Decode(<<>>, t) = Decode(<<>>, t)
        /\ Semantics!RowsAfter(Decode(<<>>, t), 0) = RowsAfter(Decode(<<>>, t), 0)
    BY SameCells
  <2> QED BY <2>1 DEF Semantics!Captured18, Captured18
<1>5. ASSUME NEW k, NEW t, NEW id
      PROVE  Semantics!Captured30(k, t, id) = Captured30(k, t, id)
  <2> DEFINE s == Captured18(k, t)
  <2>1. Semantics!Captured18(k, t) = s /\ Semantics!Decode(<<>>, s.h18) = Decode(<<>>, s.h18)
    BY <1>4, SameCells
  <2> HIDE DEF s
  <2> QED BY <2>1 DEF Semantics!Captured30, Captured30, s
<1>6. ASSUME NEW id, NEW s
      PROVE  Semantics!Promoted(id, s) = Promoted(id, s)
  <2>1. Semantics!Decode(<<>>, s.h18) = Decode(<<>>, s.h18)
    BY SameCells
  <2> QED BY <2>1 DEF Semantics!Promoted, Promoted
<1>7. ASSUME NEW id, NEW s, NEW full, NEW low, NEW up
      PROVE  Semantics!Child(id, s, full, low, up) = Child(id, s, full, low, up)
  <2>1. Semantics!RowsAfter(low, Len(s.tokens)) = RowsAfter(low, Len(s.tokens))
    BY SameCells
  <2> QED BY <2>1 DEF Semantics!Child, Child
<1> QED BY <1>1, <1>2, <1>3, <1>4, <1>5, <1>6, <1>7

\* So are the preflight and the branches.
LEMMA SameBranches ==
    /\ \A f, id, full, save :
          Semantics!BranchError(f, id, full, save) = BranchError(f, id, full, save)
    /\ \A s, full : Semantics!FreshLower(s, full) = FreshLow(s, full)
    /\ \A s, full : Semantics!FreshUpper(s, full) = FreshUp(s, full)
    /\ \A s, full : Semantics!ReadingOf(s, full) =
                       Reading(full, Append(s.cuts, Len(full) - Len(s.tokens)), FreshUp(s, full))
<1>1. ASSUME NEW f, NEW id, NEW full, NEW save
      PROVE  Semantics!BranchError(f, id, full, save) = BranchError(f, id, full, save)
  <2>1. Semantics!Extends(full, f[id].tokens) = Extends(full, f[id].tokens)
    BY DEF Semantics!Extends, Extends, Semantics!Upto, Upto
  <2> QED BY <2>1 DEF Semantics!BranchError, BranchError
<1>2. ASSUME NEW s, NEW full
      PROVE  Semantics!FreshLower(s, full) = FreshLow(s, full)
  BY SameCells DEF Semantics!FreshLower, FreshLow
<1>3. ASSUME NEW s, NEW full
      PROVE  Semantics!FreshUpper(s, full) = FreshUp(s, full)
  <2>1. /\ Semantics!FreshLower(s, full) = FreshLow(s, full)
        /\ Semantics!RowsAfter(FreshLow(s, full), Len(s.tokens)) =
           RowsAfter(FreshLow(s, full), Len(s.tokens))
        /\ \A x : Semantics!Decode(s.upper, x) = Decode(s.upper, x)
    BY <1>2, SameCells
  <2> QED BY <2>1 DEF Semantics!FreshUpper, FreshUp
<1>4. ASSUME NEW s, NEW full
      PROVE  Semantics!ReadingOf(s, full) =
                Reading(full, Append(s.cuts, Len(full) - Len(s.tokens)), FreshUp(s, full))
  <2>1. Semantics!FreshUpper(s, full) = FreshUp(s, full)
    BY <1>3
  <2> QED BY <2>1, SameSnapshots DEF Semantics!ReadingOf
<1> QED BY <1>1, <1>2, <1>3, <1>4

\* So is a prompt that is run from nothing.
LEMMA SamePrefills ==
    /\ \A full, break : Semantics!Pieces(full, break) = Pieces(full, break)
    /\ \A x, p : Semantics!PrefillFrom(x, p) = PrefillFrom(x, p)
<1>1. ASSUME NEW full, NEW break
      PROVE  Semantics!Pieces(full, break) = Pieces(full, break)
  BY DEF Semantics!Pieces, Pieces
<1>2. ASSUME NEW x, NEW p
      PROVE  Semantics!PrefillFrom(x, p) = PrefillFrom(x, p)
  BY SameCells DEF Semantics!PrefillFrom, PrefillFrom
<1> QED BY <1>1, <1>2

----------------------------------------------------------------------------
(* Every step is one of SnapshotSemantics.                                 *)

\* What a ride computes in, and the questions of a request: what the worker's
\* command is to SnapshotSemantics.
Scratch ==
    CASE cmd.op # "ride" -> [graph |-> "none", low |-> <<>>, up |-> <<>>]
      [] cmd.op = "ride" /\ cmd.mode = "reference" ->
             [graph |-> "stock", low |-> <<>>, up |-> stock]
      [] OTHER -> [graph |-> "split", low |-> lower, up |-> upper]

Asked ==
    IF cmd.op \in {"evaluate", "state_eval"}
    THEN [id |-> cmd.target, questions |-> cmd.asks]
    ELSE [id |-> None, questions |-> <<>>]

Image == <<snaps, files, Asked, Scratch, readout>>

\* What they are to each kind of command.
LEMMA CommandIs ==
    /\ cmd.op # "ride" => Scratch = Semantics!NoScratch
    /\ cmd.op = "ride" /\ cmd.mode = "reference" =>
           Scratch = [graph |-> "stock", low |-> <<>>, up |-> stock]
    /\ cmd.op = "ride" /\ cmd.mode # "reference" =>
           Scratch = [graph |-> "split", low |-> lower, up |-> upper]
    /\ cmd.op \in {"evaluate", "state_eval"} =>
           Asked = [id |-> cmd.target, questions |-> cmd.asks]
    /\ cmd.op \notin {"evaluate", "state_eval"} => Asked = Semantics!NoAsk
  BY DEF Scratch, Asked, Semantics!NoScratch, Semantics!NoAsk

LEMMA NextCommandIs ==
    /\ cmd'.op # "ride" => Scratch' = Semantics!NoScratch
    /\ cmd'.op = "ride" /\ cmd'.mode = "reference" =>
           Scratch' = [graph |-> "stock", low |-> <<>>, up |-> stock']
    /\ cmd'.op = "ride" /\ cmd'.mode # "reference" =>
           Scratch' = [graph |-> "split", low |-> lower', up |-> upper']
    /\ cmd'.op \in {"evaluate", "state_eval"} =>
           Asked' = [id |-> cmd'.target, questions |-> cmd'.asks]
    /\ cmd'.op \notin {"evaluate", "state_eval"} => Asked' = Semantics!NoAsk
  BY DEF Scratch, Asked, Semantics!NoScratch, Semantics!NoAsk

LEMMA NothingIs ==
    /\ Semantics!NoScratch = [graph |-> "none", low |-> <<>>, up |-> <<>>]
    /\ Semantics!NoAsk = [id |-> None, questions |-> <<>>]
    /\ Semantics!NoReadout = NoReading
  BY SameSnapshots DEF Semantics!NoScratch, Semantics!NoAsk, Semantics!NoReadout, NoReading

\* Between commands there is neither, and a command that ended left neither.
LEMMA EndIs ==
    ASSUME cmd' = NoCmd
    PROVE  Scratch' = Semantics!NoScratch /\ Asked' = Semantics!NoAsk
  BY NoCmdIs, NextCommandIs

LEMMA IdleEnds ==
    ASSUME CommandInv, Idle
    PROVE  /\ Scratch = Semantics!NoScratch /\ Asked = Semantics!NoAsk
           /\ cmd' = NoCmd => UNCHANGED Scratch /\ UNCHANGED Asked
<1>1. Scratch = Semantics!NoScratch /\ Asked = Semantics!NoAsk
  BY IdleIs, CommandIs
<1> QED BY <1>1, EndIs

\* create is Capture.
LEMMA FreezeIsCapture ==
    ASSUME WInv, CreateFrozen
    PROVE  Semantics!AbsNext
<1>1. PICK kind \in Kinds, full \in Prompts, id18 \in Ids \cup {None},
           id30 \in Ids \cup {None} :
               \E n \in 1..Len(full) :
                   /\ Upto(full, n) \in Seq(Tokens) /\ Len(Upto(full, n)) \in 1..Context
                   /\ Create(kind, Upto(full, n), id18, id30)
  BY Frozen
<1>2. PICK n \in 1..Len(full) : Create(kind, Upto(full, n), id18, id30)
  BY <1>1
<1> DEFINE t == Upto(full, n)
           s18 == Captured18(kind, t)
           s30 == Captured30(kind, t, id18)
           with18 == IF id18 = None THEN snaps ELSE With(snaps, id18, s18)
<1>3. /\ CommandInv /\ Idle
      /\ ({id18, id30} \ {None}) \cap DOMAIN snaps = {}
      /\ snaps' = IF id30 = None THEN with18 ELSE With(with18, id30, s30)
      /\ readout' = IF id30 = None THEN readout ELSE Reading(t, s30.cuts, s30.upper)
      /\ UNCHANGED files /\ cmd' = NoCmd
  BY <1>2 DEF Create, WInv, Replies
<1>4. UNCHANGED Scratch /\ UNCHANGED Asked
  BY <1>3, IdleEnds
<1>5. /\ Semantics!Upto(full, n) = t /\ Semantics!Kinds = Kinds
      /\ Semantics!Captured18(kind, t) = s18 /\ Semantics!Captured30(kind, t, id18) = s30
      /\ \A f, id, s : Semantics!With(f, id, s) = With(f, id, s)
      /\ Semantics!Reading(t, s30.cuts, s30.upper) = Reading(t, s30.cuts, s30.upper)
  BY SameCells, SameSnapshots
<1> DEFINE C18 == Semantics!Captured18(kind, Semantics!Upto(full, n))
           C30 == Semantics!Captured30(kind, Semantics!Upto(full, n), id18)
           W18 == IF id18 = None THEN snaps ELSE Semantics!With(snaps, id18, C18)
<1>6. C18 = s18 /\ C30 = s30 /\ W18 = with18
  BY <1>5
<1> HIDE DEF t, s18, s30, with18, C18, C30, W18
<1>7. /\ snaps' = IF id30 = None THEN W18 ELSE Semantics!With(W18, id30, C30)
      /\ readout' = IF id30 = None THEN readout
                    ELSE Semantics!Reading(Semantics!Upto(full, n), C30.cuts, C30.upper)
  BY <1>3, <1>5, <1>6
<1>8. kind \in Semantics!Kinds
  BY <1>5
<1>9. Semantics!Capture
  BY <1>3, <1>4, <1>7, <1>8 DEF Semantics!Capture, Scratch, Asked, C18, C30, W18
<1> QED BY <1>9 DEF Semantics!AbsNext

\* promote is Finish30.
LEMMA PromoteIsFinish ==
    ASSUME WInv, NEW id \in Ids, NEW new \in Ids, Promote(id, new)
    PROVE  Semantics!AbsNext
<1>1. /\ CommandInv /\ Idle /\ id \in DOMAIN snaps /\ snaps[id].blocks = 18
      /\ new \in Ids \ DOMAIN snaps
      /\ snaps' = With(snaps, new, Promoted(id, snaps[id]))
      /\ UNCHANGED files /\ UNCHANGED readout /\ cmd' = NoCmd
  BY DEF Promote, Promotable, WInv, Replies
<1>2. UNCHANGED Scratch /\ UNCHANGED Asked
  BY <1>1, IdleEnds
<1>3. /\ Semantics!Promoted(id, snaps[id]) = Promoted(id, snaps[id])
      /\ \A s : Semantics!With(snaps, new, s) = With(snaps, new, s)
  BY SameSnapshots
<1>4. Semantics!Finish30
  BY <1>1, <1>2, <1>3 DEF Semantics!Finish30, Scratch, Asked
<1> QED BY <1>4 DEF Semantics!AbsNext

\* evaluate and state_eval take the questions the preflight passed.
LEMMA StartIsTake ==
    ASSUME WInv, StartBranches
    PROVE  Semantics!AbsNext
<1>1. PICK id \in Ids, n \in 1..MaxAsks :
          \E asks \in [1..n -> Ask], op \in {"evaluate", "state_eval"} : Branches(op, id, asks)
  BY DEF StartBranches
<1>2. PICK asks \in [1..n -> Ask], op \in {"evaluate", "state_eval"} : Branches(op, id, asks)
  BY <1>1
<1>3. /\ Idle /\ CommandInv /\ SnapshotsInv
      /\ \A i \in 1..Len(asks) : BranchError(snaps, id, asks[i].full, asks[i].save) = "none"
      /\ cmd' = [NoCmd EXCEPT !.op = op, !.target = id, !.asks = asks]
      /\ UNCHANGED snaps /\ UNCHANGED files /\ UNCHANGED readout
  BY <1>2 DEF Branches, WInv
<1>4. n \in Nat /\ n >= 1 /\ Len(asks) = n
  <2>1. n \in Nat /\ n >= 1
    BY BoundsAssumption
  <2>2. asks = [k \in 1..n |-> asks[k]]
    OBVIOUS
  <2> QED BY <2>1, <2>2, MakeSeq
<1>5. cmd'.op = op /\ cmd'.target = id /\ cmd'.asks = asks
  BY <1>3 DEF NoCmd
<1>6. /\ Asked = Semantics!NoAsk /\ Scratch' = Scratch
      /\ Asked' = [id |-> id, questions |-> asks]
  BY <1>3, <1>5, IdleEnds, NextCommandIs
<1>7. id \in DOMAIN snaps
  <2>1. /\ asks[1] \in Ask /\ 1 \in 1..Len(asks)
        /\ BranchError(snaps, id, asks[1].full, asks[1].save) = "none"
    BY <1>3, <1>4
  <2>2. asks[1].full \in Prompts /\ asks[1].save \in Ids \cup {None}
    BY <2>1, AskIs
  <2> QED BY <1>3, <2>1, <2>2, BranchFits
<1>8. /\ Asked'.id = id /\ Asked'.questions = asks
  BY <1>6
<1>9. \A i \in 1..Len(Asked'.questions) :
          Semantics!BranchError(snaps, Asked'.id, Asked'.questions[i].full,
                                Asked'.questions[i].save) = "none"
  BY <1>3, <1>8, SameBranches
<1>10. Semantics!Take
  BY <1>3, <1>6, <1>7, <1>8, <1>9 DEF Semantics!Take, Scratch, Asked
<1> QED BY <1>10 DEF Semantics!AbsNext

\* The question a command takes next.
LEMMA NextAsk ==
    ASSUME WInv, cmd.op \in {"evaluate", "state_eval"}, cmd.asks # <<>>
    PROVE  /\ Head(cmd.asks) \in Ask /\ Head(cmd.asks).full \in Prompts
           /\ Head(cmd.asks).save \in Ids \cup {None}
           /\ BranchError(snaps, cmd.target, Head(cmd.asks).full, Head(cmd.asks).save) = "none"
           /\ cmd.target \in DOMAIN snaps /\ snaps[cmd.target].blocks = 30 /\ ~RidesSnapshot
<1> DEFINE q == Head(cmd.asks)
<1>1. /\ SnapshotsInv /\ CommandInv /\ cmd.asks \in Seq(Ask)
  BY DEF WInv, CommandInv
<1>2. q = cmd.asks[1] /\ q \in Ask /\ 1 \in DOMAIN cmd.asks
  BY <1>1
<1>3. q.full \in Prompts /\ q.save \in Ids \cup {None}
  BY <1>2, AskIs
<1>4. BranchError(snaps, cmd.target, q.full, q.save) = "none" /\ ~RidesSnapshot
      /\ cmd.target \in DOMAIN snaps
  BY <1>1, <1>2 DEF CommandInv, Branching, RidesSnapshot
<1> DEFINE full == q.full
           save == q.save
<1>5. /\ full \in Prompts /\ save \in Ids \cup {None}
      /\ BranchError(snaps, cmd.target, full, save) = "none"
  BY <1>3, <1>4
<1> HIDE DEF q, full, save
<1>6. snaps[cmd.target].blocks = 30
  BY <1>1, <1>5, BranchFits
<1> QED BY <1>2, <1>3, <1>4, <1>6 DEF q

\* A branch computed from the blobs is Branch: the next question of the
\* request is answered, or the request fails.
LEMMA BranchStep ==
    ASSUME NEW id \in DOMAIN snaps, NEW asks, asks # <<>>,
           Asked = [id |-> id, questions |-> asks],
           UNCHANGED files, UNCHANGED Scratch,
           LET q == Head(asks)
               s == snaps[id]
               c == Child(id, s, q.full, FreshLow(s, q.full), FreshUp(s, q.full))
               cuts == Append(s.cuts, Len(q.full) - Len(s.tokens))
               saved == IF q.save = None THEN snaps ELSE With(snaps, q.save, c) IN
           /\ BranchError(snaps, id, q.full, q.save) = "none"
           /\ \/ /\ readout' = Reading(q.full, cuts, FreshUp(s, q.full))
                 /\ snaps' = saved
                 /\ Asked' = [id |-> id, questions |-> Tail(asks)]
              \/ /\ snaps' \in {snaps, saved}
                 /\ Asked' = Semantics!NoAsk
                 /\ UNCHANGED readout
    PROVE  Semantics!AbsNext
<1> DEFINE q == Head(asks)
           full == q.full
           save == q.save
           s == snaps[id]
           low == FreshLow(s, full)
           up == FreshUp(s, full)
           c == Child(id, s, full, low, up)
           r == Reading(full, Append(s.cuts, Len(full) - Len(s.tokens)), up)
           saved == IF save = None THEN snaps ELSE With(snaps, save, c)
<1>1. /\ Semantics!BranchError(snaps, id, full, save) = "none"
      /\ Semantics!FreshLower(s, full) = low /\ Semantics!FreshUpper(s, full) = up
      /\ Semantics!ReadingOf(s, full) = r
  BY SameBranches
<1>2. /\ Semantics!Child(id, s, full, low, up) = c
      /\ Semantics!With(snaps, save, c) = With(snaps, save, c)
  BY SameSnapshots
<1>3. \/ readout' = r /\ snaps' = saved /\ Asked' = [id |-> id, questions |-> Tail(asks)]
      \/ snaps' \in {snaps, saved} /\ Asked' = Semantics!NoAsk /\ UNCHANGED readout
  OBVIOUS
<1> HIDE DEF low, up, c, r
<1>4. (IF save = None THEN snaps
       ELSE Semantics!With(snaps, save,
                Semantics!Child(id, s, full, Semantics!FreshLower(s, full),
                                Semantics!FreshUpper(s, full)))) = saved
  BY <1>1, <1>2
<1>5. Asked.id = id /\ Asked.questions = asks
  OBVIOUS
<1>6. [Asked EXCEPT !.questions = Tail(@)] = [id |-> id, questions |-> Tail(asks)]
  BY <1>5
<1> HIDE DEF saved, full, save, q
<1>7. Semantics!Branch
  <2> USE DEF q, full, save
  <2> QED BY <1>1, <1>3, <1>4, <1>5, <1>6 DEF Semantics!Branch, Scratch, Asked
<1> QED BY <1>7 DEF Semantics!AbsNext

\* A branch of the worker is computed from the blobs.
LEMMA RunIsBranch ==
    ASSUME WInv, RunBranch
    PROVE  Semantics!AbsNext
<1> DEFINE id == cmd.target
           q == Head(cmd.asks)
           full == q.full
           save == q.save
           s == snaps[id]
           cuts == Append(s.cuts, Len(full) - Len(s.tokens))
<1>1. /\ SnapshotsInv /\ ContextsInv /\ CommandInv
      /\ cmd.op \in {"evaluate", "state_eval"} /\ cmd.asks # <<>>
      /\ UNCHANGED files
      /\ snaps' = Published(id, q)
      /\ readout' = Reading(full, cuts, BranchUpper(id, full))
      /\ cmd' = [cmd EXCEPT !.asks = Tail(@), !.made = @ \cup Saves(q)]
  BY DEF WInv, RunBranch
<1>2. /\ q \in Ask /\ full \in Prompts /\ save \in Ids \cup {None}
      /\ BranchError(snaps, id, full, save) = "none"
      /\ id \in DOMAIN snaps /\ s.blocks = 30 /\ ~RidesSnapshot
  BY <1>1, NextAsk
<1>3. BranchUpper(id, full) = FreshUp(s, full)
  BY <1>1, <1>2, BranchFromBlobs
<1>4. Published(id, q) = PublishedFresh(id, q)
  BY <1>1, <1>2, Publishing
<1>5. cmd'.op = cmd.op /\ cmd'.target = id /\ cmd'.asks = Tail(cmd.asks)
  <2>1. cmd = [op |-> cmd.op, target |-> cmd.target, asks |-> cmd.asks, made |-> cmd.made,
               mode |-> cmd.mode, seq |-> cmd.seq, left |-> cmd.left, cuts |-> cmd.cuts]
    BY <1>1 DEF CommandInv
  <2> HIDE DEF q
  <2> QED BY <1>1, <2>1
<1>6. /\ UNCHANGED Scratch
      /\ Asked = [id |-> id, questions |-> cmd.asks]
      /\ Asked' = [id |-> id, questions |-> Tail(cmd.asks)]
  BY <1>1, <1>5, CommandIs, NextCommandIs
<1>7. /\ readout' = Reading(full, cuts, FreshUp(s, full))
      /\ snaps' = IF save = None THEN snaps
                  ELSE With(snaps, save, Child(id, s, full, FreshLow(s, full), FreshUp(s, full)))
  BY <1>1, <1>3, <1>4 DEF PublishedFresh
<1>8. UNCHANGED files /\ cmd.asks # <<>>
  BY <1>1
<1> QED BY <1>2, <1>6, <1>7, <1>8, BranchStep

\* A branch that fails ends its request, its child published or not.
LEMMA FailureIsBranch ==
    ASSUME WInv, BranchFails
    PROVE  Semantics!AbsNext
<1> DEFINE id == cmd.target
           q == Head(cmd.asks)
           full == q.full
           save == q.save
           s == snaps[id]
<1>1. /\ SnapshotsInv /\ ContextsInv /\ CommandInv
      /\ cmd.op \in {"evaluate", "state_eval"} /\ cmd.asks # <<>>
      /\ UNCHANGED files /\ UNCHANGED readout
      /\ snaps' = snaps \/ snaps' = Published(id, q)
      /\ cmd' = NoCmd
  BY DEF WInv, BranchFails, Fails, Replies
<1>2. /\ q \in Ask /\ full \in Prompts /\ save \in Ids \cup {None}
      /\ BranchError(snaps, id, full, save) = "none"
      /\ id \in DOMAIN snaps /\ s.blocks = 30 /\ ~RidesSnapshot
  BY <1>1, NextAsk
<1>3. Published(id, q) = PublishedFresh(id, q)
  BY <1>1, <1>2, Publishing
<1>4. /\ UNCHANGED Scratch /\ Asked' = Semantics!NoAsk
      /\ Asked = [id |-> id, questions |-> cmd.asks]
  BY <1>1, CommandIs, EndIs
<1>5. snaps' \in {snaps, IF save = None THEN snaps
                         ELSE With(snaps, save, Child(id, s, full, FreshLow(s, full),
                                                      FreshUp(s, full)))}
  BY <1>1, <1>3 DEF PublishedFresh
<1>6. UNCHANGED files /\ UNCHANGED readout /\ cmd.asks # <<>>
  BY <1>1
<1> QED BY <1>2, <1>4, <1>5, <1>6, BranchStep

\* A request without questions left is answered.
LEMMA EndIsAnswered ==
    ASSUME WInv, BranchesEnd \/ ExportFails
    PROVE  Semantics!AbsNext
<1>1. /\ SnapshotsInv /\ CommandInv
      /\ cmd.op \in {"evaluate", "state_eval"} /\ cmd.asks = <<>> /\ cmd' = NoCmd
      /\ UNCHANGED snaps /\ UNCHANGED files /\ UNCHANGED readout
  BY DEF WInv, BranchesEnd, ExportFails, Replies
<1>2. cmd.target # None
  BY <1>1, NoneAssumption DEF CommandInv, Branching, SnapshotsInv
<1>3. /\ Asked = [id |-> cmd.target, questions |-> <<>>] /\ UNCHANGED Scratch
      /\ Asked' = Semantics!NoAsk
  BY <1>1, CommandIs, EndIs
<1>4. Asked # Semantics!NoAsk /\ Asked.questions = <<>>
  BY <1>2, <1>3, NothingIs
<1>5. Semantics!Answered
  BY <1>1, <1>3, <1>4 DEF Semantics!Answered, Scratch, Asked
<1> QED BY <1>5 DEF Semantics!AbsNext

\* A ride over a snapshot starts from its blobs.
LEMMA RideIsRideFrom ==
    ASSUME WInv, NEW id \in Ids, NEW full \in Prompts, NEW max \in 1..MaxRide,
           RideSnapshot(id, full, max)
    PROVE  Semantics!AbsNext
<1> DEFINE s == snaps[id]
           cuts == Append(s.cuts, Len(full) - Len(s.tokens))
           low == FreshLow(s, full)
           up == FreshUp(s, full)
<1>1. /\ SnapshotsInv /\ ContextsInv /\ CommandInv
      /\ Idle /\ BranchError(snaps, id, full, None) = "none"
      /\ lower' = BranchLower(id, full) /\ upper' = BranchUpper(id, full)
      /\ Riding("snapshot", id, full, max, cuts)
      /\ readout' = Reading(full, cuts, BranchUpper(id, full))
      /\ UNCHANGED snaps /\ UNCHANGED files /\ UNCHANGED reply
  BY DEF WInv, RideSnapshot
<1>2. id \in DOMAIN snaps /\ s.blocks = 30
  BY <1>1, BranchFits
<1>3. BranchLower(id, full) = low /\ BranchUpper(id, full) = up
  BY <1>1, <1>2, IdleIs, BranchFromBlobs
<1>4. cmd'.op = "ride" /\ cmd'.mode = "snapshot"
  <2> HIDE DEF cuts
  <2> QED BY <1>1, Rides DEF Modes
<1>5. Scratch' = [graph |-> "split", low |-> low, up |-> up] /\ UNCHANGED Asked
  BY <1>1, <1>3, <1>4, IdleEnds, NextCommandIs
<1>6. /\ Semantics!BranchError(snaps, id, full, None) = "none"
      /\ Semantics!FreshLower(s, full) = low /\ Semantics!FreshUpper(s, full) = up
      /\ Semantics!ReadingOf(s, full) = Reading(full, cuts, up)
  BY <1>1, SameBranches
<1>7. readout' = Reading(full, cuts, up)
  BY <1>1, <1>3
<1> HIDE DEF low, up, cuts
<1>8. Semantics!RideFrom
  BY <1>1, <1>2, <1>5, <1>6, <1>7 DEF Semantics!RideFrom, Scratch, Asked
<1> QED BY <1>8 DEF Semantics!AbsNext

\* A ride over a baseline starts from its prompt.
LEMMA RideIsRideBaseline ==
    ASSUME WInv, NEW full \in Prompts, NEW break \in 0..Context, NEW max \in 1..MaxRide,
           RideSplit(full, break, max) \/ RideReference(full, break, max)
    PROVE  Semantics!AbsNext
<1> DEFINE p == Pieces(full, break)
           low == PrefillFrom(full, p)
           up == PrefillFrom(RowsAfter(low, 0), p)
<1>1. /\ Idle /\ CommandInv /\ break < Len(full)
      /\ UNCHANGED snaps /\ UNCHANGED files /\ UNCHANGED reply
  BY DEF WInv, RideSplit, RideReference
<1>2. /\ Semantics!Pieces(full, break) = p /\ Semantics!PrefillFrom(full, p) = low
      /\ Semantics!RowsAfter(low, 0) = RowsAfter(low, 0)
      /\ Semantics!PrefillFrom(RowsAfter(low, 0), p) = up
      /\ \A x : Semantics!Reading(full, p, x) = Reading(full, p, x)
  BY SamePrefills, SameCells, SameSnapshots
<1>3. CASE RideSplit(full, break, max)
  <2>1. /\ lower' = low /\ upper' = up /\ readout' = Reading(full, p, up)
        /\ Riding("split_prefill", None, full, max, p)
    BY <1>3 DEF RideSplit
  <2> HIDE DEF low, up, p
  <2>2. cmd'.op = "ride" /\ cmd'.mode = "split_prefill"
    BY <1>1, <2>1, Rides DEF Modes
  <2>3. Scratch' = [graph |-> "split", low |-> low, up |-> up] /\ UNCHANGED Asked
    BY <1>1, <2>1, <2>2, IdleEnds, NextCommandIs
  <2>4. Scratch'.up = up
    BY <2>3
  <2>5. Semantics!RideBaseline
    BY <1>1, <1>2, <2>1, <2>3, <2>4 DEF Semantics!RideBaseline, Scratch, Asked
  <2> QED BY <2>5 DEF Semantics!AbsNext
<1>4. CASE RideReference(full, break, max)
  <2>1. /\ stock' = low /\ readout' = Reading(full, p, low)
        /\ Riding("reference", None, full, max, p)
    BY <1>4 DEF RideReference
  <2> HIDE DEF low, up, p
  <2>2. cmd'.op = "ride" /\ cmd'.mode = "reference"
    BY <1>1, <2>1, Rides DEF Modes
  <2>3. Scratch' = [graph |-> "stock", low |-> <<>>, up |-> low] /\ UNCHANGED Asked
    BY <1>1, <2>1, <2>2, IdleEnds, NextCommandIs
  <2>4. Scratch'.up = low
    BY <2>3
  <2>5. Semantics!RideBaseline
    BY <1>1, <1>2, <2>1, <2>3, <2>4 DEF Semantics!RideBaseline, Scratch, Asked
  <2> QED BY <2>5 DEF Semantics!AbsNext
<1> QED BY <1>3, <1>4

\* A token rides on in the scratch.
LEMMA TokenIsRideOn ==
    ASSUME WInv, NEW token \in Tokens, RideToken(token)
    PROVE  Semantics!AbsNext
<1> DEFINE more == <<token>>
           low == Decode(lower, more)
           rows == RowsAfter(low, Len(lower))
           up == Decode(upper, rows)
           row == Decode(stock, more)
           seq == Append(cmd.seq, token)
           cuts == Append(cmd.cuts, 1)
<1>1. /\ CommandInv /\ cmd.op = "ride"
      /\ cmd' = [cmd EXCEPT !.seq = seq, !.left = @ - 1, !.cuts = cuts]
      /\ cmd.mode = "reference" => stock' = row
      /\ cmd.mode # "reference" => lower' = low /\ upper' = up
      /\ readout' = Reading(cmd'.seq, cmd'.cuts,
                            IF cmd.mode = "reference" THEN stock' ELSE upper')
      /\ UNCHANGED snaps /\ UNCHANGED files
  BY DEF WInv, RideToken
<1>2. cmd = [op |-> cmd.op, target |-> cmd.target, asks |-> cmd.asks, made |-> cmd.made,
             mode |-> cmd.mode, seq |-> cmd.seq, left |-> cmd.left, cuts |-> cmd.cuts]
  BY <1>1 DEF CommandInv
<1>3. cmd'.op = cmd.op /\ cmd'.mode = cmd.mode /\ cmd'.seq = seq /\ cmd'.cuts = cuts
  <2> HIDE DEF seq, cuts
  <2> QED BY <1>1, <1>2
<1>4. readout.tokens = cmd.seq /\ readout.cuts = cmd.cuts
  BY <1>1, ReadingIs DEF CommandInv, RideHolds
<1>5. UNCHANGED Asked
  BY <1>1, <1>3, CommandIs, NextCommandIs
<1>6. CASE cmd.mode = "reference"
  <2> HIDE DEF seq, cuts, row
  <2>1. /\ Scratch = [graph |-> "stock", low |-> <<>>, up |-> stock]
        /\ Scratch' = [graph |-> "stock", low |-> <<>>, up |-> row]
    BY <1>1, <1>3, <1>6, CommandIs, NextCommandIs
  <2>2. Semantics!Decode(stock, more) = row
    BY SameCells DEF row
  <2>3. Scratch.graph = "stock" /\ Scratch.up = stock /\ Scratch'.up = row
    BY <2>1
  <2>4. Scratch' = [Scratch EXCEPT !.up = Semantics!Decode(@, <<token>>)]
    BY <2>1, <2>2
  <2>5. readout' = Semantics!Reading(Append(readout.tokens, token), Append(readout.cuts, 1),
                                     Scratch'.up)
    BY <1>1, <1>3, <1>4, <1>6, <2>3, SameSnapshots DEF seq, cuts
  <2>6. Semantics!RideOn
    BY <1>1, <1>5, <2>3, <2>4, <2>5 DEF Semantics!RideOn, Scratch, Asked
  <2> QED BY <2>6 DEF Semantics!AbsNext
<1>7. CASE cmd.mode # "reference"
  <2>1. lower' = low /\ upper' = up
    BY <1>1, <1>7
  <2>2. /\ Semantics!Decode(lower, more) = low
        /\ Semantics!RowsAfter(low, Len(lower)) = rows
        /\ Semantics!Decode(upper, rows) = up
    <3>1. Semantics!Decode(lower, more) = low
      BY SameCells
    <3>2. Semantics!RowsAfter(low, Len(lower)) = rows
      BY SameCells
    <3>3. Semantics!Decode(upper, rows) = up
      BY SameCells
    <3> QED BY <3>1, <3>2, <3>3
  <2> HIDE DEF seq, cuts, low, up, rows
  <2>3. /\ Scratch = [graph |-> "split", low |-> lower, up |-> upper]
        /\ Scratch' = [graph |-> "split", low |-> low, up |-> up]
    BY <1>1, <1>3, <1>7, <2>1, CommandIs, NextCommandIs
  <2>4. /\ Scratch.graph = "split" /\ Scratch.low = lower /\ Scratch.up = upper
        /\ Scratch'.up = up
    BY <2>3
  <2>5. Scratch' = [graph |-> "split", low |-> Semantics!Decode(Scratch.low, <<token>>),
                    up |-> Semantics!Decode(Scratch.up,
                              Semantics!RowsAfter(Semantics!Decode(Scratch.low, <<token>>),
                                                  Len(Scratch.low)))]
    BY <2>2, <2>3, <2>4
  <2>6. readout' = Semantics!Reading(Append(readout.tokens, token), Append(readout.cuts, 1),
                                     Scratch'.up)
    BY <1>1, <1>3, <1>4, <1>7, <2>1, <2>4, SameSnapshots DEF seq, cuts
  <2>7. Semantics!RideOn
    BY <1>1, <1>5, <2>4, <2>5, <2>6 DEF Semantics!RideOn, Scratch, Asked
  <2> QED BY <2>7 DEF Semantics!AbsNext
<1> QED BY <1>6, <1>7

\* A ride stops: its scratch is gone, whatever mode it was in.
LEMMA RideIsStopped ==
    ASSUME RideEnds \/ RideFails
    PROVE  Semantics!AbsNext
<1>1. /\ cmd.op = "ride" /\ cmd' = NoCmd
      /\ UNCHANGED snaps /\ UNCHANGED files /\ UNCHANGED readout
  BY DEF RideEnds, RideFails, Fails, Replies
<1>2. Scratch' = Semantics!NoScratch /\ UNCHANGED Asked
  BY <1>1, EndIs, CommandIs
<1>3. Semantics!RideStops
  BY <1>1, <1>2 DEF Semantics!RideStops, Scratch, Asked
<1> QED BY <1>3 DEF Semantics!AbsNext

\* The reference baseline: its prompt from nothing, or nothing.
LEMMA ReferenceIsBaseline ==
    ASSUME WInv, NEW full \in Prompts, Reference(full)
    PROVE  [Semantics!AbsNext]_Image
<1>1. /\ CommandInv /\ Idle /\ cmd' = NoCmd /\ UNCHANGED snaps /\ UNCHANGED files
      /\ \/ readout' = Reading(full, <<Len(full)>>, Decode(<<>>, full))
         \/ UNCHANGED readout
  BY DEF WInv, Reference, Replies
<1>2. UNCHANGED Scratch /\ UNCHANGED Asked
  BY <1>1, IdleEnds
<1>3. CASE UNCHANGED readout
  BY <1>1, <1>2, <1>3 DEF Image
<1>4. CASE readout' = Reading(full, <<Len(full)>>, Decode(<<>>, full))
  <2>1. readout' = Semantics!Reading(full, <<Len(full)>>, Semantics!Decode(<<>>, full))
    BY <1>4, SameCells, SameSnapshots
  <2>2. Semantics!Baseline
    BY <1>1, <1>2, <2>1 DEF Semantics!Baseline, Scratch, Asked
  <2> QED BY <2>2 DEF Semantics!AbsNext
<1> QED BY <1>1, <1>3, <1>4

\* A command that fails or is refused before it published anything changes
\* nothing that anybody keeps.
LEMMA RefusalIsNothing ==
    ASSUME WInv,
           \/ InferenceFails \/ Refused
           \/ \E mode, full, break : RideBreakRefused(mode, full, break)
    PROVE  UNCHANGED Image
<1>1. /\ CommandInv /\ Idle /\ cmd' = NoCmd
      /\ UNCHANGED snaps /\ UNCHANGED files /\ UNCHANGED readout
  BY DEF WInv, InferenceFails, Refused, RideBreakRefused, Fails, Replies
<1>2. UNCHANGED Scratch /\ UNCHANGED Asked
  BY <1>1, IdleEnds
<1> QED BY <1>1, <1>2 DEF Image

\* drop, save and load touch the registry and the files alone.
LEMMA RegistrySteps ==
    ASSUME WInv, NEW id \in Ids,
           Drop(id) \/ Save(id) \/ \E file \in files : Load(id, file)
    PROVE  [Semantics!AbsNext]_Image
<1>1. CommandInv
  BY DEF WInv
<1>2. CASE Drop(id)
  <2>1. /\ Idle /\ cmd' = NoCmd /\ id \in DOMAIN snaps
        /\ snaps' = [x \in DOMAIN snaps \ {id} |-> snaps[x]]
        /\ UNCHANGED files /\ UNCHANGED readout
    BY <1>2 DEF Drop, Replies
  <2>2. UNCHANGED Scratch /\ UNCHANGED Asked
    BY <1>1, <2>1, IdleEnds
  <2>3. Semantics!Release
    BY <2>1, <2>2 DEF Semantics!Release, Scratch, Asked
  <2> QED BY <2>3 DEF Semantics!AbsNext
<1>3. CASE Save(id)
  <2>1. /\ Idle /\ cmd' = NoCmd /\ id \in DOMAIN snaps
        /\ files' = files \cup {[snap |-> snaps[id], batch |-> Batch]} \/ UNCHANGED files
        /\ UNCHANGED snaps /\ UNCHANGED readout
    BY <1>3 DEF Save, Replies
  <2>2. UNCHANGED Scratch /\ UNCHANGED Asked
    BY <1>1, <2>1, IdleEnds
  <2>3. CASE UNCHANGED files
    BY <2>1, <2>2, <2>3 DEF Image
  <2>4. CASE files' = files \cup {[snap |-> snaps[id], batch |-> Batch]}
    <3>1. Semantics!Archive
      BY <2>1, <2>2, <2>4 DEF Semantics!Archive, Scratch, Asked
    <3> QED BY <3>1 DEF Semantics!AbsNext
  <2> QED BY <2>1, <2>3, <2>4
<1>4. ASSUME NEW file \in files, Load(id, file)
      PROVE  [Semantics!AbsNext]_Image
  <2>1. /\ Idle /\ cmd' = NoCmd /\ id \in Ids \ DOMAIN snaps
        /\ \/ file.batch = Batch /\ snaps' = With(snaps, id, [file.snap EXCEPT !.owned = TRUE])
           \/ UNCHANGED snaps
        /\ UNCHANGED files /\ UNCHANGED readout
    BY <1>4 DEF Load, Loadable, Replies
  <2>2. UNCHANGED Scratch /\ UNCHANGED Asked
    BY <1>1, <2>1, IdleEnds
  <2>3. CASE UNCHANGED snaps
    BY <2>1, <2>2, <2>3 DEF Image
  <2>4. CASE file.batch = Batch /\ snaps' = With(snaps, id, [file.snap EXCEPT !.owned = TRUE])
    <3> DEFINE s == [file.snap EXCEPT !.owned = TRUE]
    <3>1. Semantics!With(snaps, id, s) = With(snaps, id, s)
      BY SameSnapshots
    <3>2. Semantics!Reopen
      BY <2>1, <2>2, <2>4, <3>1 DEF Semantics!Reopen, Scratch, Asked
    <3> QED BY <3>2 DEF Semantics!AbsNext
  <2> QED BY <2>1, <2>3, <2>4
<1> QED BY <1>2, <1>3, <1>4

\* A new process holds nothing.
LEMMA RestartIsNewProcess ==
    ASSUME Restart
    PROVE  Semantics!AbsNext
<1>1. /\ snaps' = [x \in {} |-> {}] /\ readout' = NoReading /\ cmd' = NoCmd /\ UNCHANGED files
  BY DEF Restart
<1>2. /\ Scratch' = Semantics!NoScratch /\ Asked' = Semantics!NoAsk
      /\ readout' = Semantics!NoReadout
  BY <1>1, EndIs, NothingIs
<1>3. Semantics!NewProcess
  BY <1>1, <1>2
     DEF Semantics!NewProcess, Semantics!Nothing, Semantics!NoScratch, Semantics!NoAsk,
         Semantics!NoReadout, Scratch, Asked
<1> QED BY <1>3 DEF Semantics!AbsNext

\* An answer is given.
LEMMA NextLineIsGiven ==
    ASSUME WInv, NextLine
    PROVE  Semantics!AbsNext
<1>1. /\ cmd = NoCmd /\ UNCHANGED cmd /\ UNCHANGED snaps /\ UNCHANGED files
      /\ readout' = NoReading
  BY DEF NextLine, WInv, CommandInv
<1>2. UNCHANGED Scratch /\ UNCHANGED Asked /\ readout' = Semantics!NoReadout
  BY <1>1, NoCmdIs, CommandIs, NextCommandIs, NothingIs
<1>3. Semantics!Given
  BY <1>1, <1>2 DEF Semantics!Given, Scratch, Asked
<1> QED BY <1>3 DEF Semantics!AbsNext

\* Every step of the worker is a step of SnapshotSemantics, or none.
LEMMA StepIsStateless ==
    ASSUME WInv, [Next]_vars
    PROVE  [Semantics!AbsNext]_Image
<1>1. CASE CreateFrozen
  BY <1>1, FreezeIsCapture
<1>2. CASE StartBranches
  BY <1>2, StartIsTake
<1>3. CASE Ride
  <2>1. PICK full \in Prompts, max \in 1..MaxRide :
            \/ \E id \in Ids : RideSnapshot(id, full, max)
            \/ \E break \in 0..Context :
                  \/ RideSplit(full, break, max)
                  \/ RideReference(full, break, max)
                  \/ \E mode \in Modes \ {"snapshot"} : RideBreakRefused(mode, full, break)
    BY <1>3 DEF Ride
  <2>2. CASE \E id \in Ids : RideSnapshot(id, full, max)
    BY <2>2, RideIsRideFrom
  <2>3. ASSUME NEW break \in 0..Context,
               RideSplit(full, break, max) \/ RideReference(full, break, max)
        PROVE  Semantics!AbsNext
    BY <2>3, RideIsRideBaseline
  <2>4. ASSUME NEW break \in 0..Context, NEW mode, RideBreakRefused(mode, full, break)
        PROVE  UNCHANGED Image
    BY <2>4, RefusalIsNothing
  <2> QED BY <2>1, <2>2, <2>3, <2>4
<1>4. ASSUME NEW id \in Ids, NEW new \in Ids, Promote(id, new)
      PROVE  Semantics!AbsNext
  BY <1>4, PromoteIsFinish
<1>5. ASSUME NEW id \in Ids, Drop(id) \/ Save(id) \/ \E file \in files : Load(id, file)
      PROVE  [Semantics!AbsNext]_Image
  BY <1>5, RegistrySteps
<1>6. ASSUME NEW full \in Prompts, Reference(full)
      PROVE  [Semantics!AbsNext]_Image
  BY <1>6, ReferenceIsBaseline
<1>7. CASE RunBranch
  BY <1>7, RunIsBranch
<1>8. CASE BranchFails
  BY <1>8, FailureIsBranch
<1>9. CASE BranchesEnd \/ ExportFails
  BY <1>9, EndIsAnswered
<1>10. CASE RideEnds \/ RideFails
  BY <1>10, RideIsStopped
<1>11. CASE NextLine
  BY <1>11, NextLineIsGiven
<1>12. ASSUME NEW token \in Tokens, RideToken(token)
       PROVE  Semantics!AbsNext
  BY <1>12, TokenIsRideOn
<1>13. CASE InferenceFails \/ Refused
  BY <1>13, RefusalIsNothing
<1>14. CASE Restart
  BY <1>14, RestartIsNewProcess
<1>15. CASE UNCHANGED vars
  <2>1. /\ snaps' = snaps /\ lower' = lower /\ upper' = upper /\ stock' = stock
        /\ files' = files /\ cmd' = cmd /\ readout' = readout
    BY <1>15 DEF vars, contexts
  <2>2. UNCHANGED Scratch /\ UNCHANGED Asked
    BY <2>1 DEF Scratch, Asked
  <2> QED BY <2>1, <2>2 DEF Image
<1> QED BY <1>1, <1>2, <1>3, <1>4, <1>5, <1>6, <1>7, <1>8, <1>9, <1>10, <1>11, <1>12, <1>13,
           <1>14, <1>15 DEF Next, Takes, Runs

\* And so is its start.
LEMMA StartIsStateless == Init => Semantics!AbsInit
<1> SUFFICES ASSUME Init PROVE Semantics!AbsInit
  OBVIOUS
<1>1. snaps = [x \in {} |-> {}] /\ cmd = NoCmd /\ readout = NoReading
  BY DEF Init
<1>2. /\ Scratch = Semantics!NoScratch /\ Asked = Semantics!NoAsk
      /\ readout = Semantics!NoReadout
  BY <1>1, NoCmdIs, CommandIs, NothingIs
<1> QED BY <1>1, <1>2 DEF Semantics!AbsInit, Semantics!Nothing, Scratch, Asked

\* The worker computes what a worker with no contexts at all would: which
\* parent is resident, and what failed before, change no snapshot and no
\* readout.  Each readout of a branch is its question's over the parent's own
\* blobs, saved or not; each of a ride continues its scratch; each of a baseline
\* is its prompt's, run from nothing.
THEOREM WorkerIsStateless == Spec => IsStateless
<1>1. Init => Semantics!AbsInit
  BY StartIsStateless
<1>2. WInv /\ [Next]_vars => [Semantics!AbsNext]_Image
  BY StepIsStateless
<1>3. Spec => []WInv
  BY SnapshotWorkerInvariantHolds
<1> QED BY <1>1, <1>2, <1>3, PTL DEF Spec, IsStateless, Semantics!AbsSpec, Image, Scratch, Asked

----------------------------------------------------------------------------
(* What the worker answers with, and what the backend makes of it.         *)

\* The fields of a row.
LEMMA RowIs ==
    ASSUME NEW id, NEW s
    PROVE  LET row == Row(id, s) IN
           /\ row.snapshot_id = id /\ row.completed_blocks = s.blocks /\ row.parent = s.parent
           /\ row.tokens = Len(s.tokens) /\ row.kind = s.kind
           /\ row.lower_kv = (IF s.owned THEN Len(s.lower) ELSE 0)
           /\ row.upper_kv = Len(s.upper) /\ row.h18 = Len(s.h18)
           /\ row.h30 = (IF s.blocks = 30 THEN Len(s.tokens) ELSE 0)
  BY DEF Row

\* A snapshot's row is a valid one, whatever made the snapshot.
LEMMA RowIsValid ==
    ASSUME NEW id \in Ids, NEW s, Shape(s)
    PROVE  ValidRow(Row(id, s))
<1>1. /\ s.blocks \in {18, 30} /\ s.kind \in Kinds /\ s.parent \in Ids \cup {None}
      /\ s.owned \in BOOLEAN /\ Len(s.tokens) \in Nat /\ Len(s.tokens) >= 1
      /\ Len(s.lower) = Len(s.tokens)
      /\ Len(s.upper) = (IF s.blocks = 30 THEN Len(s.tokens) ELSE 0)
      /\ Len(s.h18) \in {0, Len(s.tokens)}
  BY ShapeIs DEF Shape
<1> DEFINE row == Row(id, s)
<1>2. /\ row.snapshot_id = id /\ row.completed_blocks = s.blocks /\ row.parent = s.parent
      /\ row.tokens = Len(s.tokens) /\ row.kind = s.kind
      /\ row.lower_kv = (IF s.owned THEN Len(s.lower) ELSE 0)
      /\ row.upper_kv = Len(s.upper) /\ row.h18 = Len(s.h18)
      /\ row.h30 = (IF s.blocks = 30 THEN Len(s.tokens) ELSE 0)
  BY RowIs
<1> HIDE DEF row
<1>3. row.lower_kv >= 0 /\ row.upper_kv >= 0 /\ row.h18 >= 0 /\ row.h30 >= 0
  BY <1>1, <1>2
<1>4. row.completed_blocks = 18 => row.upper_kv = 0 /\ row.h30 = 0
  BY <1>1, <1>2
<1>5. ValidRow(row)
  BY <1>1, <1>2, <1>3, <1>4 DEF ValidRow
<1> QED BY <1>5 DEF row

\* The worker's labels are as many tokens, no two the same.
LEMMA HelloIsValid == ValidHello(Hello)
<1> DEFINE f == [k \in 1..Alphabet |-> k]
<1>1. Alphabet \in 2..255 /\ Alphabet \in Nat
  BY MessagesAssumption
<1>2. /\ Hello.labels = f /\ Hello.label_token_ids = f /\ Hello.n_layer = 30
      /\ Hello.split_block = 18 /\ Hello.context_size = Context /\ Hello.batch_size = Batch
      /\ Hello.n_embd = Width
  BY DEF Hello
<1>3. Context >= 1 /\ Batch >= 1 /\ Width >= 1
  BY MessagesAssumption, ContextAssumption, BatchAssumption
<1>4. f = [k \in 1..Alphabet |-> f[k]] /\ \A k \in 1..Alphabet : f[k] = k
  OBVIOUS
<1> HIDE DEF f
<1>5. Len(f) = Alphabet
  BY <1>1, <1>4, MakeSeq
<1>6. Distinct(f)
  BY <1>4, <1>5 DEF Distinct
<1> QED BY <1>1, <1>2, <1>3, <1>5, <1>6 DEF ValidHello

\* A question's label tokens are as many as its labels.
LEMMA LabelTokensAre ==
    ASSUME NEW labels \in Labels
    PROVE  /\ Len(LabelTokens(labels)) = labels /\ labels \in 2..255
           /\ Len([k \in 1..labels |-> k]) = labels
<1> DEFINE f == [k \in 1..Alphabet |-> k]
           g == [k \in 1..labels |-> k]
<1>1. Alphabet \in 2..255 /\ labels \in 2..Alphabet /\ Alphabet \in Nat /\ labels \in Nat
  BY MessagesAssumption
<1>2. f = [k \in 1..Alphabet |-> f[k]] /\ g = [k \in 1..labels |-> g[k]]
      /\ \A k \in 1..Alphabet : f[k] \in Nat
  BY <1>1
<1>3. LabelTokens(labels) = SubSeq(f, 1, labels)
  BY DEF LabelTokens, Hello
<1> HIDE DEF f, g
<1>4. Len(f) = Alphabet /\ Len(g) = labels /\ f \in Seq(Nat)
  BY <1>1, <1>2, MakeSeq
<1>5. Len(SubSeq(f, 1, labels)) = labels
  BY <1>1, <1>4
<1> QED BY <1>1, <1>3, <1>4, <1>5 DEF g

LEMMA ReadoutIsValid ==
    ASSUME NEW labels \in Labels
    PROVE  ValidReadout(Readout(labels))
  BY LabelTokensAre DEF ValidReadout, Readout

\* A freeze publishes a pair of one prefix, of which the 30 owns no boundary.
LEMMA CreatedIsValid ==
    ASSUME NEW kind \in Kinds, NEW t \in Seq(Tokens), Len(t) \in 1..Context,
           NEW id18 \in Ids \cup {None}, NEW id30 \in Ids \cup {None},
           {id18, id30} # {None},
           NEW labels \in {0} \cup Labels, labels # 0 => id30 # None
    PROVE  Created(kind, t, id18, id30, labels)
<1> DEFINE m == CreatedMessage(kind, t, id18, id30, labels)
           r18 == Row(id18, Captured18(kind, t))
           r30 == Row(id30, Captured30(kind, t, id18))
<1>1. /\ m.type = "created" /\ m.tokens = Len(t)
      /\ m.readout = (IF labels = 0 THEN {} ELSE {Readout(labels)})
      /\ m.lower = Len(t) /\ m.upper = (IF id30 = None THEN 0 ELSE Len(t))
      /\ m.snapshots = {Row(id, Captured18(kind, t)) : id \in {id18} \ {None}}
                          \cup {Row(id, Captured30(kind, t, id18)) : id \in {id30} \ {None}}
  BY DEF CreatedMessage
<1>2. /\ \A r \in m.snapshots : (r = r18 /\ id18 # None) \/ (r = r30 /\ id30 # None)
      /\ id18 # None => r18 \in m.snapshots
      /\ id30 # None => r30 \in m.snapshots
      /\ id18 # None \/ id30 # None
  BY <1>1
<1>3. /\ Captured18(kind, t).tokens = t /\ Captured18(kind, t).blocks = 18
      /\ Captured30(kind, t, id18).tokens = t /\ Captured30(kind, t, id18).blocks = 30
      /\ Captured30(kind, t, id18).parent = id18
      /\ id18 # None => Captured30(kind, t, id18).h18 = <<>>
  <2>1. Captured18(kind, t).tokens = t /\ Captured18(kind, t).blocks = 18
    BY DEF Captured18
  <2> QED BY <2>1, CapturedFields DEF Captured18, Captured30
<1>4. /\ id18 # None => ValidRow(r18) /\ r18.tokens = Len(t) /\ r18.completed_blocks = 18
      /\ id30 # None => ValidRow(r30) /\ r30.tokens = Len(t) /\ r30.completed_blocks = 30
      /\ id30 # None /\ id18 # None => r30.parent # None /\ r30.h18 = 0
  BY <1>3, Captured, RowIsValid, RowIs, EmptySeq, NoneAssumption
<1>5. Len(t) \in Nat /\ Len(t) >= 1
  BY LenProperties
<1> HIDE DEF m, r18, r30
<1>6. /\ m.tokens >= 1 /\ m.snapshots # {} /\ m.lower >= 0 /\ m.upper >= 0
  BY <1>1, <1>2, <1>5
<1>7. \A r \in m.snapshots : ValidRow(r) /\ r.tokens = m.tokens
  BY <1>1, <1>2, <1>4
<1>a. ASSUME NEW r \in m.snapshots, NEW s \in m.snapshots
      PROVE  /\ r.completed_blocks = s.completed_blocks => r = s
             /\ (r.completed_blocks = 30 /\ s.completed_blocks = 18) =>
                   r.parent # None /\ r.h18 = 0
  BY <1>2, <1>4
<1>b. m.readout # {} => \E r \in m.snapshots : r.completed_blocks = 30
  BY <1>1, <1>2, <1>4
<1>c. \A r \in m.readout : ValidReadout(r)
  <2>1. CASE labels = 0
    BY <1>1, <2>1
  <2>2. CASE labels # 0
    BY <1>1, <2>2, ReadoutIsValid
  <2> QED BY <2>1, <2>2
<1>8. Believes("create", m)
  BY <1>1, <1>6, <1>7, <1>a, <1>b, <1>c DEF Believes, ValidCreated
<1>9. /\ id18 # None => r18.snapshot_id = id18
      /\ id30 # None => r30.snapshot_id = id30
  BY RowIs DEF r18, r30
<1>d. {r.snapshot_id : r \in m.snapshots} = {id18, id30} \ {None}
  BY <1>2, <1>9
<1> QED BY <1>8, <1>d DEF m, Created, TakesCreated

LEMMA CreationsWell ==
    ASSUME WInv
    PROVE  CreationsAreBelieved
<1> SUFFICES ASSUME NEW full \in Prompts, NEW head \in Prompts,
                    NEW id18 \in (Ids \ DOMAIN snaps) \cup {None},
                    NEW id30 \in (Ids \ DOMAIN snaps) \cup {None},
                    Len(full) <= Context, {id18, id30} # {None}
             PROVE  /\ \A labels \in {0} \cup (IF id30 = None THEN {} ELSE Labels) :
                          Created("readout", full, id18, id30, labels)
                    /\ CommonPrefix(head, full) >= 1 =>
                          Created("context", Upto(full, CommonPrefix(head, full)), id18, id30, 0)
  BY DEF CreationsAreBelieved
<1> DEFINE n == CommonPrefix(head, full)
<1>1. /\ full \in Seq(Tokens) /\ Len(full) \in 1..Context /\ Len(full) \in Nat
      /\ Context \in Nat /\ n \in 0..(Len(full) - 1)
  BY PromptIs, CommonPrefixIs, ContextAssumption
<1>2. "readout" \in Kinds /\ "context" \in Kinds
  BY DEF Kinds
<1> HIDE DEF n
<1>3. ASSUME n >= 1
      PROVE  Created("context", Upto(full, n), id18, id30, 0)
  <2>1. n \in 0..Len(full) /\ n \in 1..Context /\ n \in Nat
    BY <1>1, <1>3
  <2>2. Upto(full, n) \in Seq(Tokens) /\ Len(Upto(full, n)) \in 1..Context
    BY <1>1, <2>1, UptoTokens, UptoFacts
  <2> QED BY <1>2, <2>2, CreatedIsValid
<1>4. ASSUME NEW labels \in {0} \cup (IF id30 = None THEN {} ELSE Labels)
      PROVE  Created("readout", full, id18, id30, labels)
  <2>1. labels \in {0} \cup Labels /\ (labels # 0 => id30 # None)
    BY <1>4
  <2> QED BY <1>1, <1>2, <2>1, CreatedIsValid
<1> QED BY <1>3, <1>4 DEF n

LEMMA PromotionsWell ==
    ASSUME WInv
    PROVE  PromotionsAreBelieved
<1> SUFFICES ASSUME NEW id \in DOMAIN snaps, NEW new \in Ids \ DOMAIN snaps, Promotable(id)
             PROVE  /\ Believes("promote", PromotedMessage(id, new))
                    /\ TakesPromoted(PromotedMessage(id, new), new)
  BY DEF PromotionsAreBelieved
<1> DEFINE s == snaps[id]
           p == Promoted(id, s)
           m == PromotedMessage(id, new)
<1>1. id \in Ids /\ Shape(s) /\ Exact(s) /\ s.blocks = 18 /\ Len(s.tokens) \in Nat
  BY ShapeIs DEF WInv, SnapshotsInv, Promotable
<1>2. Shape(p) /\ p.blocks = 30
  BY <1>1, PromotedIs
<1>3. p.parent = id
  BY <1>1 DEF Promoted, Shape
<1>4. ValidRow(Row(new, p)) /\ Row(new, p).completed_blocks = 30 /\ Row(new, p).parent # None
  BY <1>1, <1>2, <1>3, RowIsValid, RowIs, NoneAssumption
<1>5. m.type = "promoted" /\ m.snapshot = Row(new, p) /\ m.lower = 0 /\ m.upper = Len(s.tokens)
  BY DEF PromotedMessage
<1> HIDE DEF m, p, s
<1>6. Believes("promote", m)
  BY <1>1, <1>4, <1>5 DEF Believes, ValidPromoted
<1>7. TakesPromoted(m, new)
  BY <1>5, RowIs DEF TakesPromoted
<1> QED BY <1>6, <1>7 DEF m

\* What make_resident() copied back.
LEMMA RestoredIs ==
    ASSUME NEW id, Len(snaps[id].lower) \in Nat, Len(snaps[id].upper) \in Nat
    PROVE  Restored(id) \in Nat
<1> DEFINE l == Len(snaps[id].lower)
           u == Len(snaps[id].upper)
           r == Restored(id)
<1>1. r = 0 \/ r = l + u
  BY DEF Restored
<1> HIDE DEF l, u, r
<1>2. l \in Nat /\ u \in Nat
  BY DEF l, u
<1>3. r \in Nat
  BY <1>1, <1>2
<1> QED BY <1>3 DEF r

\* A branch runs at least a token, and what it saves is a valid 30.
LEMMA AccountingIsValid ==
    ASSUME SnapshotsInv, ContextsInv, ~RidesSnapshot, NEW id, NEW q \in Ask,
           BranchError(snaps, id, q.full, q.save) = "none"
    PROVE  /\ ValidBranch(Accounting(id, q)) /\ Accounting(id, q).suffix_tokens = Suffix(id, q.full)
           /\ Suffix(id, q.full) \in Nat \ {0} /\ Len(snaps[id].tokens) \in Nat \ {0}
           /\ Len(q.full) = Len(snaps[id].tokens) + Suffix(id, q.full)
           /\ Accounting(id, q).parent = id /\ Keeps(Accounting(id, q).child, q)
           /\ Saves(q) \subseteq Ids
<1> DEFINE s == snaps[id]
           b == Accounting(id, q)
           k == Suffix(id, q.full)
           low == BranchLower(id, q.full)
           up == BranchUpper(id, q.full)
<1>1. /\ q.full \in Prompts /\ q.save \in Ids \cup {None}
      /\ id \in DOMAIN snaps /\ id \in Ids /\ s.blocks = 30 /\ Shape(s)
      /\ Len(q.full) \in Nat /\ Extends(q.full, s.tokens)
      /\ Shape(Child(id, s, q.full, FreshLow(s, q.full), FreshUp(s, q.full)))
  BY AskIs, BranchFits
<1>2. /\ Len(s.tokens) \in Nat \ {0} /\ Len(s.lower) \in Nat /\ Len(s.upper) \in Nat
      /\ k = Len(q.full) - Len(s.tokens) /\ k \in Nat \ {0}
      /\ Len(q.full) = Len(s.tokens) + k
  BY <1>1, ShapeIs DEF Extends, Suffix
<1>3. low = FreshLow(s, q.full) /\ up = FreshUp(s, q.full)
  BY <1>1, BranchFromBlobs
<1>4. /\ b.parent = id /\ b.suffix_tokens = k /\ b.lower = k /\ b.upper = k
      /\ b.restore = (IF Restored(id) = 0 THEN "resident" ELSE "host")
      /\ b.restored_bytes = Restored(id)
      /\ b.child = {Row(save, Child(id, s, q.full, low, up)) : save \in Saves(q)}
  BY DEF Accounting
<1>5. Saves(q) \subseteq Ids
  BY <1>1 DEF Saves
<1>6. ASSUME NEW row \in b.child PROVE ValidRow(row) /\ row.completed_blocks = 30
  <2>1. PICK save \in Saves(q) : row = Row(save, Child(id, s, q.full, low, up))
    BY <1>4, <1>6
  <2>2. Child(id, s, q.full, low, up).blocks = 30
    BY DEF Child
  <2> QED BY <1>1, <1>3, <1>5, <2>1, <2>2, RowIsValid, RowIs
<1>7. Restored(id) \in Nat
  BY <1>2, RestoredIs
<1> HIDE DEF b, k, low, up
<1>8. b.restored_bytes >= 0 /\ (b.restore = "resident" => b.restored_bytes = 0)
  BY <1>4, <1>7
<1>9. ValidBranch(b)
  BY <1>1, <1>2, <1>4, <1>6, <1>8 DEF ValidBranch
<1>10. Keeps(b.child, q)
  <2>1. \A save \in Saves(q) : Row(save, Child(id, s, q.full, low, up)).snapshot_id = save
    BY RowIs
  <2> QED BY <1>4, <2>1 DEF Keeps
<1> QED BY <1>2, <1>4, <1>5, <1>9, <1>10 DEF b, k

LEMMA RidesWell ==
    ASSUME WInv
    PROVE  RidesAreBelieved
<1> SUFFICES ASSUME NEW id \in DOMAIN snaps, NEW full \in Prompts,
                    BranchError(snaps, id, full, None) = "none",
                    NEW g \in 0..MaxRide, NEW eog \in BOOLEAN, NEW traced \in BOOLEAN
             PROVE  /\ Believes("ride", RideMessage(id, full, g, eog, traced))
                    /\ TakesRide(RideMessage(id, full, g, eog, traced), id)
  BY DEF RidesAreBelieved
<1> DEFINE s == snaps[id]
           k == Suffix(id, full)
           m == RideMessage(id, full, g, eog, traced)
<1>1. /\ Shape(s) /\ Len(full) \in Nat /\ Extends(full, s.tokens)
  BY BranchFits DEF WInv
<1>2. /\ Len(s.tokens) \in Nat \ {0} /\ Len(s.lower) \in Nat /\ Len(s.upper) \in Nat
      /\ k \in Nat \ {0} /\ Len(full) = Len(s.tokens) + k
  BY <1>1, ShapeIs DEF Extends, Suffix
<1>3. Restored(id) \in Nat
  BY <1>2, RestoredIs
<1>4. /\ m.type = "ride_result" /\ m.mode = "snapshot" /\ m.execution_mode = "split18-30"
      /\ m.prompt_tokens = Len(full) /\ m.reused_tokens = Len(s.tokens)
      /\ m.prefilled_tokens = k
      /\ m.restore = (IF Restored(id) = 0 THEN "resident" ELSE "host")
      /\ m.restored_bytes = Restored(id)
      /\ m.generated_tokens = g /\ m.token_ids = g
      /\ m.steps = (IF ~traced THEN 0 ELSE IF eog THEN g + 1 ELSE g)
  BY DEF RideMessage
<1>9. g \in Nat
  BY BoundsAssumption
<1> HIDE DEF m, k
<1>5. /\ m.prompt_tokens >= 1 /\ m.reused_tokens >= 0 /\ m.prefilled_tokens >= 1
      /\ m.restored_bytes >= 0 /\ m.prompt_tokens = m.reused_tokens + m.prefilled_tokens
  BY <1>2, <1>3, <1>4
<1>6. m.restore # "none" /\ (m.restore = "resident" => m.restored_bytes = 0)
  BY <1>4
<1>7. Believes("ride", m)
  BY <1>4, <1>5, <1>6, <1>9 DEF Believes, ValidRide
<1>8. TakesRide(m, id)
  BY <1>4, <1>9 DEF TakesRide
<1> QED BY <1>7, <1>8 DEF m

LEMMA SnapshotsWell ==
    ASSUME WInv
    PROVE  SnapshotsAreBelieved
<1> SUFFICES ASSUME NEW id \in DOMAIN snaps
             PROVE  /\ Len(snaps[id].tokens) <= MaxTokenIds =>
                          Believes("inspect", InspectMessage(id))
                    /\ Believes("load", LoadedMessage(id))
                    /\ Believes("save", SavedMessage(id))
                    /\ Believes("drop", DroppedMessage(id))
                    /\ \A which \in DOMAIN Representation :
                          \A begin, end \in 0..RowsOf(snaps[id])[which] :
                             (begin < end /\ end - begin <= MaxRows) =>
                                Believes("vectors", VectorsMessage(snaps[id], which, begin, end))
  BY DEF SnapshotsAreBelieved
<1> DEFINE s == snaps[id]
           row == Row(id, s)
<1>1. id \in Ids /\ Shape(s) /\ Len(s.tokens) \in Nat /\ Len(s.tokens) > 0
      /\ Len(s.lower) \in Nat /\ Len(s.upper) \in Nat /\ Len(s.h18) \in Nat
  BY ShapeIs DEF WInv, SnapshotsInv, Shape
<1>2. ValidRow(row)
  BY <1>1, RowIsValid
<1>3. Believes("load", LoadedMessage(id))
  BY <1>2 DEF Believes, LoadedMessage, ValidLoaded
<1>6. Believes("save", SavedMessage(id))
  BY <1>1 DEF Believes, SavedMessage, ValidSaved, FilesOf
<1>7. ASSUME Len(s.tokens) <= MaxTokenIds
      PROVE  Believes("inspect", InspectMessage(id))
  <2> DEFINE m == InspectMessage(id)
  <2>1. /\ m.type = "snapshot" /\ m.row = row /\ m.token_ids = s.tokens
        /\ m.resident = (resident = id)
        /\ m.holds = {which \in DOMAIN Representation : RowsOf(s)[which] > 0}
    BY DEF InspectMessage
  <2> HIDE DEF m
  <2>2. ValidInspect(m)
    BY <1>2, <1>7, <2>1 DEF ValidInspect
  <2>3. Believes("inspect", m)
    BY <2>1, <2>2 DEF Believes
  <2> QED BY <2>3 DEF m
<1>4. Believes("drop", DroppedMessage(id))
  <2>1. row.lower_kv \in Nat /\ row.upper_kv \in Nat /\ row.h18 \in Nat /\ row.h30 \in Nat
    BY <1>1, RowIs
  <2>2. /\ DroppedMessage(id).type = "dropped" /\ DroppedMessage(id).snapshot_id = id
        /\ DroppedMessage(id).freed_bytes = row.lower_kv + row.upper_kv + row.h18 + row.h30
    BY DEF DroppedMessage
  <2> HIDE DEF row
  <2>3. DroppedMessage(id).freed_bytes >= 0
    BY <2>1, <2>2
  <2> QED BY <1>1, <2>2, <2>3 DEF Believes, ValidDropped
<1>5. ASSUME NEW which \in DOMAIN Representation,
             NEW begin \in 0..RowsOf(s)[which], NEW end \in 0..RowsOf(s)[which],
             begin < end, end - begin <= MaxRows
      PROVE  Believes("vectors", VectorsMessage(s, which, begin, end))
  <2> DEFINE m == VectorsMessage(s, which, begin, end)
  <2>1. which \in {"h18", "h30", "last_normalized"}
    BY DEF Representation
  <2>2. RowsOf(s)[which] \in Nat /\ (which = "last_normalized" => RowsOf(s)[which] <= 1)
    BY <1>1, <2>1 DEF RowsOf
  <2>3. /\ m.type = "vectors" /\ m.which = which /\ m.rows = RowsOf(s)[which]
        /\ m.row_begin = begin /\ m.row_end = end
        /\ m.tensor.shape = (IF end - begin > 1 \/ which # "last_normalized"
                             THEN <<end - begin, Width>> ELSE <<Width>>)
        /\ m.tensor.values = (end - begin) * Width
        /\ m.tensor.representation = Representation[which]
    BY DEF VectorsMessage
  <2> DEFINE n == RowsOf(s)[which]
  <2>a. n \in Nat /\ begin \in 0..n /\ end \in 0..n /\ m.rows = n
    BY <2>2, <2>3
  <2> HIDE DEF n, m
  <2>4. /\ begin \in Nat /\ end \in Nat /\ end <= m.rows /\ begin >= 0
    BY <2>a
  <2> DEFINE t == m.tensor
             d == end - begin
  <2>5. Len(t.shape) \in 1..2 /\ Tall(t) = d /\ Decodes(t)
    <3>1. CASE d > 1 \/ which # "last_normalized"
      <4>1. t.shape = <<d, Width>> /\ t.values = d * Width
        BY <2>3, <3>1
      <4> HIDE DEF t, d
      <4>2. Len(t.shape) = 2 /\ t.shape[1] = d /\ t.shape[2] = Width
        BY <4>1
      <4> QED BY <4>1, <4>2 DEF Tall, Decodes
    <3>2. CASE ~(d > 1 \/ which # "last_normalized")
      <4>1. t.shape = <<Width>> /\ d = 1
        BY <1>5, <2>3, <2>4, <3>2
      <4>2. Len(t.shape) = 1 /\ t.shape[1] = Width
        BY <4>1
      <4>3. t.values = d * Width /\ Width \in Nat
        BY <2>3, MessagesAssumption
      <4> HIDE DEF t, d
      <4>4. t.values = Width
        BY <4>1, <4>3
      <4> QED BY <4>1, <4>2, <4>4 DEF Tall, Decodes
    <3> QED BY <3>1, <3>2
  <2>b. d <= MaxRows /\ d = m.row_end - m.row_begin /\ t.representation = Representation[m.which]
    BY <1>5, <2>3
  <2>6. ValidVectors(m)
    <3> HIDE DEF t, d
    <3>1. ValidTensor(t)
      BY <2>5, <2>b DEF ValidTensor
    <3>2. /\ m.row_begin >= 0 /\ m.row_begin < m.row_end /\ m.row_end <= m.rows
          /\ m.tensor = t
      BY <1>5, <2>3, <2>4 DEF t
    <3> QED BY <2>5, <2>b, <3>1, <3>2 DEF ValidVectors
  <2>7. Believes("vectors", m)
    BY <2>3, <2>6 DEF Believes
  <2> QED BY <2>7 DEF m
<1> HIDE DEF row
<1> QED BY <1>3, <1>4, <1>5, <1>6, <1>7

LEMMA BranchesWell ==
    ASSUME WInv
    PROVE  BranchesAreBelieved
<1> DEFINE q == Head(cmd.asks)
           id == cmd.target
<1> SUFFICES ASSUME cmd.asks # <<>>
             PROVE  /\ cmd.op = "evaluate" => \A labels \in Labels :
                          LET m == QuestionMessage(id, q, labels) IN
                          /\ Believes("evaluate", m) /\ TakesResult(m, id, q, labels)
                          /\ ValidUsage(Usage(id, m), m)
                    /\ cmd.op = "state_eval" => \A export \in SUBSET DOMAIN Exported :
                          LET m == StateMessage(id, q, export) IN
                          Believes("state_eval", m) /\ TakesState(m, q, export)
  BY DEF BranchesAreBelieved
<1> DEFINE b == Accounting(id, q)
           k == Suffix(id, q.full)
           n == Len(snaps[id].tokens)
<1>1. ASSUME cmd.op \in {"evaluate", "state_eval"}
      PROVE  /\ ValidBranch(b) /\ b.suffix_tokens = k
             /\ k \in Nat \ {0} /\ n \in Nat \ {0} /\ Len(q.full) = n + k
             /\ b.parent = id /\ Keeps(b.child, q) /\ Saves(q) \subseteq Ids
  <2>1. /\ q \in Ask /\ BranchError(snaps, id, q.full, q.save) = "none" /\ ~RidesSnapshot
    BY <1>1, NextAsk
  <2> QED BY <2>1, AccountingIsValid DEF WInv
<1> HIDE DEF b, k, n
<1>2. ASSUME cmd.op = "evaluate", NEW labels \in Labels
      PROVE  LET m == QuestionMessage(id, q, labels) IN
             /\ Believes("evaluate", m) /\ TakesResult(m, id, q, labels)
             /\ ValidUsage(Usage(id, m), m)
  <2> DEFINE m == QuestionMessage(id, q, labels)
  <2>1. /\ m.type = "result" /\ m.label_logits = [i \in 1..labels |-> i]
        /\ m.label_token_ids = LabelTokens(labels)
        /\ m.prompt_tokens = Len(q.full) /\ m.processed_tokens = k /\ m.reused_tokens = n
        /\ m.cache_cleared = FALSE /\ m.evaluation_mode = "sequential"
        /\ m.batch_sequences = 1 /\ m.snapshot = b
    BY DEF QuestionMessage, b, k, n
  <2>2. Len(m.label_logits) = labels /\ Len(m.label_token_ids) = labels /\ labels \in 2..255
    BY <2>1, LabelTokensAre
  <2> HIDE DEF m
  <2>a. m.cache_cleared = (m.reused_tokens = 0)
    <3>1. ~(m.reused_tokens = 0) /\ m.cache_cleared = FALSE
      BY <1>1, <1>2, <2>1
    <3> QED BY <3>1
  <2>b. /\ m.prompt_tokens >= 1 /\ m.processed_tokens >= 1 /\ m.reused_tokens >= 0
        /\ m.batch_sequences \in 1..32
        /\ m.processed_tokens + m.reused_tokens = m.prompt_tokens
    BY <1>1, <1>2, <2>1
  <2>3. ValidQuestion(m)
    BY <2>1, <2>2, <2>a, <2>b DEF ValidQuestion
  <2>4. Believes("evaluate", m)
    BY <1>1, <1>2, <2>1, <2>3 DEF Believes, ValidResult
  <2>5. TakesResult(m, id, q, labels)
    BY <1>1, <1>2, <2>1, <2>2 DEF TakesResult, LabelTokens
  <2>6. ValidUsage(Usage(id, m), m)
    <3> DEFINE u == Usage(id, m)
    <3>1. /\ u.suffix_tokens = b.suffix_tokens /\ u.lower = b.lower /\ u.upper = b.upper
          /\ u.reused_prefix_tokens = n /\ u.restored_bytes = b.restored_bytes
          /\ u.child = {row.snapshot_id : row \in b.child}
      BY <2>1 DEF Usage, n
    <3> HIDE DEF u
    <3>2. u.child \subseteq Ids
      BY <1>1, <1>2, <3>1 DEF Keeps
    <3>3. u.suffix_tokens + u.reused_prefix_tokens = m.prompt_tokens
      BY <1>1, <1>2, <2>1, <3>1
    <3>4. /\ u.suffix_tokens >= 1 /\ u.lower >= 0 /\ u.upper >= 0
          /\ u.reused_prefix_tokens >= 0 /\ u.restored_bytes >= 0
      BY <1>1, <1>2, <3>1 DEF ValidBranch
    <3>5. ValidUsage(u, m)
      BY <3>2, <3>3, <3>4 DEF ValidUsage
    <3> QED BY <3>5 DEF u
  <2> QED BY <2>4, <2>5, <2>6 DEF m
<1>3. ASSUME cmd.op = "state_eval", NEW export \in SUBSET DOMAIN Exported
      PROVE  LET m == StateMessage(id, q, export) IN
             Believes("state_eval", m) /\ TakesState(m, q, export)
  <2> DEFINE m == StateMessage(id, q, export)
  <2>1. /\ m.type = "state" /\ m.prompt_tokens = Len(q.full) /\ m.branch = b
        /\ m.vectors = [v \in export |->
              [shape |-> <<Width>>, representation |-> Representation[Exported[v]],
               values |-> Width]]
    BY DEF StateMessage, b
  <2> HIDE DEF m
  <2>2. ASSUME NEW kind \in DOMAIN m.vectors
        PROVE  /\ ValidArtifact(m.vectors[kind]) /\ kind \in export
               /\ m.vectors[kind].representation = Representation[Exported[kind]]
    <3> DEFINE a == m.vectors[kind]
    <3>1. /\ a.shape = <<Width>> /\ a.representation = Representation[Exported[kind]]
          /\ a.values = Width /\ kind \in export
      BY <2>1, <2>2
    <3> HIDE DEF a
    <3>2. Len(a.shape) = 1 /\ a.shape[1] = Width
      BY <3>1
    <3>3. Width \in Nat \ {0} /\ MaxRows \in Nat \ {0}
      BY MessagesAssumption
    <3>4. ValidArtifact(a)
      BY <3>1, <3>2, <3>3 DEF ValidArtifact, Tall, Decodes
    <3> QED BY <3>1, <3>4 DEF a
  <2>3. m.prompt_tokens >= 1
    BY <1>1, <1>3, <2>1
  <2>4. Believes("state_eval", m)
    BY <1>1, <1>3, <2>1, <2>2, <2>3 DEF Believes, ValidState
  <2>5. TakesState(m, q, export)
    BY <1>1, <1>3, <2>1, <2>2 DEF TakesState
  <2> QED BY <2>4, <2>5 DEF m
<1> QED BY <1>2, <1>3

\* What save() wrote, load() takes.
LEMMA FilesWell ==
    ASSUME WInv
    PROVE  FilesAreLoadable
<1> SUFFICES ASSUME NEW f \in files, f.batch = Batch
             PROVE  Loadable(f)
  BY DEF FilesAreLoadable
<1> DEFINE s == f.snap
<1>1. Shape(s) /\ Exact(s) /\ Len(s.tokens) \in Nat /\ Len(s.tokens) > 0
  BY ShapeIs DEF WInv, SnapshotsInv
<1> HIDE DEF s
<1>2. /\ s.blocks \in {18, 30} /\ s.kind \in Kinds /\ Len(s.tokens) \in 1..Context
      /\ Len(s.lower) = Len(s.tokens) /\ Len(s.h18) \in {0, Len(s.tokens)}
      /\ Len(s.upper) = (IF s.blocks = 30 THEN Len(s.tokens) ELSE 0)
      /\ IsSeq(s.h18) /\ IsSeq(s.upper)
  BY <1>1 DEF Shape
<1>3. s.lower # <<>> /\ (s.blocks = 30 => s.upper # <<>>)
  BY <1>1, <1>2
<1>4. (s.blocks = 18 => s.upper = <<>>) /\ (s.h18 # <<>> => Len(s.h18) = Len(s.tokens))
  BY <1>2, EmptySeq
<1>5. s.blocks = 18 => s.h18 # <<>>
  BY <1>1 DEF Exact
<1>6. Complete(s)
  BY <1>2, <1>3, <1>4, <1>5 DEF Complete
<1> QED BY <1>6 DEF Loadable, s

LEMMA InvIsBelieved == WInv => RepliesAreBelieved
  BY HelloIsValid, FilesWell, CreationsWell, PromotionsWell, RidesWell, SnapshotsWell,
     BranchesWell DEF RepliesAreBelieved

\* The backend believes every answer of the worker: what passed its preflight
\* is answered with a message that passes the schema of its command, for any
\* prompts, labels and slices, after any commands and failures.
THEOREM RepliesAlwaysBelieved == Spec => []RepliesAreBelieved
  BY SnapshotWorkerInvariantHolds, InvIsBelieved, PTL

=============================================================================

-------------------------- MODULE LabelWorkerProofs -------------------------
(* Proofs about the v1 worker, for any vocabulary, prompts, context and    *)
(* decode size: a sequential answer is the one its question gets alone, a  *)
(* batched one attends to its own prompt, and the cells are accounted for. *)
EXTENDS LabelAnswers, SequenceTheorems, FiniteSetTheorems, TLAPS

IsSeq(s) == s \in Seq({s[i] : i \in DOMAIN s})

----------------------------------------------------------------------------
(* The inductive invariant.                                                *)

Shapes ==
    /\ IsSeq(asked) /\ IsSeq(results) /\ IsSeq(memory) /\ IsSeq(cached)
    /\ \A i \in 1..Len(asked) : Len(asked[i].tokens) <= Context

\* The context begins with the cached prefix, run in decodes of its own.
CachedInv ==
    /\ Len(cached) <= Len(memory)
    /\ Upto(memory, Len(cached)) = Decode(<<>>, Inputs(cached, 0, Len(cached), {1}))
    /\ ~Sequential => cached = <<>>

\* A request is answered in one mode.
ModesInv ==
    \A i \in 1..Len(results) :
        results[i].mode = IF Sequential THEN "sequential" ELSE "batched"

LabelInv ==
    /\ TypeOK /\ Shapes /\ CachedInv /\ ModesInv
    /\ AnswersAreAlone /\ AnswersAreTheirOwn /\ WorkIsMeasured /\ CellsFit

----------------------------------------------------------------------------
(* Sequences.                                                              *)

\* A sequence over some set, without the set.
LEMMA SeqIs ==
    ASSUME NEW S, NEW s \in Seq(S)
    PROVE  /\ IsSeq(s) /\ Len(s) \in Nat /\ DOMAIN s = 1..Len(s)
           /\ s = [i \in 1..Len(s) |-> s[i]]
<1>1. Len(s) \in Nat /\ DOMAIN s = 1..Len(s) /\ s \in [1..Len(s) -> S]
  BY LenProperties
<1>2. s = [i \in 1..Len(s) |-> s[i]]
  BY <1>1
<1>3. s \in [1..Len(s) -> {s[i] : i \in 1..Len(s)}]
  BY <1>2
<1>4. s \in Seq({s[i] : i \in 1..Len(s)})
  BY <1>1, <1>3, SeqDef
<1> QED BY <1>1, <1>2, <1>4 DEF IsSeq

LEMMA SeqFacts ==
    ASSUME NEW s, IsSeq(s)
    PROVE  /\ Len(s) \in Nat /\ DOMAIN s = 1..Len(s)
           /\ s = [i \in 1..Len(s) |-> s[i]]
  BY SeqIs DEF IsSeq

\* A function on 1..n is a sequence of n elements.
LEMMA MakeSeq ==
    ASSUME NEW n \in Nat, NEW f, f = [i \in 1..n |-> f[i]]
    PROVE  IsSeq(f) /\ Len(f) = n
<1>1. DOMAIN f = 1..n
  OBVIOUS
<1>2. f \in [1..n -> {f[i] : i \in 1..n}]
  BY <1>1
<1>3. f \in Seq({f[i] : i \in 1..n})
  BY <1>2, SeqDef
<1> QED BY <1>1, <1>3, LenProperties DEF IsSeq

\* Sequences of one length with the same elements are the same.
LEMMA SameSeq ==
    ASSUME NEW s, IsSeq(s), NEW t, IsSeq(t), Len(s) = Len(t),
           \A i \in 1..Len(s) : s[i] = t[i]
    PROVE  s = t
<1>1. s = [i \in 1..Len(s) |-> s[i]] /\ t = [i \in 1..Len(s) |-> t[i]]
  BY SeqFacts
<1> QED BY <1>1

\* What a concatenation is, element by element.
LEMMA Joined ==
    ASSUME NEW s, IsSeq(s), NEW t, IsSeq(t)
    PROVE  /\ IsSeq(s \o t) /\ Len(s \o t) = Len(s) + Len(t)
           /\ \A i \in 1..Len(s) : (s \o t)[i] = s[i]
           /\ \A i \in 1..Len(t) : (s \o t)[Len(s) + i] = t[i]
<1> DEFINE S == {s[i] : i \in DOMAIN s} \cup {t[i] : i \in DOMAIN t}
<1>1. s \in Seq(S) /\ t \in Seq(S)
  <2>1. {s[i] : i \in DOMAIN s} \subseteq S /\ {t[i] : i \in DOMAIN t} \subseteq S
    OBVIOUS
  <2> HIDE DEF S
  <2> QED BY <2>1, SeqMonotonic DEF IsSeq
<1> HIDE DEF S
<1>2. s \o t \in Seq(S) /\ Len(s \o t) = Len(s) + Len(t)
  BY <1>1, ConcatProperties
<1>3. \A i \in 1..Len(s) : (s \o t)[i] = s[i]
  BY <1>1, ConcatProperties, LenProperties
<1>4. \A i \in 1..Len(t) : (s \o t)[Len(s) + i] = t[i]
  <2> SUFFICES ASSUME NEW i \in 1..Len(t) PROVE (s \o t)[Len(s) + i] = t[i]
    OBVIOUS
  <2>1. Len(s) \in Nat /\ Len(t) \in Nat
    BY <1>1, LenProperties
  <2>2. Len(s) + i \in 1..(Len(s) + Len(t)) /\ ~(Len(s) + i <= Len(s)) /\ Len(s) + i - Len(s) = i
    BY <2>1
  <2> QED BY <1>1, <2>2, ConcatProperties
<1> QED BY <1>2, <1>3, <1>4, SeqIs

\* A part of a sequence; a part past its end has a length all the same.
LEMMA Part ==
    ASSUME NEW s, NEW m \in Nat, NEW n \in Nat
    PROVE  /\ IsSeq(SubSeq(s, m + 1, m + n)) /\ Len(SubSeq(s, m + 1, m + n)) = n
           /\ \A i \in 1..n : SubSeq(s, m + 1, m + n)[i] = s[m + i]
<1> DEFINE p == SubSeq(s, m + 1, m + n)
<1>1. p = [i \in 1..n |-> s[i + (m + 1) - 1]]
  OBVIOUS
<1>2. \A i \in 1..n : p[i] = s[m + i]
  BY <1>1
<1>3. p = [i \in 1..n |-> p[i]]
  BY <1>1
<1> HIDE DEF p
<1>4. IsSeq(p) /\ Len(p) = n
  BY <1>3, MakeSeq
<1> QED BY <1>2, <1>4 DEF p

\* The first n of a sequence, even of fewer.
LEMMA UptoFacts ==
    ASSUME NEW s, NEW n \in Nat
    PROVE  /\ IsSeq(Upto(s, n)) /\ Len(Upto(s, n)) = n
           /\ \A i \in 1..n : Upto(s, n)[i] = s[i]
  BY Part, 0 + 1 = 1, 0 + n = n DEF Upto

LEMMA UptoAll ==
    ASSUME NEW s, IsSeq(s)
    PROVE  Upto(s, Len(s)) = s
  BY UptoFacts, SameSeq, SeqFacts

\* What follows does not change what came before.
LEMMA UptoJoined ==
    ASSUME NEW s, IsSeq(s), NEW t, IsSeq(t), NEW n \in 0..Len(s)
    PROVE  Upto(s \o t, n) = Upto(s, n)
<1>1. n \in Nat /\ n <= Len(s) /\ Len(s) \in Nat
  BY SeqFacts
<1>2. \A i \in 1..n : (s \o t)[i] = s[i]
  BY <1>1, Joined
<1>3. /\ IsSeq(Upto(s \o t, n)) /\ Len(Upto(s \o t, n)) = n
      /\ \A i \in 1..n : Upto(s \o t, n)[i] = (s \o t)[i]
      /\ IsSeq(Upto(s, n)) /\ Len(Upto(s, n)) = n /\ \A i \in 1..n : Upto(s, n)[i] = s[i]
  BY <1>1, UptoFacts
<1> QED BY <1>2, <1>3, SameSeq

\* Induction, stated of a set: the numbers of which something holds.  On the
\* numbers of it up to k, n |-> n + 1 would be injective and miss 0.
LEMMA Induction ==
    ASSUME NEW S, 0 \in S, \A n \in Nat : n \in S => n + 1 \in S
    PROVE  Nat \subseteq S
<1> SUFFICES ASSUME NEW k \in Nat, k \notin S PROVE FALSE
  OBVIOUS
<1> DEFINE A == {n \in 0..k : n \in S}
           next == [n \in A |-> n + 1]
<1>1. IsFiniteSet(A)
  <2>1. IsFiniteSet(0..k)
    BY FS_Interval
  <2>2. A \in SUBSET (0..k)
    OBVIOUS
  <2> HIDE DEF A
  <2> QED BY <2>1, <2>2, FS_Subset
<1>2. 0 \in A /\ \A n \in A : n + 1 \in A \ {0}
  OBVIOUS
<1>3. next \in [A -> A \ {0}] /\ \A n \in A : next[n] = n + 1
  BY <1>2
<1>4. A \subseteq Nat
  OBVIOUS
<1> HIDE DEF A, next
<1>5. IsFiniteSet(A \ {0}) /\ Cardinality(A \ {0}) = Cardinality(A) - 1 /\ Cardinality(A) \in Nat
  BY <1>1, <1>2, FS_RemoveElement, FS_CardinalityType
<1>6. Cardinality(A \ {0}) < Cardinality(A)
  BY <1>5
<1>7. \E m, n \in A : m # n /\ next[m] = next[n]
  BY <1>1, <1>3, <1>5, <1>6, FS_PigeonHole
<1> QED BY <1>3, <1>4, <1>7

\* A set of numbers under a limit has a largest: by induction on how far
\* under the limit a member of it is.
LEMMA LargestOf ==
    ASSUME NEW limit \in Nat, NEW S, S \subseteq 0..limit, NEW x \in S
    PROVE  \E n \in S : \A m \in S : m <= n
<1> DEFINE T == {k \in Nat : \A y \in S : y >= limit - k => \E n \in S : \A m \in S : m <= n}
<1>1. 0 \in T
  <2> SUFFICES ASSUME NEW y \in S, y >= limit
               PROVE  \E n \in S : \A m \in S : m <= n
    OBVIOUS
  <2>1. \A m \in S : m <= y
    OBVIOUS
  <2> QED BY <2>1
<1>2. ASSUME NEW k \in Nat, k \in T
      PROVE  k + 1 \in T
  <2> SUFFICES ASSUME NEW y \in S, y >= limit - (k + 1)
               PROVE  \E n \in S : \A m \in S : m <= n
    OBVIOUS
  <2>1. CASE \E z \in S : z > y
    <3>1. PICK z \in S : z > y
      BY <2>1
    <3>2. z >= limit - k
      BY <3>1
    <3> QED BY <1>2, <3>2
  <2>2. CASE \A z \in S : ~(z > y)
    <3>1. \A m \in S : m <= y
      BY <2>2
    <3> QED BY <3>1
  <2> QED BY <2>1, <2>2
<1>3. Nat \subseteq T
  <2> HIDE DEF T
  <2> QED BY <1>1, <1>2, Induction
<1>4. limit \in T /\ x >= limit - limit
  BY <1>3
<1> QED BY <1>4

----------------------------------------------------------------------------
(* Cells.                                                                  *)

\* What was in a context, and then its inputs.
Runs(c, t, d) == \A i \in 1..Len(t) : d[Len(c) + i].input = t[i]

\* A decode appends a cell an input, and changes none before it.
LEMMA Decoded ==
    ASSUME NEW c, IsSeq(c), NEW t, IsSeq(t)
    PROVE  /\ IsSeq(Decode(c, t)) /\ Len(Decode(c, t)) = Len(c) + Len(t)
           /\ Upto(Decode(c, t), Len(c)) = c
           /\ \A i \in 1..Len(c) : Decode(c, t)[i] = c[i]
           /\ Runs(c, t, Decode(c, t))
<1> DEFINE new == [i \in 1..Len(t) |->
                     LET k == (i - 1) \div Batch IN
                     [input |-> t[i], first |-> Len(c) + k * Batch + 1,
                      size |-> PrefillChunks(Len(t))[k + 1]]]
<1>1. Decode(c, t) = c \o new
  BY DEF Decode
<1>2. new = [i \in 1..Len(t) |-> new[i]] /\ \A i \in 1..Len(t) : new[i].input = t[i]
  OBVIOUS
<1>3. Len(t) \in Nat /\ Len(c) \in Nat
  BY SeqFacts
<1> HIDE DEF new
<1>4. IsSeq(new) /\ Len(new) = Len(t)
  BY <1>2, <1>3, MakeSeq
<1>5. Upto(c \o new, Len(c)) = c
  <2>1. Len(c) \in 0..Len(c)
    BY <1>3
  <2> QED BY <1>4, <2>1, UptoJoined, UptoAll
<1>6. /\ IsSeq(c \o new) /\ Len(c \o new) = Len(c) + Len(new)
      /\ \A i \in 1..Len(c) : (c \o new)[i] = c[i]
      /\ \A i \in 1..Len(new) : (c \o new)[Len(c) + i] = new[i]
  <2>1. IsSeq(c) /\ IsSeq(new)
    BY <1>4
  <2> QED BY ONLY <2>1, Joined
<1>7. Runs(c, t, Decode(c, t))
  BY <1>1, <1>2, <1>4, <1>6 DEF Runs
<1> QED BY <1>1, <1>4, <1>5, <1>6, <1>7

\* The inputs of a part of a prompt.
LEMMA InputsAre ==
    ASSUME NEW tokens, NEW begin \in Nat, NEW end \in Nat, begin <= end, NEW seqs
    PROVE  /\ IsSeq(Inputs(tokens, begin, end, seqs))
           /\ Len(Inputs(tokens, begin, end, seqs)) = end - begin
           /\ \A i \in 1..(end - begin) :
                 Inputs(tokens, begin, end, seqs)[i] =
                   [token |-> tokens[begin + i], pos |-> begin + i, seqs |-> seqs]
<1> DEFINE f == Inputs(tokens, begin, end, seqs)
           n == end - begin
<1>1. /\ f = [i \in 1..n |-> f[i]] /\ n \in Nat
      /\ \A i \in 1..n : f[i] = [token |-> tokens[begin + i], pos |-> begin + i, seqs |-> seqs]
  BY DEF Inputs
<1> HIDE DEF f
<1>2. IsSeq(f) /\ Len(f) = n
  <2> HIDE DEF n
  <2> QED BY <1>1, MakeSeq
<1> QED BY <1>1, <1>2 DEF f

\* Of prompts that begin alike, the inputs are the same.
LEMMA SameInputs ==
    ASSUME NEW s, NEW t, NEW n \in Nat, Upto(s, n) = Upto(t, n), NEW seqs
    PROVE  Inputs(s, 0, n, seqs) = Inputs(t, 0, n, seqs)
<1>1. \A i \in 1..n : s[i] = t[i]
  BY UptoFacts
<1>2. \A i \in 1..(n - 0) : s[0 + i] = t[0 + i]
  BY <1>1
<1> QED BY <1>2 DEF Inputs

LEMMA InputsOfUpto ==
    ASSUME NEW s, NEW n \in Nat, NEW seqs
    PROVE  Inputs(Upto(s, n), 0, n, seqs) = Inputs(s, 0, n, seqs)
<1>1. Upto(Upto(s, n), n) = Upto(s, n)
  BY UptoFacts, UptoAll
<1> QED BY <1>1, SameInputs

\* A decode into an empty context.
LEMMA DecodedFirst ==
    ASSUME NEW t, IsSeq(t)
    PROVE  /\ IsSeq(Decode(<<>>, t)) /\ Len(Decode(<<>>, t)) = Len(t)
           /\ \A i \in 1..Len(t) : Decode(<<>>, t)[i].input = t[i]
<1> DEFINE e == <<>>
<1>1. IsSeq(e) /\ Len(e) = 0 /\ Len(t) \in Nat
  BY EmptySeq, SeqIs, SeqFacts
<1> HIDE DEF e
<1>2. IsSeq(Decode(e, t)) /\ Len(Decode(e, t)) = Len(e) + Len(t)
  BY <1>1, Decoded
<1>3. \A i \in 1..Len(t) : Decode(e, t)[Len(e) + i].input = t[i]
  <2>1. Runs(e, t, Decode(e, t))
    BY <1>1, Decoded
  <2> QED BY <2>1 DEF Runs
<1>4. \A i \in 1..Len(t) : Decode(e, t)[i].input = t[i]
  BY <1>1, <1>3
<1>5. IsSeq(Decode(e, t)) /\ Len(Decode(e, t)) = Len(t)
  BY <1>1, <1>2
<1> QED BY <1>4, <1>5 DEF e

\* The cells of a prefix.
LEMMA PrefixIs ==
    ASSUME NEW tokens, NEW prefix \in Nat, NEW s
    PROVE  /\ IsSeq(Decode(<<>>, Inputs(tokens, 0, prefix, s)))
           /\ Len(Decode(<<>>, Inputs(tokens, 0, prefix, s))) = prefix
<1> DEFINE z == 0
           p == Inputs(tokens, z, prefix, s)
<1>1. z \in Nat /\ z <= prefix /\ prefix - z = prefix
  OBVIOUS
<1>2. IsSeq(p) /\ Len(p) = prefix
  <2> HIDE DEF z
  <2>1. IsSeq(p) /\ Len(p) = prefix - z
    BY <1>1, InputsAre
  <2> QED BY <1>1, <2>1
<1>3. p = Inputs(tokens, 0, prefix, s)
  BY DEF z
<1> HIDE DEF p
<1>4. IsSeq(Decode(<<>>, p)) /\ Len(Decode(<<>>, p)) = Len(p)
  BY <1>2, DecodedFirst
<1> QED BY <1>2, <1>3, <1>4

\* The prefix of a prompt in decodes of its own, then the rest.
Prefilled(tokens, prefix, n, a, b) ==
    /\ IsSeq(a) /\ Len(a) = prefix /\ IsSeq(b) /\ Len(b) = n
    /\ Upto(b, prefix) = a
    /\ \A i \in 1..n : b[i].input.token = tokens[i] /\ b[i].input.pos = i

LEMMA AloneIs ==
    ASSUME NEW tokens, NEW prefix \in Nat, NEW n \in Nat, prefix <= n, NEW s
    PROVE  Prefilled(tokens, prefix, n, Decode(<<>>, Inputs(tokens, 0, prefix, s)),
                     Decode(Decode(<<>>, Inputs(tokens, 0, prefix, s)), Inputs(tokens, prefix, n, s)))
<1> DEFINE p == Inputs(tokens, 0, prefix, s)
           r == Inputs(tokens, prefix, n, s)
           a == Decode(<<>>, p)
           b == Decode(a, r)
<1>2. /\ IsSeq(p) /\ Len(p) = prefix
      /\ \A i \in 1..prefix : p[i] = [token |-> tokens[i], pos |-> i, seqs |-> s]
  <2>0. 0 \in Nat /\ 0 <= prefix
    OBVIOUS
  <2>1. /\ IsSeq(p) /\ Len(p) = prefix - 0
        /\ \A i \in 1..(prefix - 0) : p[i] = [token |-> tokens[0 + i], pos |-> 0 + i, seqs |-> s]
    BY <2>0, InputsAre
  <2> HIDE DEF p
  <2> QED BY <2>1
<1>3. /\ IsSeq(r) /\ Len(r) = n - prefix
      /\ \A i \in 1..(n - prefix) :
            r[i] = [token |-> tokens[prefix + i], pos |-> prefix + i, seqs |-> s]
  BY InputsAre
<1> HIDE DEF p, r
<1>4. /\ IsSeq(a) /\ Len(a) = prefix
      /\ \A i \in 1..prefix : a[i].input = p[i]
  <2>1. IsSeq(a) /\ Len(a) = Len(p)
    BY <1>2, DecodedFirst
  <2>2. \A i \in 1..Len(p) : a[i].input = p[i]
    BY <1>2, DecodedFirst
  <2> QED BY <1>2, <2>1, <2>2
<1> HIDE DEF a
<1>5. /\ IsSeq(b) /\ Len(b) = n /\ Upto(b, prefix) = a
      /\ \A i \in 1..prefix : b[i] = a[i]
      /\ \A i \in 1..(n - prefix) : b[prefix + i].input = r[i]
  <2>1. IsSeq(b) /\ Len(b) = Len(a) + Len(r) /\ Upto(b, Len(a)) = a
    BY <1>3, <1>4, Decoded
  <2>2. \A i \in 1..Len(a) : b[i] = a[i]
    BY <1>3, <1>4, Decoded
  <2>3. \A i \in 1..Len(r) : b[Len(a) + i].input = r[i]
    <3>1. Runs(a, r, b)
      BY <1>3, <1>4, Decoded
    <3> HIDE DEF b
    <3> QED BY <3>1 DEF Runs
  <2> HIDE DEF b
  <2> QED BY <1>3, <1>4, <2>1, <2>2, <2>3
<1> HIDE DEF b
<1>6. ASSUME NEW i \in 1..n
      PROVE  b[i].input.token = tokens[i] /\ b[i].input.pos = i
  <2>1. CASE i <= prefix
    <3>1. i \in 1..prefix
      BY <2>1
    <3>2. b[i].input = [token |-> tokens[i], pos |-> i, seqs |-> s]
      BY <1>2, <1>4, <1>5, <3>1
    <3> QED BY <3>2
  <2>2. CASE i > prefix
    <3>1. i - prefix \in 1..(n - prefix) /\ prefix + (i - prefix) = i
      BY <2>2
    <3>2. b[i].input = r[i - prefix]
      BY <1>5, <3>1
    <3>3. r[i - prefix] = [token |-> tokens[i], pos |-> i, seqs |-> s]
      BY <1>3, <3>1
    <3> QED BY <3>2, <3>3
  <2> QED BY <2>1, <2>2
<1>7. Prefilled(tokens, prefix, n, a, b)
  BY <1>4, <1>5, <1>6 DEF Prefilled
<1> QED BY <1>7 DEF a, b, p, r

----------------------------------------------------------------------------
(* The cells a sequence attends to.                                        *)

LEMMA Appended ==
    ASSUME NEW s, IsSeq(s), NEW x
    PROVE  /\ IsSeq(Append(s, x)) /\ Len(Append(s, x)) = Len(s) + 1
           /\ \A i \in 1..Len(s) : Append(s, x)[i] = s[i]
           /\ Append(s, x)[Len(s) + 1] = x
<1> DEFINE S == {s[i] : i \in DOMAIN s} \cup {x}
<1>1. s \in Seq(S) /\ x \in S
  <2>1. {s[i] : i \in DOMAIN s} \subseteq S /\ x \in S
    OBVIOUS
  <2> HIDE DEF S
  <2> QED BY <2>1, SeqMonotonic DEF IsSeq
<1> HIDE DEF S
<1>2. Append(s, x) \in Seq(S) /\ Len(Append(s, x)) = Len(s) + 1
  BY <1>1, AppendProperties
<1>3. \A i \in 1..Len(s) : Append(s, x)[i] = s[i]
  BY <1>1, AppendProperties
<1>4. Append(s, x)[Len(s) + 1] = x
  BY <1>1, AppendProperties
<1> QED BY <1>2, <1>3, <1>4, SeqIs

\* The cells of k among the first m, m at a time.
Choice(cells, k, m, f) ==
    f = [n \in 0..m |->
            IF n = 0 THEN <<>>
            ELSE IF k \in cells[n].input.seqs THEN Append(f[n - 1], cells[n]) ELSE f[n - 1]]

LEMMA ChoiceExists ==
    ASSUME NEW cells, NEW k, NEW m \in Nat
    PROVE  \E f : Choice(cells, k, m, f)
<1> DEFINE S == {n \in Nat : \E f : Choice(cells, k, n, f)}
<1>1. 0 \in S
  <2>1. Choice(cells, k, 0, [n \in 0..0 |-> <<>>])
    BY DEF Choice
  <2> QED BY <2>1
<1>2. ASSUME NEW n \in Nat, n \in S PROVE n + 1 \in S
  <2>1. PICK f : Choice(cells, k, n, f)
    BY <1>2
  <2> DEFINE last == IF k \in cells[n + 1].input.seqs THEN Append(f[n], cells[n + 1]) ELSE f[n]
             g == [i \in 0..(n + 1) |-> IF i = n + 1 THEN last ELSE f[i]]
  <2>2. ASSUME NEW i \in 0..(n + 1)
        PROVE  g[i] = IF i = 0 THEN <<>>
                      ELSE IF k \in cells[i].input.seqs THEN Append(g[i - 1], cells[i]) ELSE g[i - 1]
    <3>1. CASE i = n + 1
      <4>1. i # 0 /\ i - 1 = n /\ n \in 0..(n + 1) /\ n # n + 1
        BY <3>1
      <4>2. g[n] = f[n] /\ g[i] = last
        BY <3>1, <4>1
      <4> HIDE DEF g
      <4> QED BY <3>1, <4>1, <4>2
    <3>2. CASE i # n + 1
      <4>1. i \in 0..n /\ g[i] = f[i]
        BY <3>2
      <4>2. i # 0 => g[i - 1] = f[i - 1]
        <5> SUFFICES ASSUME i # 0 PROVE g[i - 1] = f[i - 1]
          OBVIOUS
        <5>1. i - 1 \in 0..(n + 1) /\ i - 1 # n + 1
          BY <4>1
        <5> HIDE DEF last
        <5> QED BY <5>1
      <4>3. f[i] = IF i = 0 THEN <<>>
                   ELSE IF k \in cells[i].input.seqs THEN Append(f[i - 1], cells[i]) ELSE f[i - 1]
        BY <2>1, <4>1 DEF Choice
      <4> HIDE DEF g
      <4> QED BY <4>1, <4>2, <4>3
    <3> QED BY <3>1, <3>2
  <2>3. g = [i \in 0..(n + 1) |-> g[i]]
    BY DEF g
  <2> HIDE DEF g
  <2>4. Choice(cells, k, n + 1, g)
    BY <2>2, <2>3 DEF Choice
  <2> QED BY <2>4
<1> HIDE DEF S
<1>3. m \in S
  BY <1>1, <1>2, Induction
<1> QED BY <1>3 DEF S

\* The same, a step at a time.
Chooses(cells, k, f) ==
    /\ f[0] = <<>>
    /\ \A n \in 1..Len(cells) :
          /\ k \in cells[n].input.seqs => f[n] = Append(f[n - 1], cells[n])
          /\ k \notin cells[n].input.seqs => f[n] = f[n - 1]
    /\ \A n \in 0..Len(cells) : IsSeq(f[n])

LEMMA AttendedIs ==
    ASSUME NEW cells, IsSeq(cells), NEW k
    PROVE  \E f : Chooses(cells, k, f) /\ Attended(cells, k) = f[Len(cells)]
<1> DEFINE f == CHOOSE f : Choice(cells, k, Len(cells), f)
           m == Len(cells)
<1>0. m \in Nat
  BY SeqFacts
<1>1. Choice(cells, k, m, f)
  BY <1>0, ChoiceExists
<1>2. Attended(cells, k) = f[m]
  BY DEF Attended, Choice
<1> HIDE DEF f, m
<1>3. f[0] = <<>>
  <2>1. 0 \in 0..m
    BY <1>0
  <2> QED BY <1>1, <2>1 DEF Choice
<1>4. \A n \in 1..m : f[n] = IF k \in cells[n].input.seqs THEN Append(f[n - 1], cells[n]) ELSE f[n - 1]
  <2> SUFFICES ASSUME NEW n \in 1..m
               PROVE  f[n] = IF k \in cells[n].input.seqs THEN Append(f[n - 1], cells[n]) ELSE f[n - 1]
    OBVIOUS
  <2>1. n \in 0..m /\ n # 0
    BY <1>0
  <2> QED BY <1>1, <2>1 DEF Choice
<1> DEFINE S == {n \in Nat : n <= m => IsSeq(f[n])}
<1>5. 0 \in S
  <2>1. IsSeq(<<>>)
    BY EmptySeq, SeqIs
  <2> QED BY <1>3, <2>1
<1>6. ASSUME NEW n \in Nat, n \in S PROVE n + 1 \in S
  <2> SUFFICES ASSUME n + 1 <= m PROVE IsSeq(f[n + 1])
    OBVIOUS
  <2>1. n + 1 \in 1..m /\ (n + 1) - 1 = n /\ n <= m
    BY <1>0
  <2>2. IsSeq(f[n])
    BY <1>6, <2>1
  <2>3. f[n + 1] = Append(f[n], cells[n + 1]) \/ f[n + 1] = f[n]
    BY <1>4, <2>1
  <2>4. IsSeq(Append(f[n], cells[n + 1]))
    BY <2>2, Appended
  <2> QED BY <2>2, <2>3, <2>4
<1>7. \A n \in 0..m : IsSeq(f[n])
  <2> HIDE DEF S
  <2>1. Nat \subseteq S
    BY <1>5, <1>6, Induction
  <2> QED BY <1>0, <2>1 DEF S
<1>8. Chooses(cells, k, f)
  BY <1>3, <1>4, <1>7 DEF Chooses, m
<1> QED BY <1>2, <1>8 DEF m

\* A part none of which is chosen.
LEMMA Skipped ==
    ASSUME NEW cells, IsSeq(cells), NEW k, NEW f, Chooses(cells, k, f),
           NEW a \in Nat, NEW b \in Nat, a <= b, b <= Len(cells),
           \A n \in (a + 1)..b : k \notin cells[n].input.seqs
    PROVE  f[b] = f[a]
<1>0. Len(cells) \in Nat
  BY SeqFacts
<1> DEFINE S == {n \in Nat : a + n <= b => f[a + n] = f[a]}
<1>1. 0 \in S
  BY a + 0 = a
<1>2. ASSUME NEW n \in Nat, n \in S PROVE n + 1 \in S
  <2> SUFFICES ASSUME a + (n + 1) <= b PROVE f[a + (n + 1)] = f[a]
    OBVIOUS
  <2>1. /\ a + (n + 1) \in (a + 1)..b /\ a + (n + 1) \in 1..Len(cells)
        /\ (a + (n + 1)) - 1 = a + n /\ a + n <= b
    BY <1>0
  <2>2. f[a + n] = f[a]
    BY <1>2, <2>1
  <2>3. f[a + (n + 1)] = f[(a + (n + 1)) - 1]
    BY <2>1 DEF Chooses
  <2> QED BY <2>1, <2>2, <2>3
<1>3. b - a \in S
  <2> HIDE DEF S
  <2>1. b - a \in Nat
    OBVIOUS
  <2> QED BY <1>1, <1>2, <2>1, Induction
<1> QED BY <1>3, a + (b - a) = b

\* A part all of which is chosen.
KeptPart(cells, f, a, b) ==
    /\ Len(f[b]) = Len(f[a]) + (b - a)
    /\ \A j \in 1..Len(f[a]) : f[b][j] = f[a][j]
    /\ \A j \in 1..(b - a) : f[b][Len(f[a]) + j] = cells[a + j]

LEMMA Kept ==
    ASSUME NEW cells, IsSeq(cells), NEW k, NEW f, Chooses(cells, k, f),
           NEW a \in Nat, NEW b \in Nat, a <= b, b <= Len(cells),
           \A n \in (a + 1)..b : k \in cells[n].input.seqs
    PROVE  KeptPart(cells, f, a, b)
<1> DEFINE m == Len(cells)
           l == Len(f[a])
           Good(n) == /\ Len(f[a + n]) = l + n
                      /\ \A j \in 1..l : f[a + n][j] = f[a][j]
                      /\ \A j \in 1..n : f[a + n][l + j] = cells[a + j]
           S == {n \in Nat : a + n <= b => Good(n)}
<1>0. m \in Nat /\ a \in 0..m /\ l \in Nat /\ \A n \in 0..m : IsSeq(f[n])
  <2>1. m \in Nat /\ a \in 0..m
    BY SeqFacts
  <2>2. \A n \in 0..m : IsSeq(f[n])
    BY DEF Chooses
  <2> QED BY <2>1, <2>2, SeqFacts
<1>1. 0 \in S
  BY <1>0, a + 0 = a
<1>2. ASSUME NEW n \in Nat, n \in S PROVE n + 1 \in S
  <2> HIDE DEF Good
  <2> SUFFICES ASSUME a + (n + 1) <= b PROVE Good(n + 1)
    OBVIOUS
  <2> USE DEF Good
  <2> DEFINE p == f[a + n]
             q == f[a + (n + 1)]
             x == cells[a + (n + 1)]
  <2>1. /\ a + (n + 1) \in (a + 1)..b /\ a + (n + 1) \in 1..Len(cells)
        /\ (a + (n + 1)) - 1 = a + n /\ a + n <= b /\ a + n \in 0..Len(cells)
    <3> HIDE DEF S, Good
    <3> QED BY <1>0
  <2>2. Good(n)
    <3> HIDE DEF Good
    <3> QED BY <1>2, <2>1
  <2>3. q = Append(p, x)
    BY <2>1 DEF Chooses
  <2>4. IsSeq(p) /\ Len(p) = l + n
    BY <1>0, <2>1, <2>2
  <2> HIDE DEF p, q, x
  <2>5. /\ Len(q) = l + (n + 1) /\ q[l + (n + 1)] = x
        /\ \A j \in 1..(l + n) : q[j] = p[j]
    <3>1. Len(q) = Len(p) + 1 /\ q[Len(p) + 1] = x
      BY <2>3, <2>4, Appended
    <3>2. \A j \in 1..Len(p) : q[j] = p[j]
      BY <2>3, <2>4, Appended
    <3> HIDE DEF l
    <3>3. Len(p) + 1 = l + (n + 1)
      BY <1>0, <2>4
    <3> QED BY <2>4, <3>1, <3>2, <3>3
  <2>6. ASSUME NEW j \in 1..l PROVE q[j] = f[a][j]
    <3>1. p[j] = f[a][j]
      BY <2>2 DEF p
    <3>2. j \in 1..(l + n)
      BY <1>0
    <3> QED BY <2>5, <3>1, <3>2
  <2>7. ASSUME NEW j \in 1..(n + 1) PROVE q[l + j] = cells[a + j]
    <3>1. CASE j = n + 1
      BY <2>5, <3>1 DEF x
    <3>2. CASE j # n + 1
      <4>1. j \in 1..n /\ l + j \in 1..(l + n)
        BY <1>0, <3>2
      <4>2. p[l + j] = cells[a + j]
        BY <2>2, <4>1 DEF p
      <4> QED BY <2>5, <4>1, <4>2
    <3> QED BY <3>1, <3>2
  <2> QED BY <2>5, <2>6, <2>7 DEF q
<1>3. b - a \in S
  <2> HIDE DEF S
  <2>1. b - a \in Nat
    OBVIOUS
  <2> QED BY <1>1, <1>2, <2>1, Induction
<1>4. Good(b - a) /\ a + (b - a) = b
  <2> HIDE DEF Good
  <2> QED BY <1>3
<1> QED BY <1>4 DEF KeptPart

----------------------------------------------------------------------------
(* The remainders of the questions, one after the other.                   *)

Block(prefix, i) == Inputs(asked[i].tokens, prefix, Len(asked[i].tokens), {i})

Line(prefix, m, f) ==
    f = [i \in 0..m |->
            IF i = 0 THEN <<>>
            ELSE f[i - 1] \o Inputs(asked[i].tokens, prefix, Len(asked[i].tokens), {i})]

LEMMA LineExists ==
    ASSUME NEW prefix, NEW m \in Nat
    PROVE  \E f : Line(prefix, m, f)
<1> DEFINE S == {n \in Nat : \E f : Line(prefix, n, f)}
<1>1. 0 \in S
  <2>1. Line(prefix, 0, [n \in 0..0 |-> <<>>])
    BY DEF Line
  <2> QED BY <2>1
<1>2. ASSUME NEW n \in Nat, n \in S PROVE n + 1 \in S
  <2>1. PICK f : Line(prefix, n, f)
    BY <1>2
  <2> DEFINE g == [i \in 0..(n + 1) |-> IF i = n + 1 THEN f[n] \o Block(prefix, n + 1) ELSE f[i]]
  <2>2. ASSUME NEW i \in 0..(n + 1)
        PROVE  g[i] = IF i = 0 THEN <<>> ELSE g[i - 1] \o Block(prefix, i)
    <3>1. CASE i = n + 1
      <4>1. i # 0 /\ i - 1 = n /\ n \in 0..(n + 1) /\ n # n + 1
        BY <3>1
      <4>2. g[n] = f[n] /\ g[i] = f[n] \o Block(prefix, n + 1)
        BY <3>1, <4>1
      <4> HIDE DEF g
      <4> QED BY <3>1, <4>1, <4>2
    <3>2. CASE i # n + 1
      <4>1. i \in 0..n /\ g[i] = f[i]
        BY <3>2
      <4>2. i # 0 => g[i - 1] = f[i - 1]
        <5> SUFFICES ASSUME i # 0 PROVE g[i - 1] = f[i - 1]
          OBVIOUS
        <5>1. i - 1 \in 0..(n + 1) /\ i - 1 # n + 1
          BY <4>1
        <5> QED BY <5>1
      <4>3. f[i] = IF i = 0 THEN <<>> ELSE f[i - 1] \o Block(prefix, i)
        BY <2>1, <4>1 DEF Line, Block
      <4> HIDE DEF g
      <4> QED BY <4>1, <4>2, <4>3
    <3> QED BY <3>1, <3>2
  <2>3. g = [i \in 0..(n + 1) |-> g[i]]
    BY DEF g
  <2> HIDE DEF g
  <2>4. Line(prefix, n + 1, g)
    BY <2>2, <2>3 DEF Line, Block
  <2> QED BY <2>4
<1> HIDE DEF S
<1>3. m \in S
  BY <1>1, <1>2, Induction
<1> QED BY <1>3 DEF S

\* Every question has a prompt, and more of it than the prefix.
Askable(prefix) ==
    /\ IsSeq(asked) /\ prefix \in Nat
    /\ \A i \in 1..Len(asked) : Len(asked[i].tokens) \in Nat /\ prefix <= Len(asked[i].tokens)

\* The list as it grows, question by question.
Lists(prefix, f) ==
    /\ f[0] = <<>> /\ \A i \in 0..Len(asked) : IsSeq(f[i]) /\ Len(f[i]) \in Nat
    /\ \A i \in 1..Len(asked) :
          /\ f[i] = f[i - 1] \o Block(prefix, i)
          /\ Len(f[i]) = Len(f[i - 1]) + (Len(asked[i].tokens) - prefix)

LEMMA BlockIs ==
    ASSUME NEW prefix, Askable(prefix), NEW i \in 1..Len(asked)
    PROVE  /\ IsSeq(Block(prefix, i)) /\ Len(Block(prefix, i)) = Len(asked[i].tokens) - prefix
           /\ \A j \in 1..(Len(asked[i].tokens) - prefix) :
                 Block(prefix, i)[j] =
                   [token |-> asked[i].tokens[prefix + j], pos |-> prefix + j, seqs |-> {i}]
<1>1. prefix \in Nat /\ Len(asked[i].tokens) \in Nat /\ prefix <= Len(asked[i].tokens)
  BY DEF Askable
<1> DEFINE t == asked[i].tokens
           n == Len(t)
           k == {i}
           r == Inputs(t, prefix, n, k)
<1>2. prefix \in Nat /\ n \in Nat /\ prefix <= n /\ Block(prefix, i) = r
  BY <1>1 DEF Block
<1> HIDE DEF n, t, k
<1>3. /\ IsSeq(r) /\ Len(r) = n - prefix
      /\ \A j \in 1..(n - prefix) :
            r[j] = [token |-> t[prefix + j], pos |-> prefix + j, seqs |-> k]
  <2>1. prefix \in Nat /\ n \in Nat /\ prefix <= n
    BY <1>2
  <2>2. IsSeq(r) /\ Len(r) = n - prefix
    BY <2>1, InputsAre
  <2>3. \A j \in 1..(n - prefix) :
            r[j] = [token |-> t[prefix + j], pos |-> prefix + j, seqs |-> k]
    BY <2>1, InputsAre
  <2> QED BY <2>2, <2>3
<1> HIDE DEF r
<1> QED BY <1>2, <1>3 DEF n, t, k

LEMMA PendingIs ==
    ASSUME NEW prefix, Askable(prefix)
    PROVE  \E f : Lists(prefix, f) /\ Pending(prefix) = f[Len(asked)]
<1> DEFINE f == CHOOSE f : Line(prefix, Len(asked), f)
           m == Len(asked)
<1>0. m \in Nat
  BY SeqFacts DEF Askable
<1>1. Line(prefix, m, f)
  BY <1>0, LineExists
<1>2. Pending(prefix) = f[m]
  BY DEF Pending, Line
<1> HIDE DEF f, m
<1>3. f[0] = <<>>
  <2>1. 0 \in 0..m
    BY <1>0
  <2> QED BY <1>1, <2>1 DEF Line
<1>4. \A i \in 1..m : f[i] = f[i - 1] \o Block(prefix, i)
  <2> SUFFICES ASSUME NEW i \in 1..m PROVE f[i] = f[i - 1] \o Block(prefix, i)
    OBVIOUS
  <2>1. i \in 0..m /\ i # 0
    BY <1>0
  <2> QED BY <1>1, <2>1 DEF Line, Block
<1>5. \A i \in 1..m : IsSeq(Block(prefix, i)) /\ Len(Block(prefix, i)) = Len(asked[i].tokens) - prefix
  BY BlockIs DEF m
<1> DEFINE S == {n \in Nat : n <= m => IsSeq(f[n])}
<1>6. 0 \in S
  <2>1. IsSeq(<<>>)
    BY EmptySeq, SeqIs
  <2> QED BY <1>3, <2>1
<1>7. ASSUME NEW n \in Nat, n \in S PROVE n + 1 \in S
  <2> SUFFICES ASSUME n + 1 <= m PROVE IsSeq(f[n + 1])
    OBVIOUS
  <2>1. n + 1 \in 1..m /\ (n + 1) - 1 = n /\ n <= m
    BY <1>0
  <2>2. IsSeq(f[n])
    BY <1>7, <2>1
  <2>3. IsSeq(f[n] \o Block(prefix, n + 1))
    <3>1. IsSeq(Block(prefix, n + 1))
      BY <1>5, <2>1
    <3> QED BY <2>2, <3>1, Joined
  <2> QED BY <1>4, <2>1, <2>3
<1>8. \A i \in 0..m : IsSeq(f[i])
  <2> HIDE DEF S
  <2>1. Nat \subseteq S
    BY <1>6, <1>7, Induction
  <2> QED BY <1>0, <2>1 DEF S
<1>9. \A i \in 1..m : Len(f[i]) = Len(f[i - 1]) + (Len(asked[i].tokens) - prefix)
  <2> SUFFICES ASSUME NEW i \in 1..m
               PROVE  Len(f[i]) = Len(f[i - 1]) + (Len(asked[i].tokens) - prefix)
    OBVIOUS
  <2>1. i - 1 \in 0..m
    BY <1>0
  <2>2. IsSeq(f[i - 1]) /\ IsSeq(Block(prefix, i))
    BY <1>5, <1>8, <2>1
  <2>3. Len(f[i - 1] \o Block(prefix, i)) = Len(f[i - 1]) + Len(Block(prefix, i))
    BY <2>2, Joined
  <2> QED BY <1>4, <1>5, <2>3
<1>10. Lists(prefix, f)
  <2>1. \A i \in 0..m : IsSeq(f[i]) /\ Len(f[i]) \in Nat
    BY <1>8, SeqFacts
  <2> QED BY <1>3, <1>4, <1>9, <2>1 DEF Lists, m
<1> QED BY <1>2, <1>10 DEF m

\* Where each question's remainder is in the list of the first m.
Within(prefix, f, m) ==
    /\ \A x \in 1..Len(f[m]) : f[m][x].seqs \subseteq 1..m
    /\ \A i \in 1..m : Len(f[i - 1]) <= Len(f[i]) /\ Len(f[i]) <= Len(f[m])
    /\ \A i \in 1..m : \A j \in 1..(Len(asked[i].tokens) - prefix) :
          f[m][Len(f[i - 1]) + j] =
            [token |-> asked[i].tokens[prefix + j], pos |-> prefix + j, seqs |-> {i}]
    /\ \A i \in 1..m : \A x \in 1..Len(f[m]) :
          x <= Len(f[i - 1]) \/ x > Len(f[i]) => i \notin f[m][x].seqs

LEMMA WithinMore ==
    ASSUME NEW prefix, Askable(prefix), NEW f, Lists(prefix, f),
           NEW m \in Nat, m + 1 <= Len(asked), Within(prefix, f, m)
    PROVE  Within(prefix, f, m + 1)
<1> DEFINE N == Len(asked)
           b == Block(prefix, m + 1)
           new == Len(asked[m + 1].tokens) - prefix
           p == f[m]
           q == f[m + 1]
<1>1. /\ N \in Nat /\ m + 1 \in 1..N /\ (m + 1) - 1 = m /\ m \in 0..N /\ m + 1 \in 0..N
      /\ m <= N
  BY SeqFacts DEF Askable
<1>2. /\ new \in Nat /\ IsSeq(b) /\ Len(b) = new
      /\ \A j \in 1..new : b[j] = [token |-> asked[m + 1].tokens[prefix + j], pos |-> prefix + j,
                                   seqs |-> {m + 1}]
  <2>1. new \in Nat
    BY <1>1 DEF Askable
  <2>2. IsSeq(b) /\ Len(b) = new
    BY <1>1, BlockIs
  <2>3. \A j \in 1..new : b[j] = [token |-> asked[m + 1].tokens[prefix + j], pos |-> prefix + j,
                                  seqs |-> {m + 1}]
    BY <1>1, BlockIs
  <2> QED BY <2>1, <2>2, <2>3
<1>3. /\ IsSeq(p) /\ Len(p) \in Nat /\ IsSeq(q) /\ Len(q) = Len(p) + new /\ q = p \o b
  <2>1. IsSeq(p) /\ Len(p) \in Nat /\ IsSeq(q)
    BY <1>1 DEF Lists
  <2>2. q = f[(m + 1) - 1] \o b /\ Len(q) = Len(f[(m + 1) - 1]) + new
    BY <1>1 DEF Lists
  <2> QED BY <1>1, <2>1, <2>2
<1> HIDE DEF b, new, p, q
<1>4. \A x \in 1..Len(p) : q[x] = p[x]
  BY <1>2, <1>3, Joined
<1>5. \A j \in 1..new : q[Len(p) + j] = b[j]
  <2>1. \A j \in 1..Len(b) : (p \o b)[Len(p) + j] = b[j]
    BY <1>2, <1>3, Joined
  <2> QED BY <1>2, <1>3, <2>1
<1>6. \A i \in 1..(m + 1) : i = m + 1 \/ i \in 1..m
  OBVIOUS
<1>7. \A x \in 1..Len(q) : x \in 1..Len(p) \/ (x - Len(p) \in 1..new /\ x = Len(p) + (x - Len(p)))
  BY <1>2, <1>3
<1>8. ASSUME NEW x \in 1..Len(q)
      PROVE  \/ x \in 1..Len(p) /\ q[x] = p[x]
             \/ x > Len(p) /\ q[x].seqs = {m + 1}
  <2>1. CASE x \in 1..Len(p)
    BY <1>4, <2>1
  <2>2. CASE x - Len(p) \in 1..new /\ x = Len(p) + (x - Len(p))
    <3>1. q[x] = b[x - Len(p)] /\ x > Len(p)
      BY <1>3, <1>5, <2>2
    <3>2. b[x - Len(p)].seqs = {m + 1}
      BY <1>2, <2>2
    <3> QED BY <3>1, <3>2
  <2> QED BY <1>7, <2>1, <2>2
<1>9. \A x \in 1..Len(q) : q[x].seqs \subseteq 1..(m + 1)
  <2> SUFFICES ASSUME NEW x \in 1..Len(q) PROVE q[x].seqs \subseteq 1..(m + 1)
    OBVIOUS
  <2>1. CASE x \in 1..Len(p) /\ q[x] = p[x]
    <3>1. p[x].seqs \subseteq 1..m
      BY <2>1 DEF Within, p
    <3> QED BY <2>1, <3>1
  <2> QED BY <1>8, <2>1
<1>10. \A i \in 1..(m + 1) : Len(f[i - 1]) <= Len(f[i]) /\ Len(f[i]) <= Len(q)
  <2> SUFFICES ASSUME NEW i \in 1..(m + 1) PROVE Len(f[i - 1]) <= Len(f[i]) /\ Len(f[i]) <= Len(q)
    OBVIOUS
  <2>1. CASE i = m + 1
    BY <1>1, <1>2, <1>3, <2>1 DEF p, q
  <2>2. CASE i \in 1..m
    <3>1. Len(f[i - 1]) <= Len(f[i]) /\ Len(f[i]) <= Len(p)
      BY <2>2 DEF Within, p
    <3>2. Len(f[i]) \in Nat
      BY <1>1, <2>2 DEF Lists
    <3> QED BY <1>2, <1>3, <3>1, <3>2
  <2> QED BY <1>6, <2>1, <2>2
<1>11. ASSUME NEW i \in 1..(m + 1), NEW j \in 1..(Len(asked[i].tokens) - prefix)
       PROVE  q[Len(f[i - 1]) + j] =
                [token |-> asked[i].tokens[prefix + j], pos |-> prefix + j, seqs |-> {i}]
  <2>1. CASE i = m + 1
    <3>1. f[i - 1] = p /\ j \in 1..new
      BY <1>1, <2>1 DEF p, new
    <3> QED BY <1>2, <1>5, <2>1, <3>1
  <2>2. CASE i \in 1..m
    <3>1. p[Len(f[i - 1]) + j] =
            [token |-> asked[i].tokens[prefix + j], pos |-> prefix + j, seqs |-> {i}]
      BY <2>2 DEF Within, p
    <3>2. Len(f[i - 1]) + j \in 1..Len(p)
      <4>1. i \in 1..N /\ i - 1 \in 0..N /\ i \in 0..N
        BY <1>1, <2>2
      <4>2. /\ Len(f[i]) = Len(f[i - 1]) + (Len(asked[i].tokens) - prefix)
            /\ Len(f[i - 1]) \in Nat /\ Len(f[i]) \in Nat
        BY <4>1 DEF Lists
      <4>3. Len(f[i]) <= Len(p)
        BY <2>2 DEF Within, p
      <4>4. Len(asked[i].tokens) \in Nat /\ prefix \in Nat
        BY <4>1 DEF Askable
      <4> DEFINE u == Len(f[i - 1])
                 v == Len(f[i])
                 w == Len(asked[i].tokens) - prefix
      <4>5. u \in Nat /\ v = u + w /\ v <= Len(p) /\ w \in Int /\ Len(p) \in Nat /\ j \in 1..w
        <5>1. w \in Int
          BY <4>4
        <5>2. u \in Nat /\ v = u + w /\ v <= Len(p) /\ Len(p) \in Nat
          BY <1>3, <4>2, <4>3
        <5>3. j \in 1..w
          OBVIOUS
        <5> QED BY <5>1, <5>2, <5>3
      <4> HIDE DEF u, v, w
      <4>6. u + j \in 1..Len(p)
        BY ONLY <4>5
      <4> QED BY <4>6 DEF u
    <3> QED BY <1>4, <3>1, <3>2
  <2> QED BY <1>6, <2>1, <2>2
<1>12. ASSUME NEW i \in 1..(m + 1), NEW x \in 1..Len(q),
              x <= Len(f[i - 1]) \/ x > Len(f[i])
       PROVE  i \notin q[x].seqs
  <2>1. CASE i = m + 1
    <3>1. x <= Len(p)
      BY <1>1, <1>12, <2>1 DEF p, q
    <3>2. x \in 1..Len(p) /\ q[x] = p[x]
      BY <1>3, <1>8, <3>1
    <3>3. p[x].seqs \subseteq 1..m
      BY <3>2 DEF Within, p
    <3> QED BY <2>1, <3>2, <3>3
  <2>2. CASE i \in 1..m
    <3>1. CASE x \in 1..Len(p) /\ q[x] = p[x]
      <4>1. i \notin p[x].seqs
        BY <1>12, <2>2, <3>1 DEF Within, p
      <4> QED BY <3>1, <4>1
    <3>2. CASE q[x].seqs = {m + 1}
      BY <2>2, <3>2
    <3> QED BY <1>8, <3>1, <3>2
  <2> QED BY <1>6, <2>1, <2>2
<1> QED BY <1>9, <1>10, <1>11, <1>12 DEF Within, q

LEMMA AllWithin ==
    ASSUME NEW prefix, Askable(prefix), NEW f, Lists(prefix, f)
    PROVE  Within(prefix, f, Len(asked))
<1> DEFINE S == {n \in Nat : n <= Len(asked) => Within(prefix, f, n)}
<1>0. Len(asked) \in Nat
  BY SeqFacts DEF Askable
<1>1. 0 \in S
  <2>1. f[0] = <<>> /\ Len(<<>>) = 0
    BY EmptySeq DEF Lists
  <2> QED BY <2>1 DEF Within
<1>2. ASSUME NEW n \in Nat, n \in S PROVE n + 1 \in S
  <2> SUFFICES ASSUME n + 1 <= Len(asked) PROVE Within(prefix, f, n + 1)
    OBVIOUS
  <2>1. n <= Len(asked)
    BY <1>0
  <2> QED BY <1>2, <2>1, WithinMore
<1> HIDE DEF S
<1>3. Len(asked) \in S
  BY <1>0, <1>1, <1>2, Induction
<1> QED BY <1>3 DEF S

----------------------------------------------------------------------------
(* The questions, and the prefix of a batch.                               *)

LEMMA PromptIs ==
    ASSUME NEW p \in Prompts
    PROVE  IsSeq(p) /\ Len(p) \in Nat /\ Len(p) > 0
<1>1. IsSeq(p) /\ p # <<>>
  BY PromptsAssumption DEF IsSeq
<1>2. Len(p) \in Nat /\ (p # <<>> => Len(p) \in Nat \ {0})
  BY <1>1, EmptySeq, SeqFacts DEF IsSeq
<1> QED BY <1>1, <1>2

LEMMA SharedPrefixIs ==
    ASSUME NEW head \in Prompts, NEW full \in Prompts
    PROVE  SharedPrefix(head, full) \in 0..(Len(full) - 1)
<1> DEFINE limit == Least(Len(head), Len(full)) - 1
           shared == {n \in 0..limit : Upto(head, n) = Upto(full, n)}
           common == CHOOSE n \in shared : \A m \in shared : m <= n
<1>1. Len(head) \in Nat /\ Len(full) \in Nat /\ Len(head) > 0 /\ Len(full) > 0
  BY PromptIs
<1>2. limit \in Nat /\ limit <= Len(full) - 1
  BY <1>1 DEF Least
<1>3. 0 \in shared
  <2>1. Upto(head, 0) = Upto(full, 0)
    <3>1. /\ IsSeq(Upto(head, 0)) /\ Len(Upto(head, 0)) = 0
          /\ IsSeq(Upto(full, 0)) /\ Len(Upto(full, 0)) = 0
      BY UptoFacts
    <3> QED BY <3>1, SameSeq
  <2> QED BY <1>2, <2>1
<1>4. \E n \in shared : \A m \in shared : m <= n
  <2>1. shared \subseteq 0..limit
    OBVIOUS
  <2> HIDE DEF limit, shared
  <2> QED BY <1>2, <1>3, <2>1, LargestOf
<1>5. SharedPrefix(head, full) = IF common < MinShared THEN 0 ELSE common
  BY DEF SharedPrefix
<1>6. common \in shared
  <2> HIDE DEF shared
  <2> QED BY <1>4
<1>7. common \in 0..limit
  BY <1>6
<1> HIDE DEF common, shared, limit
<1> QED BY <1>1, <1>2, <1>5, <1>7

\* A question of the request, and the room there is for it.
LEMMA AskedIs ==
    ASSUME TypeOK, Shapes, NEW i \in 1..Len(asked)
    PROVE  /\ IsSeq(asked[i].tokens) /\ Len(asked[i].tokens) \in Nat
           /\ Len(asked[i].tokens) <= Context
           /\ asked[i].prefix \in Nat /\ asked[i].prefix <= Len(asked[i].tokens)
<1>1. asked[i].tokens \in Prompts /\ asked[i].prefix \in 0..(Len(asked[i].tokens) - 1)
  BY DEF TypeOK
<1>2. IsSeq(asked[i].tokens) /\ Len(asked[i].tokens) \in Nat
  BY <1>1, PromptIs
<1>3. Len(asked[i].tokens) <= Context
  BY DEF Shapes
<1> DEFINE l == Len(asked[i].tokens)
           p == asked[i].prefix
<1>4. l \in Nat /\ p \in 0..(l - 1)
  BY <1>1, <1>2
<1> HIDE DEF l, p
<1>5. p \in Nat /\ p <= l
  BY <1>4
<1> QED BY <1>2, <1>3, <1>5 DEF l, p

\* Of no questions there are none.
LEMMA Emptied ==
    ASSUME NEW s, IsSeq(s)
    PROVE  s = <<>> <=> Len(s) = 0
<1>1. IsSeq(<<>>) /\ Len(<<>>) = 0
  BY EmptySeq, SeqIs
<1>2. Len(s) = 0 => s = <<>>
  BY <1>1, SameSeq
<1> QED BY <1>1, <1>2

\* All questions of a batch begin with its prefix.
LEMMA BatchedPrefixIs ==
    ASSUME TypeOK, Shapes, asked # <<>>
    PROVE  /\ 1 \in 1..Len(asked) /\ Askable(BatchedPrefix)
           /\ \A i \in 1..Len(asked) :
                 /\ BatchedPrefix <= asked[i].prefix
                 /\ Upto(asked[i].tokens, BatchedPrefix) = Upto(asked[1].tokens, BatchedPrefix)
<1> DEFINE shared == {n \in 0..Context :
                        \A i \in 1..Len(asked) :
                            n <= asked[i].prefix /\ Upto(asked[i].tokens, n) = Upto(asked[1].tokens, n)}
           prefix == CHOOSE n \in shared : \A m \in shared : m <= n
<1>1. Len(asked) \in Nat /\ 1 \in 1..Len(asked)
  <2>1. Len(asked) \in Nat /\ Len(asked) # 0
    BY SeqFacts, Emptied DEF Shapes
  <2> QED BY <2>1
<1>2. Context \in Nat
  BY SizesAssumption DEF ValidLimits
<1>3. \A i \in 1..Len(asked) : Upto(asked[i].tokens, 0) = Upto(asked[1].tokens, 0)
  <2> SUFFICES ASSUME NEW i \in 1..Len(asked)
               PROVE  Upto(asked[i].tokens, 0) = Upto(asked[1].tokens, 0)
    OBVIOUS
  <2> DEFINE s == asked[i].tokens
             t == asked[1].tokens
  <2>1. /\ IsSeq(Upto(s, 0)) /\ Len(Upto(s, 0)) = 0
        /\ IsSeq(Upto(t, 0)) /\ Len(Upto(t, 0)) = 0
    BY UptoFacts
  <2> QED BY <2>1, SameSeq
<1>4. 0 \in shared
  <2>1. \A i \in 1..Len(asked) : 0 <= asked[i].prefix
    BY AskedIs
  <2> QED BY <1>2, <1>3, <2>1
<1>5. prefix \in shared
  <2>1. shared \subseteq 0..Context
    OBVIOUS
  <2> HIDE DEF shared
  <2>2. \E n \in shared : \A m \in shared : m <= n
    BY <1>2, <1>4, <2>1, LargestOf
  <2> QED BY <2>2
<1>6. BatchedPrefix \in shared
  <2>1. BatchedPrefix = IF prefix < MinShared THEN 0 ELSE prefix
    BY DEF BatchedPrefix
  <2> HIDE DEF shared, prefix
  <2> QED BY <1>4, <1>5, <2>1
<1>7. /\ BatchedPrefix \in Nat
      /\ \A i \in 1..Len(asked) :
            /\ BatchedPrefix <= asked[i].prefix
            /\ Upto(asked[i].tokens, BatchedPrefix) = Upto(asked[1].tokens, BatchedPrefix)
  BY <1>6
<1>8. \A i \in 1..Len(asked) :
          Len(asked[i].tokens) \in Nat /\ BatchedPrefix <= Len(asked[i].tokens)
  <2> SUFFICES ASSUME NEW i \in 1..Len(asked)
               PROVE  Len(asked[i].tokens) \in Nat /\ BatchedPrefix <= Len(asked[i].tokens)
    OBVIOUS
  <2> DEFINE l == Len(asked[i].tokens)
             p == asked[i].prefix
             b == BatchedPrefix
  <2>1. l \in Nat /\ p \in Nat /\ p <= l
    BY AskedIs
  <2>2. b \in Nat /\ b <= p
    BY <1>7
  <2> HIDE DEF l, p, b
  <2>3. b <= l
    BY <2>1, <2>2
  <2> QED BY <2>1, <2>3 DEF l, b
<1> QED BY <1>1, <1>7, <1>8 DEF Askable, Shapes

----------------------------------------------------------------------------
(* One decode for all questions.                                           *)

\* The context of a batch: the prefix, then each remainder in its place.
LEMMA BatchIs ==
    ASSUME NEW prefix, Askable(prefix), NEW f, Lists(prefix, f), 1 \in 1..Len(asked)
    PROVE  LET c == Decode(<<>>, Inputs(asked[1].tokens, 0, prefix, 1..Len(asked)))
               m == Decode(c, f[Len(asked)]) IN
           /\ IsSeq(m) /\ Len(m) = prefix + Len(f[Len(asked)])
           /\ \A p \in 1..prefix :
                 m[p].input = [token |-> asked[1].tokens[p], pos |-> p, seqs |-> 1..Len(asked)]
           /\ \A x \in 1..Len(f[Len(asked)]) : m[prefix + x].input = f[Len(asked)][x]
<1> DEFINE N == Len(asked)
           t == asked[1].tokens
           k == 1..N
           a == Inputs(t, 0, prefix, k)
           c == Decode(<<>>, a)
           r == f[N]
           m == Decode(c, r)
<1>1. prefix \in Nat /\ N \in Nat
  BY SeqFacts DEF Askable
<1>2. IsSeq(r) /\ Len(r) \in Nat
  <2>1. N \in 0..N
    BY <1>1
  <2> QED BY <2>1 DEF Lists
<1> HIDE DEF N, t, k, r
<1>3. /\ IsSeq(a) /\ Len(a) = prefix
      /\ \A p \in 1..prefix : a[p] = [token |-> t[p], pos |-> p, seqs |-> k]
  <2>1. 0 \in Nat /\ prefix \in Nat /\ 0 <= prefix
    BY <1>1
  <2>2. IsSeq(a) /\ Len(a) = prefix - 0
    BY <2>1, InputsAre
  <2>3. \A p \in 1..(prefix - 0) : a[p] = [token |-> t[0 + p], pos |-> 0 + p, seqs |-> k]
    BY <2>1, InputsAre
  <2> HIDE DEF a
  <2> QED BY <1>1, <2>2, <2>3
<1> HIDE DEF a
<1>4. /\ IsSeq(c) /\ Len(c) = prefix
      /\ \A p \in 1..prefix : c[p].input = a[p]
  <2>1. IsSeq(c) /\ Len(c) = Len(a)
    BY <1>3, DecodedFirst
  <2>2. \A p \in 1..Len(a) : c[p].input = a[p]
    BY <1>3, DecodedFirst
  <2> QED BY <1>3, <2>1, <2>2
<1> HIDE DEF c
<1>5. IsSeq(m) /\ Len(m) = prefix + Len(r)
  BY <1>2, <1>4, Decoded
<1>6. \A p \in 1..prefix : m[p] = c[p]
  <2>1. \A p \in 1..Len(c) : m[p] = c[p]
    BY <1>2, <1>4, Decoded
  <2> QED BY <1>4, <2>1
<1>7. \A x \in 1..Len(r) : m[prefix + x].input = r[x]
  <2>1. Runs(c, r, m)
    BY <1>2, <1>4, Decoded
  <2> HIDE DEF m
  <2> QED BY <1>4, <2>1 DEF Runs
<1> HIDE DEF m
<1>8. \A p \in 1..prefix : m[p].input = [token |-> t[p], pos |-> p, seqs |-> k]
  BY <1>3, <1>4, <1>6
<1> QED BY <1>5, <1>7, <1>8 DEF m, c, a, r, k, t, N

\* What a question of a batch attends to: the prefix it shares, and its
\* remainder; between them and after it the cells of its siblings.
LEMMA BatchedAnswer ==
    ASSUME NEW prefix, Askable(prefix), NEW f, Lists(prefix, f), 1 \in 1..Len(asked),
           NEW i \in 1..Len(asked), Upto(asked[i].tokens, prefix) = Upto(asked[1].tokens, prefix)
    PROVE  LET c == Decode(<<>>, Inputs(asked[1].tokens, 0, prefix, 1..Len(asked)))
               a == Attended(Decode(c, f[Len(asked)]), i) IN
           /\ Len(a) = Len(asked[i].tokens)
           /\ \A p \in 1..Len(asked[i].tokens) :
                 a[p].input.token = asked[i].tokens[p] /\ a[p].input.pos = p
<1> DEFINE N == Len(asked)
           t == asked[i].tokens
           l == Len(t)
           r == f[N]
           u == Len(f[i - 1])
           v == Len(f[i])
           m == Decode(Decode(<<>>, Inputs(asked[1].tokens, 0, prefix, 1..N)), r)
<1>1. /\ prefix \in Nat /\ N \in Nat /\ l \in Nat /\ prefix <= l /\ i \in 1..N
      /\ i \in 0..N /\ i - 1 \in 0..N /\ N \in 0..N
  <2>1. prefix \in Nat /\ N \in Nat /\ l \in Nat /\ prefix <= l
    BY SeqFacts DEF Askable
  <2> HIDE DEF l, t
  <2> QED BY <2>1
<1>2. /\ u \in Nat /\ v \in Nat /\ Len(r) \in Nat
      /\ v = u + (l - prefix) /\ v <= Len(r)
      /\ \A x \in 1..Len(r) : x <= u \/ x > v => i \notin r[x].seqs
      /\ \A j \in 1..(l - prefix) :
            r[u + j] = [token |-> t[prefix + j], pos |-> prefix + j, seqs |-> {i}]
  <2>1. u \in Nat /\ v \in Nat /\ Len(r) \in Nat /\ v = u + (l - prefix)
    BY <1>1 DEF Lists
  <2>2. Within(prefix, f, N)
    BY AllWithin
  <2>3. v <= Len(r)
    BY <1>1, <2>2 DEF Within
  <2>4. \A x \in 1..Len(r) : x <= u \/ x > v => i \notin r[x].seqs
    BY <1>1, <2>2 DEF Within
  <2>5. \A j \in 1..(l - prefix) :
            r[u + j] = [token |-> t[prefix + j], pos |-> prefix + j, seqs |-> {i}]
    BY <1>1, <2>2 DEF Within
  <2> QED BY <2>1, <2>3, <2>4, <2>5
<1>3. /\ IsSeq(m) /\ Len(m) = prefix + Len(r)
      /\ \A p \in 1..prefix : m[p].input = [token |-> asked[1].tokens[p], pos |-> p, seqs |-> 1..N]
      /\ \A x \in 1..Len(r) : m[prefix + x].input = r[x]
  BY BatchIs
<1>4. \A p \in 1..prefix : t[p] = asked[1].tokens[p]
  <2> DEFINE s == asked[1].tokens
  <2>1. \A p \in 1..prefix : Upto(t, prefix)[p] = t[p]
    BY <1>1, UptoFacts
  <2>2. \A p \in 1..prefix : Upto(s, prefix)[p] = s[p]
    BY <1>1, UptoFacts
  <2> QED BY <2>1, <2>2
<1> HIDE DEF N, t, l, r, u, v, m
<1>5. PICK g : Chooses(m, i, g) /\ Attended(m, i) = g[Len(m)]
  BY <1>3, AttendedIs
<1> DEFINE p1 == prefix + u
           p2 == prefix + v
           M == Len(m)
<1>6. /\ p1 \in Nat /\ p2 \in Nat /\ M \in Nat /\ prefix <= p1 /\ p1 <= p2 /\ p2 <= M
      /\ p2 - p1 = l - prefix /\ p1 <= M /\ prefix <= M
  BY <1>1, <1>2, <1>3
<1>7. \A n \in 1..M : n <= prefix => i \in m[n].input.seqs
  <2> SUFFICES ASSUME NEW n \in 1..M, n <= prefix PROVE i \in m[n].input.seqs
    OBVIOUS
  <2>1. n \in 1..prefix
    BY <1>1
  <2>2. m[n].input = [token |-> asked[1].tokens[n], pos |-> n, seqs |-> 1..N]
    BY <1>3, <2>1
  <2> QED BY <1>1, <2>2
<1>8. ASSUME NEW n \in 1..M, n > prefix
      PROVE  n - prefix \in 1..Len(r) /\ m[n].input = r[n - prefix]
  <2>0. M = prefix + Len(r)
    BY <1>3
  <2>1. n - prefix \in 1..Len(r) /\ prefix + (n - prefix) = n
    <3>1. prefix \in Nat /\ Len(r) \in Nat /\ n \in 1..(prefix + Len(r)) /\ n > prefix
      BY <1>1, <1>2, <1>8, <2>0
    <3> QED BY ONLY <3>1
  <2> QED BY <1>3, <2>1
<1>9. \A n \in (prefix + 1)..p1 : i \notin m[n].input.seqs
  <2> SUFFICES ASSUME NEW n \in (prefix + 1)..p1 PROVE i \notin m[n].input.seqs
    OBVIOUS
  <2>1. n \in 1..M /\ n > prefix /\ n - prefix <= u
    BY <1>1, <1>2, <1>6
  <2>2. n - prefix \in 1..Len(r) /\ m[n].input = r[n - prefix]
    BY <1>8, <2>1
  <2> QED BY <1>2, <2>1, <2>2
<1>10. \A n \in (p2 + 1)..M : i \notin m[n].input.seqs
  <2> SUFFICES ASSUME NEW n \in (p2 + 1)..M PROVE i \notin m[n].input.seqs
    OBVIOUS
  <2>1. n \in 1..M /\ n > prefix /\ n - prefix > v
    BY <1>1, <1>2, <1>6
  <2>2. n - prefix \in 1..Len(r) /\ m[n].input = r[n - prefix]
    BY <1>8, <2>1
  <2> QED BY <1>2, <2>1, <2>2
<1>11. ASSUME NEW j \in 1..(l - prefix)
       PROVE  m[p1 + j].input = [token |-> t[prefix + j], pos |-> prefix + j, seqs |-> {i}]
  <2>1. u + j \in 1..Len(r) /\ p1 + j = prefix + (u + j)
    BY <1>1, <1>2
  <2>2. m[p1 + j].input = r[u + j]
    BY <1>3, <2>1
  <2> QED BY <1>2, <2>2
<1>12. \A n \in (p1 + 1)..p2 : i \in m[n].input.seqs
  <2> SUFFICES ASSUME NEW n \in (p1 + 1)..p2 PROVE i \in m[n].input.seqs
    OBVIOUS
  <2>1. n - p1 \in 1..(l - prefix) /\ p1 + (n - p1) = n
    BY <1>1, <1>2, <1>6
  <2>2. m[n].input = [token |-> t[prefix + (n - p1)], pos |-> prefix + (n - p1), seqs |-> {i}]
    BY <1>11, <2>1
  <2> QED BY <2>2
<1> HIDE DEF p1, p2
<1>13. Len(g[prefix]) = prefix /\ \A j \in 1..prefix : g[prefix][j] = m[j]
  <2>1. g[0] = <<>> /\ Len(<<>>) = 0
    BY <1>5, EmptySeq DEF Chooses
  <2>2. \A n \in (0 + 1)..prefix : i \in m[n].input.seqs
    BY <1>1, <1>6, <1>7
  <2>3. 0 \in Nat /\ 0 <= prefix /\ prefix \in Nat /\ prefix <= Len(m)
    BY <1>1, <1>6
  <2>4. IsSeq(m) /\ Chooses(m, i, g)
    BY <1>3, <1>5
  <2>5. KeptPart(m, g, 0, prefix)
    BY ONLY <2>2, <2>3, <2>4, Kept
  <2> QED BY <1>1, <2>1, <2>5 DEF KeptPart
<1>14. g[p1] = g[prefix]
  <2>1. /\ IsSeq(m) /\ Chooses(m, i, g)
        /\ prefix \in Nat /\ p1 \in Nat /\ prefix <= p1 /\ p1 <= Len(m)
        /\ \A n \in (prefix + 1)..p1 : i \notin m[n].input.seqs
    BY <1>1, <1>3, <1>5, <1>6, <1>9
  <2> QED BY ONLY <2>1, Skipped
<1>15. /\ Len(g[p2]) = l
       /\ \A j \in 1..prefix : g[p2][j] = m[j]
       /\ \A j \in 1..(l - prefix) : g[p2][prefix + j] = m[p1 + j]
  <2>0. /\ IsSeq(m) /\ Chooses(m, i, g)
        /\ p1 \in Nat /\ p2 \in Nat /\ p1 <= p2 /\ p2 <= Len(m)
        /\ \A n \in (p1 + 1)..p2 : i \in m[n].input.seqs
    BY <1>3, <1>5, <1>6, <1>12
  <2>1. KeptPart(m, g, p1, p2)
    BY ONLY <2>0, Kept
  <2>4. prefix + (l - prefix) = l
    BY <1>1
  <2> QED BY <1>6, <1>13, <1>14, <2>1, <2>4 DEF KeptPart
<1>16. g[M] = g[p2]
  <2>1. /\ IsSeq(m) /\ Chooses(m, i, g)
        /\ p2 \in Nat /\ M \in Nat /\ p2 <= M /\ M <= Len(m)
        /\ \A n \in (p2 + 1)..M : i \notin m[n].input.seqs
    BY <1>3, <1>5, <1>6, <1>10
  <2> QED BY ONLY <2>1, Skipped
<1> DEFINE a == g[M]
<1>17. ASSUME NEW p \in 1..l
       PROVE  a[p].input.token = t[p] /\ a[p].input.pos = p
  <2>1. CASE p <= prefix
    <3>1. p \in 1..prefix
      BY <1>1, <2>1
    <3>2. m[p].input = [token |-> asked[1].tokens[p], pos |-> p, seqs |-> 1..N]
      BY <1>3, <3>1
    <3>3. a[p] = m[p] /\ t[p] = asked[1].tokens[p]
      BY <1>4, <1>15, <1>16, <3>1
    <3> QED BY <3>2, <3>3
  <2>2. CASE p > prefix
    <3> DEFINE j == p - prefix
    <3>1. j \in 1..(l - prefix) /\ prefix + j = p
      BY <1>1, <2>2
    <3> HIDE DEF j
    <3>2. m[p1 + j].input = [token |-> t[p], pos |-> p, seqs |-> {i}]
      BY <1>11, <3>1
    <3>3. a[p] = m[p1 + j]
      BY <1>15, <1>16, <3>1
    <3> QED BY <3>2, <3>3
  <2> QED BY <1>1, <2>1, <2>2
<1>18. Attended(m, i) = a /\ Len(a) = l
  BY <1>5, <1>15, <1>16
<1> HIDE DEF a
<1> QED BY <1>17, <1>18 DEF m, r, l, t, N

----------------------------------------------------------------------------
(* The work of a request.                                                  *)

\* WorkIsMeasured, of any results and cells.
Sums(res, s) ==
    s = [i \in 0..Len(res) |-> IF i = 0 THEN 0 ELSE s[i - 1] + res[i].processed]

Measured(res, cells) ==
    /\ \A i \in 1..Len(res) : res[i].processed + res[i].reused = Len(res[i].tokens)
    /\ (res # <<>> /\ res[1].mode = "batched") =>
          LET sum[i \in 0..Len(res)] == IF i = 0 THEN 0 ELSE sum[i - 1] + res[i].processed
          IN Len(cells) = sum[Len(res)]

LEMMA SumExists ==
    ASSUME NEW res, NEW m \in Nat
    PROVE  \E s : s = [i \in 0..m |-> IF i = 0 THEN 0 ELSE s[i - 1] + res[i].processed]
<1> DEFINE Upwards(n, s) ==
             s = [i \in 0..n |-> IF i = 0 THEN 0 ELSE s[i - 1] + res[i].processed]
           S == {n \in Nat : \E s : Upwards(n, s)}
<1>1. 0 \in S
  <2>1. Upwards(0, [n \in 0..0 |-> 0])
    OBVIOUS
  <2> QED BY <2>1
<1>2. ASSUME NEW n \in Nat, n \in S PROVE n + 1 \in S
  <2>1. PICK s : Upwards(n, s)
    BY <1>2
  <2> DEFINE g == [i \in 0..(n + 1) |-> IF i = n + 1 THEN s[n] + res[n + 1].processed ELSE s[i]]
  <2>2. ASSUME NEW i \in 0..(n + 1)
        PROVE  g[i] = IF i = 0 THEN 0 ELSE g[i - 1] + res[i].processed
    <3>1. CASE i = n + 1
      <4>1. i # 0 /\ i - 1 = n /\ n \in 0..(n + 1) /\ n # n + 1
        BY <3>1
      <4>2. g[n] = s[n] /\ g[i] = s[n] + res[n + 1].processed
        BY <3>1, <4>1
      <4> HIDE DEF g
      <4> QED BY <3>1, <4>1, <4>2
    <3>2. CASE i # n + 1
      <4>1. i \in 0..n /\ g[i] = s[i]
        BY <3>2
      <4>2. i # 0 => g[i - 1] = s[i - 1]
        <5> SUFFICES ASSUME i # 0 PROVE g[i - 1] = s[i - 1]
          OBVIOUS
        <5>1. i - 1 \in 0..(n + 1) /\ i - 1 # n + 1
          BY <4>1
        <5> QED BY <5>1
      <4>3. s[i] = IF i = 0 THEN 0 ELSE s[i - 1] + res[i].processed
        BY <2>1, <4>1
      <4> HIDE DEF g
      <4> QED BY <4>1, <4>2, <4>3
    <3> QED BY <3>1, <3>2
  <2>3. g = [i \in 0..(n + 1) |-> g[i]]
    BY DEF g
  <2> HIDE DEF g
  <2>4. Upwards(n + 1, g)
    BY <2>2, <2>3
  <2> QED BY <2>4
<1> HIDE DEF S
<1>3. m \in S
  BY <1>1, <1>2, Induction
<1> QED BY <1>3 DEF S

\* The tokens a batch reports as processed are its cells: the first question
\* pays for the prefix, each for its remainder.
LEMMA BatchSums ==
    ASSUME NEW prefix, Askable(prefix), NEW f, Lists(prefix, f), 1 \in 1..Len(asked),
           NEW res, Len(res) = Len(asked),
           \A i \in 1..Len(asked) :
              res[i].processed = Len(asked[i].tokens) - (IF i = 1 THEN 0 ELSE prefix)
    PROVE  LET sum[i \in 0..Len(res)] == IF i = 0 THEN 0 ELSE sum[i - 1] + res[i].processed
           IN sum[Len(res)] = prefix + Len(f[Len(asked)])
<1> DEFINE N == Len(res)
           s == CHOOSE s : s = [i \in 0..N |-> IF i = 0 THEN 0 ELSE s[i - 1] + res[i].processed]
<1>0. N \in Nat /\ N = Len(asked) /\ 1 \in 1..N
  BY SeqFacts DEF Askable
<1>1. s = [i \in 0..N |-> IF i = 0 THEN 0 ELSE s[i - 1] + res[i].processed]
  <2> HIDE DEF N
  <2> QED BY <1>0, SumExists
<1> DEFINE L(i) == Len(f[i])
           T(i) == Len(asked[i].tokens)
<1> SUFFICES s[N] = prefix + L(N)
  BY <1>0
<1> HIDE DEF N, s
<1>2. s[0] = 0
  <2>1. 0 \in 0..N
    BY <1>0
  <2> QED BY <1>1, <2>1
<1>3. ASSUME NEW i \in 1..N
      PROVE  s[i] = s[i - 1] + (T(i) - (IF i = 1 THEN 0 ELSE prefix))
  <2>1. i \in 0..N /\ i # 0 /\ i \in 1..Len(asked)
    BY <1>0
  <2>2. s[i] = s[i - 1] + res[i].processed
    BY <1>1, <2>1
  <2> QED BY <2>1, <2>2
<1>4. ASSUME NEW i \in 1..N
      PROVE  L(i) = L(i - 1) + (T(i) - prefix) /\ L(i - 1) \in Nat /\ T(i) \in Nat
  <2>1. i \in 1..Len(asked) /\ i - 1 \in 0..Len(asked)
    BY <1>0
  <2> QED BY <2>1 DEF Lists, Askable
<1>5. L(0) = 0 /\ prefix \in Nat
  <2>1. f[0] = <<>> /\ Len(<<>>) = 0
    BY EmptySeq DEF Lists
  <2> QED BY <2>1 DEF Askable
<1> HIDE DEF L, T
<1> DEFINE S == {n \in Nat : n + 1 <= N => s[n + 1] = prefix + L(n + 1)}
<1>6. 0 \in S
  <2>1. s[1] = s[1 - 1] + (T(1) - 0)
    BY <1>0, <1>3
  <2>2. L(1) = L(1 - 1) + (T(1) - prefix) /\ T(1) \in Nat
    BY <1>0, <1>4
  <2>3. s[1] = prefix + L(1)
    BY <1>2, <1>5, <2>1, <2>2
  <2> QED BY <2>3
<1>7. ASSUME NEW n \in Nat, n \in S PROVE n + 1 \in S
  <2> SUFFICES ASSUME (n + 1) + 1 <= N PROVE s[(n + 1) + 1] = prefix + L((n + 1) + 1)
    OBVIOUS
  <2> DEFINE i == (n + 1) + 1
  <2>1. i \in 1..N /\ i - 1 = n + 1 /\ i # 1 /\ n + 1 <= N
    BY <1>0
  <2>2. s[n + 1] = prefix + L(n + 1)
    BY <1>7, <2>1
  <2> HIDE DEF i, S
  <2>3. s[i] = s[i - 1] + (T(i) - prefix)
    BY <1>3, <2>1
  <2>4. L(i) = L(i - 1) + (T(i) - prefix) /\ L(i - 1) \in Nat /\ T(i) \in Nat
    BY <1>4, <2>1
  <2>5. s[i] = prefix + L(i)
    BY <1>5, <2>1, <2>2, <2>3, <2>4
  <2> QED BY <2>5 DEF i
<1>8. N - 1 \in S /\ (N - 1) + 1 = N
  <2> HIDE DEF S
  <2>1. N - 1 \in Nat /\ (N - 1) + 1 = N
    BY <1>0
  <2> QED BY <1>6, <1>7, <2>1, Induction
<1> QED BY <1>8

----------------------------------------------------------------------------
(* Every step keeps the invariant.                                         *)

LEMMA EmptyIs == IsSeq(<<>>) /\ Len(<<>>) = 0
  BY EmptySeq, SeqIs

LEMMA MeasuredIs == (WorkIsMeasured <=> Measured(results, memory))
  BY DEF WorkIsMeasured, Measured

LEMMA MeasuredIsNext == (WorkIsMeasured' <=> Measured(results', memory'))
  BY DEF WorkIsMeasured, Measured

\* An empty context is the decode of no input.
LEMMA NothingCached ==
    ASSUME NEW m
    PROVE  Upto(m, Len(<<>>)) = Decode(<<>>, Inputs(<<>>, 0, Len(<<>>), {1}))
<1> DEFINE d == Decode(<<>>, Inputs(<<>>, 0, 0, {1}))
<1>1. IsSeq(d) /\ Len(d) = 0
  <2>1. 0 \in Nat
    OBVIOUS
  <2> QED BY <2>1, PrefixIs
<1> HIDE DEF d
<1>2. IsSeq(Upto(m, 0)) /\ Len(Upto(m, 0)) = 0
  BY UptoFacts
<1>3. Upto(m, 0) = d
  BY <1>1, <1>2, SameSeq
<1> QED BY <1>3, EmptyIs DEF d

LEMMA LabelInvInit == Init => LabelInv
<1> SUFFICES ASSUME Init PROVE LabelInv
  OBVIOUS
<1> USE DEF Init
<1>1. IsSeq(<<>>) /\ Len(<<>>) = 0
  BY EmptyIs
<1>2. TypeOK
  BY <1>1 DEF TypeOK
<1>3. Shapes
  BY <1>1 DEF Shapes
<1>4. CachedInv
  <2>1. Upto(memory, Len(cached)) = Decode(<<>>, Inputs(cached, 0, Len(cached), {1}))
    BY NothingCached
  <2> QED BY <1>1, <2>1 DEF CachedInv
<1>5. ModesInv /\ AnswersAreAlone /\ AnswersAreTheirOwn
  BY <1>1 DEF ModesInv, AnswersAreAlone, AnswersAreTheirOwn
<1>6. WorkIsMeasured
  BY <1>1 DEF WorkIsMeasured
<1>7. CellsFit
  BY <1>1, SizesAssumption, ModesAssumption DEF CellsFit, Cells, ValidLimits
<1> QED BY <1>2, <1>3, <1>4, <1>5, <1>6, <1>7 DEF LabelInv

\* The parts of the invariant that speak only of the context and the results
\* are kept by a step that leaves both as they are, and the mode.
LEMMA ContextKept ==
    ASSUME LabelInv, UNCHANGED <<batched, memory, cached, results, fallback>>
    PROVE  /\ CachedInv' /\ ModesInv' /\ AnswersAreAlone' /\ WorkIsMeasured' /\ CellsFit'
           /\ IsSeq(results)' /\ IsSeq(memory)' /\ IsSeq(cached)'
<1>1. CachedInv'
  BY DEF LabelInv, CachedInv, Sequential
<1>2. ModesInv'
  BY DEF LabelInv, ModesInv, Sequential
<1>3. AnswersAreAlone'
  BY DEF LabelInv, AnswersAreAlone
<1>4. WorkIsMeasured'
  <2>1. Measured(results', memory')
    BY MeasuredIs DEF LabelInv
  <2> QED BY <2>1, MeasuredIsNext
<1>5. CellsFit'
  BY DEF LabelInv, CellsFit, Cells
<1>6. IsSeq(results)' /\ IsSeq(memory)' /\ IsSeq(cached)'
  BY DEF LabelInv, Shapes
<1> QED BY <1>1, <1>2, <1>3, <1>4, <1>5, <1>6

\* A step that also leaves the questions.
LEMMA RequestKept ==
    ASSUME LabelInv, UNCHANGED <<batched, memory, cached, results, fallback, asked>>,
           alive' \in BOOLEAN, answer' \in {"none", "result", "invalid_request"}
    PROVE  LabelInv'
<1>1. /\ CachedInv' /\ ModesInv' /\ AnswersAreAlone' /\ WorkIsMeasured' /\ CellsFit'
      /\ IsSeq(results)' /\ IsSeq(memory)' /\ IsSeq(cached)'
  BY ContextKept
<1>2. TypeOK'
  BY DEF LabelInv, TypeOK
<1>3. Shapes'
  BY <1>1 DEF LabelInv, Shapes
<1>4. AnswersAreTheirOwn'
  BY DEF LabelInv, AnswersAreTheirOwn
<1> QED BY <1>1, <1>2, <1>3, <1>4 DEF LabelInv

LEMMA MarkedIs ==
    ASSUME NEW p \in Prompts, NEW head \in Prompts \cup {<<>>}
    PROVE  Marked(p, head).tokens = p /\ Marked(p, head).prefix \in 0..(Len(p) - 1)
<1>1. Len(p) \in Nat /\ Len(p) > 0
  BY PromptIs
<1>2. Marked(p, head).prefix = IF head = <<>> THEN 0 ELSE SharedPrefix(head, p)
  BY DEF Marked
<1>3. 0 \in 0..(Len(p) - 1)
  BY <1>1
<1>4. head # <<>> => SharedPrefix(head, p) \in 0..(Len(p) - 1)
  BY SharedPrefixIs
<1> QED BY <1>2, <1>3, <1>4 DEF Marked

LEMMA TakeRequestKeeps == LabelInv /\ TakeRequest => LabelInv'
<1> SUFFICES ASSUME LabelInv, TakeRequest PROVE LabelInv'
  OBVIOUS
<1>0. PICK n \in 1..MaxQuestions :
          \E prompts \in [1..n -> Prompts], head \in Prompts \cup {<<>>} :
              Take(Compiled(prompts, head))
  BY DEF TakeRequest
<1>1. PICK prompts \in [1..n -> Prompts], head \in Prompts \cup {<<>>} :
          Take(Compiled(prompts, head))
  BY <1>0
<1> DEFINE q == [i \in 1..n |-> Marked(prompts[i], head)]
<1>2. /\ asked = <<>> /\ asked' = q
      /\ \A i \in 1..Len(q) : Len(q[i].tokens) <= Context
      /\ UNCHANGED <<batched, alive, memory, cached, fallback, results, answer>>
  <2>1. q = Compiled(prompts, head)
    BY DEF Compiled
  <2> HIDE DEF q
  <2> QED BY <1>1, <2>1 DEF Take
<1>3. IsSeq(q) /\ Len(q) = n /\ n \in Nat /\ \A i \in 1..n : q[i] = Marked(prompts[i], head)
  <2>1. n \in Nat
    BY SizesAssumption DEF ValidLimits
  <2>2. q = [i \in 1..n |-> q[i]] /\ \A i \in 1..n : q[i] = Marked(prompts[i], head)
    OBVIOUS
  <2> HIDE DEF q
  <2> QED BY <2>1, <2>2, MakeSeq
<1> HIDE DEF q
<1>4. results = <<>>
  <2>1. IsSeq(results) /\ Len(results) <= Len(asked)
    BY DEF LabelInv, Shapes, TypeOK
  <2>2. Len(results) = 0
    BY <1>2, <2>1, EmptyIs, SeqFacts
  <2> QED BY <2>1, <2>2, Emptied
<1>5. /\ CachedInv' /\ ModesInv' /\ AnswersAreAlone' /\ WorkIsMeasured' /\ CellsFit'
      /\ IsSeq(results)' /\ IsSeq(memory)' /\ IsSeq(cached)'
  BY <1>2, ContextKept
<1>6. TypeOK'
  <2>1. ASSUME NEW i \in 1..n
        PROVE  q[i].tokens \in Prompts /\ q[i].prefix \in 0..(Len(q[i].tokens) - 1)
    <3>1. prompts[i] \in Prompts
      OBVIOUS
    <3>2. q[i].tokens = prompts[i] /\ q[i].prefix \in 0..(Len(prompts[i]) - 1)
      BY <1>3, <3>1, MarkedIs
    <3> QED BY <3>1, <3>2
  <2>2. Len(results') <= Len(asked')
    BY <1>2, <1>3, <1>4, EmptyIs
  <2> QED BY <1>2, <1>3, <2>1, <2>2 DEF LabelInv, TypeOK
<1>7. Shapes'
  BY <1>2, <1>3, <1>5 DEF Shapes
<1>8. AnswersAreTheirOwn'
  BY <1>2, <1>4, EmptyIs DEF AnswersAreTheirOwn
<1> QED BY <1>5, <1>6, <1>7, <1>8 DEF LabelInv

LEMMA FallBackKeeps == LabelInv /\ FallBack => LabelInv'
<1> SUFFICES ASSUME LabelInv, FallBack PROVE LabelInv'
  OBVIOUS
<1>1. /\ results = <<>> /\ fallback' = "context"
      /\ UNCHANGED <<batched, alive, memory, cached, asked, results, answer>>
  BY DEF FallBack
<1>2. TypeOK'
  BY <1>1 DEF LabelInv, TypeOK
<1>3. Shapes'
  BY <1>1 DEF LabelInv, Shapes
<1>4. CachedInv'
  BY <1>1 DEF LabelInv, CachedInv, Sequential
<1>5. ModesInv' /\ AnswersAreAlone' /\ AnswersAreTheirOwn'
  BY <1>1, EmptyIs DEF ModesInv, AnswersAreAlone, AnswersAreTheirOwn
<1>6. WorkIsMeasured'
  <2>1. Measured(results', memory')
    BY <1>1, MeasuredIs DEF LabelInv
  <2> QED BY <2>1, MeasuredIsNext
<1>7. CellsFit'
  BY <1>1 DEF LabelInv, CellsFit, Cells
<1> QED BY <1>2, <1>3, <1>4, <1>5, <1>6, <1>7 DEF LabelInv

LEMMA NextLineKeeps == LabelInv /\ NextLine => LabelInv'
<1> SUFFICES ASSUME LabelInv, NextLine PROVE LabelInv'
  OBVIOUS
<1>1. /\ asked' = <<>> /\ results' = <<>> /\ cached' = <<>>
      /\ fallback' = "none" /\ answer' = "none"
      /\ UNCHANGED <<batched, alive, memory>>
  BY DEF NextLine
<1>2. IsSeq(<<>>) /\ Len(<<>>) = 0
  BY EmptyIs
<1>3. TypeOK'
  BY <1>1, <1>2 DEF LabelInv, TypeOK
<1>4. Shapes'
  BY <1>1, <1>2 DEF LabelInv, Shapes
<1>5. CachedInv'
  <2>1. Upto(memory', Len(cached')) = Decode(<<>>, Inputs(cached', 0, Len(cached'), {1}))
    BY <1>1, NothingCached
  <2>2. Len(cached') <= Len(memory')
    BY <1>1, <1>2, SeqFacts DEF LabelInv, Shapes
  <2> QED BY <1>1, <2>1, <2>2 DEF CachedInv
<1>6. ModesInv' /\ AnswersAreAlone' /\ AnswersAreTheirOwn'
  BY <1>1, <1>2 DEF ModesInv, AnswersAreAlone, AnswersAreTheirOwn
<1>7. WorkIsMeasured'
  <2>1. Measured(<<>>, memory')
    BY <1>2 DEF Measured
  <2> QED BY <1>1, <2>1, MeasuredIsNext
<1>8. CellsFit'
  BY <1>1 DEF LabelInv, CellsFit, Cells
<1> QED BY <1>3, <1>4, <1>5, <1>6, <1>7, <1>8 DEF LabelInv

\* The cells a question's remainder is prefilled after: those of its prefix,
\* as a decode of its own left them, whether they were kept or made again.
LEMMA PrefixCellsAre ==
    ASSUME TypeOK, Shapes, CachedInv, NEW i \in 1..Len(asked)
    PROVE  PrefixCells(asked[i]) =
             Decode(<<>>, Inputs(asked[i].tokens, 0, asked[i].prefix, {1}))
<1> DEFINE t == asked[i].tokens
           n == asked[i].prefix
           k == {1}
<1>1. n \in Nat
  BY AskedIs
<1>2. ASSUME cached = Upto(t, n)
      PROVE  Upto(memory, n) = Decode(<<>>, Inputs(t, 0, n, k))
  <2>1. Len(cached) = n
    BY <1>1, <1>2, UptoFacts
  <2>2. Upto(memory, n) = Decode(<<>>, Inputs(cached, 0, n, k))
    BY <2>1 DEF CachedInv
  <2>3. Inputs(Upto(t, n), 0, n, k) = Inputs(t, 0, n, k)
    BY <1>1, InputsOfUpto
  <2> QED BY <1>2, <2>2, <2>3
<1>3. PrefixCells(asked[i]) =
        IF n > 0 /\ cached = Upto(t, n) THEN Upto(memory, n)
        ELSE Decode(<<>>, Inputs(t, 0, n, k))
  BY DEF PrefixCells, Reuses
<1> HIDE DEF t, n, k
<1>4. PrefixCells(asked[i]) = Decode(<<>>, Inputs(t, 0, n, k))
  BY <1>2, <1>3
<1> QED BY <1>4 DEF t, n, k

\* A room for every prompt, in either mode.
LEMMA RoomForContext ==
    ASSUME TypeOK
    PROVE  Cells \in Nat /\ Context \in Nat /\ Context <= Cells
<1>1. batched \in Modes /\ (batched = TRUE \/ batched = FALSE)
  <2>1. batched \in Modes
    BY DEF TypeOK
  <2> QED BY <2>1, ModesAssumption, Zenon
<1>2. CASE batched = TRUE
  <2>1. TRUE \in Modes
    BY <1>1, <1>2, Zenon
  <2>2. Cells = BatchedContext
    BY <1>2, Zenon DEF Cells
  <2> QED BY ONLY <2>1, <2>2, SizesAssumption DEF ValidLimits
<1>3. CASE batched = FALSE
  <2>1. Cells = Context
    BY <1>3, Zenon DEF Cells
  <2> QED BY ONLY <2>1, SizesAssumption DEF ValidLimits
<1> QED BY <1>1, <1>2, <1>3

LEMMA EvaluateQuestionKeeps == LabelInv /\ EvaluateQuestion => LabelInv'
<1> SUFFICES ASSUME LabelInv, EvaluateQuestion PROVE LabelInv'
  OBVIOUS
<1> USE DEF LabelInv
<1> DEFINE n == Len(results) + 1
           q == asked[n]
           t == q.tokens
           p == q.prefix
           l == Len(t)
           k == {1}
           a == Decode(<<>>, Inputs(t, 0, p, k))
           b == Decode(a, Inputs(t, p, l, k))
           reused == IF Reuses(q) THEN p ELSE 0
           r == Result(t, p, b, l - reused, reused, "sequential")
<1>1. /\ IsSeq(results) /\ Len(results) \in Nat /\ IsSeq(asked) /\ Len(asked) \in Nat
      /\ n \in 1..Len(asked) /\ Sequential
  <2>1. IsSeq(results) /\ Len(results) \in Nat /\ IsSeq(asked) /\ Len(asked) \in Nat
    BY SeqFacts DEF Shapes
  <2>2. Len(results) < Len(asked) /\ Sequential
    BY DEF EvaluateQuestion
  <2> QED BY <2>1, <2>2
<1>2. t \in Prompts /\ IsSeq(t) /\ l \in Nat /\ l <= Context /\ p \in Nat /\ p <= l
  <2>1. IsSeq(t) /\ l \in Nat /\ l <= Context /\ p \in Nat /\ p <= l
    BY <1>1, AskedIs
  <2>2. t \in Prompts
    BY <1>1 DEF TypeOK
  <2> QED BY <2>1, <2>2
<1>3. PrefixCells(q) = a
  BY <1>1, PrefixCellsAre
<1>4. /\ memory' = b /\ cached' = Upto(t, p) /\ results' = Append(results, r)
      /\ UNCHANGED <<batched, alive, asked, fallback, answer>>
  <2>1. /\ memory' = Decode(PrefixCells(q), Inputs(t, p, l, k))
        /\ cached' = Upto(t, p)
        /\ results' = Append(results, Result(t, p, memory', l - reused, reused, "sequential"))
        /\ UNCHANGED <<batched, alive, asked, fallback, answer>>
    BY DEF EvaluateQuestion, Current
  <2> HIDE DEF q, t, p, l, k, a, reused
  <2> QED BY <1>3, <2>1
<1>5. /\ r.tokens = t /\ r.prefix = p /\ r.cells = b /\ r.mode = "sequential"
      /\ r.processed = l - reused /\ r.reused = reused
  <2> HIDE DEF t, p, l, b, reused
  <2> QED BY DEF Result
<1>6. reused \in Nat
  BY <1>2
<1> HIDE DEF q, r, reused
<1>7. /\ IsSeq(a) /\ Len(a) = p /\ IsSeq(b) /\ Len(b) = l
      /\ Upto(b, p) = a
      /\ \A i \in 1..l : b[i].input.token = t[i] /\ b[i].input.pos = i
  <2> HIDE DEF t, p, l, k
  <2>1. p \in Nat /\ l \in Nat /\ p <= l
    BY <1>2
  <2>2. Prefilled(t, p, l, a, b)
    BY ONLY <2>1, AloneIs
  <2> QED BY <2>2 DEF Prefilled
<1>8. Alone(t, p) = b
  BY DEF Alone
<1>9. /\ IsSeq(results') /\ Len(results') = n
      /\ \A i \in 1..Len(results) : results'[i] = results[i]
      /\ results'[n] = r
  BY <1>1, <1>4, Appended
<1>10. \A i \in 1..Len(results') : i \in 1..Len(results) \/ i = n
  BY <1>1, <1>9
<1>11. q = asked[n]
  BY DEF q
<1> HIDE DEF n, a, b
<1>12. TypeOK'
  <2>1. Len(results') <= Len(asked')
    BY <1>1, <1>4, <1>9
  <2> QED BY <1>4, <2>1 DEF TypeOK
<1>13. IsSeq(cached') /\ Len(cached') = p
  <2> HIDE DEF p, t
  <2> QED BY <1>2, <1>4, UptoFacts
<1>14. Shapes'
  <2>1. IsSeq(asked') /\ IsSeq(results') /\ IsSeq(memory') /\ IsSeq(cached')
    BY <1>1, <1>4, <1>7, <1>9, <1>13
  <2>2. \A i \in 1..Len(asked') : Len(asked'[i].tokens) <= Context
    BY <1>4 DEF Shapes
  <2> QED BY <2>1, <2>2 DEF Shapes
<1>15. CachedInv'
  <2>1. Len(cached') <= Len(memory')
    BY <1>2, <1>4, <1>7, <1>13
  <2>2. Upto(memory', Len(cached')) = a
    BY <1>4, <1>7, <1>13
  <2>3. a = Decode(<<>>, Inputs(cached', 0, Len(cached'), {1}))
    <3> HIDE DEF t, p
    <3>1. Inputs(Upto(t, p), 0, p, {1}) = Inputs(t, 0, p, {1})
      BY <1>2, InputsOfUpto
    <3>2. Inputs(cached', 0, Len(cached'), {1}) = Inputs(t, 0, p, {1})
      BY <1>4, <1>13, <3>1
    <3> QED BY <3>2 DEF a
  <2>4. Sequential'
    BY <1>1, <1>4 DEF Sequential
  <2> QED BY <2>1, <2>2, <2>3, <2>4 DEF CachedInv
<1>16. ModesInv'
  <2>1. Sequential'
    BY <1>1, <1>4 DEF Sequential
  <2>2. \A i \in 1..Len(results) : results[i].mode = "sequential"
    BY <1>1 DEF ModesInv
  <2>3. \A i \in 1..Len(results') : results'[i].mode = "sequential"
    BY <1>5, <1>9, <1>10, <2>2
  <2> QED BY <2>1, <2>3 DEF ModesInv
<1>17. AnswersAreAlone'
  <2> SUFFICES ASSUME NEW i \in 1..Len(results'), results'[i].mode = "sequential"
               PROVE  results'[i].cells = Alone(results'[i].tokens, results'[i].prefix)
    BY DEF AnswersAreAlone, Alone
  <2>1. CASE i \in 1..Len(results)
    BY <1>9, <2>1 DEF AnswersAreAlone
  <2>2. CASE i = n
    BY <1>5, <1>8, <1>9, <2>2
  <2> QED BY <1>10, <2>1, <2>2
<1>18. AnswersAreTheirOwn'
  <2> SUFFICES ASSUME NEW i \in 1..Len(results')
               PROVE  /\ results'[i].tokens = asked[i].tokens
                      /\ Len(results'[i].cells) = Len(results'[i].tokens)
                      /\ \A j \in 1..Len(results'[i].tokens) :
                            /\ results'[i].cells[j].input.token = results'[i].tokens[j]
                            /\ results'[i].cells[j].input.pos = j
    BY <1>4 DEF AnswersAreTheirOwn
  <2>1. CASE i \in 1..Len(results)
    BY <1>9, <2>1, SMTT(30) DEF AnswersAreTheirOwn
  <2>2. CASE i = n
    BY <1>5, <1>7, <1>9, <1>11, <2>2
  <2> QED BY <1>10, <2>1, <2>2
<1>19. WorkIsMeasured'
  <2>1. \A i \in 1..Len(results') :
            results'[i].processed + results'[i].reused = Len(results'[i].tokens)
    <3> SUFFICES ASSUME NEW i \in 1..Len(results')
                 PROVE  results'[i].processed + results'[i].reused = Len(results'[i].tokens)
      OBVIOUS
    <3>1. CASE i \in 1..Len(results)
      BY <1>9, <3>1 DEF WorkIsMeasured
    <3>2. CASE i = n
      <4>1. (l - reused) + reused = l
        BY <1>2, <1>6
      <4> QED BY <1>5, <1>9, <3>2, <4>1
    <3> QED BY <1>10, <3>1, <3>2
  <2>2. results'[1].mode # "batched"
    <3>1. 1 \in 1..Len(results')
      BY <1>1, <1>9
    <3>2. Sequential'
      BY <1>1, <1>4 DEF Sequential
    <3>3. results'[1].mode = "sequential"
      BY <1>16, <3>1, <3>2 DEF ModesInv
    <3> QED BY <3>3
  <2>3. Measured(results', memory')
    BY <2>1, <2>2 DEF Measured
  <2> QED BY <2>3, MeasuredIsNext
<1>20. CellsFit'
  <2>1. Len(memory') <= Cells
    BY <1>2, <1>4, <1>7, RoomForContext
  <2> QED BY <1>4, <2>1 DEF CellsFit, Cells
<1> QED BY <1>12, <1>14, <1>15, <1>16, <1>17, <1>18, <1>19, <1>20

LEMMA EvaluateBatchedKeeps == LabelInv /\ EvaluateBatched => LabelInv'
<1> SUFFICES ASSUME LabelInv, EvaluateBatched PROVE LabelInv'
  OBVIOUS
<1> USE DEF LabelInv
<1> DEFINE N == Len(asked)
           prefix == BatchedPrefix
           shared == Decode(<<>>, Inputs(asked[1].tokens, 0, prefix, 1..N))
           r(i) == Result(asked[i].tokens, prefix, Attended(memory', i),
                          Len(asked[i].tokens) - (IF i = 1 THEN 0 ELSE prefix),
                          IF i = 1 THEN 0 ELSE prefix, "batched")
<1>1. /\ batched /\ asked # <<>> /\ results = <<>> /\ fallback = "none"
      /\ CellCount(prefix) <= BatchedContext
      /\ memory' = Decode(shared, Pending(prefix))
      /\ results' = [i \in 1..N |-> r(i)]
      /\ UNCHANGED <<batched, alive, cached, asked, fallback, answer>>
  BY DEF EvaluateBatched
<1>2. /\ 1 \in 1..N /\ Askable(prefix)
      /\ \A i \in 1..N : Upto(asked[i].tokens, prefix) = Upto(asked[1].tokens, prefix)
  BY <1>1, BatchedPrefixIs
<1>3. N \in Nat /\ prefix \in Nat
  BY <1>2, SeqFacts DEF Askable
<1> HIDE DEF prefix
<1>4. PICK f : Lists(prefix, f) /\ Pending(prefix) = f[N]
  BY <1>2, PendingIs
<1>5. IsSeq(memory') /\ Len(memory') = prefix + Len(f[N])
  BY <1>1, <1>2, <1>4, BatchIs
<1>6. /\ IsSeq(results') /\ Len(results') = N
      /\ \A i \in 1..N : results'[i] = r(i)
  <2> HIDE DEF r
  <2>1. results' = [i \in 1..N |-> results'[i]] /\ \A i \in 1..N : results'[i] = r(i)
    BY <1>1
  <2> HIDE DEF N
  <2> QED BY <1>3, <2>1, MakeSeq
<1>7. ASSUME NEW i \in 1..N
      PROVE  /\ results'[i].tokens = asked[i].tokens
             /\ results'[i].cells = Attended(memory', i)
             /\ results'[i].processed = Len(asked[i].tokens) - (IF i = 1 THEN 0 ELSE prefix)
             /\ results'[i].reused = (IF i = 1 THEN 0 ELSE prefix)
             /\ results'[i].mode = "batched"
  <2>1. results'[i] = r(i)
    BY <1>6
  <2> QED BY <2>1 DEF Result
<1> HIDE DEF r
<1>8. ASSUME NEW i \in 1..N
      PROVE  /\ Len(Attended(memory', i)) = Len(asked[i].tokens)
             /\ \A j \in 1..Len(asked[i].tokens) :
                   /\ Attended(memory', i)[j].input.token = asked[i].tokens[j]
                   /\ Attended(memory', i)[j].input.pos = j
  <2>1. /\ Askable(prefix) /\ Lists(prefix, f) /\ 1 \in 1..Len(asked) /\ i \in 1..Len(asked)
        /\ Upto(asked[i].tokens, prefix) = Upto(asked[1].tokens, prefix)
    BY <1>2, <1>4
  <2>2. memory' = Decode(shared, f[N])
    BY <1>1, <1>4
  <2>3. Len(Attended(Decode(shared, f[N]), i)) = Len(asked[i].tokens)
    BY <2>1, BatchedAnswer
  <2>4. \A j \in 1..Len(asked[i].tokens) :
            /\ Attended(Decode(shared, f[N]), i)[j].input.token = asked[i].tokens[j]
            /\ Attended(Decode(shared, f[N]), i)[j].input.pos = j
    BY <2>1, BatchedAnswer
  <2> HIDE DEF shared
  <2> QED BY <2>2, <2>3, <2>4
<1> HIDE DEF shared
<1>9. TypeOK'
  <2>1. Len(results') <= Len(asked')
    BY <1>1, <1>3, <1>6
  <2> QED BY <1>1, <2>1 DEF TypeOK
<1>10. Shapes'
  <2>1. IsSeq(asked') /\ IsSeq(cached') /\ \A i \in 1..Len(asked') : Len(asked'[i].tokens) <= Context
    BY <1>1 DEF Shapes
  <2> QED BY <1>5, <1>6, <2>1 DEF Shapes
<1>11. CachedInv'
  <2>1. cached = <<>>
    BY <1>1 DEF CachedInv, Sequential
  <2>2. Upto(memory', Len(cached')) = Decode(<<>>, Inputs(cached', 0, Len(cached'), {1}))
    BY <1>1, <2>1, NothingCached
  <2>3. Len(cached') <= Len(memory')
    BY <1>1, <1>5, <2>1, EmptyIs, SeqFacts
  <2> QED BY <1>1, <2>1, <2>2, <2>3 DEF CachedInv
<1>12. ModesInv'
  <2>1. ~Sequential'
    BY <1>1 DEF Sequential
  <2> QED BY <1>6, <1>7, <2>1 DEF ModesInv
<1>13. AnswersAreAlone'
  BY <1>6, <1>7 DEF AnswersAreAlone
<1>14. AnswersAreTheirOwn'
  <2> SUFFICES ASSUME NEW i \in 1..N
               PROVE  /\ results'[i].tokens = asked[i].tokens
                      /\ Len(results'[i].cells) = Len(results'[i].tokens)
                      /\ \A j \in 1..Len(results'[i].tokens) :
                            /\ results'[i].cells[j].input.token = results'[i].tokens[j]
                            /\ results'[i].cells[j].input.pos = j
    BY <1>1, <1>6 DEF AnswersAreTheirOwn
  <2> QED BY <1>7, <1>8
<1>15. WorkIsMeasured'
  <2>1. \A i \in 1..Len(results') :
            results'[i].processed + results'[i].reused = Len(results'[i].tokens)
    <3> SUFFICES ASSUME NEW i \in 1..N
                 PROVE  results'[i].processed + results'[i].reused = Len(results'[i].tokens)
      BY <1>6
    <3> DEFINE l == Len(asked[i].tokens)
               c == IF i = 1 THEN 0 ELSE prefix
    <3>1. l \in Nat /\ c \in Nat
      BY <1>2, <1>3 DEF Askable
    <3>2. results'[i].processed = l - c /\ results'[i].reused = c /\ Len(results'[i].tokens) = l
      BY <1>7
    <3> HIDE DEF l, c
    <3> QED BY <3>1, <3>2
  <2>2. Len(memory') = LET sum[i \in 0..Len(results')] ==
                               IF i = 0 THEN 0 ELSE sum[i - 1] + results'[i].processed
                       IN sum[Len(results')]
    <3>1. \A i \in 1..Len(asked) :
            results'[i].processed = Len(asked[i].tokens) - (IF i = 1 THEN 0 ELSE prefix)
      BY <1>7
    <3>2. Askable(prefix) /\ Lists(prefix, f) /\ 1 \in 1..Len(asked) /\ Len(results') = Len(asked)
      BY <1>2, <1>4, <1>6
    <3>3. (LET sum[i \in 0..Len(results')] ==
                   IF i = 0 THEN 0 ELSE sum[i - 1] + results'[i].processed
           IN sum[Len(results')]) = prefix + Len(f[Len(asked)])
      BY ONLY <3>1, <3>2, BatchSums
    <3> QED BY <1>5, <3>3
  <2>3. Measured(results', memory')
    BY <2>1, <2>2 DEF Measured
  <2> QED BY <2>3, MeasuredIsNext
<1>16. CellsFit'
  <2>1. Len(memory') <= BatchedContext
    BY <1>1, <1>4, <1>5 DEF CellCount
  <2> QED BY <1>1, <2>1 DEF CellsFit, Cells
<1> QED BY <1>9, <1>10, <1>11, <1>12, <1>13, <1>14, <1>15, <1>16

LEMMA LabelInvNext == LabelInv /\ [Next]_vars => LabelInv'
<1> SUFFICES ASSUME LabelInv, [Next]_vars PROVE LabelInv'
  OBVIOUS
<1>1. CASE TakeRequest
  BY <1>1, TakeRequestKeeps
<1>2. CASE RefuseRequest
  BY <1>2, RequestKept DEF RefuseRequest, LabelInv, TypeOK
<1>3. CASE EvaluateQuestion
  BY <1>3, EvaluateQuestionKeeps
<1>4. CASE FallBack
  BY <1>4, FallBackKeeps
<1>5. CASE EvaluateBatched
  BY <1>5, EvaluateBatchedKeeps
<1>6. CASE InferenceFails
  BY <1>6, RequestKept DEF InferenceFails, LabelInv, TypeOK
<1>7. CASE Respond
  BY <1>7, RequestKept DEF Respond, LabelInv, TypeOK
<1>8. CASE NextLine
  BY <1>8, NextLineKeeps
<1>9. CASE UNCHANGED vars
  BY <1>9, RequestKept DEF vars, LabelInv, TypeOK
<1> QED BY <1>1, <1>2, <1>3, <1>4, <1>5, <1>6, <1>7, <1>8, <1>9 DEF Next, Evaluates

----------------------------------------------------------------------------
(* What the application is told.                                           *)

\* The reported numbers, and what they rest on: nothing is cached until the
\* first question of a request has been evaluated.
ReportsInv ==
    /\ Len(asked) <= MaxQuestions
    /\ results = <<>> => cached = <<>>
    /\ \A i \in 1..Len(results) :
          /\ results[i].processed \in Nat \ {0} /\ results[i].reused \in Nat
          /\ i = 1 => results[i].reused = 0
          /\ results[i].mode = "sequential" => results[i].prefix = asked[i].prefix
    /\ fallback = "context" => batched
    /\ answer = "result" => asked # <<>> /\ Len(results) = Len(asked)

LEMMA ReportsInvInit == Init => ReportsInv
  BY EmptyIs, SizesAssumption DEF Init, ReportsInv, ValidLimits

\* A step that leaves the request and its results as they are.
LEMMA ReportsKept ==
    ASSUME ReportsInv, UNCHANGED <<asked, cached, results, batched>>,
           answer' # "result" \/ answer' = answer,
           fallback' = "context" => batched
    PROVE  ReportsInv'
  BY DEF ReportsInv

LEMMA NewRequestReports == LabelInv /\ ReportsInv /\ TakeRequest => ReportsInv'
<1> SUFFICES ASSUME LabelInv, ReportsInv, TakeRequest PROVE ReportsInv'
  OBVIOUS
<1>1. PICK n \in 1..MaxQuestions :
          \E prompts \in [1..n -> Prompts], head \in Prompts \cup {<<>>} :
              Take(Compiled(prompts, head))
  BY DEF TakeRequest
<1>2. PICK prompts \in [1..n -> Prompts], head \in Prompts \cup {<<>>} :
          Take(Compiled(prompts, head))
  BY <1>1
<1>3. /\ asked = <<>> /\ asked' = Compiled(prompts, head) /\ answer = "none"
      /\ UNCHANGED <<batched, alive, memory, cached, fallback, results, answer>>
  BY <1>2 DEF Take
<1>4. n \in Nat /\ n <= MaxQuestions
  BY SizesAssumption DEF ValidLimits
<1>5. Len(asked') = n
  <2> DEFINE q == Compiled(prompts, head)
  <2>1. q = [i \in 1..n |-> q[i]]
    BY DEF Compiled
  <2> HIDE DEF q
  <2>2. Len(q) = n
    BY <1>4, <2>1, MakeSeq
  <2> QED BY <1>3, <2>2 DEF q
<1>6. Len(results') = 0
  <2>1. IsSeq(results) /\ Len(results) <= Len(asked)
    BY DEF LabelInv, Shapes, TypeOK
  <2> QED BY <1>3, <2>1, EmptyIs, SeqFacts
<1> QED BY <1>3, <1>4, <1>5, <1>6 DEF ReportsInv

LEMMA QuestionReports == LabelInv /\ ReportsInv /\ EvaluateQuestion => ReportsInv'
<1> SUFFICES ASSUME LabelInv, ReportsInv, EvaluateQuestion PROVE ReportsInv'
  OBVIOUS
<1> DEFINE n == Len(results) + 1
           q == asked[n]
           t == q.tokens
           p == q.prefix
           l == Len(t)
           reused == IF Reuses(q) THEN p ELSE 0
           r == Result(t, p, memory', l - reused, reused, "sequential")
<1>1. /\ IsSeq(results) /\ Len(results) \in Nat /\ n \in 1..Len(asked)
      /\ Len(asked) \in Nat /\ Len(results) < Len(asked)
  <2>1. IsSeq(results) /\ Len(results) \in Nat /\ IsSeq(asked) /\ Len(asked) \in Nat
    BY SeqFacts DEF LabelInv, Shapes
  <2>2. Len(results) < Len(asked)
    BY DEF EvaluateQuestion
  <2> QED BY <2>1, <2>2
<1>2. l \in Nat /\ p \in 0..(l - 1)
  <2>1. q.tokens \in Prompts /\ q.prefix \in 0..(Len(q.tokens) - 1)
    BY <1>1 DEF LabelInv, TypeOK
  <2> QED BY <2>1, PromptIs
<1>3. /\ results' = Append(results, r) /\ UNCHANGED <<batched, alive, asked, fallback, answer>>
  BY DEF EvaluateQuestion, Current
<1>4. /\ r.prefix = p /\ r.mode = "sequential"
      /\ r.processed = l - reused /\ r.reused = reused
  <2> HIDE DEF t, p, l, reused
  <2> QED BY DEF Result
<1>5. n = 1 => reused = 0
  <2> SUFFICES ASSUME n = 1, Reuses(q) PROVE FALSE
    BY DEF reused
  <2>1. cached = <<>>
    <3>1. results = <<>>
      BY <1>1, Emptied
    <3> QED BY <3>1 DEF ReportsInv
  <2>2. p > 0 /\ cached = Upto(t, p)
    BY DEF Reuses
  <2>3. Len(Upto(t, p)) = p
    <3> HIDE DEF t, p
    <3> QED BY <1>2, UptoFacts
  <2> QED BY <1>2, <2>1, <2>2, <2>3, EmptyIs
<1>6. reused \in Nat /\ l - reused \in Nat \ {0}
  <2> HIDE DEF l, p
  <2> QED BY <1>2
<1>7. q = asked[n] /\ p = asked[n].prefix
  OBVIOUS
<1> HIDE DEF r, reused, l, p, t, q
<1>8. /\ IsSeq(results') /\ Len(results') = n
      /\ \A i \in 1..Len(results) : results'[i] = results[i]
      /\ results'[n] = r
  BY <1>1, <1>3, Appended
<1>9. \A i \in 1..n : i \in 1..Len(results) \/ i = n
  BY <1>1
<1>10. results' # <<>>
  BY <1>1, <1>8, EmptyIs
<1>11. answer # "result"
  BY <1>1 DEF ReportsInv
<1> HIDE DEF n
<1>12. ASSUME NEW i \in 1..n
       PROVE  /\ results'[i].processed \in Nat \ {0} /\ results'[i].reused \in Nat
              /\ i = 1 => results'[i].reused = 0
              /\ results'[i].mode = "sequential" => results'[i].prefix = asked[i].prefix
  <2>1. CASE i \in 1..Len(results)
    BY <1>8, <2>1 DEF ReportsInv
  <2>2. CASE i = n
    BY <1>4, <1>5, <1>6, <1>7, <1>8, <2>2
  <2> QED BY <1>9, <2>1, <2>2
<1> QED BY <1>3, <1>8, <1>10, <1>11, <1>12 DEF ReportsInv

LEMMA BatchReports == LabelInv /\ ReportsInv /\ EvaluateBatched => ReportsInv'
<1> SUFFICES ASSUME LabelInv, ReportsInv, EvaluateBatched PROVE ReportsInv'
  OBVIOUS
<1> DEFINE N == Len(asked)
           prefix == BatchedPrefix
           r(i) == Result(asked[i].tokens, prefix, Attended(memory', i),
                          Len(asked[i].tokens) - (IF i = 1 THEN 0 ELSE prefix),
                          IF i = 1 THEN 0 ELSE prefix, "batched")
<1>1. /\ batched /\ asked # <<>> /\ results = <<>> /\ fallback = "none"
      /\ results' = [i \in 1..N |-> r(i)]
      /\ UNCHANGED <<batched, alive, cached, asked, fallback, answer>>
  BY DEF EvaluateBatched
<1>2. 1 \in 1..N /\ prefix \in Nat /\ \A i \in 1..N : prefix <= asked[i].prefix
  BY <1>1, BatchedPrefixIs DEF LabelInv, Askable
<1> HIDE DEF prefix
<1>3. N \in Nat
  BY SeqFacts DEF LabelInv, Shapes
<1>4. Len(results') = N /\ \A i \in 1..N : results'[i] = r(i)
  <2> HIDE DEF r
  <2>1. results' = [i \in 1..N |-> results'[i]] /\ \A i \in 1..N : results'[i] = r(i)
    BY <1>1
  <2> HIDE DEF N
  <2> QED BY <1>3, <2>1, MakeSeq
<1>5. ASSUME NEW i \in 1..N
      PROVE  /\ results'[i].processed \in Nat \ {0} /\ results'[i].reused \in Nat
             /\ i = 1 => results'[i].reused = 0
             /\ results'[i].mode = "batched"
  <2> DEFINE l == Len(asked[i].tokens)
             c == IF i = 1 THEN 0 ELSE prefix
  <2>1. l \in Nat /\ asked[i].prefix \in 0..(l - 1)
    <3>1. asked[i].tokens \in Prompts /\ asked[i].prefix \in 0..(Len(asked[i].tokens) - 1)
      BY DEF LabelInv, TypeOK
    <3> QED BY <3>1, PromptIs
  <2>2. prefix <= asked[i].prefix
    BY <1>2
  <2>3. c \in Nat /\ l - c \in Nat \ {0} /\ (i = 1 => c = 0)
    <3> HIDE DEF l
    <3> QED BY <1>2, <2>1, <2>2
  <2>4. results'[i].processed = l - c /\ results'[i].reused = c /\ results'[i].mode = "batched"
    <3>1. results'[i] = Result(asked[i].tokens, prefix, Attended(memory', i), l - c, c, "batched")
      BY <1>4
    <3> HIDE DEF l, c
    <3> QED BY <3>1 DEF Result
  <2> HIDE DEF l, c
  <2> QED BY <2>3, <2>4
<1> HIDE DEF r
<1>6. results' # <<>>
  BY <1>2, <1>3, <1>4, EmptyIs
<1>7. answer # "result"
  BY <1>1, <1>2, <1>3, EmptyIs DEF ReportsInv
<1> HIDE DEF N
<1>8. ReportsInv'
  <2>1. Len(asked') <= MaxQuestions
    BY <1>1 DEF ReportsInv
  <2>2. \A i \in 1..Len(results') :
          /\ results'[i].processed \in Nat \ {0} /\ results'[i].reused \in Nat
          /\ i = 1 => results'[i].reused = 0
          /\ results'[i].mode = "sequential" => results'[i].prefix = asked'[i].prefix
    BY <1>4, <1>5
  <2> QED BY <1>1, <1>6, <1>7, <2>1, <2>2 DEF ReportsInv
<1> QED BY <1>8

LEMMA ReportsInvNext == LabelInv /\ ReportsInv /\ [Next]_vars => ReportsInv'
<1> SUFFICES ASSUME LabelInv, ReportsInv, [Next]_vars PROVE ReportsInv'
  OBVIOUS
<1>1. CASE TakeRequest
  BY <1>1, NewRequestReports
<1>2. CASE RefuseRequest
  BY <1>2, ReportsKept DEF RefuseRequest, ReportsInv
<1>3. CASE EvaluateQuestion
  BY <1>3, QuestionReports
<1>4. CASE FallBack
  BY <1>4, ReportsKept DEF FallBack
<1>5. CASE EvaluateBatched
  BY <1>5, BatchReports
<1>6. CASE InferenceFails
  BY <1>6, ReportsKept DEF InferenceFails, ReportsInv
<1>7. CASE Respond
  BY <1>7 DEF Respond, ReportsInv
<1>8. CASE NextLine
  BY <1>8, EmptyIs, SizesAssumption DEF NextLine, ReportsInv, ValidLimits
<1>9. CASE UNCHANGED vars
  BY <1>9, ReportsKept DEF vars, ReportsInv
<1> QED BY <1>1, <1>2, <1>3, <1>4, <1>5, <1>6, <1>7, <1>8, <1>9 DEF Next, Evaluates

----------------------------------------------------------------------------
(* The theorems.                                                           *)

\* In every state of every run the invariant holds.
THEOREM LabelInvariantHolds == Spec => []LabelInv
  BY LabelInvInit, LabelInvNext, PTL DEF Spec

\* A sequential answer is computed in exactly the decodes its question gets
\* when it is asked alone, whatever was asked before it or beside it.
THEOREM AnswersAlwaysAlone == Spec => []AnswersAreAlone
<1>1. LabelInv => AnswersAreAlone
  BY DEF LabelInv
<1> QED BY <1>1, LabelInvariantHolds, PTL

\* An answer attends to its own prompt, each token of it once and in its
\* place, in a batch too, where the cells of the siblings lie between.
THEOREM AnswersAlwaysTheirOwn == Spec => []AnswersAreTheirOwn
<1>1. LabelInv => AnswersAreTheirOwn
  BY DEF LabelInv
<1> QED BY <1>1, LabelInvariantHolds, PTL

\* The cells are within the context, and the reported work accounts for them.
THEOREM CellsAlwaysCounted == Spec => []CellsAreCounted
<1>1. LabelInv => CellsAreCounted
  BY DEF LabelInv, CellsAreCounted
<1> QED BY <1>1, LabelInvariantHolds, PTL

\* The hello of a worker passes its schema.
LEMMA ProfileIsValid ==
    ASSUME batched \in Modes
    PROVE  ValidProfile(Hello)
<1> DEFINE l == [k \in 1..Alphabet |-> k]
<1>1. Alphabet \in 2..255 /\ Alphabet \in Nat
  BY OptionsAssumption
<1>2. Len(l) = Alphabet /\ \A k \in 1..Alphabet : l[k] = k
  <2>1. \A k \in 1..Alphabet : l[k] = k
    OBVIOUS
  <2>2. l = [k \in 1..Alphabet |-> l[k]]
    OBVIOUS
  <2> HIDE DEF l
  <2> QED BY <1>1, <2>1, <2>2, MakeSeq
<1>3. Hello.label_token_ids = l /\ Hello.context_size = Context /\ Hello.max_questions = MaxQuestions
      /\ Hello.batched_mode = batched
      /\ Hello.batched_context = IF batched THEN BatchedContext ELSE 0
  BY DEF Hello
<1>4. /\ Context >= 1 /\ MaxQuestions \in 1..32
      /\ batched = TRUE => BatchedContext >= Context
  <2>1. Context \in Nat \ {0} /\ MaxQuestions \in Nat \ {0} /\ MaxQuestions <= 32
    BY SizesAssumption DEF ValidLimits
  <2>2. ASSUME batched = TRUE PROVE BatchedContext >= Context
    <3> DEFINE top == MaxQuestions * Context
    <3>1. BatchedContext \in Context..top /\ top \in Int
      BY <2>1, <2>2, SizesAssumption DEF ValidLimits
    <3> HIDE DEF top
    <3> QED BY <2>1, <3>1
  <2>3. Context >= 1 /\ MaxQuestions \in 1..32
    BY <2>1
  <2> QED BY <2>2, <2>3, Zenon
<1> HIDE DEF l
<1>5. Len(Hello.label_token_ids) = Alphabet
  BY <1>2, <1>3
<1>6. \A i, j \in 1..Alphabet :
         Hello.label_token_ids[i] = Hello.label_token_ids[j] => i = j
  BY <1>2, <1>3
<1>7. IF Hello.batched_mode THEN Hello.batched_context >= Hello.context_size
      ELSE Hello.batched_context = 0
  <2>1. batched = TRUE \/ batched = FALSE
    BY ModesAssumption
  <2> QED BY <1>3, <1>4, <2>1
<1> QED BY <1>1, <1>3, <1>4, <1>5, <1>6, <1>7 DEF ValidProfile

\* The labels of a question are the first of the worker's.
LEMMA MappingIsFirst ==
    ASSUME NEW p \in Prompts
    PROVE  Mapping(p) = SubSeq(Hello.label_token_ids, 1, Options[p])
<1>1. Options[p] \in 2..Alphabet /\ Alphabet \in Nat
  BY OptionsAssumption DEF Listed
<1>2. Hello.label_token_ids = [k \in 1..Alphabet |-> k]
  BY DEF Hello
<1>3. \A k \in 1..Options[p] : k \in 1..Alphabet /\ k + 1 - 1 = k
  BY <1>1
<1>4. 1 + Options[p] - 1 = Options[p]
  BY <1>1
<1>5. SubSeq(Hello.label_token_ids, 1, Options[p]) = [k \in 1..Options[p] |-> k]
  BY <1>1, <1>2, <1>3, <1>4
<1> QED BY <1>5 DEF Mapping

\* A result the worker writes passes every check of the schema and the mapping,
\* and a sequential response says of each question what it would alone.
LEMMA ResponsesFromInv == LabelInv /\ ReportsInv => ResponsesAreTrue
<1>0. LabelInv => ValidProfile(Hello)
  BY ProfileIsValid DEF LabelInv, TypeOK
<1> SUFFICES ASSUME LabelInv, ReportsInv, answer = "result" PROVE ResponsesAreTrue
  BY <1>0 DEF ResponsesAreTrue, ResultsAreBelieved, ResponsesAreOwn, LabelInv
<1> DEFINE N == Len(asked)
           Q == [i \in 1..Len(results) |-> QuestionResult(i)]
<1>1. N \in Nat /\ Len(results) = N /\ N <= MaxQuestions /\ N # 0 /\ 1 \in 1..N
  <2>1. N \in Nat /\ (asked = <<>> <=> N = 0)
    BY SeqFacts, Emptied DEF LabelInv, Shapes
  <2> QED BY <2>1 DEF ReportsInv
<1>2. MaxQuestions \in Nat /\ MaxQuestions <= 32
  BY SizesAssumption DEF ValidLimits
<1>3. Len(Q) = N /\ \A i \in 1..N : Q[i] = QuestionResult(i)
  <2>1. Q = [i \in 1..N |-> Q[i]] /\ \A i \in 1..N : Q[i] = QuestionResult(i)
    BY <1>1
  <2> HIDE DEF Q, N
  <2> QED BY <1>1, <2>1, MakeSeq
<1>4. Message.questions = Q /\ Message.batched_fallback = fallback
  BY DEF Message
<1> HIDE DEF Q
<1>5. ASSUME NEW i \in 1..N
      PROVE  /\ results[i].tokens = asked[i].tokens /\ asked[i].tokens \in Prompts
             /\ results[i].mode = IF Sequential THEN "sequential" ELSE "batched"
             /\ results[i].processed + results[i].reused = Len(results[i].tokens)
             /\ results[i].processed \in Nat \ {0} /\ results[i].reused \in Nat
             /\ i = 1 => results[i].reused = 0
             /\ Sequential => /\ results[i].prefix = asked[i].prefix
                              /\ results[i].cells = Alone(asked[i].tokens, asked[i].prefix)
  <2>1. i \in 1..Len(results)
    BY <1>1
  <2>2. results[i].tokens = asked[i].tokens /\ asked[i].tokens \in Prompts
    BY <2>1 DEF LabelInv, AnswersAreTheirOwn, TypeOK
  <2>3. results[i].mode = IF Sequential THEN "sequential" ELSE "batched"
    BY <2>1 DEF LabelInv, ModesInv
  <2>4. /\ results[i].processed + results[i].reused = Len(results[i].tokens)
        /\ results[i].processed \in Nat \ {0} /\ results[i].reused \in Nat
        /\ i = 1 => results[i].reused = 0
    BY <2>1 DEF LabelInv, WorkIsMeasured, ReportsInv
  <2>5. Sequential => results[i].prefix = asked[i].prefix
    BY <2>1, <2>3 DEF ReportsInv
  <2>6. Sequential => results[i].cells = Alone(results[i].tokens, results[i].prefix)
    BY <2>1, <2>3 DEF LabelInv, AnswersAreAlone
  <2> QED BY <2>2, <2>3, <2>4, <2>5, <2>6
<1>6. ASSUME NEW i \in 1..N
      PROVE  /\ Q[i].id = i
             /\ Q[i].label_token_ids = Mapping(asked[i].tokens)
             /\ Q[i].label_logits = Logits(asked[i].tokens, results[i].cells)
             /\ Q[i].prompt_tokens = Len(results[i].tokens)
             /\ Q[i].processed_tokens = results[i].processed
             /\ Q[i].reused_tokens = results[i].reused
             /\ Q[i].cache_cleared = (results[i].reused = 0)
             /\ Q[i].evaluation_mode = IF Sequential THEN "sequential" ELSE "batched"
             /\ Q[i].batch_sequences = IF Sequential THEN 1 ELSE N
  <2>1. /\ Q[i].id = i
        /\ Q[i].label_token_ids = Mapping(results[i].tokens)
        /\ Q[i].label_logits = Logits(results[i].tokens, results[i].cells)
        /\ Q[i].prompt_tokens = Len(results[i].tokens)
        /\ Q[i].processed_tokens = results[i].processed
        /\ Q[i].reused_tokens = results[i].reused
        /\ Q[i].cache_cleared = (results[i].reused = 0)
        /\ Q[i].evaluation_mode = results[i].mode
        /\ Q[i].batch_sequences = IF results[i].mode = "sequential" THEN 1 ELSE N
    <3>1. Q[i] = QuestionResult(i)
      BY <1>3
    <3> DEFINE m == Mapping(results[i].tokens)
               g == Logits(results[i].tokens, results[i].cells)
               l == Len(results[i].tokens)
               c == results[i].reused = 0
               b == IF results[i].mode = "sequential" THEN 1 ELSE N
    <3>2. Q[i] = [id |-> i, label_token_ids |-> m, label_logits |-> g, prompt_tokens |-> l,
                  processed_tokens |-> results[i].processed,
                  reused_tokens |-> results[i].reused, cache_cleared |-> c,
                  evaluation_mode |-> results[i].mode, batch_sequences |-> b]
      BY <3>1 DEF QuestionResult
    <3> HIDE DEF m, g, l, c, b
    <3>3. /\ Q[i].id = i /\ Q[i].label_token_ids = m /\ Q[i].label_logits = g
          /\ Q[i].prompt_tokens = l /\ Q[i].processed_tokens = results[i].processed
          /\ Q[i].reused_tokens = results[i].reused /\ Q[i].cache_cleared = c
          /\ Q[i].evaluation_mode = results[i].mode /\ Q[i].batch_sequences = b
      BY <3>2
    <3> QED BY <3>3 DEF m, g, l, c, b
  <2> HIDE DEF N
  <2>2. results[i].tokens = asked[i].tokens
        /\ results[i].mode = IF Sequential THEN "sequential" ELSE "batched"
    BY <1>5
  <2> QED BY <2>1, <2>2
<1>7. ASSUME NEW i \in 1..N
      PROVE  /\ Len(Q[i].label_logits) = Options[asked[i].tokens]
             /\ Len(Q[i].label_token_ids) = Options[asked[i].tokens]
             /\ Options[asked[i].tokens] \in 2..255
  <2> DEFINE o == Options[asked[i].tokens]
             a == Mapping(asked[i].tokens)
             b == Logits(asked[i].tokens, results[i].cells)
  <2>1. o \in Nat /\ o \in 2..255
    <3>1. Options \in [Prompts -> 2..Alphabet] /\ Alphabet \in 2..255
      BY OptionsAssumption DEF Listed
    <3>2. asked[i].tokens \in Prompts
      BY <1>5
    <3>3. Options[asked[i].tokens] \in 2..Alphabet
      BY <3>1, <3>2
    <3>4. \A n \in 2..Alphabet : n \in Nat /\ n \in 2..255
      <4>1. Alphabet \in Int /\ Alphabet <= 255
        BY <3>1
      <4> QED BY <4>1
    <3> QED BY <3>3, <3>4
  <2>2. a = [k \in 1..o |-> a[k]] /\ b = [k \in 1..o |-> b[k]]
    BY DEF Mapping, Logits
  <2> HIDE DEF o, a, b
  <2>3. Len(a) = o /\ Len(b) = o
    BY <2>1, <2>2, MakeSeq
  <2>4. Q[i].label_token_ids = a /\ Q[i].label_logits = b
    BY <1>6 DEF a, b
  <2>5. Len(Q[i].label_logits) = o /\ Len(Q[i].label_token_ids) = o /\ o \in 2..255
    BY <2>1, <2>3, <2>4
  <2> QED BY <2>5 DEF o
<1>8. \A i \in 1..Len(results) : ValidQuestion(Message.questions[i])
  <2> SUFFICES ASSUME NEW i \in 1..N PROVE ValidQuestion(Q[i])
    BY <1>1, <1>4
  <2>1. Q[i].batch_sequences \in 1..32
    <3>1. Q[i].batch_sequences = 1 \/ Q[i].batch_sequences = N
      BY <1>6
    <3>2. N \in 1..32
      <4> HIDE DEF N
      <4>1. N \in Nat /\ N <= MaxQuestions /\ N # 0
        BY <1>1
      <4> QED BY <1>2, <4>1
    <3>3. 1 \in 1..32
      OBVIOUS
    <3> QED BY <3>1, <3>2, <3>3
  <2>2. /\ Q[i].prompt_tokens >= 1 /\ Q[i].processed_tokens >= 1 /\ Q[i].reused_tokens >= 0
        /\ Q[i].processed_tokens + Q[i].reused_tokens = Q[i].prompt_tokens
    BY <1>5, <1>6
  <2>3. Q[i].cache_cleared = (Q[i].reused_tokens = 0)
    BY <1>6
  <2>4. Q[i].evaluation_mode = "sequential" => Q[i].batch_sequences = 1
    BY <1>6
  <2> QED BY <1>7, <2>1, <2>2, <2>3, <2>4 DEF ValidQuestion
<1>9. /\ Sequential  => /\ {Q[i].evaluation_mode : i \in 1..N} = {"sequential"}
                        /\ {Q[i].evaluation_mode = "batched" : i \in 1..N} = {FALSE}
      /\ ~Sequential => /\ {Q[i].evaluation_mode : i \in 1..N} = {"batched"}
                        /\ {Q[i].evaluation_mode = "batched" : i \in 1..N} = {TRUE}
  <2>1. CASE Sequential
    <3>1. \A i \in 1..N : Q[i].evaluation_mode = "sequential"
      BY <1>6, <2>1
    <3> QED BY <1>1, <2>1, <3>1
  <2>2. CASE ~Sequential
    <3>1. \A i \in 1..N : Q[i].evaluation_mode = "batched"
      BY <1>6, <2>2
    <3> QED BY <1>1, <2>2, <3>1
  <2> QED BY <2>1, <2>2
<1>10. /\ fallback \in {"none", "context"} /\ (fallback = "context" => batched)
       /\ (Sequential <=> ~batched \/ fallback = "context")
  BY DEF LabelInv, TypeOK, ReportsInv, Sequential
<1>11. OneMode(Message)
  <2> DEFINE modes == {Q[i].evaluation_mode : i \in 1..N}
  <2>1. ~Sequential => \A i \in 1..N : Q[i].batch_sequences = N
    BY <1>6
  <2>2. \/ Sequential /\ modes = {"sequential"}
        \/ ~Sequential /\ modes = {"batched"}
    BY <1>9
  <2> HIDE DEF modes, N
  <2>3. /\ modes \in SUBSET {"sequential", "batched"} /\ modes # {"sequential", "batched"}
        /\ fallback # "none" => modes = {"sequential"}
        /\ modes = {"batched"} => \A i \in 1..N : Q[i].batch_sequences = N
    <3>1. {"sequential"} # {"sequential", "batched"} /\ {"batched"} # {"sequential", "batched"}
          /\ {"sequential"} # {"batched"}
      OBVIOUS
    <3> QED BY <1>10, <2>1, <2>2, <3>1
  <2>4. {Message.questions[i].evaluation_mode : i \in 1..Len(Message.questions)} = modes
    BY <1>3, <1>4 DEF modes
  <2>5. Len(Message.questions) = N /\ N <= 32 /\ Message.batched_fallback = fallback
        /\ \A i \in 1..N : Message.questions[i].batch_sequences = Q[i].batch_sequences
    BY <1>1, <1>2, <1>3, <1>4
  <2> QED BY <2>3, <2>4, <2>5 DEF OneMode
<1>12. MapsOnto(Message)
  <2>1. RegimeIsExpected(Message)
    <3> DEFINE batches == {Q[i].evaluation_mode = "batched" : i \in 1..N}
    <3>1. \/ Sequential /\ batches = {FALSE}
          \/ ~Sequential /\ batches = {TRUE}
      BY <1>9
    <3>2. {Message.questions[i].evaluation_mode = "batched" : i \in 1..Len(Message.questions)}
             = batches
      BY <1>3, <1>4
    <3>3. Message.batched_fallback = fallback
      BY <1>4
    <3> HIDE DEF batches, N
    <3> QED BY <1>10, <3>1, <3>2, <3>3 DEF RegimeIsExpected
  <2>2. Q[1].reused_tokens = 0
    BY <1>1, <1>5, <1>6
  <2>3. \A i \in 1..N : Q[i].label_token_ids =
                            SubSeq(Hello.label_token_ids, 1, Options[asked[i].tokens])
    BY <1>5, <1>6, MappingIsFirst
  <2> QED BY <1>3, <1>4, <1>6, <1>7, <2>1, <2>2, <2>3 DEF MapsOnto
<1>13. ResponsesAreOwn
  <2> SUFFICES ASSUME Response(Message).mode # "batched"
               PROVE  Response(Message).answers =
                        [i \in 1..N |-> Decided(Logits(asked[i].tokens,
                                              Alone(asked[i].tokens, asked[i].prefix)))]
    BY DEF ResponsesAreOwn
  <2>1. Sequential
    <3>1. Response(Message).mode = IF batched THEN Q[1].evaluation_mode ELSE "none"
      BY <1>4 DEF Response
    <3> QED BY <1>1, <1>6, <1>10, <3>1
  <2>2. Response(Message).answers = [i \in 1..N |-> Decided(Q[i].label_logits)]
    BY <1>3, <1>4 DEF Response
  <2>3. \A i \in 1..N : Q[i].label_logits =
            Logits(asked[i].tokens, Alone(asked[i].tokens, asked[i].prefix))
    BY <1>5, <1>6, <2>1
  <2> HIDE DEF N
  <2> QED BY <2>2, <2>3
<1>14. ValidResponse(Response(Message))
  <2> DEFINE D == [i \in 1..N |-> Diagnosed(Q[i])]
             m == IF batched THEN Q[1].evaluation_mode ELSE "none"
  <2>1. /\ Response(Message).diagnostics = D /\ Response(Message).mode = m
        /\ Response(Message).fallback = fallback
    BY <1>3, <1>4 DEF Response
  <2>2. Len(D) = N /\ \A i \in 1..N : D[i] = Diagnosed(Q[i])
    <3>1. D = [i \in 1..N |-> D[i]] /\ \A i \in 1..N : D[i] = Diagnosed(Q[i])
      OBVIOUS
    <3> HIDE DEF D, N
    <3> QED BY <1>1, <3>1, MakeSeq
  <2>3. m \in IF batched THEN {"sequential", "batched"} ELSE {"none"}
    BY <1>1, <1>6
  <2>4. ASSUME NEW i \in 1..N
        PROVE  /\ D[i].prompt_tokens >= 1 /\ D[i].processed_tokens >= 1
               /\ D[i].reused_tokens >= 0
               /\ D[i].evaluation_mode = IF batched THEN m ELSE "sequential"
               /\ D[i].batch_sequences \in 1..32
    <3>1. ValidQuestion(Q[i])
      BY <1>1, <1>4, <1>8
    <3>2. Q[i].evaluation_mode = IF batched THEN m ELSE "sequential"
      BY <1>1, <1>6, <1>10
    <3> HIDE DEF D, m, N
    <3>3. /\ Q[i].prompt_tokens >= 1 /\ Q[i].processed_tokens >= 1 /\ Q[i].reused_tokens >= 0
          /\ Q[i].batch_sequences \in 1..32
      BY <3>1 DEF ValidQuestion
    <3>4. /\ D[i].prompt_tokens = Q[i].prompt_tokens
          /\ D[i].processed_tokens = Q[i].processed_tokens
          /\ D[i].reused_tokens = Q[i].reused_tokens
          /\ D[i].evaluation_mode = Q[i].evaluation_mode
          /\ D[i].batch_sequences = Q[i].batch_sequences
      BY <2>2 DEF Diagnosed
    <3> QED BY <3>2, <3>3, <3>4
  <2>5. fallback \in {"none", "context"}
    BY <1>10
  <2> HIDE DEF D, m, N
  <2> QED BY <2>1, <2>2, <2>3, <2>4, <2>5 DEF ValidResponse
<1> QED BY <1>0, <1>8, <1>11, <1>12, <1>13, <1>14 DEF ResponsesAreTrue, ResultsAreBelieved, LabelInv

\* The application never closes a worker for what it reports, and a response
\* that does not say "batched" answers every question as if it came alone.
THEOREM ResponsesAlwaysTrue == Spec => []ResponsesAreTrue
<1>1. Init => LabelInv /\ ReportsInv
  BY LabelInvInit, ReportsInvInit
<1>2. (LabelInv /\ ReportsInv) /\ [Next]_vars => (LabelInv /\ ReportsInv)'
  BY LabelInvNext, ReportsInvNext
<1> QED BY <1>1, <1>2, ResponsesFromInv, PTL DEF Spec

=============================================================================

------------------------ MODULE SnapshotPromptsProofs -----------------------
(* Proofs about the prompts of snapshots, for any states, questions,       *)
(* prompts, templates and merges of the tokenizer: what is rendered is the *)
(* logical history, what a context froze begins every prompt of its state, *)
(* and a question asked of a context can be replaced.                      *)
EXTENDS SnapshotPrompts, SequenceTheorems, FiniteSetTheorems, TLAPS

----------------------------------------------------------------------------
(* The inductive invariant.                                                *)

\* The messages of a history: Fresh before it is rendered.
Message(h, i) ==
    IF i = 1 THEN <<"user", StatePrefix(h.state) \o Block(h.asks[1])>>
    ELSE IF i % 2 = 1 THEN <<"user", Block(h.asks[(i + 1) \div 2])>>
    ELSE <<"model", RStrip(AnswerPrefix(h.asks[i \div 2]))>>

Messages(h) ==
    IF h.asks = <<>> THEN << <<"user", StatePrefix(h.state)>> >>
    ELSE [i \in 1..(2 * Len(h.asks) - 1) |-> Message(h, i)]

\* Rendering, by a template that is named.
TurnOf(t, role, text) ==
    <<role, NL>> \o (IF t.trims THEN LStrip(RStrip(text)) ELSE text) \o <<"end", NL>>

RenderOf(t, messages) ==
    LET upto[n \in 0..Len(messages)] ==
            IF n = 0 THEN <<"bos">> ELSE upto[n - 1] \o TurnOf(t, messages[n][1], messages[n][2]) IN
    upto[Len(messages)] \o <<"model", NL>> \o t.opening

FreshOf(t, h) == RenderOf(t, Messages(h)) \o AnswerPrefix(h.asks[Len(h.asks)])

IsHistory(h) == h.state \in States /\ h.asks \in Seq(Asks) /\ h = Said(h.state, h.asks)

\* A record is compiled and frozen from its history and nothing else.
IsRecord(t, x) ==
    /\ x = [Record(x.kind, x.blocks, x.messages, x.prefix, x.tokens, x.parent, x.anchor, x.history)
               EXCEPT !.promotes = x.promotes]
    /\ IsHistory(x.history)
    /\ x.kind = IF x.history.asks = <<>> THEN "context" ELSE "readout"
    /\ x.messages = Messages(x.history)
    /\ x.prefix = IF x.history.asks = <<>> THEN <<>>
                  ELSE AnswerPrefix(x.history.asks[Len(x.history.asks)])
    /\ x.tokens = IF x.history.asks = <<>>
                  THEN ContextPrefix(RenderOf(t, x.messages) \o x.prefix, x.history.state)
                  ELSE Tokenize(RenderOf(t, x.messages) \o x.prefix)

\* What a promotion is remembered as is a 30 of the same history.
IsPromotion(w, x) ==
    x.promotes # 0 =>
        /\ x.promotes \in DOMAIN w /\ x.blocks = 30
        /\ x.history = w[x.promotes].history

\* What is continued when the question of a record is replaced is a context of
\* its state, and every question asked of a context has one.
IsAnchored(w, x) ==
    /\ x.anchor # 0 =>
          /\ x.anchor \in DOMAIN w
          /\ w[x.anchor].kind = "context" /\ w[x.anchor].blocks = 30
          /\ w[x.anchor].history.state = x.history.state
    /\ (x.kind = "readout" /\ w[1].kind = "context") => x.anchor # 0

GoodList(t, w) ==
    /\ IsText(w)
    /\ \A r \in DOMAIN w : IsRecord(t, w[r]) /\ IsPromotion(w, w[r]) /\ IsAnchored(w, w[r])

IsFresh(t, y) ==
    y.code \notin {"none", "refused"} =>
        y.history.asks # <<>> /\ y.prompt = FreshOf(t, y.history)

PromptsInv ==
    /\ template \in Templates /\ GoodList(template, records)
    /\ IsFresh(template, reply) /\ ContextBranchesExtend

----------------------------------------------------------------------------
(* Sequences.                                                              *)

\* A sequence over some set, without the set.
LEMMA SeqIs ==
    ASSUME NEW S, NEW s \in Seq(S)
    PROVE  /\ IsText(s) /\ Len(s) \in Nat /\ DOMAIN s = 1..Len(s)
           /\ s = [i \in 1..Len(s) |-> s[i]]
<1>1. Len(s) \in Nat /\ DOMAIN s = 1..Len(s) /\ s \in [1..Len(s) -> S]
  BY LenProperties
<1>2. s = [i \in 1..Len(s) |-> s[i]]
  BY <1>1
<1>3. s \in [1..Len(s) -> {s[i] : i \in 1..Len(s)}]
  BY <1>2
<1>4. s \in Seq({s[i] : i \in 1..Len(s)})
  BY <1>1, <1>3, SeqDef
<1> QED BY <1>1, <1>2, <1>4 DEF IsText

LEMMA SeqFacts ==
    ASSUME NEW s, IsText(s)
    PROVE  /\ Len(s) \in Nat /\ DOMAIN s = 1..Len(s)
           /\ s = [i \in 1..Len(s) |-> s[i]]
  BY SeqIs DEF IsText

\* A function on 1..n is a sequence of n elements.
LEMMA MakeSeq ==
    ASSUME NEW n \in Nat, NEW f, f = [i \in 1..n |-> f[i]]
    PROVE  IsText(f) /\ Len(f) = n
<1>1. DOMAIN f = 1..n
  OBVIOUS
<1>2. f \in [1..n -> {f[i] : i \in 1..n}]
  BY <1>1
<1>3. f \in Seq({f[i] : i \in 1..n})
  BY <1>2, SeqDef
<1> QED BY <1>1, <1>3, LenProperties DEF IsText

\* Sequences of one length with the same elements are the same.
LEMMA SameSeq ==
    ASSUME NEW s, IsText(s), NEW t, IsText(t), Len(s) = Len(t),
           \A i \in 1..Len(s) : s[i] = t[i]
    PROVE  s = t
<1>1. s = [i \in 1..Len(s) |-> s[i]] /\ t = [i \in 1..Len(s) |-> t[i]]
  BY SeqFacts
<1> QED BY <1>1

\* What a concatenation is, element by element.
LEMMA Joined ==
    ASSUME NEW s, IsText(s), NEW t, IsText(t)
    PROVE  /\ IsText(s \o t) /\ Len(s \o t) = Len(s) + Len(t)
           /\ \A i \in 1..Len(s) : (s \o t)[i] = s[i]
           /\ \A i \in 1..Len(t) : (s \o t)[Len(s) + i] = t[i]
<1> DEFINE S == {s[i] : i \in DOMAIN s} \cup {t[i] : i \in DOMAIN t}
<1>1. s \in Seq(S) /\ t \in Seq(S)
  <2>1. {s[i] : i \in DOMAIN s} \subseteq S /\ {t[i] : i \in DOMAIN t} \subseteq S
    OBVIOUS
  <2> HIDE DEF S
  <2> QED BY <2>1, SeqMonotonic DEF IsText
<1> HIDE DEF S
<1>2. s \o t \in Seq(S) /\ Len(s \o t) = Len(s) + Len(t)
  BY <1>1, ConcatProperties
<1>3. \A i \in 1..Len(s) : (s \o t)[i] = s[i]
  BY <1>1, ConcatProperties, LenProperties
<1>4. \A i \in 1..Len(t) : (s \o t)[Len(s) + i] = t[i]
  <2> SUFFICES ASSUME NEW i \in 1..Len(t) PROVE (s \o t)[Len(s) + i] = t[i]
    OBVIOUS
  <2>1. Len(s) \in Nat /\ Len(t) \in Nat
    BY <1>1, LenProperties
  <2>2. Len(s) + i \in 1..(Len(s) + Len(t)) /\ ~(Len(s) + i <= Len(s)) /\ Len(s) + i - Len(s) = i
    BY <2>1
  <2> QED BY <1>1, <2>2, ConcatProperties
<1> QED BY <1>2, <1>3, <1>4, SeqIs

\* A part of a sequence; a part past its end has a length all the same.
LEMMA Part ==
    ASSUME NEW s, NEW m \in Nat, NEW n \in Nat
    PROVE  /\ IsText(SubSeq(s, m + 1, m + n)) /\ Len(SubSeq(s, m + 1, m + n)) = n
           /\ \A i \in 1..n : SubSeq(s, m + 1, m + n)[i] = s[m + i]
<1> DEFINE p == SubSeq(s, m + 1, m + n)
<1>1. p = [i \in 1..n |-> s[i + (m + 1) - 1]]
  OBVIOUS
<1>2. \A i \in 1..n : p[i] = s[m + i]
  BY <1>1
<1>3. p = [i \in 1..n |-> p[i]]
  BY <1>1
<1> HIDE DEF p
<1>4. IsText(p) /\ Len(p) = n
  BY <1>3, MakeSeq
<1> QED BY <1>2, <1>4 DEF p


LEMMA EmptyIs == IsText(<<>>) /\ Len(<<>>) = 0
  BY EmptySeq, SeqIs

LEMMA Emptied ==
    ASSUME NEW s, IsText(s)
    PROVE  s = <<>> <=> Len(s) = 0
<1>1. Len(s) = 0 => s = <<>>
  BY EmptyIs, SameSeq
<1> QED BY <1>1, EmptyIs

LEMMA OneIs ==
    ASSUME NEW x
    PROVE  IsText(<<x>>) /\ Len(<<x>>) = 1 /\ <<x>>[1] = x
<1>1. <<x>> \in Seq({x})
  OBVIOUS
<1> QED BY <1>1, SeqIs

LEMMA TwoIs ==
    ASSUME NEW x, NEW y
    PROVE  IsText(<<x, y>>) /\ Len(<<x, y>>) = 2 /\ <<x, y>>[1] = x /\ <<x, y>>[2] = y
<1>1. <<x, y>> \in Seq({x, y})
  OBVIOUS
<1> QED BY <1>1, SeqIs

LEMMA NothingAdded ==
    ASSUME NEW s, IsText(s)
    PROVE  s \o <<>> = s
<1> DEFINE e == <<>>
<1>1. IsText(e) /\ Len(e) = 0 /\ Len(s) \in Nat
  BY EmptyIs, SeqFacts
<1> HIDE DEF e
<1>2. IsText(s \o e) /\ Len(s \o e) = Len(s) + 0
  BY <1>1, Joined
<1>3. \A i \in 1..Len(s) : (s \o e)[i] = s[i]
  BY <1>1, Joined
<1>4. s \o e = s
  <2>1. Len(s \o e) = Len(s)
    BY <1>1, <1>2
  <2> QED BY <1>2, <1>3, <2>1, SameSeq
<1> QED BY <1>4 DEF e

LEMMA AppendedTo ==
    ASSUME NEW S, NEW s \in Seq(S), NEW x \in S
    PROVE  /\ Append(s, x) \in Seq(S) /\ IsText(Append(s, x)) /\ Len(Append(s, x)) = Len(s) + 1
           /\ \A i \in 1..Len(s) : Append(s, x)[i] = s[i]
           /\ Append(s, x)[Len(s) + 1] = x
<1>1. Append(s, x) \in Seq(S) /\ Len(Append(s, x)) = Len(s) + 1
  BY AppendProperties
<1>2. \A i \in 1..Len(s) : Append(s, x)[i] = s[i]
  BY AppendProperties
<1>3. Append(s, x)[Len(s) + 1] = x
  BY AppendProperties
<1> QED BY <1>1, <1>2, <1>3, SeqIs

\* Induction, stated of a set: the numbers of which something holds.  On the
\* numbers of it up to k, n |-> n + 1 would be injective and miss 0.
LEMMA Induction ==
    ASSUME NEW S, 0 \in S, \A n \in Nat : n \in S => n + 1 \in S
    PROVE  Nat \subseteq S
<1> SUFFICES ASSUME NEW k \in Nat, k \notin S PROVE FALSE
  OBVIOUS
<1> DEFINE A == {n \in 0..k : n \in S}
           next == [n \in A |-> n + 1]
<1>1. IsFiniteSet(A)
  <2>1. IsFiniteSet(0..k)
    BY FS_Interval
  <2>2. A \in SUBSET (0..k)
    OBVIOUS
  <2> HIDE DEF A
  <2> QED BY <2>1, <2>2, FS_Subset
<1>2. 0 \in A /\ \A n \in A : n + 1 \in A \ {0}
  OBVIOUS
<1>3. next \in [A -> A \ {0}] /\ \A n \in A : next[n] = n + 1
  BY <1>2
<1>4. A \subseteq Nat
  OBVIOUS
<1> HIDE DEF A, next
<1>5. IsFiniteSet(A \ {0}) /\ Cardinality(A \ {0}) = Cardinality(A) - 1 /\ Cardinality(A) \in Nat
  BY <1>1, <1>2, FS_RemoveElement, FS_CardinalityType
<1>6. Cardinality(A \ {0}) < Cardinality(A)
  BY <1>5
<1>7. \E m, n \in A : m # n /\ next[m] = next[n]
  BY <1>1, <1>3, <1>5, <1>6, FS_PigeonHole
<1> QED BY <1>3, <1>4, <1>7

\* A set of numbers under a limit has a largest: by induction on how far
\* under the limit a member of it is.
LEMMA LargestOf ==
    ASSUME NEW limit \in Nat, NEW S, S \subseteq 0..limit, NEW x \in S
    PROVE  \E n \in S : \A m \in S : m <= n
<1> DEFINE T == {k \in Nat : \A y \in S : y >= limit - k => \E n \in S : \A m \in S : m <= n}
<1>1. 0 \in T
  <2> SUFFICES ASSUME NEW y \in S, y >= limit
               PROVE  \E n \in S : \A m \in S : m <= n
    OBVIOUS
  <2>1. \A m \in S : m <= y
    OBVIOUS
  <2> QED BY <2>1
<1>2. ASSUME NEW k \in Nat, k \in T
      PROVE  k + 1 \in T
  <2> SUFFICES ASSUME NEW y \in S, y >= limit - (k + 1)
               PROVE  \E n \in S : \A m \in S : m <= n
    OBVIOUS
  <2>1. CASE \E z \in S : z > y
    <3>1. PICK z \in S : z > y
      BY <2>1
    <3>2. z >= limit - k
      BY <3>1
    <3> QED BY <1>2, <3>2
  <2>2. CASE \A z \in S : ~(z > y)
    <3>1. \A m \in S : m <= y
      BY <2>2
    <3> QED BY <3>1
  <2> QED BY <2>1, <2>2
<1>3. Nat \subseteq T
  <2> HIDE DEF T
  <2> QED BY <1>1, <1>2, Induction
<1>4. limit \in T /\ x >= limit - limit
  BY <1>3
<1> QED BY <1>4

----------------------------------------------------------------------------
(* Texts that begin with another.                                          *)

Begins(s, t) ==
    /\ IsText(s) /\ IsText(t) /\ Len(s) <= Len(t)
    /\ \A i \in 1..Len(s) : s[i] = t[i]

LEMMA BeginsJoined ==
    ASSUME NEW s, IsText(s), NEW t, IsText(t)
    PROVE  Begins(s, s \o t)
<1>1. Len(s) \in Nat /\ Len(t) \in Nat
  BY SeqFacts
<1>2. IsText(s \o t) /\ Len(s \o t) = Len(s) + Len(t)
  BY Joined
<1>3. \A i \in 1..Len(s) : (s \o t)[i] = s[i]
  BY Joined
<1>4. Len(s) <= Len(s \o t)
  BY <1>1, <1>2
<1> QED BY <1>2, <1>3, <1>4 DEF Begins

LEMMA BeginsMore ==
    ASSUME NEW s, NEW t, Begins(s, t), NEW u, IsText(u)
    PROVE  Begins(s, t \o u)
<1>1. /\ IsText(s) /\ IsText(t) /\ Len(s) <= Len(t) /\ Len(s) \in Nat /\ Len(t) \in Nat
      /\ \A i \in 1..Len(s) : s[i] = t[i]
  BY SeqFacts DEF Begins
<1>2. Begins(t, t \o u)
  BY <1>1, BeginsJoined
<1>3. IsText(t \o u) /\ Len(t) <= Len(t \o u) /\ \A i \in 1..Len(t) : t[i] = (t \o u)[i]
  BY <1>2 DEF Begins
<1>4. Len(t \o u) \in Nat
  BY <1>3, SeqFacts
<1> DEFINE v == t \o u
<1> HIDE DEF v
<1> QED BY <1>1, <1>3, <1>4 DEF Begins

LEMMA BeginsAfter ==
    ASSUME NEW c, IsText(c), NEW s, NEW t, Begins(s, t)
    PROVE  Begins(c \o s, c \o t)
<1>1. /\ IsText(s) /\ IsText(t) /\ Len(s) <= Len(t)
      /\ Len(c) \in Nat /\ Len(s) \in Nat /\ Len(t) \in Nat
      /\ \A i \in 1..Len(s) : s[i] = t[i]
  BY SeqFacts DEF Begins
<1> DEFINE cs == c \o s
           ct == c \o t
<1>2. IsText(cs) /\ Len(cs) = Len(c) + Len(s) /\ IsText(ct) /\ Len(ct) = Len(c) + Len(t)
  BY <1>1, Joined
<1>3. \A i \in 1..Len(c) : cs[i] = c[i]
  BY <1>1, Joined
<1>4. \A i \in 1..Len(c) : ct[i] = c[i]
  BY <1>1, Joined
<1>5. \A i \in 1..Len(s) : cs[Len(c) + i] = s[i]
  BY <1>1, Joined
<1>6. \A i \in 1..Len(t) : ct[Len(c) + i] = t[i]
  BY <1>1, Joined
<1> HIDE DEF cs, ct
<1>7. ASSUME NEW i \in 1..Len(cs)
      PROVE  cs[i] = ct[i]
  <2>1. CASE i <= Len(c)
    <3>1. i \in 1..Len(c)
      BY <1>1, <1>2, <2>1
    <3> QED BY <1>3, <1>4, <3>1
  <2>2. CASE i > Len(c)
    <3> DEFINE j == i - Len(c)
    <3>1. j \in 1..Len(s) /\ j \in 1..Len(t) /\ Len(c) + j = i
      BY <1>1, <1>2, <2>2
    <3> HIDE DEF j
    <3>2. cs[Len(c) + j] = s[j] /\ ct[Len(c) + j] = t[j] /\ s[j] = t[j]
      BY <1>1, <1>5, <1>6, <3>1
    <3> QED BY <3>1, <3>2
  <2> QED BY <1>1, <1>2, <2>1, <2>2
<1>8. Len(cs) <= Len(ct)
  BY <1>1, <1>2
<1>9. Begins(cs, ct)
  BY <1>2, <1>7, <1>8 DEF Begins
<1> QED BY <1>9 DEF cs, ct

\* A part from the first, of a text or of one that begins with it.
LEMMA PartBegins ==
    ASSUME NEW s, IsText(s), NEW n \in Nat, n <= Len(s)
    PROVE  /\ IsText(SubSeq(s, 1, n)) /\ Len(SubSeq(s, 1, n)) = n
           /\ \A i \in 1..n : SubSeq(s, 1, n)[i] = s[i]
           /\ Begins(SubSeq(s, 1, n), s)
<1> DEFINE z == 0
<1>0. z \in Nat /\ z + 1 = 1 /\ z + n = n /\ \A i \in 1..n : z + i = i
  OBVIOUS
<1> HIDE DEF z
<1>1. IsText(SubSeq(s, 1, n)) /\ Len(SubSeq(s, 1, n)) = n
  <2>1. IsText(SubSeq(s, z + 1, z + n)) /\ Len(SubSeq(s, z + 1, z + n)) = n
    BY <1>0, Part
  <2> QED BY <1>0, <2>1
<1>2. \A i \in 1..n : SubSeq(s, 1, n)[i] = s[i]
  <2>1. \A i \in 1..n : SubSeq(s, z + 1, z + n)[i] = s[z + i]
    BY <1>0, Part
  <2> QED BY <1>0, <2>1
<1> QED BY <1>1, <1>2 DEF Begins

\* Where the last word of a text is: RStrip cuts after it.
LastWord(text, n) ==
    /\ n \in 0..Len(text) /\ RStrip(text) = SubSeq(text, 1, n)
    /\ \A i \in 1..Len(text) : text[i] # NL => i <= n
    /\ n # 0 => text[n] # NL

LEMMA RStripIs ==
    ASSUME NEW text, IsText(text)
    PROVE  /\ \E n : LastWord(text, n)
           /\ IsText(RStrip(text))
<1> DEFINE words == {i \in DOMAIN text : text[i] # NL}
           S == words \cup {0}
           N == CHOOSE n \in S : \A i \in words : i <= n
<1>1. Len(text) \in Nat /\ DOMAIN text = 1..Len(text)
  BY SeqFacts
<1>2. S \subseteq 0..Len(text) /\ 0 \in S
  BY <1>1
<1>3. \E n \in S : \A m \in S : m <= n
  <2> HIDE DEF S
  <2> QED BY <1>1, <1>2, LargestOf
<1>4. N \in S /\ \A i \in words : i <= N
  <2>1. \E n \in S : \A i \in words : i <= n
    BY <1>3
  <2> HIDE DEF S, words
  <2> QED BY <2>1
<1>5. RStrip(text) = SubSeq(text, 1, N)
  BY DEF RStrip
<1> HIDE DEF N
<1>6. LastWord(text, N)
  <2>1. N \in 0..Len(text)
    BY <1>2, <1>4
  <2>2. \A i \in 1..Len(text) : text[i] # NL => i <= N
    BY <1>1, <1>4
  <2>3. N # 0 => text[N] # NL
    BY <1>4
  <2> QED BY <1>5, <2>1, <2>2, <2>3 DEF LastWord
<1>7. IsText(RStrip(text))
  <2>1. N \in Nat /\ N <= Len(text)
    BY <1>1, <1>6 DEF LastWord
  <2> QED BY <1>5, <2>1, PartBegins
<1> QED BY <1>6, <1>7

\* Whatever follows a text, what is trimmed begins with the trimmed text.
LEMMA RStripMore ==
    ASSUME NEW s, IsText(s), NEW t, IsText(t)
    PROVE  Begins(RStrip(s), RStrip(s \o t)) /\ Begins(RStrip(s), s \o t)
<1> DEFINE w == s \o t
<1>1. /\ IsText(w) /\ Len(w) = Len(s) + Len(t)
      /\ Len(s) \in Nat /\ Len(t) \in Nat /\ Len(w) \in Nat
  BY Joined, SeqFacts
<1>2. \A i \in 1..Len(s) : w[i] = s[i]
  BY Joined
<1> HIDE DEF w
<1>3. PICK a : LastWord(s, a)
  BY RStripIs
<1>4. PICK b : LastWord(w, b)
  BY <1>1, RStripIs
<1>5. a \in 0..Len(s) /\ b \in 0..Len(w) /\ a \in Nat /\ b \in Nat
  BY <1>1, <1>3, <1>4 DEF LastWord
<1>6. a <= b
  <2>1. CASE a = 0
    BY <1>5, <2>1
  <2>2. CASE a # 0
    <3>1. s[a] # NL /\ a \in 1..Len(s) /\ a \in 1..Len(w)
      BY <1>1, <1>3, <1>5, <2>2 DEF LastWord
    <3>2. w[a] # NL
      BY <1>2, <3>1
    <3> QED BY <1>4, <3>1, <3>2 DEF LastWord
  <2> QED BY <2>1, <2>2
<1> DEFINE x == RStrip(s)
           y == RStrip(w)
<1>7. IsText(x) /\ Len(x) = a /\ \A i \in 1..a : x[i] = s[i]
  <2>1. x = SubSeq(s, 1, a) /\ a <= Len(s)
    BY <1>1, <1>3, <1>5 DEF LastWord
  <2> HIDE DEF x
  <2> QED BY <1>5, <2>1, PartBegins
<1>8. IsText(y) /\ Len(y) = b /\ \A i \in 1..b : y[i] = w[i]
  <2>1. y = SubSeq(w, 1, b) /\ b <= Len(w)
    BY <1>1, <1>4, <1>5 DEF LastWord
  <2> HIDE DEF y
  <2> QED BY <1>1, <1>5, <2>1, PartBegins
<1> HIDE DEF x, y
<1>9. \A i \in 1..a : i \in 1..Len(s) /\ i \in 1..b
  BY <1>1, <1>5, <1>6
<1>10. Begins(x, y)
  BY <1>2, <1>6, <1>7, <1>8, <1>9 DEF Begins
<1>11. Begins(x, w)
  <2>1. a <= Len(w)
    BY <1>1, <1>5
  <2> QED BY <1>1, <1>2, <1>7, <1>9, <2>1 DEF Begins
<1> QED BY <1>10, <1>11 DEF x, y, w

\* A text that begins with a word is not trimmed there.
LEMMA LStripNothing ==
    ASSUME NEW text, IsText(text), Len(text) > 0, text[1] # NL
    PROVE  LStrip(text) = text
<1> DEFINE words == {i \in DOMAIN text : text[i] # NL}
           S == words \cup {Len(text) + 1}
           N == CHOOSE n \in S : \A i \in S : n <= i
<1>1. Len(text) \in Nat /\ DOMAIN text = 1..Len(text)
  BY SeqFacts
<1>2. 1 \in S /\ \A i \in S : 1 <= i
  BY <1>1
<1>3. N \in S /\ \A i \in S : N <= i
  <2> HIDE DEF S
  <2> QED BY <1>2
<1>4. N = 1
  <2>1. N \in Int
    BY <1>1, <1>3
  <2> HIDE DEF S, N
  <2> QED BY <1>2, <1>3, <2>1
<1>5. LStrip(text) = SubSeq(text, N, Len(text))
  BY DEF LStrip
<1> HIDE DEF N
<1>6. /\ IsText(SubSeq(text, 1, Len(text))) /\ Len(SubSeq(text, 1, Len(text))) = Len(text)
      /\ \A i \in 1..Len(text) : SubSeq(text, 1, Len(text))[i] = text[i]
  BY <1>1, PartBegins
<1>7. SubSeq(text, 1, Len(text)) = text
  BY <1>6, SameSeq
<1> QED BY <1>4, <1>5, <1>7

----------------------------------------------------------------------------
(* What is rendered.                                                       *)

LEMMA BlockIs ==
    ASSUME NEW ask \in Asks
    PROVE  IsText(Block(ask)) /\ IsText(AnswerPrefix(ask))
<1>1. CASE ask.type = "question"
  <2>1. PICK q \in Questions : ask.text = <<q>>
    <3>1. ask \in [type : {"question"}, text : {<<q>> : q \in Questions}]
      BY <1>1 DEF Asks
    <3> QED BY <3>1
  <2>2. Block(ask) = <<q>> /\ AnswerPrefix(ask) = <<"answer", NL>>
    BY <1>1, <2>1 DEF Block, AnswerPrefix
  <2> QED BY <2>2, OneIs, TwoIs
<1>2. CASE ask.type # "question"
  <2>1. ask.text \in Prompts
    BY <1>2 DEF Asks
  <2>2. IsText(ask.text)
    BY <2>1, PromptsAssumption
  <2>3. Block(ask) = <<"heading", NL>> \o ask.text /\ AnswerPrefix(ask) = <<>>
    BY <1>2 DEF Block, AnswerPrefix
  <2> QED BY <2>2, <2>3, TwoIs, Joined, EmptyIs
<1> QED BY <1>1, <1>2

\* The state block begins with a word.
LEMMA StatePrefixIs ==
    ASSUME NEW state \in States
    PROVE  /\ IsText(StatePrefix(state)) /\ Len(StatePrefix(state)) > 0
           /\ StatePrefix(state)[1] # NL
<1> DEFINE i == <<"instruction", NL>>
           s == i \o state
           p == s \o <<NL>>
<1>1. IsText(i) /\ Len(i) = 2 /\ i[1] = "instruction"
  BY TwoIs
<1>2. IsText(state)
  BY StatesAssumption
<1> HIDE DEF i
<1>3. IsText(s) /\ Begins(i, s)
  BY <1>1, <1>2, Joined, BeginsJoined
<1> HIDE DEF s
<1>4. IsText(p) /\ Begins(i, p)
  BY <1>3, OneIs, Joined, BeginsMore
<1> HIDE DEF p
<1>5. Len(p) > 0 /\ p[1] = "instruction"
  <2>1. 1 \in 1..Len(i) /\ Len(i) <= Len(p) /\ Len(p) \in Nat
    BY <1>1, <1>4, SeqFacts DEF Begins
  <2> QED BY <1>1, <1>4, <2>1 DEF Begins
<1>6. p = StatePrefix(state)
  BY DEF p, s, i, StatePrefix
<1> QED BY <1>4, <1>5, <1>6 DEF NL

\* Rendering one message.
LEMMA RenderOne ==
    ASSUME NEW role, NEW text
    PROVE  Render(<< <<role, text>> >>) =
             ((<<"bos">> \o Turn(role, text)) \o <<"model", NL>>) \o template.opening
<1> DEFINE m == << <<role, text>> >>
           Upwards(f) == f = [n \in 0..Len(m) |->
                                IF n = 0 THEN <<"bos">> ELSE f[n - 1] \o Turn(m[n][1], m[n][2])]
           f == CHOOSE f : Upwards(f)
           g == [n \in 0..1 |-> IF n = 0 THEN <<"bos">> ELSE <<"bos">> \o Turn(role, text)]
<1>1. Len(m) = 1 /\ m[1] = <<role, text>>
  BY OneIs
<1>2. <<role, text>>[1] = role /\ <<role, text>>[2] = text
  OBVIOUS
<1>3. Render(m) = (f[Len(m)] \o <<"model", NL>>) \o template.opening
  BY DEF Render
<1> HIDE DEF m
<1>4. Upwards(g)
  <2>1. \A n \in 0..1 : n = 0 \/ n = 1
    OBVIOUS
  <2>2. g[0] = <<"bos">> /\ g[1] = <<"bos">> \o Turn(role, text)
    OBVIOUS
  <2>3. \A n \in 0..1 : g[n] = IF n = 0 THEN <<"bos">> ELSE g[n - 1] \o Turn(m[n][1], m[n][2])
    <3> HIDE DEF g
    <3> QED BY <1>1, <1>2, <2>1, <2>2, 1 - 1 = 0
  <2>4. g = [n \in 0..1 |-> g[n]]
    OBVIOUS
  <2> HIDE DEF g
  <2> QED BY <1>1, <2>3, <2>4
<1>5. Upwards(f)
  <2> HIDE DEF Upwards, g
  <2> QED BY <1>4
<1> HIDE DEF f
<1>6. f[1] = <<"bos">> \o Turn(role, text)
  <2>1. f[0] = <<"bos">>
    BY <1>1, <1>5
  <2>2. f[1] = f[0] \o Turn(m[1][1], m[1][2])
    <3>1. 1 \in 0..Len(m) /\ 1 # 0 /\ 1 - 1 = 0
      BY <1>1
    <3>2. f[1] = f[1 - 1] \o Turn(m[1][1], m[1][2])
      BY <1>5, <3>1
    <3> QED BY <3>1, <3>2
  <2> QED BY <1>1, <1>2, <2>1, <2>2
<1> QED BY <1>1, <1>3, <1>6 DEF m

\* The marked text of a state: what context_prefix() tokenizes.
HeadText(state) == <<"bos", "user", NL>> \o RStrip(StatePrefix(state))

LEMMA HeadIs ==
    ASSUME NEW state \in States
    PROVE  IsText(HeadText(state)) /\ Len(HeadText(state)) > 0
<1> DEFINE b == <<"bos", "user", NL>>
           r == RStrip(StatePrefix(state))
<1>1. IsText(b) /\ Len(b) = 3
  <2>1. b \in Seq({"bos", "user", NL})
    OBVIOUS
  <2> QED BY <2>1, SeqIs
<1>2. IsText(r) /\ Len(r) \in Nat
  BY StatePrefixIs, RStripIs, SeqFacts
<1> HIDE DEF b, r
<1>3. IsText(b \o r) /\ Len(b \o r) = Len(b) + Len(r)
  BY <1>1, <1>2, Joined
<1>4. HeadText(state) = b \o r
  BY DEF HeadText, b, r
<1> QED BY <1>1, <1>2, <1>3, <1>4

\* Every prompt of one turn over a state begins with its marked text, whatever
\* the turn goes on with and whether the template trims it or not.
LEMMA PromptBegins ==
    ASSUME template \in Templates, NEW state \in States, NEW more, IsText(more), NEW end, IsText(end)
    PROVE  LET text == Render(<< <<"user", StatePrefix(state) \o more>> >>) \o end
           IN IsText(text) /\ Begins(HeadText(state), text)
<1> DEFINE p == StatePrefix(state)
           c == p \o more
           d == IF template.trims THEN LStrip(RStrip(c)) ELSE c
           r == RStrip(p)
<1>1. /\ IsText(p) /\ Len(p) > 0 /\ p[1] # NL /\ Len(p) \in Nat
  BY StatePrefixIs, SeqFacts
<1> HIDE DEF p
<1>2. IsText(c) /\ Begins(r, RStrip(c)) /\ Begins(r, c) /\ IsText(RStrip(c)) /\ IsText(r)
  <2>1. IsText(c)
    BY <1>1, Joined
  <2>2. Begins(r, RStrip(c)) /\ Begins(r, c)
    BY <1>1, RStripMore
  <2> QED BY <1>1, <2>1, <2>2, RStripIs
<1>3. Len(r) > 0 /\ r[1] # NL /\ Len(r) \in Nat
  <2>1. PICK n : LastWord(p, n)
    BY <1>1, RStripIs
  <2>2. n \in Nat /\ n <= Len(p) /\ n >= 1
    BY <1>1, <2>1 DEF LastWord
  <2>3. Len(r) = n /\ r[1] = p[1]
    <3>1. r = SubSeq(p, 1, n)
      BY <2>1 DEF LastWord
    <3> HIDE DEF r
    <3> QED BY <1>1, <2>2, <3>1, PartBegins
  <2> HIDE DEF r
  <2> QED BY <1>1, <2>2, <2>3
<1> HIDE DEF c, r
<1>4. LStrip(RStrip(c)) = RStrip(c)
  <2>1. Len(RStrip(c)) > 0 /\ RStrip(c)[1] # NL
    <3>1. Len(RStrip(c)) \in Nat /\ Len(r) <= Len(RStrip(c)) /\ 1 \in 1..Len(r)
      BY <1>2, <1>3, SeqFacts DEF Begins
    <3> QED BY <1>2, <1>3, <3>1 DEF Begins
  <2> QED BY <1>2, <2>1, LStripNothing
<1>5. IsText(d) /\ Begins(r, d)
  BY <1>2, <1>4
<1> HIDE DEF d
<1> DEFINE u == <<"user", NL>>
           e == <<"end", NL>>
           b == <<"bos">>
           m == <<"model", NL>>
           o == template.opening
           t1 == u \o d
           t2 == t1 \o e
           t3 == b \o t2
           t4 == t3 \o m
           t5 == t4 \o o
           t6 == t5 \o end
<1>6. Render(<< <<"user", c>> >>) = t5
  <2>1. Turn("user", c) = t2
    BY DEF Turn, d
  <2> QED BY <2>1, RenderOne
<1>7. IsText(u) /\ IsText(e) /\ IsText(b) /\ IsText(m) /\ IsText(o)
  BY OneIs, TwoIs, TemplatesAssumption
<1>8. HeadText(state) = b \o (u \o r)
  <2> DEFINE h == <<"bos", "user", NL>>
  <2>1. h = b \o u
    BY DEF NL
  <2>2. (b \o u) \o r = b \o (u \o r)
    <3> DEFINE S == {b[i] : i \in DOMAIN b} \cup {u[i] : i \in DOMAIN u} \cup {r[i] : i \in DOMAIN r}
    <3>1. b \in Seq(S) /\ u \in Seq(S) /\ r \in Seq(S)
      <4>1. /\ {b[i] : i \in DOMAIN b} \subseteq S /\ {u[i] : i \in DOMAIN u} \subseteq S
            /\ {r[i] : i \in DOMAIN r} \subseteq S
        OBVIOUS
      <4> HIDE DEF S
      <4> QED BY <1>2, <1>7, <4>1, SeqMonotonic DEF IsText
    <3> HIDE DEF S, b, u
    <3> QED BY <3>1, ConcatAssociative
  <2> QED BY <2>1, <2>2 DEF HeadText, r, p
<1> HIDE DEF u, e, b, m, o
<1>9. IsText(t1) /\ Begins(u \o r, t1)
  BY <1>5, <1>7, Joined, BeginsAfter
<1> HIDE DEF t1
<1>10. IsText(t2) /\ Begins(u \o r, t2)
  BY <1>7, <1>9, Joined, BeginsMore
<1> HIDE DEF t2
<1>11. IsText(t3) /\ Begins(b \o (u \o r), t3)
  BY <1>7, <1>10, Joined, BeginsAfter
<1> HIDE DEF t3
<1>12. IsText(t4) /\ Begins(b \o (u \o r), t4)
  BY <1>7, <1>11, Joined, BeginsMore
<1> HIDE DEF t4
<1>13. IsText(t5) /\ Begins(b \o (u \o r), t5)
  BY <1>7, <1>12, Joined, BeginsMore
<1> HIDE DEF t5
<1>14. IsText(t6) /\ Begins(b \o (u \o r), t6)
  BY <1>13, Joined, BeginsMore
<1> QED BY <1>6, <1>8, <1>14 DEF c, p

----------------------------------------------------------------------------
(* What is tokenized.                                                      *)

\* The tokens from word i on, of those from i + 1 and i + 2 on.
TokensAt(text, f, i) ==
    IF i > Len(text) THEN <<>>
    ELSE IF i < Len(text) /\ <<text[i], text[i + 1]>> \in Merges
         THEN <<SubSeq(text, i, i + 1)>> \o f[i + 2]
         ELSE <<SubSeq(text, i, i)>> \o f[i + 1]

\* The last k of them.
Tail0(text, k, f) ==
    f = [i \in (Len(text) + 1 - k)..(Len(text) + 1) |-> TokensAt(text, f, i)]

LEMMA TailExists ==
    ASSUME NEW text, IsText(text), NEW m \in Nat
    PROVE  \E f : Tail0(text, m, f)
<1> DEFINE L == Len(text)
           S == {k \in Nat : \E f : Tail0(text, k, f)}
<1>0. L \in Nat
  BY SeqFacts
<1>1. 0 \in S
  <2> DEFINE g == [i \in (L + 1 - 0)..(L + 1) |-> <<>>]
  <2>1. g = [i \in (L + 1 - 0)..(L + 1) |-> TokensAt(text, g, i)]
    <3>1. \A i \in (L + 1 - 0)..(L + 1) : i > L
      BY <1>0
    <3> HIDE DEF L
    <3>2. \A i \in (L + 1 - 0)..(L + 1) : TokensAt(text, g, i) = <<>>
      BY <3>1 DEF TokensAt, L
    <3> QED BY <3>2
  <2> HIDE DEF g
  <2>2. Tail0(text, 0, g)
    BY <2>1 DEF Tail0
  <2> QED BY <2>2
<1>2. ASSUME NEW k \in Nat, k \in S PROVE k + 1 \in S
  <2>1. PICK f : Tail0(text, k, f)
    BY <1>2
  <2> DEFINE n == L + 1 - (k + 1)
             D == n..(L + 1)
             g == [i \in D |-> IF i = n THEN TokensAt(text, f, n) ELSE f[i]]
  <2>2. n \in Int /\ n + 1 = L + 1 - k
    BY <1>0
  <2> HIDE DEF S, n
  <2>3. ASSUME NEW i \in D PROVE g[i] = TokensAt(text, f, i)
    <3>1. CASE i = n
      BY <3>1
    <3>2. CASE i # n
      <4>1. i \in (L + 1 - k)..(L + 1) /\ g[i] = f[i]
        BY <1>0, <2>2, <3>2
      <4>2. f[i] = TokensAt(text, f, i)
        BY <2>1, <4>1 DEF Tail0
      <4> QED BY <4>1, <4>2
    <3> QED BY <3>1, <3>2
  <2>4. ASSUME NEW i \in D PROVE TokensAt(text, g, i) = TokensAt(text, f, i)
    <3>1. i <= L => g[i + 1] = f[i + 1]
      <4> SUFFICES ASSUME i <= L PROVE g[i + 1] = f[i + 1]
        OBVIOUS
      <4>1. i + 1 \in D /\ i + 1 # n
        BY <1>0, <2>2
      <4> QED BY <4>1
    <3>2. i < L => g[i + 2] = f[i + 2]
      <4> SUFFICES ASSUME i < L PROVE g[i + 2] = f[i + 2]
        OBVIOUS
      <4>1. i + 2 \in D /\ i + 2 # n
        BY <1>0, <2>2
      <4> QED BY <4>1
    <3>3. i > L \/ i <= L
      BY <1>0, <2>2
    <3> HIDE DEF g, D
    <3> QED BY <3>1, <3>2, <3>3 DEF TokensAt
  <2>5. g = [i \in D |-> g[i]]
    BY DEF g
  <2> HIDE DEF g
  <2>6. g = [i \in D |-> TokensAt(text, g, i)]
    <3>1. \A i \in D : g[i] = TokensAt(text, g, i)
      BY <2>3, <2>4
    <3> QED BY <2>5, <3>1
  <2>7. Tail0(text, k + 1, g)
    BY <2>6 DEF Tail0, D, n, L
  <2> QED BY <2>7 DEF S
<1> HIDE DEF S
<1>3. m \in S
  BY <1>1, <1>2, Induction
<1> QED BY <1>3 DEF S

\* From every word on the tokens are a sequence.
Tokens(text, f) ==
    \A i \in 1..(Len(text) + 1) : f[i] = TokensAt(text, f, i) /\ IsText(f[i])

LEMMA TokenizeIs ==
    ASSUME NEW text, IsText(text)
    PROVE  \E f : Tokens(text, f) /\ Tokenize(text) = f[1]
<1> DEFINE L == Len(text)
           Whole(f) == f = [i \in 1..(L + 1) |-> TokensAt(text, f, i)]
           f == CHOOSE f : Whole(f)
<1>0. L \in Nat
  BY SeqFacts
<1>1. Tokenize(text) = f[1]
  BY DEF Tokenize, TokensAt
<1>2. Whole(f)
  <2>1. PICK g : Tail0(text, L, g)
    BY <1>0, TailExists
  <2>2. L + 1 - L = 1
    BY <1>0
  <2>3. Whole(g)
    BY <2>1, <2>2 DEF Tail0
  <2> HIDE DEF Whole
  <2> QED BY <2>3
<1> HIDE DEF f
<1>3. \A i \in 1..(L + 1) : f[i] = TokensAt(text, f, i)
  BY <1>2
<1> DEFINE S == {k \in Nat : \A i \in 1..(L + 1) : i + k >= L + 1 => IsText(f[i])}
<1> HIDE DEF Whole
<1>4. 0 \in S
  <2> SUFFICES ASSUME NEW i \in 1..(L + 1), i >= L + 1 PROVE IsText(f[i])
    OBVIOUS
  <2>1. i > L
    BY <1>0
  <2>2. f[i] = <<>>
    BY <1>3, <2>1 DEF TokensAt
  <2> QED BY <2>2, EmptyIs
<1>5. ASSUME NEW k \in Nat, k \in S PROVE k + 1 \in S
  <2> SUFFICES ASSUME NEW i \in 1..(L + 1), i + (k + 1) >= L + 1 PROVE IsText(f[i])
    OBVIOUS
  <2>1. i <= L => IsText(f[i + 1])
    <3> SUFFICES ASSUME i <= L PROVE IsText(f[i + 1])
      OBVIOUS
    <3>1. i + 1 \in 1..(L + 1) /\ (i + 1) + k >= L + 1
      BY <1>0
    <3> QED BY <1>5, <3>1
  <2>2. i < L => IsText(f[i + 2])
    <3> SUFFICES ASSUME i < L PROVE IsText(f[i + 2])
      OBVIOUS
    <3>1. i + 2 \in 1..(L + 1) /\ (i + 2) + k >= L + 1
      BY <1>0
    <3> QED BY <1>5, <3>1
  <2> HIDE DEF S
  <2>3. f[i] = TokensAt(text, f, i)
    BY <1>3
  <2>4. i > L \/ i <= L
    BY <1>0
  <2>5. CASE i > L
    BY <2>3, <2>5, EmptyIs DEF TokensAt
  <2>6. CASE i <= L
    <3>1. \/ f[i] = <<SubSeq(text, i, i + 1)>> \o f[i + 2] /\ i < L
          \/ f[i] = <<SubSeq(text, i, i)>> \o f[i + 1]
      <4>1. ~(i > L)
        BY <1>0, <2>6
      <4> QED BY <2>3, <4>1 DEF TokensAt
    <3>2. CASE f[i] = <<SubSeq(text, i, i + 1)>> \o f[i + 2] /\ i < L
      <4> DEFINE x == SubSeq(text, i, i + 1)
      <4>1. IsText(<<x>>) /\ IsText(f[i + 2])
        BY <2>2, <3>2, OneIs
      <4>2. IsText(<<x>> \o f[i + 2])
        BY <4>1, Joined
      <4> QED BY <3>2, <4>2
    <3>3. CASE f[i] = <<SubSeq(text, i, i)>> \o f[i + 1]
      <4> DEFINE x == SubSeq(text, i, i)
      <4>1. IsText(<<x>>) /\ IsText(f[i + 1])
        BY <2>1, <2>6, OneIs
      <4>2. IsText(<<x>> \o f[i + 1])
        BY <4>1, Joined
      <4> QED BY <3>3, <4>2
    <3> QED BY <3>1, <3>2, <3>3
  <2> QED BY <2>4, <2>5, <2>6
<1>6. \A i \in 1..(L + 1) : IsText(f[i])
  <2>1. L \in S
    <3> HIDE DEF S
    <3> QED BY <1>0, <1>4, <1>5, Induction
  <2>2. \A i \in 1..(L + 1) : i + L >= L + 1
    BY <1>0
  <2> QED BY <2>1, <2>2
<1>7. Tokens(text, f)
  BY <1>3, <1>6 DEF Tokens
<1> QED BY <1>1, <1>7

\* One token, then the others.
LEMMA TokenFirst ==
    ASSUME NEW x, NEW s, IsText(s)
    PROVE  /\ IsText(<<x>> \o s) /\ Len(<<x>> \o s) = Len(s) + 1 /\ Len(s) \in Nat
           /\ (<<x>> \o s)[1] = x /\ \A j \in 1..Len(s) : (<<x>> \o s)[j + 1] = s[j]
<1> DEFINE o == <<x>>
<1>1. IsText(o) /\ Len(o) = 1 /\ o[1] = x /\ Len(s) \in Nat
  BY OneIs, SeqFacts
<1> HIDE DEF o
<1>2. IsText(o \o s) /\ Len(o \o s) = Len(o) + Len(s)
  BY <1>1, Joined
<1>3. \A j \in 1..Len(o) : (o \o s)[j] = o[j]
  BY <1>1, Joined
<1>4. \A j \in 1..Len(s) : (o \o s)[Len(o) + j] = s[j]
  <2>1. IsText(o) /\ IsText(s)
    BY <1>1
  <2> QED BY ONLY <2>1, Joined
<1>5. (o \o s)[1] = x
  BY <1>1, <1>3
<1>6. ASSUME NEW j \in 1..Len(s) PROVE (o \o s)[j + 1] = s[j]
  <2>1. 1 + j = j + 1
    BY <1>1
  <2> QED BY <1>1, <1>4, <2>1
<1>7. Len(o \o s) = Len(s) + 1
  BY <1>1, <1>2
<1> QED BY <1>1, <1>2, <1>5, <1>6, <1>7 DEF o

\* The tokens of a text and those of one that begins with it are as many at
\* least, and all but the last of them the same.
Agree(a, b) == Len(a) <= Len(b) /\ \A j \in 1..(Len(a) - 1) : a[j] = b[j]

LEMMA AgreeMore ==
    ASSUME NEW a, IsText(a), NEW b, IsText(b), Agree(a, b), NEW x
    PROVE  Agree(<<x>> \o a, <<x>> \o b)
<1> DEFINE p == <<x>> \o a
           q == <<x>> \o b
<1>1. Len(p) = Len(a) + 1 /\ Len(a) \in Nat /\ p[1] = x /\ \A j \in 1..Len(a) : p[j + 1] = a[j]
  BY TokenFirst
<1>2. Len(q) = Len(b) + 1 /\ Len(b) \in Nat /\ q[1] = x /\ \A j \in 1..Len(b) : q[j + 1] = b[j]
  BY TokenFirst
<1>3. Len(a) <= Len(b) /\ \A j \in 1..(Len(a) - 1) : a[j] = b[j]
  BY DEF Agree
<1> HIDE DEF p, q
<1>4. Len(p) <= Len(q)
  BY <1>1, <1>2, <1>3
<1>5. ASSUME NEW j \in 1..(Len(p) - 1) PROVE p[j] = q[j]
  <2>1. CASE j = 1
    BY <1>1, <1>2, <2>1
  <2>2. CASE j # 1
    <3> DEFINE i == j - 1
    <3>1. i \in 1..(Len(a) - 1) /\ i \in 1..Len(a) /\ i \in 1..Len(b) /\ i + 1 = j
      BY <1>1, <1>2, <1>3, <2>2
    <3> HIDE DEF i
    <3>2. p[i + 1] = a[i] /\ q[i + 1] = b[i] /\ a[i] = b[i]
      BY <1>1, <1>2, <1>3, <3>1
    <3> QED BY <3>1, <3>2
  <2> QED BY <2>1, <2>2
<1>6. Agree(p, q)
  BY <1>4, <1>5 DEF Agree
<1> QED BY <1>6 DEF p, q

LEMMA TokensAgree ==
    ASSUME NEW s, NEW t, Begins(s, t)
    PROVE  Agree(Tokenize(s), Tokenize(t)) /\ IsText(Tokenize(s)) /\ IsText(Tokenize(t))
<1> DEFINE L == Len(s)
           M == Len(t)
<1>0. /\ IsText(s) /\ IsText(t) /\ L \in Nat /\ M \in Nat /\ L <= M
      /\ \A i \in 1..L : s[i] = t[i]
  BY SeqFacts DEF Begins
<1>1. PICK f : Tokens(s, f) /\ Tokenize(s) = f[1]
  BY <1>0, TokenizeIs
<1>2. PICK g : Tokens(t, g) /\ Tokenize(t) = g[1]
  BY <1>0, TokenizeIs
<1>3. \A i \in 1..(L + 1) : f[i] = TokensAt(s, f, i) /\ IsText(f[i])
  BY <1>1 DEF Tokens
<1>4. \A i \in 1..(M + 1) : g[i] = TokensAt(t, g, i) /\ IsText(g[i])
  BY <1>2 DEF Tokens
\* The pairs and the words that are tokens are the same in both.
<1>5. ASSUME NEW i \in 1..L
      PROVE  /\ s[i] = t[i] /\ SubSeq(s, i, i) = SubSeq(t, i, i)
             /\ i < L => s[i + 1] = t[i + 1] /\ SubSeq(s, i, i + 1) = SubSeq(t, i, i + 1)
  <2>1. s[i] = t[i]
    BY <1>0
  <2> DEFINE n == i - 1
  <2>2. n \in Nat /\ n + 1 = i /\ n + 2 = i + 1 /\ \A j \in 1..1 : n + j = i
    BY <1>0
  <2> HIDE DEF n
  <2>3. SubSeq(s, i, i) = SubSeq(t, i, i)
    <3>1. /\ IsText(SubSeq(s, i, i)) /\ Len(SubSeq(s, i, i)) = 1
          /\ IsText(SubSeq(t, i, i)) /\ Len(SubSeq(t, i, i)) = 1
      BY <2>2, Part, 1 \in Nat
    <3>2. \A j \in 1..1 : SubSeq(s, n + 1, n + 1)[j] = s[n + j]
      BY <2>2, Part, 1 \in Nat
    <3>3. \A j \in 1..1 : SubSeq(t, n + 1, n + 1)[j] = t[n + j]
      BY <2>2, Part, 1 \in Nat
    <3>4. \A j \in 1..1 : SubSeq(s, i, i)[j] = SubSeq(t, i, i)[j]
      BY <2>1, <2>2, <3>2, <3>3
    <3> QED BY <3>1, <3>4, SameSeq
  <2>4. ASSUME i < L
        PROVE  s[i + 1] = t[i + 1] /\ SubSeq(s, i, i + 1) = SubSeq(t, i, i + 1)
    <3>0. s[i + 1] = t[i + 1]
      <4>1. i + 1 \in 1..L
        BY <1>0, <2>4
      <4> QED BY <1>0, <4>1
    <3>1. /\ IsText(SubSeq(s, n + 1, n + 2)) /\ Len(SubSeq(s, n + 1, n + 2)) = 2
          /\ IsText(SubSeq(t, n + 1, n + 2)) /\ Len(SubSeq(t, n + 1, n + 2)) = 2
      BY <2>2, Part, 2 \in Nat
    <3>2. \A j \in 1..2 : SubSeq(s, n + 1, n + 2)[j] = s[n + j]
      BY <2>2, Part, 2 \in Nat
    <3>3. \A j \in 1..2 : SubSeq(t, n + 1, n + 2)[j] = t[n + j]
      BY <2>2, Part, 2 \in Nat
    <3>4. \A j \in 1..2 : s[n + j] = t[n + j]
      <4>1. \A j \in 1..2 : j = 1 \/ j = 2
        OBVIOUS
      <4> QED BY <2>1, <2>2, <3>0, <4>1
    <3>5. SubSeq(s, n + 1, n + 2) = SubSeq(t, n + 1, n + 2)
      <4> DEFINE u == SubSeq(s, n + 1, n + 2)
                 v == SubSeq(t, n + 1, n + 2)
      <4>1. \A j \in 1..2 : u[j] = v[j]
        BY <3>2, <3>3, <3>4
      <4>2. IsText(u) /\ Len(u) = 2 /\ IsText(v) /\ Len(v) = 2
        BY <3>1
      <4> HIDE DEF u, v
      <4>3. u = v
        BY <4>1, <4>2, SameSeq
      <4> QED BY <4>3 DEF u, v
    <3> QED BY <2>2, <3>0, <3>5
  <2> QED BY <2>1, <2>3, <2>4
<1> DEFINE S == {k \in Nat : \A i \in 1..(L + 1) : i + k >= L + 1 => Agree(f[i], g[i])}
<1>6. 0 \in S
  <2> SUFFICES ASSUME NEW i \in 1..(L + 1), i >= L + 1 PROVE Agree(f[i], g[i])
    OBVIOUS
  <2>1. i > L /\ i \in 1..(M + 1)
    BY <1>0
  <2>2. f[i] = <<>> /\ IsText(g[i])
    BY <1>3, <1>4, <2>1 DEF TokensAt
  <2>3. Len(g[i]) \in Nat
    BY <2>2, SeqFacts
  <2> QED BY <2>2, <2>3, EmptyIs DEF Agree
<1>7. ASSUME NEW k \in Nat, k \in S PROVE k + 1 \in S
  <2> SUFFICES ASSUME NEW i \in 1..(L + 1), i + (k + 1) >= L + 1 PROVE Agree(f[i], g[i])
    OBVIOUS
  <2>1. i <= L => Agree(f[i + 1], g[i + 1])
    <3> SUFFICES ASSUME i <= L PROVE Agree(f[i + 1], g[i + 1])
      OBVIOUS
    <3>1. i + 1 \in 1..(L + 1) /\ (i + 1) + k >= L + 1
      BY <1>0
    <3> QED BY <1>7, <3>1
  <2>2. i < L => Agree(f[i + 2], g[i + 2])
    <3> SUFFICES ASSUME i < L PROVE Agree(f[i + 2], g[i + 2])
      OBVIOUS
    <3>1. i + 2 \in 1..(L + 1) /\ (i + 2) + k >= L + 1
      BY <1>0
    <3> QED BY <1>7, <3>1
  <2>3. CASE i > L
    <3>1. i + 0 >= L + 1
      BY <1>0, <2>3
    <3> QED BY <1>6, <3>1
  <2> HIDE DEF S
  <2>4. CASE i < L /\ <<s[i], s[i + 1]>> \in Merges
    <3>1. i \in 1..L /\ i + 2 \in 1..(L + 1) /\ i + 2 \in 1..(M + 1) /\ i \in 1..(M + 1) /\ i < M
          /\ ~(i > L) /\ ~(i > M)
      BY <1>0, <2>4
    <3>2. <<t[i], t[i + 1]>> \in Merges
      BY <1>5, <2>4, <3>1
    <3> DEFINE x == SubSeq(s, i, i + 1)
    <3>3. x = SubSeq(t, i, i + 1)
      BY <1>5, <2>4, <3>1
    <3>4. f[i] = <<x>> \o f[i + 2]
      BY <1>3, <2>4, <3>1 DEF TokensAt
    <3>5. g[i] = <<SubSeq(t, i, i + 1)>> \o g[i + 2]
      BY <1>4, <3>1, <3>2 DEF TokensAt
    <3>6. IsText(f[i + 2]) /\ IsText(g[i + 2])
      BY <1>3, <1>4, <3>1
    <3> HIDE DEF x
    <3> QED BY <2>2, <2>4, <3>3, <3>4, <3>5, <3>6, AgreeMore
  <2>5. CASE i < L /\ <<s[i], s[i + 1]>> \notin Merges
    <3>1. i \in 1..L /\ i + 1 \in 1..(L + 1) /\ i + 1 \in 1..(M + 1) /\ i \in 1..(M + 1) /\ i <= L
          /\ ~(i > L) /\ ~(i > M)
      BY <1>0, <2>5
    <3>2. <<t[i], t[i + 1]>> \notin Merges
      BY <1>5, <2>5, <3>1
    <3> DEFINE x == SubSeq(s, i, i)
    <3>3. x = SubSeq(t, i, i)
      BY <1>5, <3>1
    <3>4. f[i] = <<x>> \o f[i + 1]
      BY <1>3, <2>5, <3>1 DEF TokensAt
    <3>5. g[i] = <<SubSeq(t, i, i)>> \o g[i + 1]
      BY <1>4, <3>1, <3>2 DEF TokensAt
    <3>6. IsText(f[i + 1]) /\ IsText(g[i + 1])
      BY <1>3, <1>4, <3>1
    <3> HIDE DEF x
    <3> QED BY <2>1, <3>1, <3>3, <3>4, <3>5, <3>6, AgreeMore
  <2>6. CASE i = L
    \* The last word of the shorter text: what it becomes in the longer one
    \* does not matter, only that it becomes a token.
    <3>1. i \in 1..L /\ i + 1 \in 1..(L + 1) /\ i + 1 \in 1..(M + 1) /\ i \in 1..(M + 1)
          /\ ~(i > L) /\ ~(i > M) /\ ~(i < L)
      BY <1>0, <2>6
    <3>2. f[i] = <<SubSeq(s, i, i)>> \o f[i + 1] /\ f[i + 1] = <<>>
      <4>1. f[i] = <<SubSeq(s, i, i)>> \o f[i + 1]
        BY <1>3, <3>1 DEF TokensAt
      <4>2. i + 1 > L
        BY <1>0, <2>6
      <4>3. f[i + 1] = <<>>
        BY <1>3, <3>1, <4>2 DEF TokensAt
      <4> QED BY <4>1, <4>3
    <3>3. Len(f[i]) = 1
      <4>1. Len(f[i]) = Len(f[i + 1]) + 1
        BY <1>3, <3>1, <3>2, TokenFirst
      <4> QED BY <3>2, <4>1, EmptyIs
    <3>4. Len(g[i]) >= 1
      <4>1. \/ i < M /\ g[i] = <<SubSeq(t, i, i + 1)>> \o g[i + 2]
            \/ g[i] = <<SubSeq(t, i, i)>> \o g[i + 1]
        BY <1>4, <3>1 DEF TokensAt
      <4>2. CASE i < M /\ g[i] = <<SubSeq(t, i, i + 1)>> \o g[i + 2]
        <5>1. i + 2 \in 1..(M + 1)
          BY <1>0, <4>2
        <5>2. IsText(g[i + 2])
          BY <1>4, <5>1
        <5>3. Len(g[i]) = Len(g[i + 2]) + 1 /\ Len(g[i + 2]) \in Nat
          BY <4>2, <5>2, TokenFirst
        <5> QED BY <5>3
      <4>3. CASE g[i] = <<SubSeq(t, i, i)>> \o g[i + 1]
        <5>1. IsText(g[i + 1])
          BY <1>4, <3>1
        <5>2. Len(g[i]) = Len(g[i + 1]) + 1 /\ Len(g[i + 1]) \in Nat
          BY <4>3, <5>1, TokenFirst
        <5> QED BY <5>2
      <4> QED BY <4>1, <4>2, <4>3
    <3>5. Len(g[i]) \in Nat
      BY <1>4, <3>1, SeqFacts
    <3> QED BY <3>3, <3>4, <3>5 DEF Agree
  <2>7. i > L \/ i < L \/ i = L
    BY <1>0
  <2> QED BY <2>3, <2>4, <2>5, <2>6, <2>7
<1>8. L \in S
  <2> HIDE DEF S
  <2> QED BY <1>0, <1>6, <1>7, Induction
<1>9. 1 \in 1..(L + 1) /\ 1 + L >= L + 1 /\ 1 \in 1..(M + 1)
  BY <1>0
<1>10. Agree(f[1], g[1]) /\ IsText(f[1]) /\ IsText(g[1])
  BY <1>3, <1>4, <1>8, <1>9
<1> QED BY <1>1, <1>2, <1>10

\* A text that is not empty has a token.
LEMMA TokenizeSome ==
    ASSUME NEW text, IsText(text), Len(text) > 0
    PROVE  IsText(Tokenize(text)) /\ Len(Tokenize(text)) \in Nat /\ Len(Tokenize(text)) > 0
<1> DEFINE L == Len(text)
<1>0. L \in Nat /\ 1 \in 1..(L + 1) /\ 2 \in 1..(L + 1) /\ ~(1 > L)
      /\ (1 < L => 3 \in 1..(L + 1)) /\ 1 + 1 = 2 /\ 1 + 2 = 3
  BY SeqFacts
<1>1. PICK f : Tokens(text, f) /\ Tokenize(text) = f[1]
  BY TokenizeIs
<1>2. \A i \in 1..(L + 1) : f[i] = TokensAt(text, f, i) /\ IsText(f[i])
  BY <1>1 DEF Tokens
<1>3. \/ 1 < L /\ f[1] = <<SubSeq(text, 1, 2)>> \o f[3]
      \/ f[1] = <<SubSeq(text, 1, 1)>> \o f[2]
  BY <1>0, <1>2 DEF TokensAt
<1>4. CASE 1 < L /\ f[1] = <<SubSeq(text, 1, 2)>> \o f[3]
  <2>1. IsText(f[3])
    BY <1>0, <1>2, <1>4
  <2>2. Len(f[1]) = Len(f[3]) + 1 /\ Len(f[3]) \in Nat
    BY <1>4, <2>1, TokenFirst
  <2> QED BY <1>0, <1>1, <1>2, <2>2
<1>5. CASE f[1] = <<SubSeq(text, 1, 1)>> \o f[2]
  <2>1. IsText(f[2])
    BY <1>0, <1>2
  <2>2. Len(f[1]) = Len(f[2]) + 1 /\ Len(f[2]) \in Nat
    BY <1>5, <2>1, TokenFirst
  <2> QED BY <1>0, <1>1, <1>2, <2>2
<1> QED BY <1>3, <1>4, <1>5

LEMMA CommonPrefixIs ==
    ASSUME NEW s, NEW t, NEW limit \in Nat
    PROVE  /\ CommonPrefix(s, t, limit) \in 0..limit
           /\ \A i \in 1..CommonPrefix(s, t, limit) : s[i] = t[i]
<1> DEFINE S == {n \in 0..limit : \A i \in 1..n : s[i] = t[i]}
           Good(n) == (\A i \in 1..n : s[i] = t[i]) /\ (n = limit \/ s[n + 1] # t[n + 1])
           N == CHOOSE n \in 0..limit : Good(n)
<1>1. S \subseteq 0..limit /\ 0 \in S
  OBVIOUS
<1>2. PICK n \in S : \A m \in S : m <= n
  <2> HIDE DEF S
  <2> QED BY <1>1, LargestOf
<1>3. n \in 0..limit /\ \A i \in 1..n : s[i] = t[i]
  OBVIOUS
<1>4. n = limit \/ s[n + 1] # t[n + 1]
  <2> SUFFICES ASSUME n # limit, s[n + 1] = t[n + 1] PROVE FALSE
    OBVIOUS
  <2>1. n + 1 \in 0..limit
    BY <1>3
  <2>2. \A i \in 1..(n + 1) : i \in 1..n \/ i = n + 1
    BY <1>3
  <2>3. n + 1 \in S
    BY <1>3, <2>1, <2>2
  <2>4. n + 1 <= n
    BY <1>2, <2>3
  <2> QED BY <1>3, <2>4
<1>5. Good(n)
  BY <1>3, <1>4
<1>6. N \in 0..limit /\ Good(N)
  <2> HIDE DEF Good
  <2> QED BY <1>3, <1>5
<1>7. CommonPrefix(s, t, limit) = N
  BY DEF CommonPrefix
<1> HIDE DEF N
<1> QED BY <1>6, <1>7

\* What a context froze begins the tokens of every prompt over its state, and
\* is shorter: the last token of the marked text, the one that may merge with
\* what follows, is left out.
LEMMA FrozenBegins ==
    ASSUME template \in Templates, NEW state \in States,
           NEW text, Begins(HeadText(state), text), NEW other, Begins(HeadText(state), other)
    PROVE  Extends(Tokenize(other), ContextPrefix(text, state))
<1> DEFINE head == Tokenize(HeadText(state))
           full == Tokenize(text)
           next == Tokenize(other)
           limit == (IF Len(head) < Len(full) THEN Len(head) ELSE Len(full)) - 1
           n == CommonPrefix(head, full, limit)
<1>1. /\ Agree(head, full) /\ IsText(head) /\ IsText(full)
      /\ Agree(head, next) /\ IsText(next)
  BY TokensAgree
<1>2. Len(head) \in Nat /\ Len(head) > 0 /\ Len(full) \in Nat /\ Len(next) \in Nat
  BY <1>1, HeadIs, TokenizeSome, SeqFacts
<1>3. ContextPrefix(text, state) = SubSeq(full, 1, n)
  BY DEF ContextPrefix, HeadText
<1> HIDE DEF head, full, next
<1>4. limit \in Nat /\ limit = Len(head) - 1
  BY <1>1, <1>2 DEF Agree
<1>5. n \in 0..limit /\ \A i \in 1..n : head[i] = full[i]
  <2> HIDE DEF limit
  <2> QED BY <1>4, CommonPrefixIs
<1> HIDE DEF n, limit
<1>6. n \in Nat /\ n <= Len(full) /\ n <= Len(next) /\ n < Len(next)
  BY <1>1, <1>2, <1>4, <1>5 DEF Agree
<1>7. \A i \in 1..n : full[i] = next[i]
  <2>1. \A i \in 1..n : i \in 1..(Len(head) - 1)
    BY <1>2, <1>4, <1>5
  <2> QED BY <1>1, <1>5, <2>1 DEF Agree
<1> DEFINE p == SubSeq(full, 1, n)
           q == SubSeq(next, 1, n)
<1>8. IsText(p) /\ Len(p) = n /\ \A i \in 1..n : p[i] = full[i]
  BY <1>1, <1>6, PartBegins
<1>9. IsText(q) /\ Len(q) = n /\ \A i \in 1..n : q[i] = next[i]
  BY <1>1, <1>6, PartBegins
<1> HIDE DEF p, q
<1>10. p = q
  BY <1>7, <1>8, <1>9, SameSeq
<1>11. Len(next) > Len(p) /\ SubSeq(next, 1, Len(p)) = p
  <2>1. Len(next) > Len(p)
    BY <1>2, <1>6, <1>8
  <2> QED BY <1>8, <1>10, <2>1 DEF q
<1>12. Extends(next, p)
  BY <1>11 DEF Extends
<1> QED BY <1>3, <1>12 DEF next, p

----------------------------------------------------------------------------
(* Messages of a history.                                                  *)

LEMMA Appended ==
    ASSUME NEW s, IsText(s), NEW x
    PROVE  /\ IsText(Append(s, x)) /\ Len(Append(s, x)) = Len(s) + 1
           /\ \A i \in 1..Len(s) : Append(s, x)[i] = s[i]
           /\ Append(s, x)[Len(s) + 1] = x
<1> DEFINE S == {s[i] : i \in DOMAIN s} \cup {x}
<1>1. s \in Seq(S) /\ x \in S
  <2>1. {s[i] : i \in DOMAIN s} \subseteq S /\ x \in S
    OBVIOUS
  <2> HIDE DEF S
  <2> QED BY <2>1, SeqMonotonic DEF IsText
<1> HIDE DEF S
<1>2. Append(s, x) \in Seq(S) /\ Len(Append(s, x)) = Len(s) + 1
  BY <1>1, AppendProperties
<1>3. \A i \in 1..Len(s) : Append(s, x)[i] = s[i]
  BY <1>1, AppendProperties
<1>4. Append(s, x)[Len(s) + 1] = x
  BY <1>1, AppendProperties
<1> QED BY <1>2, <1>3, <1>4, SeqIs

LEMMA RenderIs ==
    ASSUME NEW m
    PROVE  Render(m) = RenderOf(template, m)
  BY DEF Render, RenderOf, Turn, TurnOf

LEMMA FreshIs ==
    ASSUME NEW h, h.asks # <<>>
    PROVE  Fresh(h) = FreshOf(template, h)
<1>1. Messages(h) = [i \in 1..(2 * Len(h.asks) - 1) |-> Message(h, i)]
  BY DEF Messages
<1>2. Fresh(h) = Render([i \in 1..(2 * Len(h.asks) - 1) |-> Message(h, i)])
                   \o AnswerPrefix(h.asks[Len(h.asks)])
  BY DEF Fresh, Message
<1> QED BY <1>1, <1>2, RenderIs DEF FreshOf

\* One ask of a state is one turn.
LEMMA MessagesOne ==
    ASSUME NEW state, NEW ask
    PROVE  Messages(Said(state, <<ask>>)) = << <<"user", StatePrefix(state) \o Block(ask)>> >>
<1> DEFINE h == Said(state, <<ask>>)
           f == [i \in 1..1 |-> Message(h, i)]
           u == <<"user", StatePrefix(state) \o Block(ask)>>
<1>1. h.state = state /\ h.asks = <<ask>> /\ Len(h.asks) = 1 /\ h.asks[1] = ask /\ h.asks # <<>>
  <2>1. h.state = state /\ h.asks = <<ask>>
    BY DEF Said
  <2> QED BY <2>1, OneIs, EmptyIs
<1>2. Messages(h) = f
  <2>1. Messages(h) = [i \in 1..(2 * Len(h.asks) - 1) |-> Message(h, i)]
    BY <1>1 DEF Messages
  <2>2. 2 * Len(h.asks) - 1 = 1
    <3> DEFINE l == Len(h.asks)
    <3>1. l = 1
      BY <1>1
    <3> HIDE DEF l
    <3>2. 2 * l - 1 = 1
      BY ONLY <3>1
    <3> QED BY <3>2 DEF l
  <2> HIDE DEF h
  <2> QED BY <2>1, <2>2
<1>3. IsText(f) /\ Len(f) = 1
  <2>1. f = [i \in 1..1 |-> f[i]]
    OBVIOUS
  <2> HIDE DEF f
  <2> QED BY <2>1, MakeSeq, 1 \in Nat
<1>4. Message(h, 1) = u
  BY <1>1 DEF Message
<1> HIDE DEF h, u
<1>5. f[1] = u
  BY <1>4
<1> HIDE DEF f
<1>6. IsText(<<u>>) /\ Len(<<u>>) = 1 /\ <<u>>[1] = u
  BY OneIs
<1>7. \A i \in 1..1 : i = 1
  OBVIOUS
<1>8. f = <<u>>
  BY <1>3, <1>5, <1>6, <1>7, SameSeq
<1> QED BY <1>2, <1>8 DEF h, u

\* A further ask closes the last turn with its answer prefix and opens another.
LEMMA MessagesMore ==
    ASSUME NEW state, NEW asks \in Seq(Asks), asks # <<>>, NEW ask \in Asks
    PROVE  Messages(Said(state, Append(asks, ask))) =
             Messages(Said(state, asks)) \o
               << <<"model", RStrip(AnswerPrefix(asks[Len(asks)]))>>, <<"user", Block(ask)>> >>
<1> DEFINE more == Append(asks, ask)
           h == Said(state, asks)
           k == Said(state, more)
           n == Len(asks)
           f == [i \in 1..(2 * n - 1) |-> Message(h, i)]
           g == [i \in 1..(2 * n + 1) |-> Message(k, i)]
           u == <<"model", RStrip(AnswerPrefix(asks[n]))>>
           v == <<"user", Block(ask)>>
           p == <<u, v>>
<1>1. n \in Nat /\ n >= 1
  <2>1. IsText(asks) /\ n \in Nat
    BY SeqIs
  <2> QED BY <2>1, Emptied
<1>2. /\ Len(more) = n + 1 /\ more # <<>>
      /\ \A i \in 1..n : more[i] = asks[i]
      /\ more[n + 1] = ask
  <2>1. IsText(more) /\ Len(more) = n + 1
    BY AppendedTo
  <2>2. \A i \in 1..n : more[i] = asks[i]
    BY AppendedTo
  <2>3. more[n + 1] = ask
    BY AppendedTo
  <2>4. more # <<>>
    BY <1>1, <2>1, EmptyIs
  <2> QED BY <2>1, <2>2, <2>3, <2>4
<1> HIDE DEF more, n
<1>3. h.state = state /\ h.asks = asks /\ k.state = state /\ k.asks = more
  BY DEF Said
<1>4. Messages(h) = f
  BY <1>3 DEF Messages, n
<1>5. Messages(k) = g
  <2>1. Messages(k) = [i \in 1..(2 * Len(k.asks) - 1) |-> Message(k, i)]
    BY <1>2, <1>3 DEF Messages
  <2>2. 2 * Len(k.asks) - 1 = 2 * n + 1
    BY <1>1, <1>2, <1>3
  <2> HIDE DEF k
  <2> QED BY <2>1, <2>2
<1> HIDE DEF h, k
<1>6. IsText(f) /\ Len(f) = 2 * n - 1
  <2>1. f = [i \in 1..(2 * n - 1) |-> f[i]] /\ 2 * n - 1 \in Nat
    BY <1>1
  <2> HIDE DEF f
  <2> QED BY <2>1, MakeSeq
<1>7. IsText(g) /\ Len(g) = 2 * n + 1
  <2>1. g = [i \in 1..(2 * n + 1) |-> g[i]] /\ 2 * n + 1 \in Nat
    BY <1>1
  <2> HIDE DEF g
  <2> QED BY <2>1, MakeSeq
<1>8. ASSUME NEW i \in 1..(2 * n - 1)
      PROVE  g[i] = f[i]
  <2>1. i \in 1..(2 * n + 1) /\ 1 \in 1..n
    BY <1>1
  <2>2. g[i] = Message(k, i) /\ f[i] = Message(h, i)
    BY <2>1
  <2>3. i % 2 = 1 => (i + 1) \div 2 \in 1..n
    BY <1>1
  <2>4. i % 2 # 1 => i \div 2 \in 1..n
    BY <1>1
  <2>5. CASE i = 1
    BY <1>2, <1>3, <2>1, <2>2, <2>5 DEF Message
  <2>6. CASE i # 1 /\ i % 2 = 1
    BY <1>2, <1>3, <2>2, <2>3, <2>6 DEF Message
  <2>7. CASE i # 1 /\ i % 2 # 1
    BY <1>2, <1>3, <2>2, <2>4, <2>7 DEF Message
  <2> QED BY <2>5, <2>6, <2>7
<1>9. g[2 * n] = u
  <2>1. 2 * n \in 1..(2 * n + 1) /\ 2 * n # 1 /\ (2 * n) % 2 # 1 /\ (2 * n) \div 2 = n /\ n \in 1..n
    BY <1>1
  <2>2. g[2 * n] = Message(k, 2 * n)
    BY <2>1
  <2>3. k.asks[n] = asks[n]
    BY <1>2, <1>3, <2>1
  <2> QED BY <2>1, <2>2, <2>3 DEF Message
<1>10. g[2 * n + 1] = v
  <2>1. /\ 2 * n + 1 \in 1..(2 * n + 1) /\ 2 * n + 1 # 1 /\ (2 * n + 1) % 2 = 1
        /\ ((2 * n + 1) + 1) \div 2 = n + 1
    BY <1>1
  <2>2. g[2 * n + 1] = Message(k, 2 * n + 1)
    BY <2>1
  <2>3. k.asks[n + 1] = ask
    BY <1>2, <1>3
  <2> QED BY <2>1, <2>2, <2>3 DEF Message
<1> HIDE DEF f, g, u, v
<1>11. IsText(p) /\ Len(p) = 2 /\ p[1] = u /\ p[2] = v
  BY TwoIs
<1> HIDE DEF p
<1>12. IsText(f \o p) /\ Len(f \o p) = 2 * n + 1
  <2>1. IsText(f \o p) /\ Len(f \o p) = Len(f) + Len(p)
    BY <1>6, <1>11, Joined
  <2> QED BY <1>1, <1>6, <1>11, <2>1
<1>13. \A i \in 1..Len(f) : (f \o p)[i] = f[i]
  <2>1. IsText(f) /\ IsText(p)
    BY <1>6, <1>11
  <2> QED BY ONLY <2>1, Joined
<1>14. (f \o p)[2 * n] = u /\ (f \o p)[2 * n + 1] = v
  <2>1. \A i \in 1..Len(p) : (f \o p)[Len(f) + i] = p[i]
    <3>1. IsText(f) /\ IsText(p)
      BY <1>6, <1>11
    <3> QED BY ONLY <3>1, Joined
  <2>2. Len(f) + 1 = 2 * n /\ Len(f) + 2 = 2 * n + 1 /\ 1 \in 1..Len(p) /\ 2 \in 1..Len(p)
    BY <1>1, <1>6, <1>11
  <2>3. (f \o p)[Len(f) + 1] = p[1] /\ (f \o p)[Len(f) + 2] = p[2]
    BY <2>1, <2>2
  <2> QED BY <1>11, <2>2, <2>3
<1>15. \A i \in 1..(2 * n + 1) : g[i] = (f \o p)[i]
  <2>1. \A i \in 1..(2 * n + 1) : i \in 1..(2 * n - 1) \/ i = 2 * n \/ i = 2 * n + 1
    BY <1>1
  <2>2. \A i \in 1..(2 * n - 1) : g[i] = (f \o p)[i]
    BY <1>6, <1>8, <1>13
  <2> DEFINE w == f \o p
  <2> HIDE DEF w
  <2> QED BY <1>9, <1>10, <1>14, <2>1, <2>2
<1>16. g = f \o p
  BY <1>7, <1>12, <1>15, SameSeq
<1> QED BY <1>4, <1>5, <1>16 DEF h, k, more, p, u, v, n

----------------------------------------------------------------------------
(* Records.                                                                *)

LEMMA RecordHas ==
    ASSUME NEW kind, NEW blocks, NEW messages, NEW prefix, NEW tokens, NEW parent, NEW anchor,
           NEW history
    PROVE  LET x == Record(kind, blocks, messages, prefix, tokens, parent, anchor, history) IN
           /\ x.kind = kind /\ x.blocks = blocks /\ x.messages = messages /\ x.prefix = prefix
           /\ x.tokens = tokens /\ x.parent = parent /\ x.anchor = anchor /\ x.history = history
           /\ x.promotes = 0
           /\ x = [Record(x.kind, x.blocks, x.messages, x.prefix, x.tokens, x.parent, x.anchor,
                       x.history) EXCEPT !.promotes = x.promotes]
  BY DEF Record

LEMMA SaidIs ==
    ASSUME NEW state \in States, NEW asks \in Seq(Asks)
    PROVE  /\ Said(state, asks).state = state /\ Said(state, asks).asks = asks
           /\ IsHistory(Said(state, asks))
  BY DEF Said, IsHistory

\* What a branch from a history freezes.
LEMMA ReadoutIs ==
    ASSUME NEW state \in States, NEW asks \in Seq(Asks), NEW ask \in Asks,
           NEW blocks, NEW parent, NEW anchor
    PROVE  LET h == Said(state, Append(asks, ask))
               x == Record("readout", blocks, Messages(h), AnswerPrefix(ask),
                        Tokenize(RenderOf(template, Messages(h)) \o AnswerPrefix(ask)),
                        parent, anchor, h) IN
           /\ IsRecord(template, x)
           /\ h.asks # <<>>
           /\ FreshOf(template, h) = RenderOf(template, Messages(h)) \o AnswerPrefix(ask)
<1> DEFINE more == Append(asks, ask)
           h == Said(state, more)
           x == Record("readout", blocks, Messages(h), AnswerPrefix(ask),
                    Tokenize(RenderOf(template, Messages(h)) \o AnswerPrefix(ask)),
                    parent, anchor, h)
<1>1. more \in Seq(Asks) /\ more # <<>> /\ more[Len(more)] = ask
  <2>1. more \in Seq(Asks) /\ IsText(more) /\ Len(more) = Len(asks) + 1
    BY AppendedTo
  <2>2. more[Len(asks) + 1] = ask
    BY AppendedTo
  <2>3. Len(asks) \in Nat
    BY SeqIs
  <2> HIDE DEF more
  <2>4. more # <<>>
    BY <2>1, <2>3, Emptied
  <2> QED BY <2>1, <2>2, <2>4
<1> HIDE DEF more
<1>2. h.state = state /\ h.asks = more /\ IsHistory(h)
  BY <1>1, SaidIs
<1> HIDE DEF h
<1>3. /\ x.kind = "readout" /\ x.messages = Messages(h) /\ x.prefix = AnswerPrefix(ask)
      /\ x.tokens = Tokenize(RenderOf(template, Messages(h)) \o AnswerPrefix(ask))
      /\ x.history = h
  BY RecordHas
<1>4. x = [Record(x.kind, x.blocks, x.messages, x.prefix, x.tokens, x.parent, x.anchor,
               x.history) EXCEPT !.promotes = x.promotes]
  BY RecordHas
<1> HIDE DEF x
<1>5. IsRecord(template, x)
  BY <1>1, <1>2, <1>3, <1>4 DEF IsRecord
<1>6. FreshOf(template, h) = RenderOf(template, Messages(h)) \o AnswerPrefix(ask)
  BY <1>1, <1>2 DEF FreshOf
<1>7. h.asks # <<>>
  BY <1>1, <1>2
<1> QED BY <1>5, <1>6, <1>7 DEF x, h, more

\* What create() freezes of a state alone.
LEMMA FreezeContext ==
    ASSUME NEW state \in States, NEW blocks, NEW parent
    PROVE  LET x == Freeze(state, <<>>, blocks, parent) IN
           /\ IsRecord(template, x) /\ x.kind = "context" /\ x.promotes = 0 /\ x.anchor = 0
<1> DEFINE h == Said(state, <<>>)
           m == << <<"user", StatePrefix(state)>> >>
           k == ContextPrefix(Render(m) \o <<>>, state)
           x == Record("context", blocks, m, <<>>, k, parent, 0, h)
<1>1. h.state = state /\ h.asks = <<>> /\ IsHistory(h)
  <2> DEFINE e == <<>>
  <2>1. e \in Seq(Asks)
    OBVIOUS
  <2> HIDE DEF e
  <2>2. Said(state, e).state = state /\ Said(state, e).asks = e /\ IsHistory(Said(state, e))
    BY <2>1, SaidIs
  <2> QED BY <2>2 DEF e
<1>2. Messages(h) = m
  BY <1>1 DEF Messages
<1>3. StatePrefix(state) \o <<>> = StatePrefix(state)
  BY StatePrefixIs, NothingAdded
<1>4. Freeze(state, <<>>, blocks, parent) = x
  BY <1>3 DEF Freeze
<1>5. k = ContextPrefix(RenderOf(template, m) \o <<>>, state)
  BY RenderIs
<1> HIDE DEF h, m, k
<1>6. /\ x.kind = "context" /\ x.messages = m /\ x.prefix = <<>> /\ x.tokens = k
      /\ x.history = h /\ x.promotes = 0 /\ x.anchor = 0
  BY RecordHas
<1>7. x = [Record(x.kind, x.blocks, x.messages, x.prefix, x.tokens, x.parent, x.anchor,
               x.history) EXCEPT !.promotes = x.promotes]
  BY RecordHas
<1> HIDE DEF x
<1>8. IsRecord(template, x)
  BY <1>1, <1>2, <1>5, <1>6, <1>7 DEF IsRecord
<1> QED BY <1>4, <1>6, <1>8

\* What create() freezes of a state and what is asked of it.
LEMMA FreezeReadout ==
    ASSUME NEW state \in States, NEW ask \in Asks, NEW blocks, NEW parent
    PROVE  LET x == Freeze(state, <<ask>>, blocks, parent) IN
           /\ IsRecord(template, x) /\ x.kind = "readout" /\ x.promotes = 0 /\ x.anchor = 0
<1> DEFINE e == <<>>
           h == Said(state, Append(e, ask))
           g == Said(state, <<ask>>)
           m == << <<"user", StatePrefix(state) \o Block(ask)>> >>
           k == Tokenize(Render(m) \o AnswerPrefix(ask))
           x == Record("readout", blocks, m, AnswerPrefix(ask), k, parent, 0, g)
<1>1. e \in Seq(Asks) /\ Append(e, ask) = <<ask>>
  OBVIOUS
<1>2. <<ask>> # <<>> /\ <<ask>>[1] = ask
  BY OneIs, EmptyIs
<1>3. Freeze(state, <<ask>>, blocks, parent) = x
  BY <1>2 DEF Freeze
<1>4. Messages(g) = m
  BY MessagesOne
<1>5. h = g
  BY <1>1
<1> HIDE DEF e
<1>6. IsRecord(template, Record("readout", blocks, Messages(h), AnswerPrefix(ask),
               Tokenize(RenderOf(template, Messages(h)) \o AnswerPrefix(ask)), parent, 0, h))
  BY <1>1, ReadoutIs
<1> HIDE DEF h
<1>7. k = Tokenize(RenderOf(template, m) \o AnswerPrefix(ask))
  BY RenderIs
<1> HIDE DEF g, m, k
<1>8. IsRecord(template, x)
  BY <1>4, <1>5, <1>6, <1>7
<1>9. x.kind = "readout" /\ x.promotes = 0 /\ x.anchor = 0
  BY RecordHas
<1> HIDE DEF x
<1> QED BY <1>3, <1>8, <1>9

----------------------------------------------------------------------------
(* Lists of records.                                                       *)

LEMMA ListMore ==
    ASSUME NEW t, NEW w, GoodList(t, w), Len(w) > 0, NEW x, IsRecord(t, x),
           IsPromotion(w, x), IsAnchored(w, x)
    PROVE  LET v == Append(w, x) IN
           /\ GoodList(t, v)
           /\ DOMAIN v = 1..Len(v) /\ Len(v) = Len(w) + 1
           /\ \A r \in DOMAIN w : r \in DOMAIN v /\ v[r] = w[r]
           /\ v[Len(w) + 1] = x
<1> DEFINE v == Append(w, x)
           n == Len(w)
<1>1. IsText(w) /\ n \in Nat /\ n > 0 /\ DOMAIN w = 1..n
  BY SeqFacts DEF GoodList
<1>2. IsText(v) /\ Len(v) = n + 1
  BY <1>1, Appended
<1>3. \A i \in 1..n : v[i] = w[i]
  BY <1>1, Appended
<1>4. v[n + 1] = x
  BY <1>1, Appended
<1>5. DOMAIN v = 1..Len(v)
  BY <1>2, SeqFacts
<1> HIDE DEF v, n
<1>6. \A r \in DOMAIN w : r \in DOMAIN v /\ v[r] = w[r]
  BY <1>1, <1>2, <1>3, <1>5
<1>7. v[1] = w[1]
  BY <1>1, <1>3
<1>8. \A y : IsPromotion(w, y) => IsPromotion(v, y)
  BY <1>6 DEF IsPromotion
<1>9. \A y : IsAnchored(w, y) => IsAnchored(v, y)
  BY <1>6, <1>7 DEF IsAnchored
<1>10. ASSUME NEW r \in DOMAIN v
       PROVE  IsRecord(t, v[r]) /\ IsPromotion(v, v[r]) /\ IsAnchored(v, v[r])
  <2>1. r \in DOMAIN w \/ r = n + 1
    BY <1>1, <1>2, <1>5
  <2>2. CASE r \in DOMAIN w
    <3>1. IsRecord(t, w[r]) /\ IsPromotion(w, w[r]) /\ IsAnchored(w, w[r])
      BY <2>2 DEF GoodList
    <3>2. v[r] = w[r]
      BY <1>6, <2>2
    <3> QED BY <1>8, <1>9, <3>1, <3>2
  <2>3. CASE r = n + 1
    BY <1>4, <1>8, <1>9, <2>3
  <2> QED BY <2>1, <2>2, <2>3
<1>11. GoodList(t, v)
  BY <1>2, <1>10 DEF GoodList
<1> QED BY <1>2, <1>4, <1>5, <1>6, <1>11 DEF v, n

LEMMA ListOne ==
    ASSUME NEW t, NEW x, IsRecord(t, x), x.promotes = 0, x.anchor = 0
    PROVE  GoodList(t, <<x>>) /\ Len(<<x>>) = 1 /\ <<x>>[1] = x /\ 1 \in DOMAIN <<x>>
<1> DEFINE w == <<x>>
<1>1. IsText(w) /\ Len(w) = 1 /\ w[1] = x
  BY OneIs
<1> HIDE DEF w
<1>2. DOMAIN w = 1..1
  BY <1>1, SeqFacts
<1>3. \A r \in DOMAIN w : r = 1
  BY <1>2
<1>4. IsPromotion(w, x)
  BY DEF IsPromotion
<1>5. x.kind # "readout" \/ w[1].kind # "context"
  BY <1>1
<1>6. IsAnchored(w, x)
  BY <1>5 DEF IsAnchored
<1>7. GoodList(t, w)
  BY <1>1, <1>3, <1>4, <1>6 DEF GoodList
<1>8. 1 \in DOMAIN w
  BY <1>2
<1> QED BY <1>1, <1>7, <1>8 DEF w

LEMMA ListTwo ==
    ASSUME NEW t, NEW x, IsRecord(t, x), x.promotes = 0, x.anchor = 0,
           NEW y, IsRecord(t, y), y.promotes = 0, y.anchor = 0, x.kind = y.kind
    PROVE  GoodList(t, <<x, y>>)
<1> DEFINE w == <<x>>
<1>1. GoodList(t, w) /\ Len(w) = 1 /\ w[1] = x
  BY ListOne
<1>2. <<x, y>> = Append(w, y)
  OBVIOUS
<1> HIDE DEF w
<1>3. IsPromotion(w, y)
  BY DEF IsPromotion
<1>4. IsAnchored(w, y)
  BY <1>1 DEF IsAnchored
<1>5. GoodList(t, Append(w, y))
  <2>1. Len(w) > 0
    BY <1>1
  <2>2. GoodList(t, w)
    BY <1>1
  <2> QED BY <1>3, <1>4, <2>1, <2>2, ListMore
<1> QED BY <1>2, <1>5

\* Records of one history are compiled and frozen alike.
LEMMA AlikeOf ==
    ASSUME NEW t, NEW x, NEW y, IsRecord(t, x), IsRecord(t, y), x.history = y.history
    PROVE  /\ x.kind = y.kind /\ x.messages = y.messages /\ x.prefix = y.prefix
           /\ x.tokens = y.tokens
  BY DEF IsRecord

----------------------------------------------------------------------------
(* _ensure_30(): a snapshot of 30 of the same history.                     *)

Whole(kind, blocks, messages, prefix, tokens, parent, anchor, history, promotes) ==
    [kind |-> kind, blocks |-> blocks, messages |-> messages, prefix |-> prefix,
     tokens |-> tokens, parent |-> parent, anchor |-> anchor, history |-> history,
     promotes |-> promotes]

LEMMA WholeIs ==
    ASSUME NEW kind, NEW blocks, NEW messages, NEW prefix, NEW tokens, NEW parent, NEW anchor,
           NEW history, NEW promotes
    PROVE  [Record(kind, blocks, messages, prefix, tokens, parent, anchor, history)
               EXCEPT !.promotes = promotes]
             = Whole(kind, blocks, messages, prefix, tokens, parent, anchor, history, promotes)
<1> DEFINE r == Record(kind, blocks, messages, prefix, tokens, parent, anchor, history)
<1>1. r = [kind |-> kind, blocks |-> blocks, messages |-> messages, prefix |-> prefix,
           tokens |-> tokens, parent |-> parent, anchor |-> anchor, history |-> history,
           promotes |-> 0]
  BY DEF Record
<1> HIDE DEF r
<1>2. [r EXCEPT !.promotes = promotes]
        = Whole(kind, blocks, messages, prefix, tokens, parent, anchor, history, promotes)
  BY <1>1 DEF Whole
<1> QED BY <1>2 DEF r

LEMMA WholeOf ==
    ASSUME NEW x, x = [Record(x.kind, x.blocks, x.messages, x.prefix, x.tokens, x.parent,
                          x.anchor, x.history) EXCEPT !.promotes = x.promotes]
    PROVE  \E kind, blocks, messages, prefix, tokens, parent, anchor, history, promotes :
              x = Whole(kind, blocks, messages, prefix, tokens, parent, anchor, history, promotes)
<1>1. x = Whole(x.kind, x.blocks, x.messages, x.prefix, x.tokens, x.parent, x.anchor,
               x.history, x.promotes)
  BY WholeIs
<1> QED BY <1>1

LEMMA PromotedIs ==
    ASSUME NEW id, IsRecord(template, records[id])
    PROVE  /\ IsRecord(template, Promoted(id))
           /\ Promoted(id).history = records[id].history /\ Promoted(id).blocks = 30
           /\ Promoted(id).promotes = id /\ Promoted(id).anchor = records[id].anchor
           /\ Promoted(id).kind = records[id].kind
<1> DEFINE x == records[id]
           y1 == [x EXCEPT !.blocks = 30]
           y2 == [y1 EXCEPT !.parent = id]
           y3 == [y2 EXCEPT !.promotes = id]
           y == [x EXCEPT !.blocks = 30, !.parent = id, !.promotes = id]
<1>1. IsRecord(template, x)
  OBVIOUS
<1>2. Promoted(id) = y
  BY DEF Promoted
<1> HIDE DEF x
<1>3. PICK kind, blocks, messages, prefix, tokens, parent, anchor, history, promotes :
          x = Whole(kind, blocks, messages, prefix, tokens, parent, anchor, history, promotes)
  <2>1. x = [Record(x.kind, x.blocks, x.messages, x.prefix, x.tokens, x.parent, x.anchor,
                 x.history) EXCEPT !.promotes = x.promotes]
    BY <1>1 DEF IsRecord
  <2> QED BY <2>1, WholeOf
<1> DEFINE v == Whole(kind, 30, messages, prefix, tokens, id, anchor, history, id)
<1>4. y = v
  <2>1. y1 = Whole(kind, 30, messages, prefix, tokens, parent, anchor, history, promotes)
    BY <1>3 DEF Whole
  <2>2. y = [[y1 EXCEPT !.parent = id] EXCEPT !.promotes = id]
    OBVIOUS
  <2> HIDE DEF y, y1
  <2>3. y2 = Whole(kind, 30, messages, prefix, tokens, id, anchor, history, promotes)
    BY <2>1 DEF Whole
  <2> HIDE DEF y2
  <2>4. y3 = v
    BY <2>3 DEF Whole
  <2> QED BY <2>2, <2>4 DEF y2
<1> HIDE DEF y
<1>5. /\ v.kind = x.kind /\ v.messages = x.messages /\ v.prefix = x.prefix
      /\ v.tokens = x.tokens /\ v.anchor = x.anchor /\ v.history = x.history
      /\ v.blocks = 30 /\ v.promotes = id /\ v.parent = id
  BY <1>3 DEF Whole
<1>6. v = [Record(v.kind, v.blocks, v.messages, v.prefix, v.tokens, v.parent, v.anchor,
               v.history) EXCEPT !.promotes = v.promotes]
  <2>1. /\ v.kind = kind /\ v.messages = messages /\ v.prefix = prefix /\ v.tokens = tokens
        /\ v.anchor = anchor /\ v.history = history
        /\ v.blocks = 30 /\ v.promotes = id /\ v.parent = id
    BY DEF Whole
  <2>2. v = [Record(kind, 30, messages, prefix, tokens, id, anchor, history)
                EXCEPT !.promotes = id]
    BY WholeIs
  <2> HIDE DEF v
  <2> QED BY <2>1, <2>2
<1> HIDE DEF v
<1>7. IsRecord(template, v)
  BY <1>1, <1>5, <1>6 DEF IsRecord
<1> QED BY <1>2, <1>4, <1>5, <1>7 DEF x

\* The list keeps what it had; the effective snapshot is a 30 of the history.
IsEnsured(w, e, id) ==
    /\ GoodList(template, w) /\ Len(w) > 0
    /\ w[1] = records[1]
    /\ \A r \in DOMAIN records : r \in DOMAIN w /\ w[r] = records[r]
    /\ e \in DOMAIN w /\ e # 0 /\ w[e].blocks = 30 /\ w[e].history = records[id].history
    /\ IsRecord(template, w[e])

LEMMA EnsureIs ==
    ASSUME GoodList(template, records), NEW id \in DOMAIN records
    PROVE  IsEnsured(Ensure30(id), Effective(id), id)
<1> DEFINE n == Len(records)
<1>1. IsText(records) /\ n \in Nat /\ DOMAIN records = 1..n
  BY SeqFacts DEF GoodList
<1>2. /\ IsRecord(template, records[id]) /\ IsPromotion(records, records[id])
      /\ IsAnchored(records, records[id])
  BY DEF GoodList
<1>3. id \in 1..n /\ n > 0 /\ 1 \in DOMAIN records
  BY <1>1
<1>4. CASE Finished(id) = {}
  <2> DEFINE p == Promoted(id)
             v == Append(records, p)
  <2>1. Ensure30(id) = v /\ Effective(id) = n + 1
    BY <1>4 DEF Ensure30, Effective
  <2>2. /\ IsRecord(template, p) /\ p.history = records[id].history /\ p.blocks = 30
        /\ p.promotes = id /\ p.anchor = records[id].anchor /\ p.kind = records[id].kind
    BY <1>2, PromotedIs
  <2> HIDE DEF p
  <2>3. IsPromotion(records, p)
    BY <2>2 DEF IsPromotion
  <2>4. IsAnchored(records, p)
    BY <1>2, <2>2 DEF IsAnchored
  <2>5. Len(records) > 0
    BY <1>3
  <2>6. IsRecord(template, p)
    BY <2>2
  <2>7. /\ GoodList(template, v)
        /\ DOMAIN v = 1..Len(v) /\ Len(v) = Len(records) + 1
        /\ \A r \in DOMAIN records : r \in DOMAIN v /\ v[r] = records[r]
        /\ v[Len(records) + 1] = p
    BY <2>3, <2>4, <2>5, <2>6, ListMore
  <2> HIDE DEF v
  <2>8. Len(v) > 0 /\ n + 1 \in DOMAIN v /\ n + 1 # 0
    BY <1>1, <2>7
  <2>9. v[1] = records[1]
    BY <1>3, <2>7
  <2> HIDE DEF n
  <2>10. v[n + 1] = p
    BY <2>7 DEF n
  <2>11. IsEnsured(v, n + 1, id)
    BY <2>2, <2>7, <2>8, <2>9, <2>10 DEF IsEnsured
  <2> QED BY <2>1, <2>11
<1>5. CASE Finished(id) # {}
  <2> DEFINE e == Effective(id)
  <2>1. Ensure30(id) = records /\ e \in Finished(id)
    BY <1>5 DEF Ensure30, Effective
  <2> HIDE DEF e
  <2>2. e \in DOMAIN records /\ records[e].blocks = 30 /\ records[e].history = records[id].history
    <3>1. CASE records[id].blocks = 30
      <4>1. e = id
        BY <2>1, <3>1 DEF Finished
      <4> QED BY <3>1, <4>1
    <3>2. CASE records[id].blocks # 30
      <4>1. e \in DOMAIN records /\ records[e].promotes = id
        BY <2>1, <3>2 DEF Finished
      <4>2. IsPromotion(records, records[e])
        BY <4>1 DEF GoodList
      <4>3. id # 0
        BY <1>3
      <4> QED BY <4>1, <4>2, <4>3 DEF IsPromotion
    <3> QED BY <3>1, <3>2
  <2>3. IsRecord(template, records[e])
    BY <2>2 DEF GoodList
  <2>4. e # 0 /\ Len(records) > 0
    BY <1>1, <1>3, <2>2
  <2>5. IsEnsured(records, e, id)
    BY <2>2, <2>3, <2>4 DEF IsEnsured
  <2> QED BY <2>1, <2>5 DEF e
<1> QED BY <1>4, <1>5

----------------------------------------------------------------------------
(* A branch.                                                               *)

BranchMessages(record, ask) ==
    IF record.kind = "context" THEN ContextMessages(record, ask) ELSE ReadoutMessages(record, ask)

More(h, ask) == Said(h.state, Append(h.asks, ask))

\* What is compiled from a record continues its history.
LEMMA ContextMore ==
    ASSUME NEW x, IsRecord(template, x), x.kind = "context", NEW ask \in Asks
    PROVE  /\ BranchMessages(x, ask) = << <<"user", StatePrefix(x.history.state) \o Block(ask)>> >>
           /\ More(x.history, ask) = Said(x.history.state, <<ask>>)
           /\ BranchMessages(x, ask) = Messages(More(x.history, ask))
<1> DEFINE state == x.history.state
           u == <<"user", StatePrefix(state)>>
<1>1. x.history.asks = <<>>
  BY DEF IsRecord
<1>2. x.messages = <<u>>
  BY <1>1 DEF IsRecord, Messages
<1>3. x.messages[1][2] = StatePrefix(state)
  <2>1. <<u>>[1] = u
    BY OneIs
  <2>2. u[2] = StatePrefix(state)
    OBVIOUS
  <2> HIDE DEF u
  <2> QED BY <1>2, <2>1, <2>2
<1> HIDE DEF state
<1>4. BranchMessages(x, ask) = << <<"user", StatePrefix(state) \o Block(ask)>> >>
  BY <1>3 DEF BranchMessages, ContextMessages
<1>5. Append(x.history.asks, ask) = <<ask>>
  BY <1>1
<1>6. More(x.history, ask) = Said(state, <<ask>>)
  BY <1>5 DEF More, state
<1>7. Messages(Said(state, <<ask>>)) = << <<"user", StatePrefix(state) \o Block(ask)>> >>
  BY MessagesOne
<1> QED BY <1>4, <1>6, <1>7 DEF state

LEMMA ReadoutMore ==
    ASSUME NEW x, IsRecord(template, x), x.kind # "context", NEW ask \in Asks
    PROVE  BranchMessages(x, ask) = Messages(More(x.history, ask))
<1> DEFINE h == x.history
           state == h.state
           asks == h.asks
<1>1. asks \in Seq(Asks) /\ asks # <<>> /\ h = Said(state, asks)
  BY DEF IsRecord, IsHistory
<1>2. x.messages = Messages(h) /\ x.prefix = AnswerPrefix(asks[Len(asks)])
  BY <1>1 DEF IsRecord
<1>3. BranchMessages(x, ask) =
        x.messages \o << <<"model", RStrip(x.prefix)>>, <<"user", Block(ask)>> >>
  BY DEF BranchMessages, ReadoutMessages
<1> HIDE DEF h, state, asks
<1>4. Messages(Said(state, Append(asks, ask))) =
        Messages(Said(state, asks)) \o
          << <<"model", RStrip(AnswerPrefix(asks[Len(asks)]))>>, <<"user", Block(ask)>> >>
  BY <1>1, MessagesMore
<1>5. More(x.history, ask) = Said(state, Append(asks, ask))
  BY DEF More, h, state, asks
<1> QED BY <1>1, <1>2, <1>3, <1>4, <1>5

\* A branch of a context is accepted: the head the context froze begins it.
LEMMA ContextAccepted ==
    ASSUME template \in Templates, NEW x, IsRecord(template, x), x.kind = "context",
           NEW ask \in Asks, NEW y, y.tokens = x.tokens
    PROVE  BranchCode(Tokenize(RenderOf(template, BranchMessages(x, ask)) \o AnswerPrefix(ask)), y)
             = "ok"
<1> DEFINE state == x.history.state
           p == StatePrefix(state)
           e == <<>>
           text == Render(<< <<"user", p>> >>) \o e
           other == Render(<< <<"user", p \o Block(ask)>> >>) \o AnswerPrefix(ask)
<1>1. state \in States /\ x.history.asks = <<>>
  BY DEF IsRecord, IsHistory
<1>2. x.tokens = ContextPrefix(text, state)
  <2>1. x.messages = << <<"user", p>> >> /\ x.prefix = e
    BY <1>1 DEF IsRecord, Messages
  <2>2. x.tokens = ContextPrefix(RenderOf(template, x.messages) \o x.prefix, state)
    BY <1>1 DEF IsRecord
  <2> QED BY <2>1, <2>2, RenderIs
<1>3. BranchMessages(x, ask) = << <<"user", p \o Block(ask)>> >>
  BY ContextMore
<1>4. RenderOf(template, BranchMessages(x, ask)) \o AnswerPrefix(ask) = other
  BY <1>3, RenderIs
<1>5. IsText(e) /\ IsText(Block(ask)) /\ IsText(AnswerPrefix(ask)) /\ p \o e = p
  BY <1>1, EmptyIs, BlockIs, StatePrefixIs, NothingAdded
<1> HIDE DEF e, state
<1>6. Begins(HeadText(state), text)
  <2>1. Begins(HeadText(state), Render(<< <<"user", StatePrefix(state) \o e>> >>) \o e)
    BY <1>1, <1>5, PromptBegins
  <2> QED BY <1>5, <2>1
<1>7. Begins(HeadText(state), other)
  BY <1>1, <1>5, PromptBegins
<1> HIDE DEF text, other
<1>8. Extends(Tokenize(other), ContextPrefix(text, state))
  BY <1>1, <1>6, <1>7, FrozenBegins
<1> QED BY <1>2, <1>4, <1>8 DEF BranchCode

----------------------------------------------------------------------------
(* The steps.                                                              *)

LEMMA InitInv == Init => PromptsInv
<1> SUFFICES ASSUME Init PROVE PromptsInv
  OBVIOUS
<1>1. template \in Templates /\ records = <<>> /\ reply.code = "none"
  BY DEF Init, NoReply
<1>2. IsText(records) /\ \A r \in DOMAIN records : FALSE
  <2>1. IsText(records) /\ DOMAIN records = 1..Len(records) /\ Len(records) = 0
    BY <1>1, EmptyIs, SeqFacts
  <2> QED BY <2>1
<1>3. GoodList(template, records)
  BY <1>2 DEF GoodList
<1> QED BY <1>1, <1>3 DEF PromptsInv, IsFresh, ContextBranchesExtend

\* create() of one snapshot, or of both block counts.
LEMMA CreateInv == PromptsInv /\ Create => PromptsInv'
<1> SUFFICES ASSUME PromptsInv, Create PROVE PromptsInv'
  OBVIOUS
<1>1. template \in Templates /\ template' = template /\ reply'.code = "none"
  BY DEF PromptsInv, Create, NoReply
<1>2. PICK state \in States, asks \in {<<>>} \cup {<<a>> : a \in Asks} :
          \/ \E blocks \in {18, 30} : records' = <<Freeze(state, asks, blocks, 0)>>
          \/ records' = <<Freeze(state, asks, 18, 0), Freeze(state, asks, 30, 1)>>
  BY DEF Create
<1> DEFINE F(blocks, parent) == Freeze(state, asks, blocks, parent)
<1>3. \E kind : \A blocks, parent :
        /\ IsRecord(template, F(blocks, parent)) /\ F(blocks, parent).kind = kind
        /\ F(blocks, parent).promotes = 0 /\ F(blocks, parent).anchor = 0
  <2>1. CASE asks = <<>>
    <3>1. \A blocks, parent :
            /\ IsRecord(template, Freeze(state, <<>>, blocks, parent))
            /\ Freeze(state, <<>>, blocks, parent).kind = "context"
            /\ Freeze(state, <<>>, blocks, parent).promotes = 0
            /\ Freeze(state, <<>>, blocks, parent).anchor = 0
      BY FreezeContext
    <3>2. \A blocks, parent : F(blocks, parent) = Freeze(state, <<>>, blocks, parent)
      BY <2>1
    <3> HIDE DEF F
    <3> QED BY <3>1, <3>2
  <2>2. CASE asks # <<>>
    <3>1. PICK a \in Asks : asks = <<a>>
      BY <2>2
    <3> QED BY <3>1, FreezeReadout
  <2> QED BY <2>1, <2>2
<1> HIDE DEF F
<1>4. GoodList(template, records')
  <2>1. CASE \E blocks \in {18, 30} : records' = <<F(blocks, 0)>>
    BY <1>3, <2>1, ListOne
  <2>2. CASE records' = <<F(18, 0), F(30, 1)>>
    BY <1>3, <2>2, ListTwo
  <2> QED BY <1>2, <2>1, <2>2 DEF F
<1>5. GoodList(template', records') /\ template' \in Templates
  BY <1>1, <1>4
<1> QED BY <1>1, <1>5 DEF PromptsInv, IsFresh, ContextBranchesExtend

LEMMA RefuseInv == PromptsInv /\ RefuseReplacement => PromptsInv'
<1> SUFFICES ASSUME PromptsInv, RefuseReplacement PROVE PromptsInv'
  OBVIOUS
<1>1. reply'.code = "refused" /\ records' = records /\ template' = template
  BY DEF RefuseReplacement, NoReply
<1>2. GoodList(template', records') /\ template' \in Templates
  BY <1>1 DEF PromptsInv
<1> QED BY <1>1, <1>2 DEF PromptsInv, IsFresh, ContextBranchesExtend

\* What a branch continues, and the history it has from there.
LEMMA BaseIs ==
    ASSUME GoodList(template, records), NEW id \in DOMAIN records, NEW relationship, NEW ask \in Asks,
           relationship = "replace_question" => Replaceable(id)
    PROVE  LET base == Base(id, relationship) IN
           /\ base \in DOMAIN records
           /\ More(records[base].history, ask) =
                IF relationship = "replace_question"
                THEN Said(records[id].history.state, <<ask>>)
                ELSE Said(records[id].history.state, Append(records[id].history.asks, ask))
<1>1. CASE relationship = "replace_question"
  <2> DEFINE a == records[id].anchor
  <2>1. a # 0 /\ Base(id, relationship) = a
    BY <1>1 DEF Replaceable, Base
  <2>2. IsAnchored(records, records[id])
    BY DEF GoodList
  <2>3. /\ a \in DOMAIN records /\ records[a].kind = "context"
        /\ records[a].history.state = records[id].history.state
    BY <2>1, <2>2 DEF IsAnchored
  <2>4. IsRecord(template, records[a])
    BY <2>3 DEF GoodList
  <2>5. More(records[a].history, ask) = Said(records[a].history.state, <<ask>>)
    BY <2>3, <2>4, ContextMore
  <2> QED BY <1>1, <2>1, <2>3, <2>5
<1>2. CASE relationship # "replace_question"
  BY <1>2 DEF Base, More
<1> QED BY <1>1, <1>2

LEMMA BranchInv ==
    ASSUME PromptsInv, NEW id \in DOMAIN records, NEW ask \in Asks, NEW save \in BOOLEAN,
           NEW relationship \in {"followup", "replace_question"},
           Branch(id, relationship, ask, save)
    PROVE  PromptsInv'
<1> DEFINE base == Base(id, relationship)
           record == records[base]
           effective == Effective(base)
           with30 == Ensure30(base)
           messages == BranchMessages(record, ask)
           prompt == Render(messages) \o AnswerPrefix(ask)
           code == BranchCode(Tokenize(prompt), with30[effective])
           history == IF relationship = "replace_question"
                      THEN Said(records[id].history.state, <<ask>>)
                      ELSE Said(records[id].history.state, Append(records[id].history.asks, ask))
           child == Record("readout", 30, messages, AnswerPrefix(ask),
                           Tokenize(prompt), effective, ChildAnchor(base, effective), history)
<1>1. template \in Templates /\ GoodList(template, records) /\ template' = template
  BY DEF PromptsInv, Branch
<1>2. /\ records' = IF save /\ code = "ok" THEN Append(with30, child) ELSE with30
      /\ reply' = [code |-> code, prompt |-> prompt, history |-> history]
  BY DEF Branch, BranchMessages
<1>3. base \in DOMAIN records /\ history = More(record.history, ask)
  <2>1. relationship = "replace_question" => Replaceable(id)
    BY DEF Branch
  <2> QED BY <1>1, <2>1, BaseIs
<1> HIDE DEF history, base
<1>4. /\ IsRecord(template, record) /\ IsPromotion(records, record)
      /\ IsAnchored(records, record)
  BY <1>1, <1>3 DEF GoodList
<1>5. IsEnsured(with30, effective, base)
  BY <1>1, <1>3, EnsureIs
<1> HIDE DEF with30, effective
<1>6. /\ GoodList(template, with30) /\ Len(with30) > 0 /\ with30[1] = records[1]
      /\ effective \in DOMAIN with30 /\ effective # 0 /\ with30[effective].blocks = 30
      /\ with30[effective].history = record.history
      /\ IsRecord(template, with30[effective])
  BY <1>5 DEF IsEnsured
<1>7. \A r \in DOMAIN records : r \in DOMAIN with30 /\ with30[r] = records[r]
  BY <1>5 DEF IsEnsured
<1>8. with30[effective].kind = record.kind /\ with30[effective].tokens = record.tokens
  BY <1>4, <1>6, AlikeOf
<1>9. messages = Messages(history)
  BY <1>3, <1>4, ContextMore, ReadoutMore
<1>10. prompt = RenderOf(template, messages) \o AnswerPrefix(ask)
  BY RenderIs
<1>11. code # "snapshot_prefix_mismatch"
  <2>1. CASE record.kind = "context"
    <3>1. code = "ok"
      BY <1>1, <1>4, <1>8, <1>10, <2>1, ContextAccepted
    <3> QED BY <3>1
  <2>2. CASE record.kind # "context"
    <3>1. with30[effective].kind = "readout"
      BY <1>4, <1>8, <2>2 DEF IsRecord
    <3> QED BY <3>1 DEF BranchCode
  <2> QED BY <2>1, <2>2
<1> HIDE DEF messages, prompt, code, record
<1>12. /\ IsRecord(template, child) /\ history.asks # <<>>
       /\ FreshOf(template, history) = prompt
  <2> DEFINE state == record.history.state
             asks == record.history.asks
  <2>1. state \in States /\ asks \in Seq(Asks)
    BY <1>4 DEF IsRecord, IsHistory
  <2>2. history = Said(state, Append(asks, ask))
    BY <1>3 DEF More
  <2> HIDE DEF state, asks
  <2> DEFINE anchor == ChildAnchor(base, effective)
  <2> HIDE DEF anchor
  <2>3. /\ IsRecord(template,
             Record("readout", 30, Messages(history), AnswerPrefix(ask),
                 Tokenize(RenderOf(template, Messages(history)) \o AnswerPrefix(ask)),
                 effective, anchor, history))
        /\ history.asks # <<>>
        /\ FreshOf(template, history) =
             RenderOf(template, Messages(history)) \o AnswerPrefix(ask)
    BY <2>1, <2>2, ReadoutIs
  <2> QED BY <1>9, <1>10, <2>3 DEF anchor
<1>13. IsFresh(template', reply')
  <2>1. reply'.prompt = prompt /\ reply'.history = history
    BY <1>2
  <2> QED BY <1>1, <1>12, <2>1 DEF IsFresh
<1>14. ContextBranchesExtend'
  BY <1>2, <1>11 DEF ContextBranchesExtend
<1>15. child.promotes = 0 /\ child.anchor = ChildAnchor(base, effective)
       /\ child.history = history /\ child.kind = "readout"
  BY RecordHas
<1> HIDE DEF child
<1>16. GoodList(template, Append(with30, child))
  <2>1. IsPromotion(with30, child)
    BY <1>15 DEF IsPromotion
  <2>2. history.state = record.history.state
    BY <1>3 DEF More, Said
  <2>3. IsAnchored(with30, child)
    <3>1. CASE record.kind = "context"
      <4>1. child.anchor = effective
        BY <1>15, <3>1 DEF ChildAnchor, record
      <4>2. with30[effective].kind = "context"
        BY <1>8, <3>1
      <4> QED BY <1>6, <1>15, <2>2, <4>1, <4>2 DEF IsAnchored
    <3>2. CASE record.kind # "context"
      <4>1. child.anchor = record.anchor
        BY <1>15, <3>2 DEF ChildAnchor, record
      <4>2. record.kind = "readout"
        BY <1>4, <3>2 DEF IsRecord
      <4>3. record.anchor # 0 =>
              /\ record.anchor \in DOMAIN with30
              /\ with30[record.anchor].kind = "context" /\ with30[record.anchor].blocks = 30
              /\ with30[record.anchor].history.state = record.history.state
        BY <1>4, <1>7 DEF IsAnchored
      <4>4. with30[1].kind = "context" => record.anchor # 0
        BY <1>4, <1>6, <4>2 DEF IsAnchored
      <4> QED BY <1>15, <2>2, <4>1, <4>3, <4>4 DEF IsAnchored
    <3> QED BY <3>1, <3>2
  <2>4. GoodList(template, with30) /\ Len(with30) > 0 /\ IsRecord(template, child)
    BY <1>6, <1>12
  <2> QED BY <2>1, <2>3, <2>4, ListMore
<1>17. GoodList(template, records')
  BY <1>2, <1>6, <1>16
<1>18. GoodList(template', records') /\ template' \in Templates
  BY <1>1, <1>17
<1> QED BY <1>13, <1>14, <1>18 DEF PromptsInv

LEMMA NextInv == PromptsInv /\ [Next]_vars => PromptsInv'
<1> SUFFICES ASSUME PromptsInv, [Next]_vars PROVE PromptsInv'
  OBVIOUS
<1>1. CASE Create
  BY <1>1, CreateInv
<1>2. CASE RefuseReplacement
  BY <1>2, RefuseInv
<1>3. ASSUME NEW id \in DOMAIN records, NEW ask \in Asks, NEW save \in BOOLEAN,
             NEW relationship \in {"followup", "replace_question"},
             Branch(id, relationship, ask, save)
      PROVE  PromptsInv'
  BY <1>3, BranchInv
<1>4. CASE UNCHANGED vars
  <2>1. template' = template /\ records' = records /\ reply' = reply
    BY <1>4 DEF vars
  <2> QED BY <2>1 DEF PromptsInv, ContextBranchesExtend
<1> QED BY <1>1, <1>2, <1>3, <1>4 DEF Next

----------------------------------------------------------------------------
(* The theorems.                                                           *)

\* Every record is compiled and frozen from its history and nothing else, what
\* a replacement continues is a context of its state, and the last prompt is
\* the history's (service.py, _plan() and _ensure_30(); compiler.py; the
\* worker's context_prefix() and branch_suffix()).
THEOREM PromptsInvariantHolds == Spec => []PromptsInv
<1> QED BY InitInv, NextInv, PTL DEF Spec

LEMMA InvHistories == PromptsInv => PromptsAreHistories
<1> SUFFICES ASSUME PromptsInv PROVE PromptsAreHistories
  OBVIOUS
<1>1. PromptIsTheHistory
  <2>1. IsFresh(template, reply)
    BY DEF PromptsInv
  <2> QED BY <2>1, FreshIs DEF IsFresh, PromptIsTheHistory
<1>2. ASSUME NEW r \in DOMAIN records, records[r].kind = "readout"
      PROVE  records[r].tokens = Tokenize(Fresh(records[r].history))
  <2> DEFINE x == records[r]
  <2>1. IsRecord(template, x)
    BY DEF PromptsInv, GoodList
  <2> HIDE DEF x
  <2>2. x.history.asks # <<>>
    BY <1>2, <2>1 DEF IsRecord, x
  <2>3. /\ x.messages = Messages(x.history)
        /\ x.prefix = AnswerPrefix(x.history.asks[Len(x.history.asks)])
        /\ x.tokens = Tokenize(RenderOf(template, x.messages) \o x.prefix)
    BY <2>1, <2>2 DEF IsRecord
  <2>4. x.tokens = Tokenize(FreshOf(template, x.history))
    BY <2>3 DEF FreshOf
  <2>5. Fresh(x.history) = FreshOf(template, x.history)
    BY <2>2, FreshIs
  <2> QED BY <2>4, <2>5 DEF x
<1> QED BY <1>1, <1>2 DEF PromptsAreHistories, FrozenIsTheHistory

LEMMA InvReplaceable == PromptsInv => QuestionsCanBeReplaced
<1> SUFFICES ASSUME PromptsInv PROVE QuestionsCanBeReplaced
  OBVIOUS
<1>1. ASSUME NEW r \in DOMAIN records
      PROVE  IsAnchored(records, records[r])
  BY DEF PromptsInv, GoodList
<1>2. AnchorsAreContexts
  BY <1>1 DEF IsAnchored, AnchorsAreContexts
<1>3. \A r \in DOMAIN records :
          (records[r].kind = "readout" /\ records[1].kind = "context") => Replaceable(r)
  BY <1>1 DEF IsAnchored, Replaceable
<1> QED BY <1>2, <1>3 DEF QuestionsCanBeReplaced

\* What the worker is given, and what a readout froze, is the fresh rendering
\* of what was said so far: the state once and every ask in order, whatever
\* the template trims and the tokenizer merges (compiler.py
\* compile_readout_followup(), compile_context_followup()).
THEOREM PromptsAlwaysHistories == Spec => []PromptsAreHistories
<1> QED BY PromptsInvariantHolds, InvHistories, PTL

\* A branch of a context extends what the context froze: no state, question or
\* prompt, no template and no merge of two neighbours makes the worker refuse it
\* (snapshot-worker.cpp, context_prefix() and branch_suffix()).
THEOREM ContextBranchesAlwaysExtend == Spec => []ContextBranchesExtend
<1>1. PromptsInv => ContextBranchesExtend
  BY DEF PromptsInv
<1> QED BY <1>1, PromptsInvariantHolds, PTL

\* A question asked of a context can be replaced through any number of
\* followups, saved children and promotions (service.py, _plan()).
THEOREM QuestionsAlwaysReplaceable == Spec => []QuestionsCanBeReplaced
<1> QED BY PromptsInvariantHolds, InvReplaceable, PTL

=============================================================================

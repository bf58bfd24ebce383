---------------------------- MODULE LabelWorker -----------------------------
(***************************************************************************)
(* The v1 worker (unridden/api/native/worker.cpp): a request's questions   *)
(* over one context, one after the other with the shared prefix kept       *)
(* (docs/decisions/0002), or all in one batched decode (0004).             *)
(*                                                                         *)
(* A question is a step, and a decode can fail in any of them, which ends  *)
(* the process.  Text, labels and logits are left out: a question is its   *)
(* tokens, and its answer is the cells its last token attends to.          *)
(***************************************************************************)
EXTENDS KvCells

CONSTANTS
    Prompts,        \* the rendered prompts, as token sequences
    Modes,          \* the workers there are: started with --batched, or not
    Context,        \* --context: tokens of a prompt
    BatchedContext, \* --batched-context: cells of the unified cache
    MaxQuestions,   \* --max-questions
    MinShared       \* MIN_SHARED_PREFIX_TOKENS

ASSUME PromptsAssumption == \A p \in Prompts : p # <<>> /\ p \in Seq({p[i] : i \in DOMAIN p})
ASSUME ModesAssumption == Modes \subseteq BOOLEAN

\* ApiConfig: the limits a worker is started with.
ValidLimits ==
    /\ {Context, BatchedContext, MaxQuestions} \subseteq Nat \ {0} /\ MaxQuestions <= 32
    /\ TRUE \in Modes => BatchedContext \in Context..(MaxQuestions * Context)

ASSUME SizesAssumption == ValidLimits /\ MinShared \in Nat \ {0}

VARIABLES
    batched,    \* was this one started with --batched?
    alive,      \* the process runs
    memory,     \* the cells of the context
    cached,     \* cached_prefix
    asked,      \* the questions of the request, empty between requests
    fallback,   \* batched_fallback
    results,    \* the results so far
    answer      \* what the request was answered: "none", "result" or "invalid_request"

vars == <<batched, alive, memory, cached, asked, fallback, results, answer>>

Cells == IF batched THEN BatchedContext ELSE Context

----------------------------------------------------------------------------
(* Preflight: what a question is before any inference.                     *)

\* shared_prefix_tokens(): what the prompt shares with the marked text, less
\* the last token, which could merge with what follows.
SharedPrefix(head, tokens) ==
    LET limit == Least(Len(head), Len(tokens)) - 1
        shared == {n \in 0..limit : Upto(head, n) = Upto(tokens, n)}
        common == CHOOSE n \in shared : \A m \in shared : m <= n
    IN IF common < MinShared THEN 0 ELSE common

\* The compiler marks the same text in every question, or none in any.
Marked(tokens, head) ==
    [tokens |-> tokens, prefix |-> IF head = <<>> THEN 0 ELSE SharedPrefix(head, tokens)]

Take(questions) ==
    /\ alive /\ asked = <<>> /\ answer = "none"
    /\ \A i \in 1..Len(questions) : Len(questions[i].tokens) <= Context
    /\ asked' = questions
    /\ UNCHANGED <<batched, alive, memory, cached, fallback, results, answer>>

\* compile_request(): a prompt for each question, marked where they all begin.
Compiled(prompts, head) == [i \in DOMAIN prompts |-> Marked(prompts[i], head)]

TakeRequest ==
    \E n \in 1..MaxQuestions : \E prompts \in [1..n -> Prompts], head \in Prompts \cup {<<>>} :
        Take(Compiled(prompts, head))

\* A prompt over the context, a control token, a malformed row.
RefuseRequest ==
    /\ alive /\ asked = <<>> /\ answer = "none"
    /\ answer' = "invalid_request"
    /\ UNCHANGED <<batched, alive, memory, cached, asked, fallback, results>>

----------------------------------------------------------------------------
(* Cells.  An input is a token, its position and the sequences it is in.   *)

Inputs(tokens, begin, end, seqs) ==
    [i \in 1..(end - begin) |-> [token |-> tokens[begin + i], pos |-> begin + i, seqs |-> seqs]]

\* What the last token of sequence k attends to.
Attended(cells, k) ==
    LET upto[n \in 0..Len(cells)] ==
            IF n = 0 THEN <<>>
            ELSE IF k \in cells[n].input.seqs THEN Append(upto[n - 1], cells[n])
            ELSE upto[n - 1]
    IN upto[Len(cells)]

Result(tokens, prefix, cells, processed, reused, mode) ==
    [tokens |-> tokens, prefix |-> prefix, cells |-> cells, processed |-> processed,
     reused |-> reused, mode |-> mode]

Current == asked[Len(results) + 1]

----------------------------------------------------------------------------
(* Sequential evaluation.                                                  *)

Reuses(q) == q.prefix > 0 /\ cached = Upto(q.tokens, q.prefix)

\* The context when the remainder is prefilled: trimmed to the prefix, or
\* cleared and given the prefix in decodes of its own.
PrefixCells(q) ==
    IF Reuses(q) THEN Upto(memory, q.prefix)
    ELSE Decode(<<>>, Inputs(q.tokens, 0, q.prefix, {1}))

Sequential == ~batched \/ fallback = "context"

\* Mutant: a prompt that cannot reuse the prefix is prefilled in one go.
EvaluateQuestionUnbroken ==
    /\ alive /\ Sequential /\ Len(results) < Len(asked)
    /\ LET q == Current
           begin == IF Reuses(q) THEN q.prefix ELSE 0 IN
       /\ memory' = Decode(Upto(memory, begin), Inputs(q.tokens, begin, Len(q.tokens), {1}))
       /\ cached' = Upto(q.tokens, q.prefix)
       /\ results' = Append(results,
              Result(q.tokens, q.prefix, memory', Len(q.tokens) - begin, begin, "sequential"))
    /\ UNCHANGED <<batched, alive, asked, fallback, answer>>

EvaluateQuestion ==
    /\ alive /\ Sequential /\ Len(results) < Len(asked)
    /\ LET q == Current IN
       /\ memory' = Decode(PrefixCells(q), Inputs(q.tokens, q.prefix, Len(q.tokens), {1}))
       /\ cached' = Upto(q.tokens, q.prefix)
       /\ results' = Append(results,
              Result(q.tokens, q.prefix, memory',
                     Len(q.tokens) - (IF Reuses(q) THEN q.prefix ELSE 0),
                     IF Reuses(q) THEN q.prefix ELSE 0, "sequential"))
    /\ UNCHANGED <<batched, alive, asked, fallback, answer>>

----------------------------------------------------------------------------
(* Batched evaluation.                                                     *)

\* The prefix all questions share, or none when it is short.
BatchedPrefix ==
    LET shared == {n \in 0..Context :
            \A i \in 1..Len(asked) :
                n <= asked[i].prefix /\ Upto(asked[i].tokens, n) = Upto(asked[1].tokens, n)}
        prefix == CHOOSE n \in shared : \A m \in shared : m <= n
    IN IF prefix < MinShared THEN 0 ELSE prefix

\* Mutant: a question's remainder begins after its own prefix.
PendingOwn(prefix) ==
    LET upto[i \in 0..Len(asked)] ==
            IF i = 0 THEN <<>>
            ELSE upto[i - 1] \o
                 Inputs(asked[i].tokens, asked[i].prefix, Len(asked[i].tokens), {i})
    IN upto[Len(asked)]

\* One list of the questions' remainders, in request order.
Pending(prefix) ==
    LET upto[i \in 0..Len(asked)] ==
            IF i = 0 THEN <<>>
            ELSE upto[i - 1] \o Inputs(asked[i].tokens, prefix, Len(asked[i].tokens), {i})
    IN upto[Len(asked)]

CellCount(prefix) == prefix + Len(Pending(prefix))

\* Mutant: a request one cell too large neither fits nor falls back.
FallBackOffByOne ==
    /\ alive /\ batched /\ asked # <<>> /\ results = <<>> /\ fallback = "none"
    /\ CellCount(BatchedPrefix) > BatchedContext + 1
    /\ fallback' = "context"
    /\ UNCHANGED <<batched, alive, memory, cached, asked, results, answer>>

FallBack ==
    /\ alive /\ batched /\ asked # <<>> /\ results = <<>> /\ fallback = "none"
    /\ CellCount(BatchedPrefix) > BatchedContext
    /\ fallback' = "context"
    /\ UNCHANGED <<batched, alive, memory, cached, asked, results, answer>>

\* Mutant: the prefix is charged to every question.
EvaluateBatchedRecharged ==
    /\ alive /\ batched /\ asked # <<>> /\ results = <<>> /\ fallback = "none"
    /\ LET prefix == BatchedPrefix
           shared == Decode(<<>>, Inputs(asked[1].tokens, 0, prefix, 1..Len(asked))) IN
       /\ CellCount(prefix) <= BatchedContext
       /\ memory' = Decode(shared, Pending(prefix))
       /\ results' = [i \in 1..Len(asked) |->
              Result(asked[i].tokens, prefix, Attended(memory', i),
                     Len(asked[i].tokens), 0, "batched")]
    /\ UNCHANGED <<batched, alive, cached, asked, fallback, answer>>

\* The prefix is charged to the first question; seq_cp only tags its cells.
EvaluateBatched ==
    /\ alive /\ batched /\ asked # <<>> /\ results = <<>> /\ fallback = "none"
    /\ LET prefix == BatchedPrefix
           shared == Decode(<<>>, Inputs(asked[1].tokens, 0, prefix, 1..Len(asked))) IN
       /\ CellCount(prefix) <= BatchedContext
       /\ memory' = Decode(shared, Pending(prefix))
       /\ results' = [i \in 1..Len(asked) |->
              Result(asked[i].tokens, prefix, Attended(memory', i),
                     Len(asked[i].tokens) - (IF i = 1 THEN 0 ELSE prefix),
                     IF i = 1 THEN 0 ELSE prefix, "batched")]
    /\ UNCHANGED <<batched, alive, cached, asked, fallback, answer>>

----------------------------------------------------------------------------
(* The loop of the process.                                                *)

\* A decode fails, or a check of the context or of the accounting: the worker
\* ends without an answer.
InferenceFails ==
    /\ alive /\ asked # <<>> /\ answer = "none"
    /\ alive' = FALSE
    /\ UNCHANGED <<batched, memory, cached, asked, fallback, results, answer>>

Respond ==
    /\ alive /\ asked # <<>> /\ Len(results) = Len(asked) /\ answer = "none"
    /\ answer' = "result"
    /\ UNCHANGED <<batched, alive, memory, cached, asked, fallback, results>>

\* Mutant: the prefix of a request is kept for the next one.
NextLineCaches ==
    /\ alive /\ answer # "none"
    /\ asked' = <<>> /\ results' = <<>>
    /\ fallback' = "none" /\ answer' = "none"
    /\ UNCHANGED <<batched, alive, memory, cached>>

\* The next line is read; the cached prefix never outlives the request.
NextLine ==
    /\ alive /\ answer # "none"
    /\ asked' = <<>> /\ results' = <<>> /\ cached' = <<>>
    /\ fallback' = "none" /\ answer' = "none"
    /\ UNCHANGED <<batched, alive, memory>>

Init ==
    /\ batched \in Modes
    /\ alive = TRUE /\ memory = <<>> /\ cached = <<>>
    /\ asked = <<>> /\ fallback = "none" /\ results = <<>> /\ answer = "none"

Evaluates == EvaluateQuestion \/ FallBack \/ EvaluateBatched \/ Respond

Next == TakeRequest \/ RefuseRequest \/ Evaluates \/ InferenceFails \/ NextLine

Spec == Init /\ [][Next]_vars

\* The process runs the request it took until it answers or dies.
FairSpec == Spec /\ WF_vars(Evaluates)

----------------------------------------------------------------------------
(* Properties.                                                             *)

TypeOK ==
    /\ batched \in Modes /\ alive \in BOOLEAN
    /\ \A i \in 1..Len(asked) :
          /\ asked[i].tokens \in Prompts
          /\ asked[i].prefix \in 0..(Len(asked[i].tokens) - 1)
    /\ Len(results) <= Len(asked)
    /\ fallback \in {"none", "context"}
    /\ answer \in {"none", "result", "invalid_request"}

\* The cells of a prompt computed with nothing before it, in its own split.
Alone(tokens, prefix) ==
    Decode(Decode(<<>>, Inputs(tokens, 0, prefix, {1})),
           Inputs(tokens, prefix, Len(tokens), {1}))

\* A sequential answer is the one the question gets alone: its siblings, their
\* order, and the requests before it change no decode it is computed in (0002:
\* "computed identically alone, reordered, or beside any siblings").
AnswersAreAlone ==
    \A i \in 1..Len(results) :
        results[i].mode = "sequential" =>
            results[i].cells = Alone(results[i].tokens, results[i].prefix)

\* In either mode a question attends to its own prompt, every token of it once
\* and at its position, and to no token of a sibling.
AnswersAreTheirOwn ==
    \A i \in 1..Len(results) :
        LET r == results[i] IN
        /\ r.tokens = asked[i].tokens
        /\ Len(r.cells) = Len(r.tokens)
        /\ \A p \in 1..Len(r.tokens) :
              r.cells[p].input.token = r.tokens[p] /\ r.cells[p].input.pos = p

\* What is reported as work is what the context was made to decode: reused and
\* processed tokens are the prompt, and in a batch they sum to the cells.
WorkIsMeasured ==
    /\ \A i \in 1..Len(results) :
          results[i].processed + results[i].reused = Len(results[i].tokens)
    /\ (results # <<>> /\ results[1].mode = "batched") =>
          LET sum[i \in 0..Len(results)] ==
                  IF i = 0 THEN 0 ELSE sum[i - 1] + results[i].processed
          IN Len(memory) = sum[Len(results)]

\* No request needs more cells than the context was made with.
CellsFit == Len(memory) <= Cells

\* The accounts of the cells agree: those asked for, those there are, and those
\* the results report.
CellsAreCounted == TypeOK /\ WorkIsMeasured /\ CellsFit

\* A request is answered unless the process dies.
RequestsAnswered == (asked # <<>>) ~> (answer = "result" \/ ~alive)

=============================================================================

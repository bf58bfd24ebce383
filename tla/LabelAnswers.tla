---------------------------- MODULE LabelAnswers ----------------------------
(***************************************************************************)
(* What the application makes of the v1 worker's answers: the message the  *)
(* worker writes, the schema it is validated with                          *)
(* (unridden/api/schema.py), and the response it is mapped to              *)
(* (unridden/api/mapping.py).  A message that fails a check takes the      *)
(* backend down, so each check is a promise the worker has to keep.        *)
(*                                                                         *)
(* A logit is what the model computes from the cells a question attends    *)
(* to: any function of them.                                               *)
(***************************************************************************)
EXTENDS LabelWorker, QuestionSchema

CONSTANTS
    Alphabet,       \* labels the worker validated at its start
    Options,        \* how many options a prompt lists
    Logit(_, _)     \* of a label, after the given cells

\* _options() and _compile_question(): a question has two options at least, and
\* no more than there are labels.
Listed == [Prompts -> 2..Alphabet]

\* BackendProfile: the labels a worker may announce.
ASSUME OptionsAssumption == Alphabet \in 2..255 /\ Options \in Listed

----------------------------------------------------------------------------
(* What the worker writes.                                                 *)

\* The hello: its labels, each a token of its own (validate_alphabet), and the
\* limits it was started with.
Hello ==
    [label_token_ids |-> [k \in 1..Alphabet |-> k],
     context_size |-> Context,
     max_questions |-> MaxQuestions,
     batched_mode |-> batched,
     batched_context |-> IF batched THEN BatchedContext ELSE 0]

Mapping(tokens) == [k \in 1..Options[tokens] |-> k]
Logits(tokens, cells) == [k \in 1..Options[tokens] |-> Logit(cells, k)]

QuestionResult(i) ==
    LET r == results[i] IN
    [id |-> i,
     label_token_ids |-> Mapping(r.tokens),
     label_logits |-> Logits(r.tokens, r.cells),
     prompt_tokens |-> Len(r.tokens),
     processed_tokens |-> r.processed,
     reused_tokens |-> r.reused,
     cache_cleared |-> r.reused = 0,
     evaluation_mode |-> r.mode,
     batch_sequences |-> IF r.mode = "sequential" THEN 1 ELSE Len(asked)]

Message ==
    [batched_fallback |-> fallback,
     questions |-> [i \in 1..Len(results) |-> QuestionResult(i)]]

----------------------------------------------------------------------------
(* The schema.                                                             *)

\* _label_mapping(), and the fields of a BackendProfile.
ValidProfile(p) ==
    /\ Len(p.label_token_ids) \in 2..255
    /\ \A i, j \in 1..Len(p.label_token_ids) :
          p.label_token_ids[i] = p.label_token_ids[j] => i = j
    /\ p.context_size >= 1 /\ p.max_questions \in 1..32
    /\ IF p.batched_mode THEN p.batched_context >= p.context_size
       ELSE p.batched_context = 0

\* _one_mode_per_request()
OneMode(m) ==
    LET modes == {m.questions[i].evaluation_mode : i \in 1..Len(m.questions)} IN
    /\ Len(m.questions) <= 32
    /\ modes \in SUBSET {"sequential", "batched"} /\ modes # {"sequential", "batched"}
    /\ m.batched_fallback # "none" => modes = {"sequential"}
    /\ modes = {"batched"} =>
          \A i \in 1..Len(m.questions) :
              m.questions[i].batch_sequences = Len(m.questions)

----------------------------------------------------------------------------
(* The mapping onto the request.                                           *)

\* One regime, the one the worker was started with or the reason it was not.
RegimeIsExpected(m) ==
    LET batches == {m.questions[i].evaluation_mode = "batched" : i \in 1..Len(m.questions)} IN
    /\ ~batched => batches = {FALSE} /\ m.batched_fallback = "none"
    /\ (batched /\ m.batched_fallback = "none") => batches = {TRUE}

\* Each result is its question's, in order, over the labels of its options; the
\* first has nothing to reuse.
MapsOnto(m) ==
    /\ Len(m.questions) = Len(asked)
    /\ RegimeIsExpected(m)
    /\ \A i \in 1..Len(asked) :
          LET q == m.questions[i] IN
          /\ q.id = i
          /\ q.label_token_ids = SubSeq(Hello.label_token_ids, 1, Options[asked[i].tokens])
          /\ Len(q.label_logits) = Options[asked[i].tokens]
    /\ m.questions[1].reused_tokens = 0

\* max() over the probabilities: the first of the best.
Best(logits) ==
    CHOOSE k \in 1..Len(logits) :
        \A j \in 1..Len(logits) :
            logits[j] <= logits[k] /\ (j < k => logits[j] < logits[k])

\* An answer is its probabilities, which are those of the logits, and what is
\* read off them: the chosen option, the expected level, or the first's alone.
Decided(logits) == [choice |-> Best(logits), weights |-> logits]

Diagnosed(q) ==
    [prompt_tokens |-> q.prompt_tokens,
     processed_tokens |-> q.processed_tokens,
     reused_tokens |-> q.reused_tokens,
     evaluation_mode |-> q.evaluation_mode,
     batch_sequences |-> q.batch_sequences]

Response(m) ==
    [answers |-> [i \in 1..Len(m.questions) |-> Decided(m.questions[i].label_logits)],
     diagnostics |-> [i \in 1..Len(m.questions) |-> Diagnosed(m.questions[i])],
     mode |-> IF batched THEN m.questions[1].evaluation_mode ELSE "none",
     fallback |-> m.batched_fallback]

\* DecisionResponse and QuestionDiagnostics.  Only a batched worker's response
\* names a regime, and it is the one every question was evaluated in.
ValidResponse(r) ==
    /\ r.mode \in IF batched THEN {"sequential", "batched"} ELSE {"none"}
    /\ r.fallback \in {"none", "context"}
    /\ \A i \in 1..Len(r.diagnostics) :
          LET d == r.diagnostics[i] IN
          /\ d.prompt_tokens >= 1 /\ d.processed_tokens >= 1 /\ d.reused_tokens >= 0
          /\ d.evaluation_mode = IF batched THEN r.mode ELSE "sequential"
          /\ d.batch_sequences \in 1..32

----------------------------------------------------------------------------
(* Properties.                                                             *)

\* The application believes what the worker says of itself and every answer it
\* gives: an answer satisfies the schema and maps onto its request, so no correct
\* worker is ever closed for what it reports (app.py: a ValueError of
\* map_response closes the backend).
ResultsAreBelieved ==
    /\ ValidProfile(Hello)
    /\ answer = "result" =>
          /\ \A i \in 1..Len(results) : ValidQuestion(Message.questions[i])
          /\ OneMode(Message)
          /\ MapsOnto(Message)
          /\ ValidResponse(Response(Message))

\* What a caller is told of a question is decided by the prompt of that question
\* and the split of its prefix; only a response that says "batched" may depend
\* on the siblings.
ResponsesAreOwn ==
    (answer = "result" /\ Response(Message).mode # "batched") =>
        Response(Message).answers =
            [i \in 1..Len(asked) |->
                Decided(Logits(asked[i].tokens, Alone(asked[i].tokens, asked[i].prefix)))]

\* A sequential answer is evaluated over the cells its question gets alone; the
\* response made of the answers passes every check on its way, and says of each
\* question what it would alone.
ResponsesAreTrue == AnswersAreAlone /\ ResultsAreBelieved /\ ResponsesAreOwn

=============================================================================

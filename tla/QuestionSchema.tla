--------------------------- MODULE QuestionSchema ---------------------------
(* What both workers' answers to a question have in common, and how it is  *)
(* validated: WorkerQuestionResult of unridden/api/schema.py.              *)
EXTENDS Integers, Sequences

ValidQuestion(q) ==
    /\ q.prompt_tokens >= 1 /\ q.processed_tokens >= 1 /\ q.reused_tokens >= 0
    /\ q.batch_sequences \in 1..32
    /\ q.processed_tokens + q.reused_tokens = q.prompt_tokens
    /\ q.cache_cleared = (q.reused_tokens = 0)
    /\ q.evaluation_mode = "sequential" => q.batch_sequences = 1
    /\ Len(q.label_logits) \in 2..255 /\ Len(q.label_logits) = Len(q.label_token_ids)

=============================================================================

--------------------------- MODULE SnapshotReplies --------------------------
(***************************************************************************)
(* The messages the snapshot worker answers with                           *)
(* (unridden/api/native/snapshots/snapshot-worker.cpp), and the schemas    *)
(* the backend validates them with (unridden/api/snapshots/schema.py).  A  *)
(* message that fails its schema stops the worker, and every snapshot that *)
(* was only in memory is lost with it.                                     *)
(*                                                                         *)
(* A message is what the worker would answer in the state it is in.        *)
(* Digests, times, texts and numbers computed by the model are left out; a *)
(* blob counts its rows.                                                   *)
(***************************************************************************)
EXTENDS SnapshotWorker, QuestionSchema

CONSTANTS
    Alphabet,   \* labels the worker validated at its start
    Labels,     \* how many labels a question may list
    MaxRows,    \* MAX_VECTOR_ROWS: rows of an exported slice
    Width       \* n_embd

ASSUME MessagesAssumption ==
    /\ Alphabet \in 2..255 /\ Labels \subseteq 2..Alphabet
    /\ MaxRows \in Nat \ {0} /\ Width \in Nat \ {0}

----------------------------------------------------------------------------
(* The hello.                                                              *)

\* validate_alphabet(): every label is one token, and no two are the same.
Hello ==
    [labels |-> [k \in 1..Alphabet |-> k], label_token_ids |-> [k \in 1..Alphabet |-> k],
     context_size |-> Context, batch_size |-> Batch, n_embd |-> Width,
     n_layer |-> 30, split_block |-> 18]

Distinct(s) == \A i, j \in 1..Len(s) : s[i] = s[j] => i = j

ValidHello(m) ==
    /\ Len(m.labels) \in 2..255 /\ Len(m.label_token_ids) = Len(m.labels)
    /\ Distinct(m.labels) /\ Distinct(m.label_token_ids)
    /\ m.context_size >= 1 /\ m.batch_size >= 1 /\ m.n_embd >= 1
    /\ m.n_layer = 30 /\ m.split_block = 18

\* A question lists the first of the labels (label_ids_for()).
LabelTokens(labels) == SubSeq(Hello.label_token_ids, 1, labels)

----------------------------------------------------------------------------
(* Rows and tensors.                                                       *)

\* snapshot_row(): an 18 has not run the upper blocks.
Row(id, s) ==
    [snapshot_id |-> id, completed_blocks |-> s.blocks, parent |-> s.parent,
     tokens |-> Len(s.tokens), kind |-> s.kind,
     lower_kv |-> IF s.owned THEN Len(s.lower) ELSE 0,
     upper_kv |-> Len(s.upper), h18 |-> Len(s.h18),
     h30 |-> IF s.blocks = 30 THEN Len(s.tokens) ELSE 0]

ValidRow(row) ==
    /\ row.snapshot_id \in Ids /\ row.parent \in Ids \cup {None}
    /\ row.completed_blocks \in {18, 30} /\ row.kind \in Kinds /\ row.tokens >= 1
    /\ \A n \in {row.lower_kv, row.upper_kv, row.h18, row.h30} : n >= 0
    /\ row.completed_blocks = 18 => row.upper_kv = 0 /\ row.h30 = 0

\* Rows of each tensor a snapshot holds.
RowsOf(s) ==
    [h18 |-> Len(s.h18), h30 |-> IF s.blocks = 30 THEN Len(s.tokens) ELSE 0,
     last_normalized |-> IF s.blocks = 30 THEN 1 ELSE 0]

Representation ==
    [h18 |-> "raw_residual_after_block_18", h30 |-> "raw_residual_after_block_30",
     last_normalized |-> "post_final_norm_head_input"]

\* _decode_f32(): as many values as the shape has room for.
Decodes(t) == t.values = IF Len(t.shape) = 2 THEN t.shape[1] * t.shape[2] ELSE t.shape[1]
Tall(t) == IF Len(t.shape) = 2 THEN t.shape[1] ELSE 1

\* WorkerTensor
ValidTensor(t) == Len(t.shape) \in 1..2 /\ Tall(t) <= MaxRows /\ Decodes(t)

\* vectors(): a slice of a tensor, one-dimensional only for the last row.
VectorsMessage(s, which, begin, end) ==
    [type |-> "vectors", which |-> which, rows |-> RowsOf(s)[which],
     row_begin |-> begin, row_end |-> end,
     tensor |-> [shape |-> IF end - begin > 1 \/ which # "last_normalized"
                           THEN <<end - begin, Width>> ELSE <<Width>>,
                 representation |-> Representation[which],
                 values |-> (end - begin) * Width]]

ValidVectors(m) ==
    LET returned == m.row_end - m.row_begin IN
    /\ m.row_begin >= 0 /\ m.row_begin < m.row_end /\ m.row_end <= m.rows
    /\ returned <= MaxRows
    /\ ValidTensor(m.tensor) /\ Tall(m.tensor) = returned
    /\ m.tensor.representation = Representation[m.which]

----------------------------------------------------------------------------
(* inspect, save, load and drop say what the row says.                     *)

InspectMessage(id) ==
    [type |-> "snapshot", row |-> Row(id, snaps[id]),
     token_ids |-> snaps[id].tokens, resident |-> resident = id,
     holds |-> {which \in DOMAIN Representation : RowsOf(snaps[id])[which] > 0}]

MaxTokenIds == 2^20
ValidInspect(m) ==
    /\ ValidRow(m.row) /\ Len(m.token_ids) <= MaxTokenIds
    /\ m.resident \in BOOLEAN /\ m.holds \subseteq DOMAIN Representation

LoadedMessage(id) == [type |-> "loaded", row |-> Row(id, snaps[id])]
ValidLoaded(m) == ValidRow(m.row)

\* save(): the lower cells always, of the rest what there is.
FilesOf(s) ==
    {"lower_kv.bin"} \cup (IF s.upper = <<>> THEN {} ELSE {"upper_kv.bin"})
        \cup {which \in DOMAIN Representation : RowsOf(s)[which] > 0} \cup {"native.json"}
SavedMessage(id) == [type |-> "saved", snapshot_id |-> id, files |-> FilesOf(snaps[id])]
ValidSaved(m) == m.snapshot_id \in Ids /\ m.files # {}

DroppedMessage(id) ==
    LET row == Row(id, snaps[id]) IN
    [type |-> "dropped", snapshot_id |-> id,
     freed_bytes |-> row.lower_kv + row.upper_kv + row.h18 + row.h30]
ValidDropped(m) == m.snapshot_id \in Ids /\ m.freed_bytes >= 0

----------------------------------------------------------------------------
(* create and promote.                                                     *)

\* readout_json(): over the labels of the question that was frozen.
Readout(labels) == [label_logits |-> [k \in 1..labels |-> k], label_token_ids |-> LabelTokens(labels)]
ValidReadout(r) ==
    Len(r.label_logits) \in 2..255 /\ Len(r.label_logits) = Len(r.label_token_ids)

\* No labels, no readout; the service asks for them with a 30 only.
CreatedMessage(kind, tokens, id18, id30, labels) ==
    [type |-> "created", tokens |-> Len(tokens),
     snapshots |-> {Row(id18, Captured18(kind, tokens)) : id \in {id18} \ {None}}
                      \cup {Row(id30, Captured30(kind, tokens, id18)) : id \in {id30} \ {None}},
     readout |-> IF labels = 0 THEN {} ELSE {Readout(labels)},
     lower |-> Len(tokens), upper |-> IF id30 = None THEN 0 ELSE Len(tokens)]

\* A pair names its 18 and leaves the boundary rows with it.
ValidCreated(m) ==
    /\ m.tokens >= 1 /\ m.snapshots # {} /\ m.lower >= 0 /\ m.upper >= 0
    /\ \A r \in m.snapshots : ValidRow(r) /\ r.tokens = m.tokens
    /\ \A r, s \in m.snapshots : r.completed_blocks = s.completed_blocks => r = s
    /\ \A r, s \in m.snapshots :
          r.completed_blocks = 30 /\ s.completed_blocks = 18 => r.parent # None /\ r.h18 = 0
    /\ m.readout # {} => \E r \in m.snapshots : r.completed_blocks = 30
    /\ \A r \in m.readout : ValidReadout(r)

\* The service: exactly the checkpoints it gave ids to.
TakesCreated(m, ids) == {r.snapshot_id : r \in m.snapshots} = ids

PromotedMessage(id, new) ==
    [type |-> "promoted", snapshot |-> Row(new, Promoted(id, snaps[id])),
     lower |-> 0, upper |-> Len(snaps[id].tokens)]

\* Only the upper blocks were run.
ValidPromoted(m) ==
    /\ ValidRow(m.snapshot) /\ m.snapshot.completed_blocks = 30 /\ m.snapshot.parent # None
    /\ m.lower = 0 /\ m.upper >= 0

TakesPromoted(m, new) == m.snapshot.snapshot_id = new

----------------------------------------------------------------------------
(* evaluate, state_eval and ride.                                          *)

Suffix(id, full) == Len(full) - Len(snaps[id].tokens)

\* make_resident(): the bytes it copied back from the host.
Restored(id) == IF IsResident(id) THEN 0 ELSE Len(snaps[id].lower) + Len(snaps[id].upper)

\* run_branch()
Accounting(id, q) ==
    [parent |-> id, suffix_tokens |-> Suffix(id, q.full),
     lower |-> Suffix(id, q.full), upper |-> Suffix(id, q.full),
     restore |-> IF Restored(id) = 0 THEN "resident" ELSE "host",
     restored_bytes |-> Restored(id),
     child |-> {Row(save, Child(id, snaps[id], q.full, BranchLower(id, q.full),
                                BranchUpper(id, q.full))) : save \in Saves(q)}]

ValidBranch(b) ==
    /\ b.parent \in Ids /\ b.suffix_tokens >= 1 /\ b.lower >= 0 /\ b.upper >= 0
    /\ b.restored_bytes >= 0
    /\ b.restore = "resident" => b.restored_bytes = 0
    /\ \A row \in b.child : ValidRow(row) /\ row.completed_blocks = 30

\* evaluate(): the answer to one of its questions.
QuestionMessage(id, q, labels) ==
    [type |-> "result", label_logits |-> [k \in 1..labels |-> k],
     label_token_ids |-> LabelTokens(labels),
     prompt_tokens |-> Len(q.full), processed_tokens |-> Suffix(id, q.full),
     reused_tokens |-> Len(snaps[id].tokens), cache_cleared |-> FALSE,
     evaluation_mode |-> "sequential", batch_sequences |-> 1, snapshot |-> Accounting(id, q)]

ValidResult(m) ==
    ValidQuestion(m) /\ ValidBranch(m.snapshot) /\ m.snapshot.suffix_tokens = m.processed_tokens

\* A child under the id it was asked to be saved as, and no other.
Keeps(child, q) == {row.snapshot_id : row \in child} = Saves(q)

\* map_answer() and decide(): the labels of the question, over the parent the
\* plan chose.
TakesResult(m, id, q, labels) ==
    /\ m.label_token_ids = SubSeq(Hello.label_token_ids, 1, labels)
    /\ Len(m.label_logits) = labels
    /\ m.snapshot.parent = id
    /\ Keeps(m.snapshot.child, q)

\* What a decision of one question reports.
Usage(id, m) ==
    [suffix_tokens |-> m.snapshot.suffix_tokens, lower |-> m.snapshot.lower,
     upper |-> m.snapshot.upper, reused_prefix_tokens |-> Len(snaps[id].tokens),
     restored_bytes |-> m.snapshot.restored_bytes,
     child |-> {row.snapshot_id : row \in m.snapshot.child}]

\* SnapshotUsage; and what was reused is what was not run again.
ValidUsage(u, m) ==
    /\ u.suffix_tokens >= 1 /\ u.lower >= 0 /\ u.upper >= 0
    /\ u.reused_prefix_tokens >= 0 /\ u.restored_bytes >= 0 /\ u.child \subseteq Ids
    /\ u.suffix_tokens + u.reused_prefix_tokens = m.prompt_tokens

\* state_eval(): the accounting of its branch, and the vectors asked for: one
\* row, tagged with what it is.
Exported == [last_residual |-> "h30", last_normalized |-> "last_normalized"]

StateMessage(id, q, export) ==
    [type |-> "state", prompt_tokens |-> Len(q.full), branch |-> Accounting(id, q),
     vectors |-> [v \in export |->
        [shape |-> <<Width>>, representation |-> Representation[Exported[v]],
         values |-> Width]]]

\* VectorArtifact
ValidArtifact(artifact) ==
    /\ Len(artifact.shape) \in 1..2
    /\ \A i \in 1..Len(artifact.shape) : artifact.shape[i] >= 1
    /\ Tall(artifact) <= MaxRows /\ Decodes(artifact)

ValidState(m) ==
    /\ ValidBranch(m.branch) /\ m.prompt_tokens >= 1
    /\ \A kind \in DOMAIN m.vectors : ValidArtifact(m.vectors[kind])

\* state_eval() of the service: what was asked for, each tagged as what it is.
TakesState(m, q, export) ==
    /\ DOMAIN m.vectors \subseteq export
    /\ \A kind \in DOMAIN m.vectors :
          m.vectors[kind].representation = Representation[Exported[kind]]
    /\ Keeps(m.branch.child, q)

\* ride(), in the one mode the backend asks for, after it generated n tokens:
\* with a trace, if one is asked for, that an end of generation is a step of.
RideMessage(id, full, n, eog, traced) ==
    [type |-> "ride_result", mode |-> "snapshot", execution_mode |-> "split18-30",
     prompt_tokens |-> Len(full), reused_tokens |-> Len(snaps[id].tokens),
     prefilled_tokens |-> Suffix(id, full),
     generated_tokens |-> n, token_ids |-> n,
     steps |-> IF ~traced THEN 0 ELSE IF eog THEN n + 1 ELSE n,
     restore |-> IF Restored(id) = 0 THEN "resident" ELSE "host", restored_bytes |-> Restored(id)]

ValidRide(m) ==
    /\ m.prompt_tokens >= 1 /\ m.reused_tokens >= 0 /\ m.prefilled_tokens >= 1
    /\ m.restored_bytes >= 0 /\ m.generated_tokens >= 0
    /\ m.generated_tokens = m.token_ids
    /\ m.prompt_tokens = m.reused_tokens + m.prefilled_tokens
    /\ m.mode = "snapshot" <=> m.restore # "none"
    /\ m.restore = "resident" => m.restored_bytes = 0
    /\ m.mode = "reference" <=> m.execution_mode = "stock30"

TakesRide(m, id) ==
    /\ m.mode = "snapshot" /\ m.reused_tokens = Len(snaps[id].tokens)
    /\ m.steps \in {0, m.token_ids, m.token_ids + 1}

----------------------------------------------------------------------------
(* What the backend makes of the answer to each of its commands.           *)

Believes(op, m) ==
    /\ op = "create" => m.type = "created" /\ ValidCreated(m)
    /\ op = "promote" => m.type = "promoted" /\ ValidPromoted(m)
    /\ op = "evaluate" => m.type = "result" /\ ValidResult(m)
    /\ op = "state_eval" => m.type = "state" /\ ValidState(m)
    /\ op = "ride" => m.type = "ride_result" /\ ValidRide(m)
    /\ op = "inspect" => m.type = "snapshot" /\ ValidInspect(m)
    /\ op = "vectors" => m.type = "vectors" /\ ValidVectors(m)
    /\ op = "drop" => m.type = "dropped" /\ ValidDropped(m)
    /\ op = "save" => m.type = "saved" /\ ValidSaved(m)
    /\ op = "load" => m.type = "loaded" /\ ValidLoaded(m)

----------------------------------------------------------------------------
(* Properties.                                                             *)

Created(kind, tokens, id18, id30, labels) ==
    LET m == CreatedMessage(kind, tokens, id18, id30, labels) IN
    Believes("create", m) /\ TakesCreated(m, {id18, id30} \ {None})

\* Commands that end in one step, from the snapshots there are.
CreationsAreBelieved ==
    \A full \in Prompts, head \in Prompts, id18, id30 \in (Ids \ DOMAIN snaps) \cup {None} :
        (Len(full) <= Context /\ {id18, id30} # {None} /\ id18 # id30) =>
            /\ \A labels \in {0} \cup (IF id30 = None THEN {} ELSE Labels) :
                  Created("readout", full, id18, id30, labels)
            /\ CommonPrefix(head, full) >= 1 =>
                  Created("context", Upto(full, CommonPrefix(head, full)), id18, id30, 0)

PromotionsAreBelieved ==
    \A id \in DOMAIN snaps, new \in Ids \ DOMAIN snaps :
        Promotable(id) =>
            LET m == PromotedMessage(id, new) IN Believes("promote", m) /\ TakesPromoted(m, new)

RidesAreBelieved ==
    \A id \in DOMAIN snaps, full \in Prompts :
        BranchError(snaps, id, full, None) = "none" =>
            \A n \in 0..MaxRide, eog \in BOOLEAN, traced \in BOOLEAN :
                n > 0 \/ eog =>
                    LET m == RideMessage(id, full, n, eog, traced) IN
                    Believes("ride", m) /\ TakesRide(m, id)

\* What is said of a snapshot, however it came to be.
SnapshotsAreBelieved ==
    \A id \in DOMAIN snaps :
        /\ Len(snaps[id].tokens) <= MaxTokenIds => Believes("inspect", InspectMessage(id))
        /\ Believes("load", LoadedMessage(id))
        /\ Believes("save", SavedMessage(id))
        /\ Believes("drop", DroppedMessage(id))
        /\ \A which \in DOMAIN Representation : \A begin, end \in 0..RowsOf(snaps[id])[which] :
              (begin < end /\ end - begin <= MaxRows) =>
                  Believes("vectors", VectorsMessage(snaps[id], which, begin, end))

\* The branch of a command that runs, however many it ran before it.
BranchesAreBelieved ==
    cmd.asks # <<>> =>
        LET q == Head(cmd.asks) IN
        /\ cmd.op = "evaluate" =>
              \A labels \in Labels :
                  LET m == QuestionMessage(cmd.target, q, labels) IN
                  /\ Believes("evaluate", m) /\ TakesResult(m, cmd.target, q, labels)
                  /\ ValidUsage(Usage(cmd.target, m), m)
        /\ cmd.op = "state_eval" =>
              \A export \in SUBSET DOMAIN Exported :
                  LET m == StateMessage(cmd.target, q, export) IN
                  Believes("state_eval", m) /\ TakesState(m, q, export)

\* What this worker saved, under whatever process, it can load.
FilesAreLoadable == \A f \in files : f.batch = Batch => Loadable(f)

\* Whatever is asked of it, in whatever state earlier commands and failures left
\* its snapshots and contexts, a worker that answers is believed: no message it
\* makes of a command that passed its preflight fails a check of the backend or
\* of the service, which would stop it and lose what it holds or fail the request
\* after the work was done; and what it saved it can load again.
RepliesAreBelieved ==
    /\ ValidHello(Hello) /\ FilesAreLoadable
    /\ Idle => CreationsAreBelieved /\ PromotionsAreBelieved /\ RidesAreBelieved
    /\ SnapshotsAreBelieved /\ BranchesAreBelieved

=============================================================================

--------------------------- MODULE SnapshotPrompts --------------------------
(***************************************************************************)
(* The prompts of snapshots and of the branches from them: what            *)
(* unridden/api/snapshots/compiler.py compiles, _plan() of service.py      *)
(* chooses to compile it from, and the worker renders, tokenizes and       *)
(* compares with the frozen tokens (snapshot-worker.cpp).                  *)
(*                                                                         *)
(* A text is a sequence of words and newlines.  The chat template and the  *)
(* tokenizer come with the language model: the template may trim a turn    *)
(* and open an answer with words of its own, the tokenizer may merge       *)
(* neighbours.                                                             *)
(***************************************************************************)
EXTENDS Integers, Sequences

CONSTANTS
    States,     \* rendered states: texts
    Questions,  \* question blocks: words
    Prompts,    \* plain prompts: nonempty texts
    Templates,  \* records: does it trim a turn, what opens an answer
    Merges,     \* pairs of neighbours the tokenizer makes one token
    MaxRecords  \* bound: snapshots

ASSUME RecordsAssumption == MaxRecords \in Nat
IsText(t) == t \in Seq({t[i] : i \in DOMAIN t})
ASSUME StatesAssumption == \A s \in States : IsText(s)
ASSUME PromptsAssumption == \A p \in Prompts : IsText(p) /\ p # <<>>
ASSUME TemplatesAssumption == \A t \in Templates : t.trims \in BOOLEAN /\ IsText(t.opening)

VARIABLES
    template,   \* the one of the model that is loaded
    records,    \* the snapshots, in the order registered
    reply       \* of the last branch: its code, prompt and logical history

vars == <<template, records, reply>>

----------------------------------------------------------------------------
(* Texts, the template and the tokenizer.                                  *)

NL == "newline"

RStrip(text) ==
    LET words == {i \in DOMAIN text : text[i] # NL} IN
    SubSeq(text, 1, CHOOSE n \in words \cup {0} : \A i \in words : i <= n)

LStrip(text) ==
    LET words == {i \in DOMAIN text : text[i] # NL} IN
    SubSeq(text, CHOOSE n \in words \cup {Len(text) + 1} :
                    \A i \in words \cup {Len(text) + 1} : n <= i, Len(text))

Turn(role, text) == <<role, NL>> \o (IF template.trims THEN LStrip(RStrip(text)) ELSE text) \o <<"end", NL>>

\* Messages are pairs of a role and a text; the template ends where the model
\* would answer.
Render(messages) ==
    LET upto[n \in 0..Len(messages)] ==
            IF n = 0 THEN <<"bos">> ELSE upto[n - 1] \o Turn(messages[n][1], messages[n][2]) IN
    upto[Len(messages)] \o <<"model", NL>> \o template.opening

Tokenize(text) ==
    LET from[i \in 1..(Len(text) + 1)] ==
            IF i > Len(text) THEN <<>>
            ELSE IF i < Len(text) /\ <<text[i], text[i + 1]>> \in Merges
                 THEN <<SubSeq(text, i, i + 1)>> \o from[i + 2]
                 ELSE <<SubSeq(text, i, i)>> \o from[i + 1] IN
    from[1]

CommonPrefix(s, t, limit) ==
    CHOOSE n \in 0..limit : /\ \A i \in 1..n : s[i] = t[i]
                            /\ n = limit \/ s[n + 1] # t[n + 1]

----------------------------------------------------------------------------
(* The compiler.                                                           *)

Asks == [type : {"question"}, text : {<<q>> : q \in Questions}]
            \cup [type : {"prompt"}, text : Prompts]

StatePrefix(state) == <<"instruction", NL>> \o state \o <<NL>>
Block(ask) == IF ask.type = "question" THEN ask.text ELSE <<"heading", NL>> \o ask.text
AnswerPrefix(ask) == IF ask.type = "question" THEN <<"answer", NL>> ELSE <<>>

\* compile_readout_followup(), compile_readout_prompt(): the old turn is closed
\* with the answer prefix, nothing selected.
ReadoutMessages(record, ask) ==
    record.messages \o << <<"model", RStrip(record.prefix)>>, <<"user", Block(ask)>> >>

\* compile_context_followup(), compile_context_prompt(): one user turn.
ContextMessages(record, ask) == << <<"user", record.messages[1][2] \o Block(ask)>> >>

----------------------------------------------------------------------------
(* The worker: where a context is frozen, and whether a branch extends it. *)

\* Mutant: the last token stays although it may merge with what follows.
ContextPrefixWhole(text, state) ==
    LET head == Tokenize(<<"bos", "user", NL>> \o RStrip(StatePrefix(state)))
        full == Tokenize(text) IN
    SubSeq(full, 1, CommonPrefix(head, full,
                        IF Len(head) < Len(full) THEN Len(head) ELSE Len(full)))

\* context_prefix(): the tokens the marked text shares with the whole prompt,
\* the last one left out.
ContextPrefix(text, state) ==
    LET head == Tokenize(<<"bos", "user", NL>> \o RStrip(StatePrefix(state)))
        full == Tokenize(text) IN
    SubSeq(full, 1, CommonPrefix(head, full,
                        (IF Len(head) < Len(full) THEN Len(head) ELSE Len(full)) - 1))

Extends(full, tokens) ==
    Len(full) > Len(tokens) /\ SubSeq(full, 1, Len(tokens)) = tokens

\* branch_suffix()
BranchCode(full, parent) ==
    IF Extends(full, parent.tokens) THEN "ok"
    ELSE IF parent.kind = "readout" THEN "followup_unsupported" ELSE "snapshot_prefix_mismatch"

----------------------------------------------------------------------------
(* The records.  `history` is what was said so far, whatever the messages. *)

Record(kind, blocks, messages, prefix, tokens, parent, anchor, history) ==
    [kind |-> kind, blocks |-> blocks, messages |-> messages, prefix |-> prefix,
     tokens |-> tokens, parent |-> parent, anchor |-> anchor, history |-> history,
     promotes |-> 0]

Said(state, asks) == [state |-> state, asks |-> asks]

\* create() of a context, or of a decision or prompt readout.
Freeze(state, asks, blocks, parent) ==
    LET content == StatePrefix(state) \o (IF asks = <<>> THEN <<>> ELSE Block(asks[1]))
        messages == << <<"user", content>> >>
        prefix == IF asks = <<>> THEN <<>> ELSE AnswerPrefix(asks[1])
        prompt == Render(messages) \o prefix IN
    Record(IF asks = <<>> THEN "context" ELSE "readout", blocks, messages, prefix,
           IF asks = <<>> THEN ContextPrefix(prompt, state) ELSE Tokenize(prompt),
           parent, 0, Said(state, asks))

NoReply == [code |-> "none", prompt |-> <<>>, history |-> Said(<<>>, <<>>)]

Create ==
    /\ records = <<>>
    /\ \E state \in States, asks \in {<<>>} \cup {<<a>> : a \in Asks} :
          \/ \E blocks \in {18, 30} : records' = <<Freeze(state, asks, blocks, 0)>>
          \/ records' = <<Freeze(state, asks, 18, 0), Freeze(state, asks, 30, 1)>>
    /\ reply' = NoReply
    /\ UNCHANGED template

\* _ensure_30(): the snapshot, the promotion remembered, or a new one.
Promoted(id) == [records[id] EXCEPT !.blocks = 30, !.parent = id, !.promotes = id]

Finished(id) ==
    IF records[id].blocks = 30 THEN {id}
    ELSE {r \in DOMAIN records : records[r].promotes = id}

Ensure30(id) == IF Finished(id) = {} THEN Append(records, Promoted(id)) ELSE records
Effective(id) ==
    IF Finished(id) = {} THEN Len(records) + 1 ELSE CHOOSE r \in Finished(id) : TRUE

\* Mutant: the question is replaced in the snapshot itself.
BaseItself(id, relationship) == id

\* _plan(): what the branch continues.
Base(id, relationship) == IF relationship = "replace_question" THEN records[id].anchor ELSE id

Replaceable(id) == records[id].kind = "readout" /\ records[id].anchor # 0

\* Mutant: only a child of a context has an anchor.
ChildAnchorOfContexts(base, effective) ==
    IF records[base].kind = "context" THEN effective ELSE 0

ChildAnchor(base, effective) ==
    IF records[base].kind = "context" THEN effective ELSE records[base].anchor

RefuseReplacement ==
    /\ \E id \in DOMAIN records : ~Replaceable(id)
    /\ reply' = [NoReply EXCEPT !.code = "refused"]
    /\ UNCHANGED <<template, records>>

\* One question of decide(), or the prompt of state_eval() or ride(): planned,
\* compiled, checked by the worker, and saved if that was asked.
Branch(id, relationship, ask, save) ==
    /\ relationship = "replace_question" => Replaceable(id)
    /\ LET base == Base(id, relationship)
           record == records[base]
           effective == Effective(base)
           with30 == Ensure30(base)
           messages == IF record.kind = "context" THEN ContextMessages(record, ask)
                       ELSE ReadoutMessages(record, ask)
           prompt == Render(messages) \o AnswerPrefix(ask)
           code == BranchCode(Tokenize(prompt), with30[effective])
           history == IF relationship = "replace_question"
                      THEN Said(records[id].history.state, <<ask>>)
                      ELSE Said(records[id].history.state, Append(records[id].history.asks, ask)) IN
       /\ records' = IF save /\ code = "ok"
                     THEN Append(with30, Record("readout", 30, messages, AnswerPrefix(ask),
                                    Tokenize(prompt), effective, ChildAnchor(base, effective), history))
                     ELSE with30
       /\ Len(records') <= MaxRecords
       /\ reply' = [code |-> code, prompt |-> prompt, history |-> history]
       /\ UNCHANGED template

Init == template \in Templates /\ records = <<>> /\ reply = NoReply

Next ==
    \/ Create
    \/ RefuseReplacement
    \/ \E id \in DOMAIN records, ask \in Asks, save \in BOOLEAN,
          relationship \in {"followup", "replace_question"} : Branch(id, relationship, ask, save)

Spec == Init /\ [][Next]_vars

----------------------------------------------------------------------------
(* Properties.                                                             *)

\* What a fresh conversation with this history would be rendered to.
Fresh(history) ==
    LET asks == history.asks
        message(i) == IF i = 1 THEN <<"user", StatePrefix(history.state) \o Block(asks[1])>>
                      ELSE IF i % 2 = 1 THEN <<"user", Block(asks[(i + 1) \div 2])>>
                      ELSE <<"model", RStrip(AnswerPrefix(asks[i \div 2]))>> IN
    Render([i \in 1..(2 * Len(asks) - 1) |-> message(i)]) \o AnswerPrefix(asks[Len(asks)])

\* "compare context branches and readout follow-ups with freshly rendered,
\* identical logical histories": the state once, every ask in order, and after
\* a replacement the new one only.
PromptIsTheHistory == reply.code \notin {"none", "refused"} => reply.prompt = Fresh(reply.history)

\* compile_context_followup(): "the rendered branch is guaranteed to extend the
\* frozen prefix", whatever whitespace the state ends in.
ContextBranchesExtend == reply.code # "snapshot_prefix_mismatch"

\* What a readout froze is the prompt of its history, so that a child answers
\* for what was asked of it.
FrozenIsTheHistory ==
    \A r \in DOMAIN records : records[r].kind = "readout" =>
        records[r].tokens = Tokenize(Fresh(records[r].history))

\* The snapshot a replacement continues is a context of the same state.
AnchorsAreContexts ==
    \A r \in DOMAIN records : records[r].anchor # 0 =>
        LET anchor == records[records[r].anchor] IN
        anchor.kind = "context" /\ anchor.blocks = 30 /\ anchor.history.state = records[r].history.state

\* A question asked of a context can be replaced however many followups, saved
\* children and promotions lie between, and what is then continued is a context
\* of its state.
QuestionsCanBeReplaced ==
    /\ AnchorsAreContexts
    /\ \A r \in DOMAIN records :
          (records[r].kind = "readout" /\ records[1].kind = "context") => Replaceable(r)

\* Whatever was frozen, and whatever is asked of it, is the one conversation.
PromptsAreHistories == PromptIsTheHistory /\ FrozenIsTheHistory
=============================================================================

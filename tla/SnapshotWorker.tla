--------------------------- MODULE SnapshotWorker ---------------------------
(***************************************************************************)
(* The snapshot worker process                                             *)
(* (unridden/api/native/snapshots/snapshot-worker.cpp): its registry of    *)
(* snapshots, the lower and upper contexts that keep the last parent       *)
(* resident between commands, the stock context of a --reference worker,   *)
(* and the files it saves and loads.                                       *)
(*                                                                         *)
(* The worker is one thread.  A command that cannot stop half done is one  *)
(* action; evaluate and state_eval take a step a branch, ride a step a     *)
(* token, and inference can fail at each.                                  *)
(***************************************************************************)
EXTENDS SnapshotValues, FiniteSets

CONSTANTS
    Foreign,    \* files another configuration of the worker saved
    MaxAsks,    \* bound: questions of an evaluate (32 in the code)
    MaxRide,    \* bound: tokens of a ride
    MaxFiles    \* bound: directories saved

ASSUME BoundsAssumption == MaxAsks \in Nat /\ MaxRide \in Nat /\ MaxFiles \in Nat
ASSUME ForeignAssumption == \A f \in Foreign : f.batch # Batch

VARIABLES
    snaps,          \* snapshots_: id -> snapshot
    lower, upper,   \* the cells of the two contexts
    resident,       \* resident_
    residentUpper,  \* resident_upper_
    stock,          \* the cells of the reference context
    files,          \* saved snapshots: [snap, batch]
    cmd,            \* the command being run
    readout,        \* the last readout taken
    reply           \* the last answer: a code, and what the command published

contexts == <<lower, upper, resident, residentUpper>>
vars == <<snaps, contexts, stock, files, cmd, readout, reply>>

NoCmd == [op |-> "none", target |-> None, asks |-> <<>>, made |-> {}, mode |-> "none",
          seq |-> <<>>, left |-> 0, cuts |-> <<>>]
NoReading == Reading(<<>>, <<>>, <<>>)
Ask == [full: Prompts, save: Ids \cup {None}]
NoReply == [code |-> "none", made |-> {}]
\* Ready for the next line: the last answer has been written.
Idle == cmd.op = "none" /\ reply = NoReply

Replies(code, made) == reply' = [code |-> code, made |-> made] /\ cmd' = NoCmd
Fails == Replies("execution_error", cmd.made)

----------------------------------------------------------------------------
(* The contexts.                                                           *)

Clear == lower' = <<>> /\ upper' = <<>> /\ resident' = None /\ residentUpper' = FALSE

\* Mutant: a parent of the right length is taken for resident.
HasLengthOf(id) ==
    LET s == snaps[id] IN
    /\ resident # None
    /\ s.blocks = 30 => residentUpper /\ Len(upper) = Len(s.tokens)
    /\ Len(lower) = Len(s.tokens)

\* make_resident(): the contexts already hold the snapshot...
IsResident(id) ==
    LET s == snaps[id] IN
    /\ resident = id
    /\ s.blocks = 30 => residentUpper /\ Len(upper) = Len(s.tokens)
    /\ Len(lower) = Len(s.tokens)

\* ... or are cleared and restored from its blobs.
LowerFor(id) == IF IsResident(id) THEN lower ELSE snaps[id].lower
UpperFor(id) == IF IsResident(id) THEN upper ELSE snaps[id].upper

\* One branch: run_lower() and run_upper() over the suffix of the prompt.
BranchLower(id, full) == Decode(LowerFor(id), From(full, Len(snaps[id].tokens)))
BranchUpper(id, full) ==
    Decode(UpperFor(id), RowsAfter(BranchLower(id, full), Len(snaps[id].tokens)))

\* trim_to(): what a branch leaves of the cells it ran.
TrimTo(id, low, up) ==
    /\ lower' = Upto(low, Len(snaps[id].tokens))
    /\ upper' = Upto(up, Len(snaps[id].tokens))
    /\ resident' = id /\ residentUpper' = TRUE

----------------------------------------------------------------------------
(* create and promote.                                                     *)

\* create(): published only when every checkpoint is complete.
Create(kind, tokens, id18, id30) ==
    /\ Idle
    /\ {id18, id30} # {None} /\ id18 # id30
    /\ ({id18, id30} \ {None}) \cap DOMAIN snaps = {}
    /\ LET s18 == Captured18(kind, tokens)
           s30 == Captured30(kind, tokens, id18)
           with18 == IF id18 = None THEN snaps ELSE With(snaps, id18, s18) IN
       /\ snaps' = IF id30 = None THEN with18 ELSE With(with18, id30, s30)
       /\ lower' = s18.lower
       /\ upper' = IF id30 = None THEN <<>> ELSE s30.upper
       /\ readout' = IF id30 = None THEN readout ELSE Reading(tokens, s30.cuts, s30.upper)
    /\ resident' = IF id30 = None THEN id18 ELSE id30
    /\ residentUpper' = (id30 # None)
    /\ Replies("ok", {id18, id30} \ {None})
    /\ UNCHANGED <<stock, files>>

\* The freeze: the whole prompt, or what it shares with the marked text.
CreateFrozen ==
    \E full \in Prompts, id18, id30 \in Ids \cup {None} :
        /\ Len(full) <= Context
        /\ \/ Create("readout", full, id18, id30)
           \/ \E head \in Prompts :
                 /\ CommonPrefix(head, full) >= 1
                 /\ Create("context", Upto(full, CommonPrefix(head, full)), id18, id30)

Promotable(id) == id \in DOMAIN snaps /\ snaps[id].blocks = 18

Promote(id, new) ==
    /\ Idle /\ Promotable(id) /\ new \in Ids \ DOMAIN snaps
    /\ snaps' = With(snaps, new, Promoted(id, snaps[id]))
    /\ lower' = snaps[id].lower
    /\ upper' = Promoted(id, snaps[id]).upper
    /\ resident' = new /\ residentUpper' = TRUE
    /\ Replies("ok", {new})
    /\ UNCHANGED <<stock, files, readout>>

\* A decode, a capture or a restore fails: nothing was published.
InferenceFails ==
    /\ Idle
    /\ Clear
    /\ Fails
    /\ UNCHANGED <<snaps, stock, files, readout>>

----------------------------------------------------------------------------
(* evaluate and state_eval.                                                *)

Branches(op, id, asks) ==
    /\ Idle
    /\ \A i \in 1..Len(asks) : BranchError(snaps, id, asks[i].full, asks[i].save) = "none"
    /\ \A i, j \in 1..Len(asks) : asks[i].save = asks[j].save => i = j \/ asks[i].save = None
    /\ cmd' = [NoCmd EXCEPT !.op = op, !.target = id, !.asks = asks]
    /\ UNCHANGED <<snaps, contexts, stock, files, readout, reply>>

StartBranches ==
    \E id \in Ids, n \in 1..MaxAsks : \E asks \in [1..n -> Ask] :
        \/ Branches("evaluate", id, asks)
        \/ n = 1 /\ Branches("state_eval", id, asks)

Saves(q) == IF q.save = None THEN {} ELSE {q.save}

Published(id, q) ==
    IF q.save = None THEN snaps
    ELSE With(snaps, q.save,
              Child(id, snaps[id], q.full, BranchLower(id, q.full), BranchUpper(id, q.full)))

\* run_branch(): the child is published before the contexts are trimmed.
RunBranch ==
    /\ cmd.op \in {"evaluate", "state_eval"} /\ cmd.asks # <<>>
    /\ LET id == cmd.target
           q == Head(cmd.asks)
           low == BranchLower(id, q.full)
           up == BranchUpper(id, q.full) IN
       /\ snaps' = Published(id, q)
       /\ readout' = Reading(q.full, Append(snaps[id].cuts, Len(q.full) - Len(snaps[id].tokens)), up)
       /\ TrimTo(id, low, up)
       /\ cmd' = [cmd EXCEPT !.asks = Tail(@), !.made = @ \cup Saves(q)]
    /\ UNCHANGED <<stock, files, reply>>

\* A branch fails, before it published its child or after.
BranchFails ==
    /\ cmd.op \in {"evaluate", "state_eval"} /\ cmd.asks # <<>>
    /\ \/ snaps' = snaps /\ Fails
       \/ /\ snaps' = Published(cmd.target, Head(cmd.asks))
          /\ Replies("execution_error", cmd.made \cup Saves(Head(cmd.asks)))
    /\ Clear
    /\ UNCHANGED <<stock, files, readout>>

\* Mutant: state_eval is never answered.
EvaluateEnds ==
    /\ cmd.op = "evaluate" /\ cmd.asks = <<>>
    /\ Replies("ok", cmd.made)
    /\ UNCHANGED <<snaps, contexts, stock, files, readout>>

BranchesEnd ==
    /\ cmd.op \in {"evaluate", "state_eval"} /\ cmd.asks = <<>>
    /\ Replies("ok", cmd.made)
    /\ UNCHANGED <<snaps, contexts, stock, files, readout>>

\* state_eval(): a nonfinite export is found outside the guarded inference,
\* and main() reports it as a request that never reached it.
ExportFails ==
    /\ cmd.op = "state_eval" /\ cmd.asks = <<>>
    /\ Replies("invalid_request", cmd.made)
    /\ UNCHANGED <<snaps, contexts, stock, files, readout>>

----------------------------------------------------------------------------
(* ride: greedy decoding from a snapshot, or over a baseline.              *)

Modes == {"snapshot", "split_prefill", "reference"}

Riding(mode, id, full, max, cuts) ==
    cmd' = [NoCmd EXCEPT !.op = "ride", !.target = id, !.mode = mode, !.seq = full,
                         !.left = max, !.cuts = cuts]

RideSnapshot(id, full, max) ==
    /\ Idle /\ BranchError(snaps, id, full, None) = "none"
    /\ Len(full) + max <= Context
    /\ lower' = BranchLower(id, full) /\ upper' = BranchUpper(id, full)
    /\ resident' = id /\ residentUpper' = TRUE
    /\ LET cuts == Append(snaps[id].cuts, Len(full) - Len(snaps[id].tokens)) IN
       /\ Riding("snapshot", id, full, max, cuts)
       /\ readout' = Reading(full, cuts, BranchUpper(id, full))
    /\ UNCHANGED <<snaps, stock, files, reply>>

RideSplit(full, break, max) ==
    /\ Idle /\ Len(full) + max <= Context /\ break < Len(full)
    /\ lower' = PrefillFrom(full, Pieces(full, break))
    /\ upper' = PrefillFrom(RowsAfter(lower', 0), Pieces(full, break))
    /\ resident' = None /\ residentUpper' = FALSE
    /\ Riding("split_prefill", None, full, max, Pieces(full, break))
    /\ readout' = Reading(full, Pieces(full, break), upper')
    /\ UNCHANGED <<snaps, stock, files, reply>>

\* Mutant: the reference context is not cleared before the first piece.
RideReferenceStale(full, break, max) ==
    /\ Idle /\ Len(full) + max <= Context /\ break < Len(full)
    /\ stock' = IF break = 0 THEN Decode(stock, full)
                ELSE Decode(Decode(stock, Upto(full, break)), From(full, break))
    /\ Riding("reference", None, full, max, Pieces(full, break))
    /\ readout' = Reading(full, Pieces(full, break), stock')
    /\ UNCHANGED <<snaps, contexts, files, reply>>

RideReference(full, break, max) ==
    /\ Idle /\ Len(full) + max <= Context /\ break < Len(full)
    /\ stock' = PrefillFrom(full, Pieces(full, break))
    /\ Riding("reference", None, full, max, Pieces(full, break))
    /\ readout' = Reading(full, Pieces(full, break), stock')
    /\ UNCHANGED <<snaps, contexts, files, reply>>

\* A break past the prompt is refused after the contexts were cleared.
RideBreakRefused(mode, full, break) ==
    /\ Idle /\ break >= Len(full)
    /\ IF mode = "split_prefill" THEN Clear ELSE UNCHANGED contexts
    /\ Replies("invalid_request", {})
    /\ UNCHANGED <<snaps, stock, files, readout>>

\* The head's argmax is one more token, and there is room for another.
RideToken(token) ==
    /\ cmd.op = "ride" /\ cmd.left > 1
    /\ cmd' = [cmd EXCEPT !.seq = Append(@, token), !.left = @ - 1, !.cuts = Append(@, 1)]
    /\ IF cmd.mode = "reference"
       THEN stock' = Decode(stock, <<token>>) /\ UNCHANGED <<lower, upper>>
       ELSE /\ lower' = Decode(lower, <<token>>)
            /\ upper' = Decode(upper, RowsAfter(lower', Len(lower)))
            /\ UNCHANGED stock
    /\ readout' = Reading(cmd'.seq, cmd'.cuts, IF cmd.mode = "reference" THEN stock' ELSE upper')
    /\ UNCHANGED <<snaps, resident, residentUpper, files, reply>>

\* The last token, or the end of generation.
RideEnds ==
    /\ cmd.op = "ride"
    /\ CASE cmd.mode = "snapshot"      -> TrimTo(cmd.target, lower, upper) /\ UNCHANGED stock
         [] cmd.mode = "split_prefill" -> Clear /\ UNCHANGED stock
         [] OTHER                      -> stock' = <<>> /\ UNCHANGED contexts
    /\ Replies("ok", {})
    /\ UNCHANGED <<snaps, files, readout>>

RideFails ==
    /\ cmd.op = "ride"
    /\ Clear /\ stock' = <<>>
    /\ Fails
    /\ UNCHANGED <<snaps, files, readout>>

Ride ==
    \E full \in Prompts, max \in 1..MaxRide :
        \/ \E id \in Ids : RideSnapshot(id, full, max)
        \/ \E break \in 0..Context :
              \/ RideSplit(full, break, max)
              \/ RideReference(full, break, max)
              \/ \E mode \in Modes \ {"snapshot"} : RideBreakRefused(mode, full, break)

\* reference(): the stock graph from an empty cache, which a failure leaves dirty.
Reference(full) ==
    /\ Idle /\ Len(full) <= Context
    /\ \/ /\ stock' = <<>>
          /\ readout' = Reading(full, <<Len(full)>>, Decode(<<>>, full))
          /\ Replies("ok", {})
       \/ /\ stock' = Decode(<<>>, Upto(full, Least(Batch, Len(full))))
          /\ UNCHANGED readout
          /\ Replies("execution_error", {})
    /\ UNCHANGED <<snaps, contexts, files>>

----------------------------------------------------------------------------
(* drop, save, load, and a new process.                                    *)

\* Mutant: the contexts keep a dropped snapshot under its id.
DropUncleared(id) ==
    /\ Idle /\ id \in DOMAIN snaps
    /\ UNCHANGED contexts
    /\ snaps' = [x \in DOMAIN snaps \ {id} |-> snaps[x]]
    /\ Replies("ok", {})
    /\ UNCHANGED <<stock, files, readout>>

Drop(id) ==
    /\ Idle /\ id \in DOMAIN snaps
    /\ IF resident = id THEN Clear ELSE UNCHANGED contexts
    /\ snaps' = [x \in DOMAIN snaps \ {id} |-> snaps[x]]
    /\ Replies("ok", {})
    /\ UNCHANGED <<stock, files, readout>>

Save(id) ==
    /\ Idle /\ id \in DOMAIN snaps
    /\ \/ /\ Cardinality(files) < MaxFiles
          /\ files' = files \cup {[snap |-> snaps[id], batch |-> Batch]}
          /\ Replies("ok", {})
       \/ UNCHANGED files /\ Replies("invalid_request", {})
    /\ UNCHANGED <<snaps, contexts, stock, readout>>

\* load(): what its files must hold: an 18 the rows it is promoted from, a 30
\* the cells of both ranges.
Complete(s) ==
    /\ s.blocks \in {18, 30} /\ s.kind \in Kinds
    /\ Len(s.tokens) \in 1..Context
    /\ s.lower # <<>> /\ (s.upper # <<>> <=> s.blocks = 30)
    /\ s.h18 # <<>> => Len(s.h18) = Len(s.tokens)
    /\ s.blocks = 18 => s.h18 # <<>>

Loadable(file) == file.batch = Batch /\ Complete(file.snap)

Load(id, file) ==
    /\ Idle /\ id \in Ids \ DOMAIN snaps
    /\ \/ /\ Loadable(file)
          /\ snaps' = With(snaps, id, [file.snap EXCEPT !.owned = TRUE])
          /\ Replies("ok", {id})
       \/ /\ ~Loadable(file)
          /\ UNCHANGED snaps
          /\ Replies("integrity_error", {})
    /\ UNCHANGED <<contexts, stock, files, readout>>

\* Any request the preflight refuses, before anything changed.
Refused ==
    /\ Idle
    /\ \E id \in Ids, q \in Ask :
          /\ BranchError(snaps, id, q.full, q.save) # "none"
          /\ Replies(BranchError(snaps, id, q.full, q.save), {})
    /\ UNCHANGED <<snaps, contexts, stock, files, readout>>

\* The process dies and another is started: only files survive.
Restart ==
    /\ snaps' = [x \in {} |-> {}]
    /\ Clear /\ stock' = <<>> /\ readout' = NoReading
    /\ cmd' = NoCmd /\ reply' = NoReply
    /\ UNCHANGED files

\* main(): the answer is written, with whatever readout it carries.
NextLine ==
    /\ reply # NoReply
    /\ reply' = NoReply /\ readout' = NoReading
    /\ UNCHANGED <<snaps, contexts, stock, files, cmd>>

----------------------------------------------------------------------------
Init ==
    /\ snaps = [x \in {} |-> {}]
    /\ lower = <<>> /\ upper = <<>> /\ resident = None /\ residentUpper = FALSE
    /\ stock = <<>> /\ files = Foreign
    /\ cmd = NoCmd /\ readout = NoReading /\ reply = NoReply

\* What the worker does next with the command it runs.
Runs ==
    \/ RunBranch
    \/ BranchesEnd
    \/ RideEnds
    \/ NextLine
    \/ \E token \in Tokens : RideToken(token)

Takes ==
    \/ CreateFrozen \/ StartBranches \/ Ride \/ Refused
    \/ \E id \in Ids :
          \/ \E new \in Ids : Promote(id, new)
          \/ Drop(id) \/ Save(id)
          \/ \E file \in files : Load(id, file)
    \/ \E full \in Prompts : Reference(full)

Next ==
    \/ Takes \/ Runs
    \/ InferenceFails \/ BranchFails \/ ExportFails \/ RideFails
    \/ Restart

Spec == Init /\ [][Next]_vars

\* The loop of the process runs a command it took to its end.
FairSpec == Spec /\ WF_vars(Runs)

----------------------------------------------------------------------------
(* Reference: what the cells of a prefix are, from the tokens and the      *)
(* pieces they were run in, with no context to keep and no blob to restore.*)

CellsOf(inputs, cuts) ==
    LET after[k \in 0..Len(cuts)] ==
            IF k = 0 THEN <<>>
            ELSE Decode(after[k - 1], SubSeq(inputs, Len(after[k - 1]) + 1,
                                             Len(after[k - 1]) + cuts[k]))
    IN after[Len(cuts)]
SplitCells(tokens, cuts) == CellsOf(RowsAfter(CellsOf(tokens, cuts), 0), cuts)

----------------------------------------------------------------------------

Reply == [code : {"none", "ok", "execution_error", "invalid_request", "integrity_error",
                  "snapshot_not_found", "snapshot_exists", "capability_unavailable",
                  "followup_unsupported", "snapshot_prefix_mismatch"},
          made : SUBSET Ids]

TypeOK ==
    /\ DOMAIN snaps \subseteq Ids
    /\ \A id \in DOMAIN snaps :
          LET s == snaps[id] IN
          /\ s.blocks \in {18, 30} /\ s.kind \in Kinds /\ s.parent \in Ids \cup {None}
          /\ Len(s.lower) = Len(s.tokens)
          /\ Len(s.upper) = IF s.blocks = 30 THEN Len(s.tokens) ELSE 0
          /\ Len(s.h18) \in {0, Len(s.tokens)} /\ s.owned \in BOOLEAN
    /\ resident \in Ids \cup {None} /\ residentUpper \in BOOLEAN
    /\ cmd.op \in {"none", "evaluate", "state_eval", "ride"}
    /\ cmd.target \in Ids \cup {None} /\ cmd.made \subseteq Ids
    /\ cmd.mode \in Modes \cup {"none"} /\ cmd.left \in 0..MaxRide
    /\ reply \in Reply

\* What the runtime calls resident is what the contexts hold: the cells of that
\* snapshot, exactly, between commands, and as their beginning during a ride
\* (make_resident trusts resident_ and two lengths, never the cells).
ResidentHoldsSnapshot ==
    resident # None =>
        /\ resident \in DOMAIN snaps
        /\ LET s == snaps[resident] IN
           /\ Upto(lower, Len(s.tokens)) = s.lower
           /\ residentUpper => Upto(upper, Len(s.tokens)) = s.upper
           /\ cmd.op # "ride" =>
                 /\ Len(lower) = Len(s.tokens)
                 /\ residentUpper => Len(upper) = Len(s.tokens)

\* Every snapshot, however it came to be (created, promoted, saved by a branch,
\* loaded from a file), holds the cells its tokens have when they are run in
\* its pieces from nothing; so a promoted 30 equals the one create would have
\* made, and a file of another batch size is never taken for one's own.
SnapshotsAreExact ==
    \A id \in DOMAIN snaps :
        LET s == snaps[id] IN
        /\ s.lower = CellsOf(s.tokens, s.cuts)
        /\ s.blocks = 30 => s.upper = SplitCells(s.tokens, s.cuts)
        /\ s.h18 # <<>> => s.h18 = RowsAfter(s.lower, 0)

\* Every readout is over exactly its prompt: no cell of a sibling, of an
\* earlier command or of a failed one is attended to, in either graph.
ReadoutsAreExact ==
    readout.cells \in {SplitCells(readout.tokens, readout.cuts),
                       CellsOf(readout.tokens, readout.cuts)}

\* No command runs a context past its size (n_ctx, which llama.cpp refuses).
ContextsFit == Len(lower) <= Context /\ Len(upper) <= Context /\ Len(stock) <= Context

\* The two contexts hold what the runtime says is resident, and no more than
\* they have cells for.
ContextsAreSound == TypeOK /\ ContextsFit /\ ResidentHoldsSnapshot

\* Every cell kept and every cell read is the one the tokens determine.
ValuesAreExact == SnapshotsAreExact /\ ReadoutsAreExact

\* The worker computes what the snapshots alone determine: every readout of a
\* branch is the next question's over its parent's own blobs, whatever the
\* contexts held before, and that of a baseline is its prompt's.
Semantics ==
    INSTANCE SnapshotSemantics WITH
        held <- snaps, archive <- files, reading <- readout,
        asked <- IF cmd.op \in {"evaluate", "state_eval"}
                 THEN [id |-> cmd.target, questions |-> cmd.asks]
                 ELSE [id |-> None, questions |-> <<>>],
        scratch <- CASE cmd.op # "ride" -> [graph |-> "none", low |-> <<>>, up |-> <<>>]
                     [] cmd.op = "ride" /\ cmd.mode = "reference" ->
                            [graph |-> "stock", low |-> <<>>, up |-> stock]
                     [] OTHER -> [graph |-> "split", low |-> lower, up |-> upper]
IsStateless == Semantics!AbsSpec

\* Every command is answered: evaluate runs out of questions, ride of tokens.
CommandsEnd == (cmd.op # "none") ~> (cmd.op = "none")

=============================================================================

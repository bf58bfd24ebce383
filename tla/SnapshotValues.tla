--------------------------- MODULE SnapshotValues ---------------------------
(***************************************************************************)
(* What the snapshot worker computes, as values: snapshots and branches    *)
(* (unridden/api/native/snapshots/snapshot-worker.cpp).                    *)
(***************************************************************************)
EXTENDS KvCells

CONSTANTS
    Ids,        \* snapshot ids
    None,       \* no id
    Tokens,     \* the vocabulary
    Prompts,    \* the rendered prompts requests are made of
    Context     \* tokens a context holds

ASSUME ContextAssumption == Context \in Nat \ {0}
ASSUME NoneAssumption == None \notin Ids
ASSUME PromptsAssumption == Prompts \subseteq Seq(Tokens) \ {<<>>}

----------------------------------------------------------------------------
(* Snapshots.  `cuts` is not stored by the worker: it records in how many  *)
(* tokens each piece of the prefix was run.                                *)

Kinds == {"context", "readout"}

\* Both checkpoints of a freeze, from empty contexts.  H18 stays with the 18
\* when there is one.
Captured18(kind, tokens) ==
    LET low == Decode(<<>>, tokens) IN
    [blocks |-> 18, kind |-> kind, parent |-> None, tokens |-> tokens, lower |-> low,
     upper |-> <<>>, h18 |-> RowsAfter(low, 0), owned |-> TRUE, cuts |-> <<Len(tokens)>>]

Captured30(kind, tokens, id18) ==
    LET s == Captured18(kind, tokens) IN
    [s EXCEPT !.blocks = 30, !.parent = id18, !.upper = Decode(<<>>, s.h18),
              !.h18 = IF id18 = None THEN s.h18 ELSE <<>>, !.owned = id18 = None]

\* The upper blocks over the stored boundary; the lower K/V is the parent's.
Promoted(id, s) ==
    [s EXCEPT !.blocks = 30, !.parent = id, !.upper = Decode(<<>>, s.h18),
              !.h18 = <<>>, !.owned = FALSE]

\* A saved branch, from the contexts as the branch left them.
Child(id, s, full, low, up) ==
    [blocks |-> 30, kind |-> "readout", parent |-> id, tokens |-> full, lower |-> low,
     upper |-> up,
     h18 |-> IF s.h18 = <<>> THEN <<>> ELSE s.h18 \o RowsAfter(low, Len(s.tokens)),
     owned |-> TRUE, cuts |-> Append(s.cuts, Len(full) - Len(s.tokens))]

\* The pieces a baseline's prefill is run in.
Pieces(full, break) == IF break = 0 THEN <<Len(full)>> ELSE <<break, Len(full) - break>>

\* Cells after the pieces are run one after the other from an empty context.
PrefillFrom(inputs, pieces) ==
    IF Len(pieces) = 1 THEN Decode(<<>>, inputs)
    ELSE Decode(Decode(<<>>, Upto(inputs, pieces[1])), From(inputs, pieces[1]))

With(snaps, id, s) == [x \in DOMAIN snaps \cup {id} |-> IF x = id THEN s ELSE snaps[x]]

\* What a readout was taken over: the tokens, in which pieces they were run,
\* and the cells its last position attends to.
Reading(tokens, cuts, cells) == [tokens |-> tokens, cuts |-> cuts, cells |-> cells]

----------------------------------------------------------------------------
(* Preflight.                                                              *)

\* Tokens of the marked text the prompt starts with; the last one could merge
\* with what follows, and is never frozen.
CommonPrefix(head, full) ==
    LET limit == Least(Len(head), Len(full)) - 1
        common == {n \in 0..limit : Upto(head, n) = Upto(full, n)}
    IN CHOOSE n \in common : \A m \in common : m <= n

\* Mutant: a branch of no tokens at all passes.
ExtendsOrEquals(full, prefix) == Len(full) >= Len(prefix) /\ Upto(full, Len(prefix)) = prefix

Extends(full, prefix) == Len(full) > Len(prefix) /\ Upto(full, Len(prefix)) = prefix

\* How evaluate() and state_eval() refuse a branch before any inference.
BranchError(snaps, id, full, save) ==
    CASE id \notin DOMAIN snaps   -> "snapshot_not_found"
      [] snaps[id].blocks # 30    -> "capability_unavailable"
      [] Len(full) > Context      -> "invalid_request"
      [] ~Extends(full, snaps[id].tokens) ->
             IF snaps[id].kind = "readout" THEN "followup_unsupported"
             ELSE "snapshot_prefix_mismatch"
      [] save \in DOMAIN snaps    -> "snapshot_exists"
      [] OTHER                    -> "none"

=============================================================================

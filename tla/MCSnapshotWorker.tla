-------------------------- MODULE MCSnapshotWorker --------------------------
(***************************************************************************)
(* Instances of the snapshot worker: two prompts that share a token, so a  *)
(* parent may be extended by both, by one or by none, and two parents of   *)
(* one length differ; a file of another configuration.                     *)
(***************************************************************************)
EXTENDS SnapshotWorkerInvariant, SnapshotReplies

CONSTANTS s1, s2, a, b
TwoIds == {s1, s2}
MCTokens == {a, b}
MCPrompts == {<<a, b>>, <<a, a, b>>}
\* A snapshot another worker made, with decodes of one token.
MCForeign ==
    LET low == [i \in 1..2 |-> [input |-> a, first |-> i, size |-> 1]]
        rows == RowsAfter(low, 0) IN
    {[batch |-> 1,
      snap |-> [blocks |-> 30, kind |-> "context", parent |-> None, tokens |-> <<a, a>>,
                lower |-> low,
                upper |-> [i \in 1..2 |-> [input |-> rows[i], first |-> i, size |-> 1]],
                h18 |-> rows, owned |-> TRUE, cuts |-> <<2>>]]}

=============================================================================

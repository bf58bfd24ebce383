-------------------------- MODULE MCSnapshotPrompts -------------------------
(* States that end in a newline or are one; words that merge with newlines. *)
EXTENDS SnapshotPrompts

MCStates == {<<>>, <<"refund", NL>>, <<NL, "refund">>}
MCPrompts == {<<"why">>, <<NL>>}
MCMerges == {<<NL, NL>>, <<"refund", NL>>, <<"instruction", NL>>, <<"why", NL>>}
MCTemplates ==
    {[trims |-> TRUE, opening |-> <<>>], [trims |-> FALSE, opening |-> <<>>],
     [trims |-> FALSE, opening |-> <<"thought">>]}
=============================================================================

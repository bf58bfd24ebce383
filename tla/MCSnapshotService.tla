------------------------- MODULE MCSnapshotService -------------------------
(* The snapshot service on small instances: every request on two ids, and  *)
(* what needs three (a promotion and a child, two children) on fewer       *)
(* kinds of request.                                                       *)
EXTENDS SnapshotService, TLC

CONSTANTS s1, s2, s3
MCIds == {s1, s2, s3}
MCTwoIds == {s1, s2}
IdSymmetry == Permutations(MCIds)

Creates(depths, persistences, boundaries) ==
    [kind: {"create"}, depths: depths, persistence: persistences, boundary: boundaries]
Decides(ids, replaces, saves) ==
    [kind: {"decide"}, ref: ids, replace: replaces, saves: saves]

MCRequests ==
    Creates((SUBSET Depth) \ {{}}, Persistence, {"context"})
        \cup Creates({{18}}, {"disk"}, {"readout"})
        \cup Decides(MCTwoIds, BOOLEAN, {0, 1})
        \cup [kind: {"vectors", "delete", "metadata"}, ref: MCTwoIds]

MCFollowups == Creates({{18}, {30}}, Persistence, {"context"}) \cup Decides(MCIds, BOOLEAN, 0..2)
============================================================================

-------------------------- MODULE MCSnapshotStore --------------------------
(* The snapshot store on a small instance: the budget holds a pair and its *)
(* reload, or one independent snapshot beside a pair's lower half, so that *)
(* eviction, sharing and refusal all happen.                               *)
EXTENDS StoreInvariant, TLC

CONSTANTS s1, s2, s3
MCIds == {s1, s2, s3}
MCTwoIds == {s1, s2}
IdSymmetry == Permutations(MCIds)
============================================================================

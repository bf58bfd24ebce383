--------------------------- MODULE MCWorkerInstall --------------------------
(* One fetcher, a start of either worker at any time, and a release of both  *)
(* kinds of bundle, one of which lacks its executable.                       *)
EXTENDS WorkerInstall

CONSTANTS cuda, snapshots, broken
MCKind == [a \in Assets |-> IF a = snapshots THEN "snapshot-worker" ELSE "worker"]
MCLacks ==
    [a \in Assets |-> (BundleKinds \ {Kind[a]}) \cup (IF a = broken THEN {Kind[a]} ELSE {})]
=============================================================================

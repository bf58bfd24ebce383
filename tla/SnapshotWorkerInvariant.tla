---------------------- MODULE SnapshotWorkerInvariant -----------------------
(* The inductive invariant of the snapshot worker: what a snapshot is,     *)
(* what the contexts hold, and what a command that runs may rely on.       *)
EXTENDS SnapshotWorker

IsSeq(s) == s \in Seq({s[i] : i \in DOMAIN s})

----------------------------------------------------------------------------
(* Snapshots, registered or in a file this worker would load.              *)

Shape(s) ==
    /\ s = [blocks |-> s.blocks, kind |-> s.kind, parent |-> s.parent, tokens |-> s.tokens,
            lower |-> s.lower, upper |-> s.upper, h18 |-> s.h18, owned |-> s.owned,
            cuts |-> s.cuts]
    /\ s.blocks \in {18, 30} /\ s.kind \in Kinds
    /\ s.parent \in Ids \cup {None} /\ s.owned \in BOOLEAN
    /\ s.tokens \in Seq(Tokens) /\ Len(s.tokens) \in 1..Context
    /\ IsSeq(s.lower) /\ Len(s.lower) = Len(s.tokens)
    /\ IsSeq(s.upper) /\ Len(s.upper) = (IF s.blocks = 30 THEN Len(s.tokens) ELSE 0)
    /\ IsSeq(s.h18) /\ Len(s.h18) \in {0, Len(s.tokens)}

\* An 18 keeps the boundary its 30 is promoted from, and was run in one piece.
Exact(s) ==
    /\ s.cuts \in Seq(Nat)
    /\ s.lower = CellsOf(s.tokens, s.cuts)
    /\ s.blocks = 30 => s.upper = SplitCells(s.tokens, s.cuts)
    /\ s.h18 # <<>> => s.h18 = RowsAfter(s.lower, 0)
    /\ s.blocks = 18 => s.h18 # <<>> /\ s.cuts = <<Len(s.tokens)>>

SnapshotsInv ==
    /\ DOMAIN snaps \subseteq Ids
    /\ \A id \in DOMAIN snaps : Shape(snaps[id]) /\ Exact(snaps[id])
    /\ \A f \in files : f.batch = Batch => Shape(f.snap) /\ Exact(f.snap)

----------------------------------------------------------------------------
(* The contexts.                                                           *)

RidesSnapshot == cmd.op = "ride" /\ cmd.mode = "snapshot"

\* What is resident begins what the contexts hold; only a ride runs past it.
Holds(s) ==
    /\ Upto(lower, Len(s.tokens)) = s.lower
    /\ residentUpper => Upto(upper, Len(s.tokens)) = s.upper
    /\ ~RidesSnapshot =>
          /\ Len(lower) = Len(s.tokens)
          /\ residentUpper => Len(upper) = Len(s.tokens)

ContextsInv ==
    /\ IsSeq(lower) /\ IsSeq(upper) /\ IsSeq(stock) /\ ContextsFit
    /\ resident \in Ids \cup {None} /\ residentUpper \in BOOLEAN
    /\ resident # None => resident \in DOMAIN snaps /\ Holds(snaps[resident])

----------------------------------------------------------------------------
(* The command that runs.                                                  *)

\* What is left of a command's questions passed the preflight, and still does.
Branching ==
    cmd.op \in {"evaluate", "state_eval"} =>
        /\ cmd.target \in DOMAIN snaps
        /\ \A i \in DOMAIN cmd.asks :
              BranchError(snaps, cmd.target, cmd.asks[i].full, cmd.asks[i].save) = "none"
        /\ \A i, j \in DOMAIN cmd.asks :
              cmd.asks[i].save = cmd.asks[j].save => i = j \/ cmd.asks[i].save = None

\* A ride has room for what is left, and the contexts of its mode hold exactly
\* the tokens so far.
RideHolds ==
    cmd.op = "ride" =>
        /\ cmd.mode \in Modes /\ cmd.left > 0
        /\ cmd.seq \in Seq(Tokens) /\ cmd.seq # <<>> /\ Len(cmd.seq) + cmd.left <= Context
        /\ cmd.cuts \in Seq(Nat)
        /\ IF cmd.mode = "reference"
           THEN /\ stock = CellsOf(cmd.seq, cmd.cuts) /\ Len(stock) = Len(cmd.seq)
                /\ readout = Reading(cmd.seq, cmd.cuts, stock)
           ELSE /\ lower = CellsOf(cmd.seq, cmd.cuts) /\ Len(lower) = Len(cmd.seq)
                /\ upper = SplitCells(cmd.seq, cmd.cuts) /\ Len(upper) = Len(cmd.seq)
                /\ readout = Reading(cmd.seq, cmd.cuts, upper)
        /\ cmd.mode = "snapshot" =>
              /\ cmd.target \in DOMAIN snaps /\ resident = cmd.target /\ residentUpper
              /\ snaps[cmd.target].blocks = 30
              /\ Len(snaps[cmd.target].tokens) <= Len(cmd.seq)
        /\ cmd.mode = "split_prefill" => resident = None

CommandInv ==
    /\ cmd = [op |-> cmd.op, target |-> cmd.target, asks |-> cmd.asks, made |-> cmd.made,
              mode |-> cmd.mode, seq |-> cmd.seq, left |-> cmd.left, cuts |-> cmd.cuts]
    /\ cmd.op \in {"none", "evaluate", "state_eval", "ride"}
    /\ cmd.target \in Ids \cup {None} /\ cmd.made \subseteq Ids
    /\ cmd.asks \in Seq(Ask) /\ cmd.mode \in Modes \cup {"none"} /\ cmd.left \in 0..MaxRide
    /\ reply \in Reply
    /\ reply # NoReply \/ cmd.op = "none" => cmd = NoCmd
    /\ Branching /\ RideHolds

WInv == SnapshotsInv /\ ContextsInv /\ CommandInv /\ ReadoutsAreExact
=============================================================================

-------------------------- MODULE SnapshotSemantics -------------------------
(***************************************************************************)
(* What a snapshot worker promises, without its contexts: a snapshot is an *)
(* immutable value, every command computes from the values it names alone, *)
(* in a scratch of its own, and nothing of one command is seen by another. *)
(* A readout is that of the next question of the request, over its parent  *)
(* restored from its blobs, or that of a prompt run from nothing: which    *)
(* parent happens to be resident makes no difference to any answer.        *)
(***************************************************************************)
EXTENDS SnapshotValues

VARIABLES
    held,       \* id -> snapshot
    archive,    \* the snapshots that were saved
    asked,      \* the questions of a request still to be answered
    scratch,    \* the graph and the cells of a ride, while it goes on
    reading     \* the last readout

NoAsk == [id |-> None, questions |-> <<>>]
NoScratch == [graph |-> "none", low |-> <<>>, up |-> <<>>]
NoReadout == Reading(<<>>, <<>>, <<>>)

Nothing == asked = NoAsk /\ scratch = NoScratch /\ reading = NoReadout

AbsInit == held = [x \in {} |-> {}] /\ Nothing

\* New snapshots of a capture from nothing.
Capture ==
    /\ UNCHANGED <<archive, asked, scratch>>
    /\ \E kind \in Kinds, full \in Prompts, id18, id30 \in Ids \cup {None} :
          /\ ({id18, id30} \ {None}) \cap DOMAIN held = {}
          /\ \E n \in 1..Len(full) :
                LET tokens == Upto(full, n)
                    with18 == IF id18 = None THEN held
                              ELSE With(held, id18, Captured18(kind, tokens))
                    s30 == Captured30(kind, tokens, id18) IN
                /\ held' = IF id30 = None THEN with18 ELSE With(with18, id30, s30)
                /\ reading' = IF id30 = None THEN reading
                              ELSE Reading(tokens, s30.cuts, s30.upper)

Finish30 ==
    \E id \in DOMAIN held, new \in Ids \ DOMAIN held :
        /\ held[id].blocks = 18
        /\ held' = With(held, new, Promoted(id, held[id]))
        /\ UNCHANGED <<archive, asked, scratch, reading>>

\* A branch computed from its parent's blobs, whatever ran before.
FreshLower(s, full) == Decode(s.lower, From(full, Len(s.tokens)))
FreshUpper(s, full) == Decode(s.upper, RowsAfter(FreshLower(s, full), Len(s.tokens)))
ReadingOf(s, full) ==
    Reading(full, Append(s.cuts, Len(full) - Len(s.tokens)), FreshUpper(s, full))

\* A request of questions about one snapshot, each of them admissible.
Take ==
    /\ asked = NoAsk
    /\ asked'.id \in DOMAIN held
    /\ \A i \in 1..Len(asked'.questions) :
          BranchError(held, asked'.id, asked'.questions[i].full, asked'.questions[i].save) = "none"
    /\ UNCHANGED <<held, archive, scratch, reading>>

\* The next question is answered, its child saved; or it fails, its child
\* saved or not, and the request with it.
Branch ==
    /\ asked.questions # <<>>
    /\ LET id == asked.id
           q == Head(asked.questions)
           s == held[id]
           child == Child(id, s, q.full, FreshLower(s, q.full), FreshUpper(s, q.full))
           saved == IF q.save = None THEN held ELSE With(held, q.save, child) IN
       /\ BranchError(held, id, q.full, q.save) = "none"
       /\ \/ /\ reading' = ReadingOf(s, q.full)
             /\ held' = saved
             /\ asked' = [asked EXCEPT !.questions = Tail(@)]
          \/ /\ held' \in {held, saved}
             /\ asked' = NoAsk
             /\ UNCHANGED reading
    /\ UNCHANGED <<archive, scratch>>

\* Every question of the request was answered.
Answered ==
    /\ asked # NoAsk /\ asked.questions = <<>>
    /\ asked' = NoAsk
    /\ UNCHANGED <<held, archive, scratch, reading>>

RideFrom ==
    \E id \in DOMAIN held, full \in Prompts :
        /\ BranchError(held, id, full, None) = "none"
        /\ scratch' = [graph |-> "split", low |-> FreshLower(held[id], full),
                       up |-> FreshUpper(held[id], full)]
        /\ reading' = ReadingOf(held[id], full)
        /\ UNCHANGED <<held, archive, asked>>

\* A ride over no snapshot: the prompt is run from nothing, through both
\* ranges or through the stock graph.
RideBaseline ==
    \E full \in Prompts, break \in 0..Context :
        /\ break < Len(full)
        /\ LET pieces == Pieces(full, break)
               low == PrefillFrom(full, pieces) IN
           /\ \/ scratch' = [graph |-> "split", low |-> low,
                               up |-> PrefillFrom(RowsAfter(low, 0), pieces)]
              \/ scratch' = [graph |-> "stock", low |-> <<>>, up |-> low]
           /\ reading' = Reading(full, pieces, scratch'.up)
        /\ UNCHANGED <<held, archive, asked>>

\* One more token of a ride.
RideOn ==
    \E token \in Tokens :
        /\ \/ /\ scratch.graph = "split"
              /\ scratch' = [graph |-> "split", low |-> Decode(scratch.low, <<token>>),
                             up |-> Decode(scratch.up, RowsAfter(Decode(scratch.low, <<token>>),
                                                                 Len(scratch.low)))]
           \/ /\ scratch.graph = "stock"
              /\ scratch' = [scratch EXCEPT !.up = Decode(@, <<token>>)]
        /\ reading' = Reading(Append(reading.tokens, token), Append(reading.cuts, 1), scratch'.up)
        /\ UNCHANGED <<held, archive, asked>>

RideStops == scratch' = NoScratch /\ UNCHANGED <<held, archive, asked, reading>>

\* The answer that carries a readout is given.
Given == reading' = NoReadout /\ UNCHANGED <<held, archive, asked, scratch>>

\* The baseline of a --reference worker answers from no snapshot at all: the
\* whole prompt, from nothing.
Baseline ==
    /\ \E full \in Prompts : reading' = Reading(full, <<Len(full)>>, Decode(<<>>, full))
    /\ UNCHANGED <<held, archive, asked, scratch>>

Release ==
    \E id \in DOMAIN held :
        /\ held' = [x \in DOMAIN held \ {id} |-> held[x]]
        /\ UNCHANGED <<archive, asked, scratch, reading>>

Archive ==
    \E id \in DOMAIN held :
        /\ archive' = archive \cup {[snap |-> held[id], batch |-> Batch]}
        /\ UNCHANGED <<held, asked, scratch, reading>>

Reopen ==
    \E id \in Ids \ DOMAIN held, a \in archive :
        /\ a.batch = Batch
        /\ held' = With(held, id, [a.snap EXCEPT !.owned = TRUE])
        /\ UNCHANGED <<archive, asked, scratch, reading>>

NewProcess ==
    /\ held' = [x \in {} |-> {}]
    /\ Nothing'
    /\ UNCHANGED archive

AbsNext ==
    \/ Capture \/ Finish30 \/ Take \/ Branch \/ Answered
    \/ RideFrom \/ RideBaseline \/ RideOn \/ RideStops \/ Baseline \/ Given
    \/ Release \/ Archive \/ Reopen \/ NewProcess

AbsSpec == AbsInit /\ [][AbsNext]_<<held, archive, asked, scratch, reading>>

=============================================================================

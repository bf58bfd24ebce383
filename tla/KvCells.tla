------------------------------- MODULE KvCells ------------------------------
(***************************************************************************)
(* The K/V cells of a llama.cpp context, as both workers use it: inputs    *)
(* are run in decodes of at most Batch, each takes the next free cell      *)
(* (unridden/api/native/worker-utils.h and the prefill loops of both       *)
(* workers).                                                               *)
(*                                                                         *)
(* Numbers are abstracted to what they are computed from: a cell is its    *)
(* input and the decode it was computed in, a row the cells it attends to. *)
(* Equal values are therefore the same inputs through the same decodes.    *)
(***************************************************************************)
EXTENDS Integers, Sequences

CONSTANT Batch      \* inputs one decode takes

ASSUME BatchAssumption == Batch \in Nat \ {0}

Least(a, b) == IF a < b THEN a ELSE b

\* The sizes of the decodes `count` tokens are run in.
PrefillChunks(count) ==
    [k \in 1..((count + Batch - 1) \div Batch) |-> Least(Batch, count - (k - 1) * Batch)]

\* A context after `inputs` are run in it: each gets the next position, in a
\* decode that starts at cell `first` and takes `size` inputs.
Decode(cells, inputs) ==
    cells \o
    [i \in 1..Len(inputs) |->
        LET k == (i - 1) \div Batch IN
        [input |-> inputs[i], first |-> Len(cells) + k * Batch + 1,
         size |-> PrefillChunks(Len(inputs))[k + 1]]]

\* The residual rows of the positions after the first n.
RowsAfter(cells, n) == [i \in 1..(Len(cells) - n) |-> SubSeq(cells, 1, n + i)]

From(tokens, n) == SubSeq(tokens, n + 1, Len(tokens))
Upto(cells, n) == SubSeq(cells, 1, n)

=============================================================================

---------------------------- MODULE MCLabelWorker ---------------------------
(* The v1 worker on prompts that share some, all or none of a prefix.      *)
EXTENDS LabelAnswers

CONSTANTS x, y
MCPrompts == {<<x, x, y>>, <<x, x, x, y>>, <<x, x, x, x>>, <<y, x, y>>, <<x>>}

\* A prompt that ends in y lists three options, any other two.
MCOptions == [p \in MCPrompts |-> IF p[Len(p)] = y THEN 3 ELSE 2]

\* A logit tells the decodes of the last cell apart, and labels may tie.
MCLogit(cells, k) == (k * cells[Len(cells)].first + cells[Len(cells)].size) % 3
============================================================================

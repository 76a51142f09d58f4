----------------------------- MODULE MCAnalysis -----------------------------
(* Batches whose payloads are empty, below the entropy minimum, at it, and *)
(* large enough to make a pooled buffer grow.                              *)
EXTENDS Analysis, TLC

CONSTANTS w1, w2

MCWorkers == {w1, w2}
P(n, h, b) == [size |-> n, high |-> h, bad |-> b]
MCBatches ==
    {<<P(0, FALSE, TRUE), P(1, TRUE, TRUE)>>,
     <<P(1, TRUE, FALSE), P(2, TRUE, TRUE)>>,
     <<P(9, FALSE, TRUE), P(2, TRUE, FALSE)>>}
MCSymmetry == Permutations(MCWorkers)
=============================================================================

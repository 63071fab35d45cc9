----------------------------- MODULE MCGateway -----------------------------
(* Instances of Gateway for TLC.                                            *)
EXTENDS Gateway, TLC

CONSTANTS w1, w2    \* the message threads of the instances, model values

MCWorkers == {w1, w2}
Symmetry == Permutations(Workers)
=============================================================================

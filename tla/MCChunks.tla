------------------------------ MODULE MCChunks ------------------------------
(* Instances of Chunks for TLC.                                             *)
EXTENDS Chunks, TLC

CONSTANTS t1, t2    \* chunk_timeout threads, model values

Symmetry == Permutations(Timers)
Shape(full, short) == [full |-> full, short |-> short]

\* Exactly 4096 bytes, and messages that a short fragment ends.
EasyShapes == {Shape(1, FALSE), Shape(0, TRUE), Shape(1, TRUE), Shape(2, TRUE)}
\* Every shape of at most two fragments, 4096*2 bytes among them.
PairShapes == {Shape(0, TRUE), Shape(1, FALSE), Shape(1, TRUE), Shape(2, FALSE)}
TwoFull == {Shape(2, FALSE)}
=============================================================================

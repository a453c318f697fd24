----------------------------- MODULE MCMemory -----------------------------
EXTENDS Memory, TLC

MCImages == {<<4>>, <<4, 5>>}
MCIncrements == {-5, 3}

Symmetry == Permutations(Proc)
=============================================================================

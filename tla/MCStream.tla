------------------------------ MODULE MCStream ------------------------------
EXTENDS Stream, TLC

\* Less than a sector, more than a sector.
MCStrings == {<<"x">>, <<"y", "z", "y">>}
PathSymmetry == Permutations(Paths)
=============================================================================

--------------------------- MODULE MCTouchOverlay ---------------------------
EXTENDS TouchOverlay, TLC

CONSTANTS t1, t2

MCTouches == {t1, t2}
Symmetry == Permutations(MCTouches)
=============================================================================

--------------------------- MODULE MCSlackPacing ----------------------------
EXTENDS SlackPacing, TLC

PacingSymmetry == Permutations(Workers)
=============================================================================

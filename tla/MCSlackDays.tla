---------------------------- MODULE MCSlackDays -----------------------------
EXTENDS SlackDays, TLC

DaysSymmetry == Permutations(Tasks) \cup Permutations(Workers)
=============================================================================

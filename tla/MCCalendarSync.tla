--------------------------- MODULE MCCalendarSync ---------------------------
EXTENDS CalendarSync, TLC

\* Tasks of a kind are interchangeable.
TaskSymmetry == Permutations(Workers) \cup Permutations(Listers)
=============================================================================

---------------------------- MODULE MCNoteIndex -----------------------------
EXTENDS NoteIndex, TLC

NoteSymmetry == Permutations(Credentials) \cup Permutations(Workers)
=============================================================================

---------------------------- MODULE MCUndoHistory ----------------------------
EXTENDS UndoHistory, TLC

Symmetry == Permutations(File) \cup Permutations(Path)
==============================================================================

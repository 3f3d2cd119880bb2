--------------------------- MODULE MCTaskManager ---------------------------
EXTENDS TaskManager

\* Processing workers are interchangeable.
Symmetry == Permutations(Workers)

=============================================================================

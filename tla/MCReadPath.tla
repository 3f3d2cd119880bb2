----------------------------- MODULE MCReadPath -----------------------------
EXTENDS ReadPath, TLC

\* Readonly workers are interchangeable.
Symmetry == Permutations(Workers)

=============================================================================

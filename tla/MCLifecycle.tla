---------------------------- MODULE MCLifecycle ----------------------------
EXTENDS Lifecycle

\* Processing workers are interchangeable.
Symmetry == Permutations(Workers)

=============================================================================

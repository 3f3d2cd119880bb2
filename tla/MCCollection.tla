---------------------------- MODULE MCCollection ----------------------------
EXTENDS Collection

\* Documents are interchangeable, and so are category ids, field names,
\* field configurations and pipe definitions.
Symmetry ==
    Permutations(Docs) \cup Permutations(Categories) \cup Permutations(Fields)
        \cup Permutations(Configs) \cup Permutations(Pipes)

=============================================================================

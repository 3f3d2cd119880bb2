SPECIFICATION Spec
CONSTANTS
    Categories = {child, parent, grand}
    Docs = {d0}
    Fields = {store, store2}
    Configs = {a, b}
    Pipes = {p1, p2}
    NULL = NULL
SYMMETRY Symmetry
INVARIANT TypeOK
PROPERTY CategoryEditsReachTheDocuments

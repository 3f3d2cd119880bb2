------------------------------ MODULE Taxonomy ------------------------------
(***************************************************************************)
(* A taxonomy of a collection and the category terms of the documents in   *)
(* its index, as TEST(CollectionCategory) of src/unittests/collection.cc   *)
(* shows them: a taxonomy gives every category its parents; a document     *)
(* with a category field has a C term for each category it names and an A  *)
(* term for each ancestor of one of them; an edit of the taxonomy changes  *)
(* the A terms of the documents that are already in the index.  The        *)
(* Collection that has the taxonomy and the index is module Collection.    *)
(***************************************************************************)
EXTENDS Naturals, FiniteSets, Relation, TLC

CONSTANTS
    Categories,     \* category ids
    Docs            \* document ids

VARIABLES
    taxonomy,   \* taxonomy[cat]: the parents of cat, as to_json shows them
    terms       \* terms[doc]: the C and the A terms of doc in the index

vars == <<taxonomy, terms>>

-----------------------------------------------------------------------------
(* Taxonomy *)

Parents(tax, cat) == IF cat \in DOMAIN tax THEN tax[cat] ELSE {}

RECURSIVE Ancestors(_, _)
Ancestors(tax, cat) ==
    Parents(tax, cat) \cup UNION {Ancestors(tax, p) : p \in Parents(tax, cat)}

Descendants(tax, cat) == {d \in DOMAIN tax : cat \in Ancestors(tax, d)}

\* The categories whose documents an edit at cat concerns.
Modified(tax, cat) == {cat} \cup Descendants(tax, cat)

add_parent(tax, cat_id, parent_id) ==
    [c \in DOMAIN tax \cup {cat_id, parent_id} |->
        Parents(tax, c) \cup (IF c = cat_id THEN {parent_id} ELSE {})]

remove_keeps_the_links(tax, cat_id) ==
    [c \in DOMAIN tax \ {cat_id} |-> tax[c]]

remove(tax, cat_id) ==
    [c \in DOMAIN tax \ {cat_id} |-> tax[c] \ {cat_id}]

-----------------------------------------------------------------------------
(* Collection *)

\* What process_doc makes of a category field that names cats.
CategoryTerms(tax, cats) ==
    [C |-> cats, A |-> UNION {Ancestors(tax, c) : c \in cats}]

\* The index after the documents of the modified categories got their
\* terms anew.
Reindexed(tax, modified) ==
    [doc \in DOMAIN terms |->
        IF terms[doc].C \cap modified = {} THEN terms[doc]
        ELSE CategoryTerms(tax, terms[doc].C)]

\* process_doc and raw_update_doc: the document is stored with its terms.
raw_update_doc(doc, cats) ==
    /\ terms' = (doc :> CategoryTerms(taxonomy, cats)) @@ terms
    /\ UNCHANGED taxonomy

category_add_parent_of_the_child_only(cat_id, parent_id) ==
    /\ cat_id \notin {parent_id} \cup Ancestors(taxonomy, parent_id)
    /\ taxonomy' = add_parent(taxonomy, cat_id, parent_id)
    /\ terms' = Reindexed(taxonomy', {cat_id})

\* A category is not made its own ancestor.
category_add_parent(cat_id, parent_id) ==
    /\ cat_id \notin {parent_id} \cup Ancestors(taxonomy, parent_id)
    /\ taxonomy' = add_parent(taxonomy, cat_id, parent_id)
    /\ terms' = Reindexed(taxonomy', Modified(taxonomy, cat_id))

category_remove(cat_id) ==
    /\ cat_id \in DOMAIN taxonomy
    /\ taxonomy' = remove(taxonomy, cat_id)
    /\ terms' = Reindexed(taxonomy', Modified(taxonomy, cat_id))

-----------------------------------------------------------------------------

\* from_json with "taxonomies":{"Foo":{}} and an empty index.
Init ==
    /\ taxonomy = <<>>
    /\ terms = <<>>

-----------------------------------------------------------------------------
(* Properties *)

TypeOK ==
    /\ DOMAIN taxonomy \subseteq Categories
    /\ \A c \in DOMAIN taxonomy : taxonomy[c] \subseteq DOMAIN taxonomy
    /\ DOMAIN terms \subseteq Docs
    /\ \A doc \in DOMAIN terms :
           terms[doc] \in [C : SUBSET Categories, A : SUBSET Categories]

\* The ancestor relation of a taxonomy, as the transitive closure of its
\* parent relation.
IsAncestor(tax) ==
    TransitiveClosure([c, p \in Categories |-> p \in Parents(tax, c)],
                      Categories)

\* The A terms of a document are the ancestors its categories have in tax.
Carries(tax, docterms) ==
    docterms.A = {a \in Categories :
                     \E c \in docterms.C : IsAncestor(tax)[c, a]}

=============================================================================

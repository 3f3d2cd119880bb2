----------------------------- MODULE Collection -----------------------------
(***************************************************************************)
(* A Collection object as its unit tests drive it                          *)
(* (src/unittests/collection.cc): it is closed, open for reading or open   *)
(* for writing; its config has the schema of the fields, the pipes and the *)
(* taxonomy; its index has the documents with their category terms         *)
(* (module Taxonomy).  A call that the mode or the argument does not allow *)
(* throws, and the tests check that the collection is then as it was.      *)
(*                                                                         *)
(* close() of a writer leaves everything where a later open_readonly()     *)
(* finds it (TEST(CollectionSchemas), TEST(CollectionPipes)), so the       *)
(* variables stand for the stored collection while it is closed.           *)
(***************************************************************************)
EXTENDS Naturals, FiniteSets, TLC

CONSTANTS
    Categories,     \* category ids
    Docs,           \* document ids
    Fields,         \* field names of the type "default"
    Configs,        \* field configurations
    Pipes,          \* definitions of the pipe "default"
    NULL

VARIABLES
    mode,       \* "closed", "readonly" or "writable"
    schema,     \* schema[field]: the configuration of the field
    pipe,       \* the pipe "default", or NULL
    taxonomy,   \* the taxonomy "Foo"
    terms,      \* the category terms of the documents in the index
    last        \* the last call and the exception it threw, or NULL

Tax == INSTANCE Taxonomy

content == <<schema, pipe, taxonomy, terms>>
vars == <<mode, content, last>>

Schemas == UNION {[F -> Configs] : F \in SUBSET Fields}

\* A config document: "" and "{}" have no format; the others are
\* {"format": 3, ...} with types and pipes, and no category in a taxonomy.
NoFormat == [format |-> NULL, schema |-> <<>>, pipe |-> NULL]
Documents ==
    {NoFormat} \cup [format : {3}, schema : Schemas, pipe : Pipes \cup {NULL}]

-----------------------------------------------------------------------------

Returns(call) == last' = [call |-> call, thrown |-> NULL]

\* CHECK_THROW: the call ends in the exception, and nothing has changed.
Throws(call, error) ==
    /\ last' = [call |-> call, thrown |-> error]
    /\ UNCHANGED <<mode, content>>

\* Every call that changes the collection wants it open for writing.
Refused(call) == mode # "writable" /\ Throws(call, "InvalidStateError")
Writes(call) == mode = "writable" /\ Returns(call) /\ UNCHANGED mode

open_writable ==
    /\ mode = "closed"
    /\ mode' = "writable"
    /\ Returns("open_writable")
    /\ UNCHANGED content

\* Also the reopen of a reader, as the pool does it.
open_readonly ==
    /\ mode # "writable"
    /\ mode' = "readonly"
    /\ Returns("open_readonly")
    /\ UNCHANGED content

close ==
    /\ mode # "closed"
    /\ mode' = "closed"
    /\ Returns("close")
    /\ UNCHANGED content

\* get_schema, get_pipe, to_json and doc_count alike.
get_schema ==
    \/ mode = "closed" /\ Throws("get_schema", "InvalidStateError")
    \/ mode # "closed" /\ Returns("get_schema") /\ UNCHANGED <<mode, content>>

\* The new config replaces the old one as a whole.  The tests do not show
\* which of the two checks a reader makes first.
from_json(doc) ==
    \/ /\ doc.format = NULL
       /\ \E error \in {"InvalidValueError"}
              \cup (IF mode = "writable" THEN {} ELSE {"InvalidStateError"}) :
              Throws("from_json", error)
    \/ doc.format # NULL /\ Refused("from_json")
    \/ /\ doc.format # NULL
       /\ Writes("from_json")
       /\ schema' = doc.schema
       /\ pipe' = doc.pipe
       /\ taxonomy' = <<>>
       /\ UNCHANGED terms

\* The schema is merged into the one the type has: a new field is added,
\* and a field that is there keeps its configuration.
set_schema(field, config) ==
    LET conflict == field \in DOMAIN schema /\ schema[field] # config IN
    \/ Refused("set_schema")
    \/ mode = "writable" /\ conflict /\ Throws("set_schema", "InvalidValueError")
    \/ /\ ~conflict
       /\ Writes("set_schema")
       /\ schema' = (field :> config) @@ schema
       /\ UNCHANGED <<pipe, taxonomy, terms>>

\* A pipe may be changed.
set_pipe(p) ==
    \/ Refused("set_pipe")
    \/ /\ Writes("set_pipe")
       /\ pipe' = p
       /\ UNCHANGED <<schema, taxonomy, terms>>

\* A copy of the taxonomy, edited with add_parent, replaces the taxonomy;
\* the categories add_parent found modified are not passed on.
set_taxonomy(cat_id, parent_id) ==
    \/ Refused("set_taxonomy")
    \/ /\ Writes("set_taxonomy")
       /\ cat_id \notin {parent_id} \cup Tax!Ancestors(taxonomy, parent_id)
       /\ taxonomy' = Tax!add_parent(taxonomy, cat_id, parent_id)
       /\ UNCHANGED <<schema, pipe, terms>>

raw_update_doc(doc, cats) ==
    \/ Refused("raw_update_doc")
    \/ /\ Writes("raw_update_doc")
       /\ Tax!raw_update_doc(doc, cats)
       /\ UNCHANGED <<schema, pipe>>

category_add_parent(cat_id, parent_id) ==
    \/ Refused("category_add_parent")
    \/ /\ Writes("category_add_parent")
       /\ Tax!category_add_parent(cat_id, parent_id)
       /\ UNCHANGED <<schema, pipe>>

category_remove(cat_id) ==
    \/ Refused("category_remove")
    \/ /\ Writes("category_remove")
       /\ Tax!category_remove(cat_id)
       /\ UNCHANGED <<schema, pipe>>

-----------------------------------------------------------------------------

\* Collection c("test", path): a new object on an empty directory.
Init ==
    /\ mode = "closed"
    /\ schema = <<>>
    /\ pipe = NULL
    /\ Tax!Init
    /\ last = [call |-> "Collection", thrown |-> NULL]

Config ==
    \/ \E doc \in Documents : from_json(doc)
    \/ \E field \in Fields, config \in Configs : set_schema(field, config)
    \/ \E p \in Pipes : set_pipe(p)
    \/ get_schema

Index ==
    \/ \E doc \in Docs, cats \in SUBSET Categories : raw_update_doc(doc, cats)
    \/ \E cat_id, parent_id \in Categories :
           \/ category_add_parent(cat_id, parent_id)
           \/ set_taxonomy(cat_id, parent_id)
    \/ \E cat_id \in Categories : category_remove(cat_id)

Next == open_writable \/ open_readonly \/ close \/ Config \/ Index

Spec == Init /\ [][Next]_vars

-----------------------------------------------------------------------------
(* Properties *)

TypeOK ==
    /\ mode \in {"closed", "readonly", "writable"}
    /\ schema \in Schemas
    /\ pipe \in Pipes \cup {NULL}
    /\ Tax!TypeOK
    /\ last.thrown \in {NULL, "InvalidValueError", "InvalidStateError"}

IndexCalls == {"category_add_parent", "category_remove", "raw_update_doc"}

\* category_add_parent and category_remove take their change to the
\* documents that are in the index already, and raw_update_doc stores a
\* document with the ancestors of the taxonomy as it is: a document whose
\* A terms were the ancestors of its categories before such a call has
\* the ancestors of its categories after it, the categories far below the
\* edited one included.  (from_json and set_taxonomy replace the taxonomy
\* and leave the documents as they are.)
CategoryEditsReachTheDocuments ==
    [][last'.thrown = NULL /\ last'.call \in IndexCalls =>
          \A doc \in DOMAIN terms' :
              (doc \in DOMAIN terms => Tax!Carries(taxonomy, terms[doc]))
                  => Tax!Carries(taxonomy', terms'[doc])]_vars

=============================================================================

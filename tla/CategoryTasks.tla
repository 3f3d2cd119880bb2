---------------------------- MODULE CategoryTasks ----------------------------
(***************************************************************************)
(* The readonly tasks that answer questions about the category hierarchies *)
(* of a collection (src/src/features/category_tasks.cc, the perform        *)
(* methods of the readonly tasks).  A readonly worker runs perform on      *)
(* the Collection it borrowed; perform looks the hierarchy and the         *)
(* category up and writes the answer and its status code to the task's     *)
(* result handle.                                                          *)
(*                                                                         *)
(* The hierarchies of the collection are a function from hierarchy names   *)
(* to functions from categories to their sets of parents; the graph        *)
(* algorithms behind them are not part of this module.                     *)
(*                                                                         *)
(* The module has the operations only.  CategoryReadPath gives them their  *)
(* Collection (a reader's snapshot, or the writer) and has the             *)
(* specification and the properties.                                       *)
(***************************************************************************)
EXTENDS Naturals, FiniteSets, TLC

CONSTANTS
    Requests,       \* the tasks a worker is given, one result handle each
    Hierarchies,    \* hierarchy names
    Categories,     \* category ids
    NULL

VARIABLES
    hierarchies,    \* what get_category_hierarchy reads
    resulthandle,   \* resulthandle[r]: status code and number of set_ready
    crashed         \* the server process has died

-----------------------------------------------------------------------------
(* Collection *)

get_category_hierarchy(hierarchy_name) ==
    IF hierarchy_name \in DOMAIN hierarchies
    THEN hierarchies[hierarchy_name] ELSE NULL

find(hier, cat_id) ==
    IF cat_id \in DOMAIN hier THEN hier[cat_id] ELSE NULL

\* The hierarchy after add_parent: both categories are in it, and parent_id
\* is a parent of cat_id.
WithParent(hier, cat_id, parent_id) ==
    [c \in DOMAIN hier \cup {cat_id, parent_id} |->
        (IF c \in DOMAIN hier THEN hier[c] ELSE {})
            \cup (IF c = cat_id THEN {parent_id} ELSE {})]

\* The writer of the collection adds a parent, to a hierarchy it makes if
\* there is none of that name.
category_add_parent(hierarchy_name, cat_id, parent_id) ==
    /\ ~crashed
    /\ cat_id # parent_id
    /\ hierarchies' =
           (hierarchy_name :>
                WithParent(IF hierarchy_name \in DOMAIN hierarchies
                           THEN hierarchies[hierarchy_name] ELSE <<>>,
                           cat_id, parent_id))
           @@ hierarchies
    /\ UNCHANGED <<resulthandle, crashed>>

-----------------------------------------------------------------------------
(* perform *)

Pending(r) == ~crashed /\ resulthandle[r].ready = 0

\* resulthandle.response().set(result, code); resulthandle.set_ready();
Answered(handles, r, code) ==
    [handles EXCEPT ![r] = [code |-> code, ready |-> @.ready + 1]]

Answer(r, code) ==
    /\ resulthandle' = Answered(resulthandle, r, code)
    /\ UNCHANGED <<hierarchies, crashed>>

CollGetCategoryHierarchiesTask_perform(r) ==
    /\ Pending(r)
    /\ Answer(r, 200)

CollGetCategoryHierarchyTask_perform_bad_request(r, hierarchy_name) ==
    /\ Pending(r)
    /\ Answer(r, IF get_category_hierarchy(hierarchy_name) = NULL
                 THEN 400 ELSE 200)

CollGetCategoryHierarchyTask_perform(r, hierarchy_name) ==
    /\ Pending(r)
    /\ Answer(r, IF get_category_hierarchy(hierarchy_name) = NULL
                 THEN 404 ELSE 200)

CollGetCategoryTask_perform(r, hierarchy_name, cat_id) ==
    LET hier == get_category_hierarchy(hierarchy_name) IN
    /\ Pending(r)
    /\ Answer(r, IF hier = NULL \/ find(hier, cat_id) = NULL
                 THEN 404 ELSE 200)

CollGetCategoryParentTask_perform_any_parent(r, hierarchy_name, cat_id, parent_id) ==
    LET hier == get_category_hierarchy(hierarchy_name) IN
    /\ Pending(r)
    /\ \/ /\ hier = NULL
          /\ resulthandle' \in {resulthandle, Answered(resulthandle, r, 404)}
          /\ crashed' = TRUE
          /\ UNCHANGED hierarchies
       \/ /\ hier # NULL
          /\ Answer(r, IF find(hier, cat_id) = NULL THEN 404 ELSE 200)

CollGetCategoryParentTask_perform_no_return(r, hierarchy_name, cat_id, parent_id) ==
    LET hier == get_category_hierarchy(hierarchy_name) IN
    /\ Pending(r)
    /\ hier # NULL
    /\ UNCHANGED <<hierarchies, crashed>>
    /\ resulthandle' =
           IF find(hier, cat_id) = NULL
           THEN Answered(resulthandle, r, 404)
           ELSE IF parent_id \notin find(hier, cat_id)
           THEN Answered(Answered(resulthandle, r, 404), r, 200)
           ELSE Answered(resulthandle, r, 200)

\* With no hierarchy of that name the 404 is set and perform goes on to
\* hier->find() with hier = NULL: the process dies in it, with the 404 set
\* or (the compiler may take hier for non-null) with nothing set.
CollGetCategoryParentTask_perform(r, hierarchy_name, cat_id, parent_id) ==
    LET hier == get_category_hierarchy(hierarchy_name) IN
    /\ Pending(r)
    /\ \/ /\ hier = NULL
          /\ resulthandle' \in {resulthandle, Answered(resulthandle, r, 404)}
          /\ crashed' = TRUE
          /\ UNCHANGED hierarchies
       \/ /\ hier # NULL
          /\ Answer(r, IF find(hier, cat_id) = NULL
                          \/ parent_id \notin find(hier, cat_id)
                       THEN 404 ELSE 200)

=============================================================================

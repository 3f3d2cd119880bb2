-------------------------- MODULE CategoryReadPath --------------------------
(***************************************************************************)
(* The category tasks of src/src/features/category_tasks.cc at work: a     *)
(* client asks about a hierarchy, a category or a parent; a readonly       *)
(* worker of ReadPath borrows a reader from the CollectionPool and runs    *)
(* the task's perform on it; the indexing worker of the collection runs    *)
(* CollPutCategoryParentTask::perform_task on the writer and commits.      *)
(*                                                                         *)
(* A reader shows the hierarchies as they were at the commit it was opened *)
(* at.  The module has one collection; the handlers of the category tasks  *)
(* are not in the sources, and their requests go to the queue "info".      *)
(***************************************************************************)
EXTENDS ReadPath

CONSTANTS
    Hierarchies,    \* hierarchy names
    CategoryIds,    \* category ids
    MaxLinks        \* bound: parents that clients add, over all categories

ASSUME Cardinality(Collections) = 1

VARIABLES
    asked,          \* asked[id]: what request id asks about
    resulthandle,   \* resulthandle[id]: status code and number of set_ready
    crashed,        \* the server process has died
    working,        \* the hierarchies in the writer of the collection
    snapshots       \* snapshots[n + 1]: the hierarchies at commit n

catVars == <<asked, resulthandle, crashed, working, snapshots>>
allVars == <<vars, catVars>>

TheCollection == CHOOSE c \in Collections : TRUE

\* The tasks on the Collection coll: a reader, or the writer.
On(coll) ==
    INSTANCE CategoryTasks
        WITH hierarchies <- coll, Requests <- Ids,
             Categories <- CategoryIds

Nothing == [hierarchy |-> NULL, cat |-> NULL, parent |-> NULL]

Questions ==
    [task : {"CollGetCategoryHierarchiesTask"}, about : {Nothing}]
    \cup [task : {"CollGetCategoryHierarchyTask"},
          about : [hierarchy : Hierarchies, cat : {NULL}, parent : {NULL}]]
    \cup [task : {"CollGetCategoryTask"},
          about : [hierarchy : Hierarchies, cat : CategoryIds, parent : {NULL}]]
    \cup [task : {"CollGetCategoryParentTask"},
          about : [hierarchy : Hierarchies, cat : CategoryIds,
                   parent : CategoryIds]]

\* The links from a category to a parent in the hierarchies coll.
Links(coll) ==
    UNION {UNION {{<<h, c, p>> : p \in coll[h][c]} : c \in DOMAIN coll[h]} :
           h \in DOMAIN coll}

\* What the Collection of worker w shows.
Shown(w) == snapshots[heap[Reader(w)].view + 1]

-----------------------------------------------------------------------------
(* The client and the readonly worker *)

Ask(q) ==
    /\ ~crashed
    /\ queue_readonly("info", q.task, TheCollection)
    /\ asked' = Append(asked, q.about)
    /\ UNCHANGED <<resulthandle, crashed, working, snapshots>>

Take(w) ==
    /\ ~crashed
    /\ Dequeue(w, "info")
    /\ UNCHANGED catVars

\* get_readonly; when it throws (a resource error) the worker puts the
\* error in the result handle, here as 500, and goes on to the next task.
BorrowReader(w) ==
    LET id == serving[w].id IN
    /\ ~crashed
    /\ Busy(w, "borrow")
    /\ Pool!get_readonly(w, TheCollection)
    /\ IF held'[w] = {}
       THEN /\ resulthandle' = On(<<>>)!Answered(resulthandle, id, 500)
            /\ requests' = Answered(id, 500, 0)
            /\ serving' = [serving EXCEPT ![w] = Idle]
       ELSE /\ serving' = [serving EXCEPT ![w].pc = "perform"]
            /\ UNCHANGED <<requests, resulthandle>>
    /\ UNCHANGED <<queues, asked, crashed, working, snapshots>>

\* task->perform(collection) on the reader the worker holds.
perform(w) ==
    LET id == serving[w].id
        about == asked[id]
    IN
    /\ Busy(w, "perform")
    /\ UNCHANGED <<queues, poolVars, asked, working, snapshots>>
    /\ CASE requests[id].task = "CollGetCategoryHierarchiesTask" ->
                On(Shown(w))!CollGetCategoryHierarchiesTask_perform(id)
         [] requests[id].task = "CollGetCategoryHierarchyTask" ->
                On(Shown(w))!CollGetCategoryHierarchyTask_perform(
                    id, about.hierarchy)
         [] requests[id].task = "CollGetCategoryTask" ->
                On(Shown(w))!CollGetCategoryTask_perform(
                    id, about.hierarchy, about.cat)
         [] requests[id].task = "CollGetCategoryParentTask" ->
                On(Shown(w))!CollGetCategoryParentTask_perform(
                    id, about.hierarchy, about.cat, about.parent)
    /\ requests' = Answered(id, resulthandle'[id].code, heap[Reader(w)].view)
    /\ serving' = [serving EXCEPT ![w].pc = "release"]

GiveBackReader(w) ==
    /\ ~crashed
    /\ Release(w)
    /\ UNCHANGED catVars

-----------------------------------------------------------------------------
(* The indexing worker *)

\* CollPutCategoryParentTask::perform_task: the writer is borrowed if the
\* worker has none, and the parent is added; when get_writable throws the
\* task ends there.
perform_task(hierarchy_name, cat_id, parent_id) ==
    /\ ~crashed
    /\ IF held[Writer] = {}
       THEN Pool!get_writable(Writer, TheCollection)
       ELSE UNCHANGED poolVars
    /\ IF held'[Writer] = {}
       THEN UNCHANGED <<working, resulthandle, crashed>>
       ELSE On(working)!category_add_parent(hierarchy_name, cat_id, parent_id)
    /\ UNCHANGED <<readVars, asked, snapshots>>

\* A checkpoint with commit: what the writer has is what readers open.
commit ==
    /\ ~crashed
    /\ \E h \in held[Writer] : Pool!Commit(Writer, h)
    /\ snapshots' = Append(snapshots, working)
    /\ UNCHANGED <<readVars, asked, resulthandle, crashed, working>>

WriterRelease ==
    /\ ~crashed
    /\ \E h \in held[Writer] : Pool!release(Writer, h)
    /\ UNCHANGED <<readVars, catVars>>

-----------------------------------------------------------------------------

CatInit ==
    /\ Init
    /\ asked = <<>>
    /\ resulthandle = [id \in Ids |-> [code |-> 0, ready |-> 0]]
    /\ crashed = FALSE
    /\ working = <<>>
    /\ snapshots = << <<>> >>

Worker(w) == Take(w) \/ BorrowReader(w) \/ perform(w) \/ GiveBackReader(w)

\* The category edits that clients send, MaxLinks parents at most.
PutCategoryParent ==
    /\ Cardinality(Links(working)) < MaxLinks
    /\ \E h \in Hierarchies, cat_id, parent_id \in CategoryIds :
           perform_task(h, cat_id, parent_id)

Indexer == PutCategoryParent \/ commit \/ WriterRelease

\* A process that has died takes no step: every action has ~crashed.
CatNext ==
    \/ \E q \in Questions : Ask(q)
    \/ \E w \in Workers : Worker(w)
    \/ Indexer

CatSpec == CatInit /\ [][CatNext]_allVars

-----------------------------------------------------------------------------
(* Properties *)

CatTypeOK ==
    /\ Pool!TypeOK
    /\ Len(requests) <= MaxRequests
    /\ \A id \in DOMAIN requests :
           /\ [task |-> requests[id].task, about |-> asked[id]] \in Questions
           /\ requests[id].code \in {0, 200, 404, 500, 503}
           /\ requests[id].seen \in 0 .. MaxCommits
           /\ requests[id].view \in 0 .. MaxCommits
    /\ DOMAIN asked = DOMAIN requests
    /\ queues \in [Categories -> Seq(Ids)]
    /\ serving \in [Workers -> [id : Ids \cup {0},
                                pc : {"idle", "borrow", "perform", "release"}]]
    /\ resulthandle \in [Ids -> [code : {0, 200, 404, 500}, ready : 0 .. 2]]
    /\ crashed \in BOOLEAN
    /\ Len(snapshots) = committed[TheCollection] + 1
    /\ \A coll \in {working} \cup Range(snapshots) :
           /\ DOMAIN coll \subseteq Hierarchies
           /\ \A h \in DOMAIN coll :
                  coll[h] \in [DOMAIN coll[h] -> SUBSET DOMAIN coll[h]]
                      /\ DOMAIN coll[h] \subseteq CategoryIds

\* A result handle is made ready once, by perform or by the worker that
\* could not borrow a reader, never by both and never twice on one path
\* through perform: the client that waits on the handle does not see an
\* answer replaced by another.
ResultSetOnce == \A id \in Ids : resulthandle[id].ready <= 1

\* "Per-task execution errors ... do not crash the worker or stop the
\* queue": a question about something that is not there is answered 404
\* by its perform method and the server goes on.
TaskErrorsLeaveServerRunning == ~crashed

\* What a question asks about is in the hierarchies coll.
Known(coll, task, about) ==
    LET hier == IF about.hierarchy \in DOMAIN coll
                THEN coll[about.hierarchy] ELSE <<>>
    IN CASE task = "CollGetCategoryHierarchiesTask" -> TRUE
         [] task = "CollGetCategoryHierarchyTask" ->
                about.hierarchy \in DOMAIN coll
         [] task = "CollGetCategoryTask" -> about.cat \in DOMAIN hier
         [] task = "CollGetCategoryParentTask" ->
                about.cat \in DOMAIN hier /\ about.parent \in hier[about.cat]

\* The round trip of a category edit: an answer of 404 from perform is
\* about something that was not committed when the question came in, and an
\* answer of 200 about something that is committed.  A client that saw its
\* checkpoint reached and then asks for the parent it added is not told
\* "not found", whether CollGetCategoryParentTask::perform runs on a new
\* reader or on one that lay in the pool's cache during the commit.  (That
\* a reader shows a committed snapshot is Shown, the engine's isolation,
\* and assumed; what the property tests is which snapshot get_readonly
\* hands to perform, and what perform answers from it.)
AnswersAgreeWithCommits ==
    \A id \in DOMAIN requests :
        LET asks(coll) == Known(coll, requests[id].task, asked[id]) IN
        /\ requests[id].code = 200 => asks(snapshots[Len(snapshots)])
        /\ requests[id].code = 404 => ~asks(snapshots[requests[id].seen + 1])

=============================================================================

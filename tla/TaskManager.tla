----------------------------- MODULE TaskManager -----------------------------
(***************************************************************************)
(* The write path of the server: requests are admitted to the processing   *)
(* queue or the indexing queue of a collection, processing workers turn a  *)
(* processing task into an indexing task, and the one indexing worker of   *)
(* the collection applies indexing tasks and checkpoints to the writable   *)
(* Collection it borrows from the CollectionPool.                          *)
(*                                                                         *)
(* From the source: the enqueue methods of the handlers                    *)
(* (src/src/rest/handlers.cc), the contract of create_checkpoint           *)
(* (src/src/features/checkpoint_handlers.h) and the two halves of the      *)
(* category edit (src/src/features/category_tasks.cc).  The queues, the    *)
(* worker loops and the checkpoint registry are not in the repository's    *)
(* sources; they follow the design document.                               *)
(***************************************************************************)
EXTENDS Naturals, FiniteSets, SequencesExt, TaskQueue

CONSTANTS
    Collections,    \* collection names
    Handles,        \* addresses of Collection objects
    Workers,        \* threads that drain the processing queues
    Edits,          \* category edits: (hierarchy_name, cat_id, parent_id)
    MaxTasks,       \* bound: requests submitted in a behaviour
    NULL

ASSUME /\ Workers # {} /\ Edits # {}
       /\ MaxTasks \in Nat \ {0}
       /\ NULL \notin Workers \cup Edits \cup BOOLEAN

VARIABLES
    tasks,        \* every request so far, in the order of submission
    processing,   \* processing[c]: the processing queue of c (task ids)
    indexing,     \* indexing[c]: the indexing queue of c (task ids)
    running,      \* running[w]: what processing worker w is in the middle of
    current,      \* current[c]: the task the indexing worker of c has taken
    collection,   \* collection[c]: the Collection * of the indexing worker
    collconfigs,  \* collconfigs[c]: the category edits in the config of c
    applied,      \* applied[c]: the tasks whose change the index of c has
    durable,      \* durable[c]: those of them a commit has flushed
    checkpoints,  \* checkpoints[c]: checkid -> [commit, reached]
    failed,       \* indexing tasks that ended in a resource error
    log           \* log[c]: every task ever put on indexing[c], in order

VARIABLES readonly, writable, constructed, heap, held, dirs, committed

managerVars == <<tasks, processing, indexing, running, current, collection,
                 collconfigs, applied, durable, checkpoints, failed, log>>
poolVars == <<readonly, writable, constructed, heap, held, dirs, committed>>
vars == <<managerVars, poolVars>>

\* The pool all workers share.  The indexing worker of c borrows under the
\* name c; it holds at most one object, and a commit needs a request.
Pool == INSTANCE CollectionPool
            WITH Threads <- Collections,
                 max_cached_readers_per_collection <- 1,
                 MaxHeld <- 1,
                 MaxCommits <- MaxTasks

-----------------------------------------------------------------------------
(* Requests *)

Kinds == {"create", "document", "category", "checkpoint"}

\* A request and what became of it: the QueueState its submitter got, and
\* the outcome a processing worker reports once it is done with it.
Request(kind, c, arg, allow_throttle, state) ==
    [kind |-> kind, coll |-> c, arg |-> arg,
     allow_throttle |-> allow_throttle, state |-> state, result |-> "pending"]

NewTask == Len(tasks) + 1

Reported(id, outcome) == [tasks EXCEPT ![id].result = outcome]

-----------------------------------------------------------------------------
(* TaskManager::queue_* *)

queue_processing(c, kind, arg, allow_throttle) ==
    /\ Len(tasks) < MaxTasks
    /\ tasks' = Append(tasks, Request(kind, c, arg, allow_throttle,
                                      Admission(processing[c], allow_throttle)))
    /\ processing' = [processing EXCEPT ![c] = push(@, NewTask, allow_throttle)]

queue_indexing(c, kind, arg, allow_throttle) ==
    LET state == Admission(indexing[c], allow_throttle) IN
    /\ Len(tasks) < MaxTasks
    /\ tasks' = Append(tasks, Request(kind, c, arg, allow_throttle, state))
    /\ indexing' = [indexing EXCEPT ![c] = push(@, NewTask, allow_throttle)]
    /\ log' = IF state = "OK" THEN [log EXCEPT ![c] = Append(@, NewTask)] ELSE log

\* Not an external submission: no admission check.
queue_indexing_from_processing(c, id) ==
    /\ indexing' = [indexing EXCEPT ![c] = Append(@, id)]
    /\ log' = [log EXCEPT ![c] = Append(@, id)]

-----------------------------------------------------------------------------
(* Handlers *)

IndexDocumentHandler_enqueue(c) ==
    /\ queue_processing(c, "document", NULL, FALSE)
    /\ UNCHANGED <<indexing, running, current, collection, collconfigs,
                   applied, durable, checkpoints, failed, log, poolVars>>

CollCreateHandler_enqueue(c) ==
    /\ Len(tasks) < MaxTasks
    /\ tasks' = Append(tasks, Request("create", c, NULL, FALSE, "FULL"))
    /\ UNCHANGED <<processing, indexing, running, current, collection,
                   collconfigs, applied, durable, checkpoints, failed, log,
                   poolVars>>

\* The handler that submits a ProcessingCollPutCategoryParentTask: a push
\* to the API, which is not throttled.
PutCategoryParent(c, edit) ==
    /\ queue_processing(c, "category", edit, FALSE)
    /\ UNCHANGED <<indexing, running, current, collection, collconfigs,
                   applied, durable, checkpoints, failed, log, poolVars>>

\* The registry of c once the task of a new checkpoint got the answer state.
Registered(c, do_commit, state) ==
    IF state = "OK"
    THEN [checkpoints EXCEPT ![c] =
              @ @@ (NewTask :> [commit |-> do_commit, reached |-> FALSE])]
    ELSE checkpoints

create_checkpoint_jumps_queue(c, do_commit, allow_throttle) ==
    LET state == Admission(indexing[c], allow_throttle) IN
    /\ Len(tasks) < MaxTasks
    /\ tasks' = Append(tasks, Request("checkpoint", c, do_commit,
                                      allow_throttle, state))
    /\ indexing' = IF state = "OK"
                   THEN [indexing EXCEPT ![c] = <<NewTask>> \o @]
                   ELSE indexing
    /\ log' = IF state = "OK" THEN [log EXCEPT ![c] = Append(@, NewTask)] ELSE log
    /\ checkpoints' = Registered(c, do_commit, state)
    /\ UNCHANGED <<processing, running, current, collection, collconfigs,
                   applied, durable, failed, poolVars>>

create_checkpoint_drops_do_commit(c, do_commit, allow_throttle) ==
    /\ queue_indexing(c, "checkpoint", FALSE, allow_throttle)
    /\ checkpoints' = Registered(c, do_commit,
                                 Admission(indexing[c], allow_throttle))
    /\ UNCHANGED <<processing, running, current, collection, collconfigs,
                   applied, durable, failed, poolVars>>

\* The checkid is the id of the request; the checkpoint is pending from the
\* moment its task is admitted.
create_checkpoint(c, do_commit, allow_throttle) ==
    /\ queue_indexing(c, "checkpoint", do_commit, allow_throttle)
    /\ checkpoints' = Registered(c, do_commit,
                                 Admission(indexing[c], allow_throttle))
    /\ UNCHANGED <<processing, running, current, collection, collconfigs,
                   applied, durable, failed, poolVars>>

get_checkpoint(c, checkid) ==
    CASE checkid \notin DOMAIN checkpoints[c] -> "not_found"
      [] checkpoints[c][checkid].reached      -> "reached"
      [] OTHER                                -> "pending"

-----------------------------------------------------------------------------
(* Processing workers *)

Idle == [id |-> 0, pc |-> "idle", config |-> {}]

At(w, kind, pc) ==
    /\ running[w].pc = pc
    /\ tasks[running[w].id].kind = kind

Goto(w, pc) == [running EXCEPT ![w].pc = pc]

\* The worker loop takes the next task of a processing queue.
Dequeue(w, c) ==
    /\ running[w] = Idle
    /\ processing[c] # <<>>
    /\ running' = [running EXCEPT ![w] =
                       [id |-> front(processing[c]), pc |-> "perform",
                        config |-> {}]]
    /\ processing' = [processing EXCEPT ![c] = pop(@)]
    /\ UNCHANGED <<tasks, indexing, current, collection, collconfigs, applied,
                   durable, checkpoints, failed, log, poolVars>>

\* ProcessorProcessDocumentTask: the pipeline yields the indexing task of
\* the document, or rejects the document.
ProcessDocument(w) ==
    LET id == running[w].id IN
    /\ At(w, "document", "perform")
    /\ \/ /\ queue_indexing_from_processing(tasks[id].coll, id)
          /\ running' = Goto(w, "complete")
          /\ UNCHANGED tasks
       \/ /\ tasks' = Reported(id, "error")
          /\ running' = [running EXCEPT ![w] = Idle]
          /\ UNCHANGED <<indexing, log>>
    /\ UNCHANGED <<processing, current, collection, collconfigs, applied,
                   durable, checkpoints, failed, poolVars>>

\* ProcessingCollPutCategoryParentTask::perform, first statement: a copy of
\* the collection's config.
perform_get(w) ==
    /\ At(w, "category", "perform")
    /\ running' = [running EXCEPT
                       ![w].config = collconfigs[tasks[running[w].id].coll],
                       ![w].pc = "set"]
    /\ UNCHANGED <<tasks, processing, indexing, current, collection,
                   collconfigs, applied, durable, checkpoints, failed, log,
                   poolVars>>

\* ... the edit is made in the copy, and the copy replaces the config.
perform_set(w) ==
    LET id == running[w].id IN
    /\ At(w, "category", "set")
    /\ collconfigs' = [collconfigs EXCEPT ![tasks[id].coll] =
                           running[w].config \cup {tasks[id].arg}]
    /\ running' = Goto(w, "queue")
    /\ UNCHANGED <<tasks, processing, indexing, current, collection, applied,
                   durable, checkpoints, failed, log, poolVars>>

\* ... unless category_add_parent throws: the copy is deleted with its
\* auto_ptr, the config is as it was, nothing goes to the indexing queue and
\* the worker reports the error.
perform_throws(w) ==
    /\ At(w, "category", "set")
    /\ tasks' = Reported(running[w].id, "error")
    /\ running' = [running EXCEPT ![w] = Idle]
    /\ UNCHANGED <<processing, indexing, current, collection, collconfigs,
                   applied, durable, checkpoints, failed, log, poolVars>>

perform_queue_dropped(w) ==
    /\ At(w, "category", "queue")
    /\ running' = Goto(w, "complete")
    /\ UNCHANGED <<tasks, processing, indexing, current, collection,
                   collconfigs, applied, durable, checkpoints, failed, log,
                   poolVars>>

\* ... and a CollPutCategoryParentTask goes to the indexing queue.
perform_queue(w) ==
    LET id == running[w].id IN
    /\ At(w, "category", "queue")
    /\ queue_indexing_from_processing(tasks[id].coll, id)
    /\ running' = Goto(w, "complete")
    /\ UNCHANGED <<tasks, processing, current, collection, collconfigs,
                   applied, durable, checkpoints, failed, poolVars>>

\* The worker marks the task complete and is free for the next one.
Complete(w) ==
    /\ running[w].pc = "complete"
    /\ tasks' = Reported(running[w].id, "ok")
    /\ running' = [running EXCEPT ![w] = Idle]
    /\ UNCHANGED <<processing, indexing, current, collection, collconfigs,
                   applied, durable, checkpoints, failed, log, poolVars>>

-----------------------------------------------------------------------------
(* The indexing worker of collection c *)

Taken(c, kind) ==
    /\ current[c] # 0
    /\ tasks[current[c]].kind = kind

IndexerDequeue(c) ==
    /\ current[c] = 0
    /\ indexing[c] # <<>>
    /\ current' = [current EXCEPT ![c] = front(indexing[c])]
    /\ indexing' = [indexing EXCEPT ![c] = pop(@)]
    /\ UNCHANGED <<tasks, processing, running, collection, collconfigs,
                   applied, durable, checkpoints, failed, log, poolVars>>

Writable_in_a_local(c) ==
    IF collection[c] # NULL
    THEN UNCHANGED <<poolVars, collection>>
    ELSE Pool!get_writable(c, c) /\ UNCHANGED collection

\* if (collection == NULL) collection = get_writable(coll_name): the pool's
\* step when there is one to take, and the pointer the worker has after it
\* (none when open_writable threw).
Writable(c) ==
    IF collection[c] # NULL
    THEN UNCHANGED <<poolVars, collection>>
    ELSE /\ Pool!get_writable(c, c)
         /\ collection' = [collection EXCEPT ![c] =
                IF held'[c] = {} THEN NULL ELSE CHOOSE h \in held'[c] : TRUE]

\* A task that changes the index: with a Collection the change is made or
\* the call that makes it throws, and without one the exception of
\* get_writable ends the task.  The worker keeps the pointer it has set,
\* whatever the call after it does.
Change(c) ==
    /\ Writable(c)
    /\ \/ /\ collection'[c] # NULL
          /\ applied' = [applied EXCEPT ![c] = @ \cup {current[c]}]
          /\ UNCHANGED failed
       \/ /\ failed' = failed \cup {current[c]}
          /\ UNCHANGED applied
    /\ current' = [current EXCEPT ![c] = 0]
    /\ UNCHANGED <<tasks, processing, indexing, running, collconfigs, durable,
                   checkpoints, log>>

perform_task_after_reset(c) ==
    /\ Taken(c, "category")
    /\ Writable(c)
    /\ current' = [current EXCEPT ![c] = 0]
    /\ applied' = [applied EXCEPT ![c] = @ \cup {current'[c]}]
    /\ UNCHANGED <<tasks, processing, indexing, running, collconfigs, durable,
                   checkpoints, failed, log>>

perform_task_forgets_change(c) ==
    /\ Taken(c, "category")
    /\ Writable(c)
    /\ current' = [current EXCEPT ![c] = 0]
    /\ UNCHANGED <<tasks, processing, indexing, running, collconfigs, applied,
                   durable, checkpoints, failed, log>>

perform_task_retries_after_error(c) ==
    /\ Taken(c, "category")
    /\ Writable(c)
    /\ IF collection'[c] # NULL
       THEN /\ applied' = [applied EXCEPT ![c] = @ \cup {current[c]}]
            /\ current' = [current EXCEPT ![c] = 0]
            /\ UNCHANGED failed
       ELSE failed' = failed \cup {current[c]} /\ UNCHANGED <<applied, current>>
    /\ UNCHANGED <<tasks, processing, indexing, running, collconfigs, durable,
                   checkpoints, log>>

\* CollPutCategoryParentTask::perform_task
perform_task(c) ==
    /\ Taken(c, "category")
    /\ Change(c)

\* The indexing task of a document.
IndexDocument(c) ==
    /\ Taken(c, "document")
    /\ Change(c)

Reached(c) ==
    [checkpoints EXCEPT ![c][current[c]].reached = TRUE]

\* A checkpoint that asks for no commit is a marker only.
Checkpoint(c) ==
    /\ Taken(c, "checkpoint")
    /\ ~tasks[current[c]].arg
    /\ checkpoints' = Reached(c)
    /\ current' = [current EXCEPT ![c] = 0]
    /\ UNCHANGED <<tasks, processing, indexing, running, collection,
                   collconfigs, applied, durable, failed, log, poolVars>>

\* A checkpoint that asks for a commit needs the Collection first ...
CheckpointBorrow(c) ==
    /\ Taken(c, "checkpoint")
    /\ tasks[current[c]].arg
    /\ collection[c] = NULL
    /\ Writable(c)
    /\ IF collection'[c] # NULL
       THEN UNCHANGED <<current, failed>>
       ELSE /\ failed' = failed \cup {current[c]}
            /\ current' = [current EXCEPT ![c] = 0]
    /\ UNCHANGED <<tasks, processing, indexing, running, collconfigs, applied,
                   durable, checkpoints, log>>

\* ... then it commits, and is reached.
CheckpointCommit(c) ==
    /\ Taken(c, "checkpoint")
    /\ tasks[current[c]].arg
    /\ collection[c] # NULL
    /\ Pool!Commit(c, collection[c])
    /\ durable' = [durable EXCEPT ![c] = applied[c]]
    /\ checkpoints' = Reached(c)
    /\ current' = [current EXCEPT ![c] = 0]
    /\ UNCHANGED <<tasks, processing, indexing, running, collection,
                   collconfigs, applied, failed, log>>

\* Between two tasks the worker may give its Collection back to the pool.
IndexerRelease(c) ==
    /\ current[c] = 0
    /\ collection[c] # NULL
    /\ Pool!release(c, collection[c])
    /\ collection' = [collection EXCEPT ![c] = NULL]
    /\ UNCHANGED <<tasks, processing, indexing, running, current, collconfigs,
                   applied, durable, checkpoints, failed, log>>

-----------------------------------------------------------------------------

Init ==
    /\ tasks = <<>>
    /\ processing = [c \in Collections |-> <<>>]
    /\ indexing = [c \in Collections |-> <<>>]
    /\ running = [w \in Workers |-> Idle]
    /\ current = [c \in Collections |-> 0]
    /\ collection = [c \in Collections |-> NULL]
    /\ collconfigs = [c \in Collections |-> {}]
    /\ applied = [c \in Collections |-> {}]
    /\ durable = [c \in Collections |-> {}]
    /\ checkpoints = [c \in Collections |-> <<>>]
    /\ failed = {}
    /\ log = [c \in Collections |-> <<>>]
    /\ Pool!Init

Submit(c) ==
    \/ IndexDocumentHandler_enqueue(c)
    \/ CollCreateHandler_enqueue(c)
    \/ \E edit \in Edits : PutCategoryParent(c, edit)
    \/ \E do_commit, allow_throttle \in BOOLEAN :
           create_checkpoint(c, do_commit, allow_throttle)

Process(w) ==
    \/ \E c \in Collections : Dequeue(w, c)
    \/ ProcessDocument(w)
    \/ perform_get(w)
    \/ perform_set(w)
    \/ perform_throws(w)
    \/ perform_queue(w)
    \/ Complete(w)

Index(c) ==
    \/ IndexerDequeue(c)
    \/ perform_task(c)
    \/ IndexDocument(c)
    \/ Checkpoint(c)
    \/ CheckpointBorrow(c)
    \/ CheckpointCommit(c)
    \/ IndexerRelease(c)

Next ==
    \/ \E c \in Collections : Submit(c) \/ Index(c)
    \/ \E w \in Workers : Process(w)

Spec == Init /\ [][Next]_vars

\* Every worker is a thread of its own that loops for as long as the server
\* runs: a step a worker can take is taken.
Fairness ==
    /\ \A c \in Collections : WF_vars(Index(c))
    /\ \A w \in Workers : WF_vars(Process(w))

FairSpec == Spec /\ Fairness

-----------------------------------------------------------------------------
(* Properties *)

Ids == 1 .. MaxTasks

TypeOK ==
    /\ tasks \in Seq([kind : Kinds, coll : Collections,
                      arg : Edits \cup BOOLEAN \cup {NULL},
                      allow_throttle : BOOLEAN, state : QueueState,
                      result : {"pending", "ok", "error"}])
    /\ Len(tasks) <= MaxTasks
    /\ processing \in [Collections -> Seq(Ids)]
    /\ indexing \in [Collections -> Seq(Ids)]
    /\ log \in [Collections -> Seq(Ids)]
    /\ running \in [Workers -> [id : Ids \cup {0}, config : SUBSET Edits,
                                pc : {"idle", "perform", "set", "queue",
                                      "complete"}]]
    /\ current \in [Collections -> Ids \cup {0}]
    /\ collection \in [Collections -> Handles \cup {NULL}]
    /\ collconfigs \in [Collections -> SUBSET Edits]
    /\ applied \in [Collections -> SUBSET Ids]
    /\ durable \in [Collections -> SUBSET Ids]
    /\ failed \subseteq Ids
    /\ \A c \in Collections :
           /\ DOMAIN checkpoints[c] \subseteq Ids
           /\ \A k \in DOMAIN checkpoints[c] :
                  checkpoints[c][k] \in [commit : BOOLEAN, reached : BOOLEAN]
    /\ Pool!TypeOK

\* The indexing worker is done with task id of c: its change is in the
\* index, it ended in a resource error, or it is a reached checkpoint.
Settled(c, id) ==
    \/ id \in applied[c] \cup failed
    \/ get_checkpoint(c, id) = "reached"

\* A checkpoint that get_checkpoint reports reached is a barrier: every
\* task that was put on the collection's indexing queue before it (by
\* create_checkpoint or by a processing task's
\* queue_indexing_from_processing) has been performed, and if the
\* checkpoint asked for a commit, every change made before it is flushed.
CheckpointOrdering ==
    \A c \in Collections : \A i, j \in DOMAIN log[c] :
        i < j /\ get_checkpoint(c, log[c][j]) = "reached" =>
            /\ Settled(c, log[c][i])
            /\ checkpoints[c][log[c][j]].commit /\ log[c][i] \in applied[c]
                   => log[c][i] \in durable[c]

\* A processing task is reported complete only when the indexing task it
\* stands for is on the indexing queue or beyond it: the call of
\* queue_indexing_from_processing at the end of
\* ProcessingCollPutCategoryParentTask::perform comes before the worker's
\* report.
FollowOnBeforeCompletion ==
    \A id \in DOMAIN tasks :
        tasks[id].result = "ok" => id \in ToSet(log[tasks[id].coll])

\* The pointer the indexing worker passes to perform_task from one task to
\* the next and what the worker has borrowed from the pool are the same
\* thing: when the pointer is set it is the one Collection the worker
\* holds, open for writing on the worker's own collection and up to date,
\* and when it is NULL the worker holds none.  The worker never works on
\* an object the pool owns or has deleted, and never forgets one it got
\* from get_writable.
IndexerOwnsItsCollection ==
    \A c \in Collections :
        IF collection[c] = NULL
        THEN held[c] = {}
        ELSE /\ held[c] = {collection[c]}
             /\ heap[collection[c]] = [name |-> c, mode |-> "writable",
                                       view |-> committed[c]]

\* The workers are done with request id.
Done(id) ==
    /\ id \in DOMAIN tasks
    /\ \/ tasks[id].result = "error"
       \/ Settled(tasks[id].coll, id)

\* Every request that a queue admitted is worked off: a document or a
\* category edit passes a processing worker (ProcessDocument, or the three
\* steps of ProcessingCollPutCategoryParentTask::perform) and the indexing
\* worker (perform_task), a checkpoint is reached, or the task ends in an
\* error.  No admitted task waits for ever behind another one.
EveryAdmittedTaskSettles ==
    \A id \in Ids :
        (id \in DOMAIN tasks /\ tasks[id].state = "OK") ~> Done(id)

\* What the indexing worker of c has before it: the task it has taken, then
\* its queue.
Waiting(c) ==
    (IF current[c] = 0 THEN <<>> ELSE <<current[c]>>) \o indexing[c]

Entry(id) ==
    [id |-> id,
     kind |-> CASE tasks[id].kind # "checkpoint" -> "write"
                [] tasks[id].arg                 -> "commit"
                [] OTHER                         -> "marker"]

Abstract == INSTANCE SerialWrites
    WITH pending <- [c \in Collections |->
                        [i \in DOMAIN Waiting(c) |-> Entry(Waiting(c)[i])]],
         index   <- applied,
         flushed <- durable,
         reached <- [c \in Collections |->
                        {k \in DOMAIN checkpoints[c] : checkpoints[c][k].reached}],
         dropped <- failed

\* The queues, the processing workers, the indexing worker's loop and the
\* pool together implement the serial write log of SerialWrites: whatever
\* create_checkpoint, queue_indexing_from_processing and the steps of the
\* indexing worker (IndexerDequeue, perform_task, the checkpoint's borrow
\* and commit) interleave to, a collection's indexing tasks take effect one
\* at a time in queue order, and the durable state moves only at a
\* committing checkpoint, to the index of that moment.
WritesAreSerial == Abstract!Spec

-----------------------------------------------------------------------------
(* What the design document says and the code does otherwise *)

\* "Processing task: a parallel-safe transformation step": when a
\* ProcessingCollPutCategoryParentTask is complete, the edit it made is in
\* the collection's config.
ConfigKeepsEveryEdit ==
    \A id \in DOMAIN tasks :
        tasks[id].kind = "category" /\ tasks[id].result = "ok"
            => tasks[id].arg \in collconfigs[tasks[id].coll]

\* "Invariant: depth <= max depth at all times", of every queue.
IndexingQueueWithinMaxDepth ==
    \A c \in Collections : Len(indexing[c]) <= MaxDepth

\* "Submit a processing task ..., then create a checkpoint with
\* commit=true; after the checkpoint reaches reached, a fresh readonly
\* handle reports doc_count() == 1": a reached checkpoint covers every
\* request for its collection that was admitted before create_checkpoint
\* was called.
CheckpointCoversEarlierSubmissions ==
    \A c \in Collections : \A k \in DOMAIN checkpoints[c] :
        get_checkpoint(c, k) = "reached" =>
            \A id \in 1 .. (k - 1) :
                tasks[id].coll = c /\ tasks[id].state = "OK" => Done(id)

=============================================================================

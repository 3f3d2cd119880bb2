----------------------------- MODULE Lifecycle -----------------------------
(***************************************************************************)
(* start(), stop() and join() of the task manager around the write path of *)
(* TaskManager, as TEST(CollectionAddViaPipe) drives them                  *)
(* (src/unittests/collection.cc): the server is started, a document is     *)
(* sent through a pipe, the server is stopped and joined, and the test     *)
(* looks at the collection.                                                *)
(*                                                                         *)
(* What stop() does to the queues and the worker loops is the design       *)
(* document's: a stopped queue hands its consumers the sentinel, a worker  *)
(* that gets the sentinel leaves its loop, a task in the middle of its     *)
(* execution is finished, and join() returns when every thread has left.   *)
(*                                                                         *)
(* The process may also die at any moment while it runs.  The design       *)
(* document names one piece of persisted state, the storage directory of   *)
(* each collection: what a commit flushed is there when the next process   *)
(* starts, and the queues, the tasks in the workers' hands, the checkpoint *)
(* registry, the pool and the cached configs are gone.                     *)
(***************************************************************************)
EXTENDS TaskManager

VARIABLES
    phase,    \* "created", "started", "stopping" or "joined"
    exited    \* the worker threads that have left their loop

lifeVars == <<phase, exited>>
allVars == <<vars, lifeVars>>

\* One thread per processing worker, one indexing thread per collection.
WorkerThreads == Workers \cup Collections

ASSUME Workers \cap Collections = {}

-----------------------------------------------------------------------------
(* The caller *)

start ==
    /\ phase = "created"
    /\ phase' = "started"
    /\ UNCHANGED <<vars, exited>>

\* A request of the API while the server runs.
Accept(c) ==
    /\ phase = "started"
    /\ Submit(c)
    /\ UNCHANGED lifeVars

\* Collection::send_to_pipe called by the test itself: what the pipe makes
\* of the document goes to the indexing queue of the collection, as it does
\* when a processing task sends the document.
send_to_pipe(c) ==
    /\ phase = "started"
    /\ Len(tasks) < MaxTasks
    /\ tasks' = Append(tasks, Request("document", c, NULL, FALSE, "OK"))
    /\ queue_indexing_from_processing(c, NewTask)
    /\ UNCHANGED <<processing, running, current, collection, collconfigs,
                   applied, durable, checkpoints, failed, poolVars, lifeVars>>

stop ==
    /\ phase = "started"
    /\ phase' = "stopping"
    /\ UNCHANGED <<vars, exited>>

join_waits_for_empty_queues ==
    /\ phase = "stopping"
    /\ exited = WorkerThreads
    /\ \A c \in Collections : processing[c] = <<>> /\ indexing[c] = <<>>
    /\ phase' = "joined"
    /\ UNCHANGED <<vars, exited>>

\* join() returns when every worker thread has ended.
join ==
    /\ phase = "stopping"
    /\ exited = WorkerThreads
    /\ phase' = "joined"
    /\ UNCHANGED <<vars, exited>>

\* What the storage directory of c gives a process that opens it: the
\* category edits among the changes a commit flushed.  An assumption: how a
\* config is stored and loaded is not in the sources.
StoredConfig(c) ==
    {tasks[id].arg : id \in {i \in durable[c] : tasks[i].kind = "category"}}

\* The process dies and a new one is made: everything in memory is as new,
\* the index of every collection is what its last commit flushed, and the
\* requests and their outcomes stay on record with the clients.
crash ==
    /\ phase \in {"started", "stopping"}
    /\ phase' = "created"
    /\ exited' = {}
    /\ processing' = [c \in Collections |-> <<>>]
    /\ indexing' = [c \in Collections |-> <<>>]
    /\ log' = [c \in Collections |-> <<>>]
    /\ running' = [w \in Workers |-> Idle]
    /\ current' = [c \in Collections |-> 0]
    /\ collection' = [c \in Collections |-> NULL]
    /\ checkpoints' = [c \in Collections |-> <<>>]
    /\ applied' = durable
    /\ collconfigs' = [c \in Collections |-> StoredConfig(c)]
    /\ readonly' = <<>> /\ writable' = <<>>
    /\ heap' = [h \in Handles |-> Pool!NoObject]
    /\ held' = [c \in Collections |-> {}]
    /\ UNCHANGED <<tasks, failed, durable, dirs, committed, constructed>>

-----------------------------------------------------------------------------
(* The worker threads *)

Looping(t) == phase \in {"started", "stopping"} /\ t \notin exited

\* A processing worker: once the server is stopping it takes no new task
\* (dequeue answers the sentinel) and finishes the one it has.
Work(w) ==
    /\ Looping(w)
    /\ phase = "stopping" => running[w] # Idle
    /\ Process(w)
    /\ UNCHANGED lifeVars

WorkerExit(w) ==
    /\ Looping(w)
    /\ phase = "stopping"
    /\ running[w] = Idle
    /\ exited' = exited \cup {w}
    /\ UNCHANGED <<vars, phase>>

\* The indexing worker of c, likewise.
IndexerWork(c) ==
    /\ Looping(c)
    /\ phase = "stopping" => current[c] # 0
    /\ Index(c)
    /\ UNCHANGED lifeVars

\* On the sentinel the indexing worker gives back the Collection it has.
IndexerExit(c) ==
    /\ Looping(c)
    /\ phase = "stopping"
    /\ current[c] = 0
    /\ IF collection[c] = NULL THEN UNCHANGED vars ELSE IndexerRelease(c)
    /\ exited' = exited \cup {c}
    /\ UNCHANGED phase

-----------------------------------------------------------------------------

LifeInit ==
    /\ Init
    /\ phase = "created"
    /\ exited = {}

Caller ==
    \/ start
    \/ stop
    \/ join
    \/ \E c \in Collections : Accept(c) \/ send_to_pipe(c)

LifeNext ==
    \/ Caller
    \/ crash
    \/ \E w \in Workers : Work(w) \/ WorkerExit(w)
    \/ \E c \in Collections : IndexerWork(c) \/ IndexerExit(c)

LifeSpec == LifeInit /\ [][LifeNext]_allVars

\* Every worker is a thread that runs until it leaves its loop, and the
\* caller of join() is blocked in it until it returns.  Nobody has to call
\* stop().
LifeFairness ==
    /\ \A w \in Workers : WF_allVars(Work(w) \/ WorkerExit(w))
    /\ \A c \in Collections : WF_allVars(IndexerWork(c) \/ IndexerExit(c))
    /\ WF_allVars(join)

FairLifeSpec == LifeSpec /\ LifeFairness

-----------------------------------------------------------------------------
(* Properties *)

\* "Callers must wait for join() to guarantee no task is left executing":
\* when join() has returned no worker is in the middle of a task, the
\* indexing workers have given their Collection back, and every Collection
\* object is with the pool, so that the caller may use or destroy the pool
\* (the test goes on to pool.get_readonly and lets the pool go out of
\* scope).
NothingRunsAfterJoin ==
    phase = "joined" =>
        /\ \A w \in Workers : running[w] = Idle
        /\ \A c \in Collections :
               current[c] = 0 /\ collection[c] = NULL /\ held[c] = {}

\* stop() followed by join() ends: every worker finishes what it is at,
\* sees the sentinel and leaves, whatever is still queued and whatever
\* errors the tasks run into; join() does not wait for ever (unless the
\* process dies first, and a new one is there).
StopLeadsToJoin == (phase = "stopping") ~> (phase \in {"joined", "created"})

\* The tasks put on the indexing queue of c before task k was.
Before(c, k) ==
    {log[c][i] : i \in {j \in DOMAIN log[c] : \A m \in 1 .. j : log[c][m] # k}}

\* "A checkpoint ... lets callers know when writes submitted earlier are
\* durably visible": once get_checkpoint has answered reached for a
\* checkpoint that create_checkpoint made with commit = true, no step takes
\* a change it covers out of the index again, the death of the process
\* included.  The commit of the checkpoint task must have come before the
\* registry said reached.
CoveredWritesSurviveACrash ==
    [][\A c \in Collections : \A k \in DOMAIN checkpoints[c] :
         get_checkpoint(c, k) = "reached" /\ checkpoints[c][k].commit =>
             Before(c, k) \cap applied[c] \subseteq applied'[c]]_allVars

\* The two halves of a category edit stay together as far as the code
\* keeps them so: an edit that ProcessingCollPutCategoryParentTask::perform
\* put into the config of a collection belongs to a task that is about to
\* be handed to the indexing queue, waits there, was performed by
\* CollPutCategoryParentTask::perform_task, or ended there in an error.  No
\* step between the set and queue_indexing_from_processing, of this worker
\* or of another, loses the indexing half of an edit that is in the config.
\* (After the death of the process the config is StoredConfig by
\* assumption, so the property says nothing about a crash.)
EditsInConfigHaveTheirIndexingTask ==
    \A c \in Collections : \A edit \in collconfigs[c] :
        \E id \in DOMAIN tasks :
            /\ tasks[id].kind = "category"
            /\ tasks[id].coll = c /\ tasks[id].arg = edit
            /\ \/ id \in applied[c] \cup failed \cup ToSet(Waiting(c))
               \/ \E w \in Workers : running[w].id = id /\ At(w, "category", "queue")

-----------------------------------------------------------------------------
(* What the test says and the design document's shutdown does not do *)

\* CHECK_EQUAL(1u, c->doc_count()) on the reader the test borrows after
\* taskman->join(): when join() has returned, every document that was sent
\* to the pipe is in the index and committed.
JoinedMeansIndexed ==
    phase = "joined" =>
        \A c \in Collections :
            {id \in ToSet(log[c]) : tasks[id].kind = "document"} \subseteq durable[c]

=============================================================================

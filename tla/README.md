# TLA+ models of the restpose task and resource core

restpose is a JSON search server on top of an embedded index engine. What is
hard in it is not HTTP or the schema rules but the concurrent core: typed work
queues, pools of worker threads, a pool of open `Collection` objects, and
checkpoints that tell a client when earlier writes are applied. This directory
holds TLA+ models of that core, the TLC configurations that check them and
`PROJECT.json`, which lists every run, every mapped definition and every known
hazard by source line.

Run a check from this directory, for example

    tlc -workers 2 -config MCTaskManager.cfg MCTaskManager

## 1. The system

Sources in the repository (paths from its root; `PROJECT.json` and the
modules' comments name them from the directory above it, with `src/` in front):

| file | what it holds |
|---|---|
| `src/jsonxapian/collection_pool.cc` | `CollectionPool`, complete |
| `src/features/category_tasks.cc` | the category tasks: four readonly tasks, the processing half and the indexing half of a category edit |
| `src/rest/handlers.cc` | the `enqueue` methods of the REST handlers and their factories |
| `src/features/checkpoint_handlers.h` | declarations of the checkpoint handlers, with the contract of `create_checkpoint` |
| `src/utils/validation.h`, `src/postingsources/multivalue_keymaker.h` | declarations only |
| `unittests/collection.cc` | unit tests of `Collection`, three of which drive the pool and the task manager |

The queues, the task manager, the worker threads and the checkpoint registry
are used by these files but are not among them. The design document
(`spec.md`) describes them, and where a module models them it says so;
`PROJECT.json` marks those definitions `spec_modelled`.

### Inventory

**Collection pool** (`CollectionPool`, one instance, shared by all threads).
State: `readonly`, a map from collection name to a vector of idle readonly
`Collection *`; `writable`, a map from name to one idle writable
`Collection *` or NULL; a mutex that every method holds from its first map
access to its return; `max_cached_readers_per_collection = 5`.
Operations: constructor, destructor, `exists`, `get_readonly`, `get_writable`,
`release`, `get_names`. Called by every worker thread and by tests.
Hard behaviours: a reader taken from the cache must be reopened or it shows an
old snapshot; `open_*` can throw after the object has left the cache (an
`auto_ptr` deletes it); `release` at the cache limit deletes; `release` of a
writer into an occupied slot deletes silently; `release` cannot tell a pointer
it was already given; borrowers close a `Collection` before they release it.
Properties: every object has exactly one owner (a map entry or a borrower); the
cache bound; the slot of a lent writer is free; a borrowed object shows the
latest commit; every step is a step of an abstract lending contract.

**Category tasks** (`category_tasks.cc`). Readonly tasks (`perform(Collection*)`)
look up a hierarchy, a category, a parent and set the task's result handle:
state read is the collection's hierarchies, state written is the result handle
(status code, ready). `ProcessingCollPutCategoryParentTask::perform` copies the
collection config out of the task manager, edits the copy, writes it back and
queues a `CollPutCategoryParentTask` for the indexing worker;
`CollPutCategoryParentTask::perform_task` borrows the writable `Collection` if
the worker has none and applies the edit.
Hard behaviours: an error path without `return`; questions answered on a
reader that was cached while the writer committed, or while the writer has an
edit it has not committed; a read-modify-write of shared config in three
separately locked calls while processing workers run in parallel; the
hand-over between the two queues; a crash between the config write and the
hand-over.
Properties: a result handle is set once; task errors do not end the server;
answers agree with what is committed; the config keeps every completed edit;
completion is reported after the hand-over.

**Queue** (not in `src/`). State: a FIFO of tasks, a maximum depth, a busy
depth, a closed flag. Operations: push with `allow_throttle` answering OK,
THROTTLED or FULL without blocking; pop, blocking, answering a sentinel after
shutdown. Properties: the depth limits; FIFO.

**Task manager** (not in `src/`). State: the readonly queues `static`,
`status`, `info`, `search`; a processing queue and an indexing queue per
collection; the collection configs; the pool. Operations: `queue_readonly`,
`queue_processing`, `queue_indexing`, `queue_indexing_from_processing`,
`start`, `stop`, `join`.

**Worker pool** (not in `src/`). Readonly workers (several per queue),
processing workers (several per collection), one indexing worker per
collection that keeps a `Collection *` from task to task (the reference
parameter of `perform_task`). Hard behaviours: interleaving of workers with
each other and with submitters; a task that throws; progress of every admitted
task.

**Checkpoint registry** (`checkpoint_handlers.h` and the design document).
State: per collection, checkpoint id to (commit, reached). Operations:
`create_checkpoint(coll, checkid, do_commit, allow_throttle)`, get, list; the
checkpoint task marks the checkpoint reached, after a commit if one was asked
for. Properties: a reached checkpoint is a barrier; checkpoints are reached in
order; only a committing checkpoint flushes.

**REST handlers** (`handlers.cc`). Each `enqueue` builds one task and hands it
to one queue: `FileHandler` to readonly `static`, `ServerStatusHandler` to
`status`, `CollListHandler` and `CollInfoHandler` to `info`, `SearchHandler`
and `GetDocumentHandler` to `search`, `IndexDocumentHandler` to the processing
queue of its collection with `allow_throttle = false`; `CollCreateHandler`
answers `Queue::FULL` and queues nothing; `NotFoundHandler` answers 404
itself.

**Collection** (index engine, schema, pipes, categoriser, taxonomy): outside
the core and outside `src/` except for its tests. State: closed, open for
reading or open for writing; the config (schema of the fields of a type, pipes,
taxonomies); the index with the terms of the documents. Operations the tests
call: `open_writable`, `open_readonly`, `close`, `from_json`, `to_json`,
`set_schema`, `get_schema`, `set_pipe`, `get_pipe`, `get_taxonomy`,
`set_taxonomy`, `process_doc`, `raw_update_doc`, `category_add_parent`,
`category_remove`, `get_document`, `doc_count`, `commit`, `send_to_pipe`.
Hard behaviours: a call that throws must leave the collection as it was; every
changing call is refused on a closed or readonly collection; an edit of the
taxonomy has to reach the documents that are already indexed, however far
below the edited category their categories are.

**Persisted state** (design document, section 6). The storage directory of a
collection, with what its last commit flushed, is all that a new process
finds. Queues, tasks in the hands of workers, the checkpoint registry, the
pool and the configs cached in the task manager are gone when the process
dies.

## 2. The modules

| module | models | from |
|---|---|---|
| `CollectionPool` | the pool: one action per method, the `Collection` objects as a heap of records | `collection_pool.cc` |
| `HandleLending` | what the pool promises: a handle is owned by one thread or idle in one cache, never both | abstract specification |
| `TaskQueue` | the queue as a value: `Admission`, `push`, `front`, `pop` | contract of `create_checkpoint`, design document |
| `SerialWrites` | what the write path promises for a collection: its indexing tasks take effect one at a time in queue order, a commit flushes exactly what the index has | abstract specification |
| `TaskManager` | the write path: submission, processing workers, the indexing worker, checkpoints, with the pool as an instance | `handlers.cc`, `category_tasks.cc`, `checkpoint_handlers.h`, design document |
| `CategoryTasks` | the readonly category tasks and their result handles: the operations, on a `Collection` that the instantiating module gives them | `category_tasks.cc` |
| `CategoryReadPath` | the category tasks at work: readonly workers run them on the readers they borrow from the pool, the indexing worker adds parents and commits (extends `ReadPath`, instantiates `CategoryTasks` once per `Collection`) | `category_tasks.cc`, `collection_pool.cc`, design document |
| `Lifecycle` | `start`, `stop`, `join` around the write path, and the death of the process (extends `TaskManager`) | design document; `TEST(CollectionAddViaPipe)` for the calls and what it expects after them |
| `ReadPath` | the readonly queues, the handlers that fill them, readonly workers that borrow readers, a committing writer, with the pool as an instance | `handlers.cc`, `collection_pool.cc`, design document |
| `Taxonomy` | a taxonomy value and the category terms of indexed documents, as operators and actions for `Collection` | `TEST(CollectionCategory)` |
| `Collection` | one `Collection` object: its modes, its config, its index, the calls that throw (instantiates `Taxonomy`) | `TEST(CollectionConfigFormatCheck)`, `TEST(CollectionSchemas)`, `TEST(CollectionPipes)`, `TEST(CollectionCategory)` |
| `MCCollectionPool`, `MCTaskManager`, `MCCategoryReadPath`, `MCLifecycle`, `MCReadPath`, `MCCollection` | symmetry sets for TLC | |
| `MCCollectionPoolCareless` | the pool with borrowers that release twice | |

### CollectionPool

`readonly` and `writable` are partial functions (a C++ map has the keys that
were inserted); `heap[h]` is the `Collection` at address `h` (`name`, `mode`
in closed/readonly/writable/dead, `view` = number of commits it shows);
`held[t]` is what thread `t` has borrowed; `dirs` and `committed` are the
storage. One action per method, atomic because of the mutex:

| action | code | notes |
|---|---|---|
| `CollectionPool`, `DestroyCollectionPool` | constructor, destructor | the destructor deletes what is cached |
| `get_readonly(t, c)` | lines 78-95 | new object or `back()` + `pop_back()`, then `open_readonly()`; on a throw the object is deleted |
| `get_writable(t, c)` | lines 97-113 | new object or the slot's, slot set to NULL, then `open_writable()` |
| `release(t, h)` | lines 115-154 | NULL returns; `ReleaseWritable` fills a free slot or deletes; `ReleaseReadonly` pushes below the limit or deletes |
| `exists`, `get_names` | lines 62-76, 156-167 | state functions |
| `Commit`, `Close`, `Opened` | `unittests/collection.cc` 279-282, 309-316 | what a borrower does with the object, as `TEST(CollectionAddViaPipe)` shows it: a reader opened before a commit keeps its count of documents, one opened after it shows the commit, a closed object answers `InvalidStateError` |

Assumptions about the engine, which is not in the sources: an object that is
closed is not writable; `open_readonly` fails when the collection has no
storage directory; `open_writable` fails while another object holds the write
lock of the collection; any open may fail on a storage error; the destructor
of the pool runs when nothing is borrowed.

`LendingSpec` is `HandleLending!Spec` under the mapping `owners[h]` = the
threads that hold `h` plus `"readers"`/`"writer"` if a map points to it,
`bound[h]` = the name the object was made for.

### TaskManager

State: `tasks` (every request with the `QueueState` it got and the result a
processing worker reported), `processing[c]` and `indexing[c]` (queues of task
ids), `running[w]` (the task and program counter of processing worker `w`, with
its copy of the config), `current[c]` and `collection[c]` (the task and the
`Collection *` of the indexing worker of `c`), `collconfigs[c]`, `applied[c]`
and `durable[c]` (what the index has, what is committed), `checkpoints[c]`,
`failed`, and the history variable `log[c]` (every task ever put on
`indexing[c]`, in order). The pool's variables are shared with
`Pool == INSTANCE CollectionPool`; the indexing worker of `c` borrows as thread
`c`.

| action | code |
|---|---|
| `IndexDocumentHandler_enqueue` | `handlers.cc` 97-115 (factory and `enqueue`) |
| `CollCreateHandler_enqueue` | `handlers.cc` 82-95; answers `Queue::FULL` and queues nothing (a `FIXME` in the source) |
| `create_checkpoint` | `checkpoint_handlers.h` 46-65 |
| `perform_get`, `perform_set`, `perform_queue` | `category_tasks.cc` 149-168, one action per call on shared state |
| `perform_throws` | `category_tasks.cc` 158-162: `category_add_parent` throws on the copy, which its `auto_ptr` deletes; nothing is set, nothing is queued, the worker reports the error |
| `perform_task` with `Writable` | `category_tasks.cc` 170-181; borrowing and applying are one step because the object is private to the worker |
| `PutCategoryParent`, `Dequeue`, `ProcessDocument`, `Complete`, `IndexerDequeue`, `IndexDocument`, `Checkpoint`, `CheckpointBorrow`, `CheckpointCommit`, `IndexerRelease` | design document, sections 4.3 to 4.5 |

The design document has the worker release its handle after every task, the
signature of `perform_task` lets it keep the handle; the model allows both
(`IndexerRelease` may happen between any two tasks). A task whose
`get_writable` throws (`category_tasks.cc:176`) ends in `failed` with the
worker's pointer still NULL; a task whose `category_add_parent` throws
(`:178`) ends in `failed` with the pointer set, and the worker keeps the
writer for its next task. Either way the worker goes on.

`WritesAreSerial` is `SerialWrites!Spec` under the mapping `pending[c]` = the
task in the hands of the indexing worker of `c` followed by `indexing[c]`,
each as a write, a marker (a checkpoint without commit) or a commit;
`index` = `applied`, `flushed` = `durable`, `reached[c]` = the checkpoints of
`c` that the registry has as reached, `dropped` = `failed`. Everything before
the indexing queue (handlers, processing queue, processing workers, the
config) and the pool are stuttering steps of the abstract specification; a
hand-over to the indexing queue is its `Enqueue`, the step that ends an
indexing task is its `Take`.

### CategoryTasks and CategoryReadPath

`hierarchies` is a function from hierarchy names to functions from category
ids to sets of parents; `resulthandle[r]` has the status code and the number
of `set_ready()` calls; `crashed` says the process has died. Each `perform` is
one action. `CollGetCategoryParentTask::perform` on a missing hierarchy is
undefined behaviour (a call through a NULL pointer after the 404 was set): the
model takes both outcomes a build can give, the crash after the 404 and the
crash with nothing set. `category_add_parent` makes the hierarchy and the
categories if they are missing, as the taxonomy in `TEST(CollectionCategory)`
shows for the categories.

`CategoryTasks` has no specification of its own: `perform` takes the
`Collection` as its argument, and so does the module. `CategoryReadPath`
instantiates it as `On(coll)`, with `hierarchies` replaced by the hierarchies
of the `Collection` at hand.

State of `CategoryReadPath`, beside that of `ReadPath` and the pool:
`asked[id]` (the hierarchy, category and parent of question `id`),
`resulthandle`, `crashed`, `working` (the hierarchies in the writer of the
collection, committed or not) and `snapshots` (`snapshots[n + 1]` is what the
storage has after commit `n`). A reader shows `snapshots[view + 1]`, where
`view` is the commit count the pool recorded when it opened or reopened the
object.

| action | code |
|---|---|
| `Ask` | a category task put on a readonly queue with `queue_readonly` |
| `Take`, `BorrowReader`, `GiveBackReader` | the readonly worker's loop: dequeue, `CollectionPool::get_readonly`, `release` |
| `perform` | `task->perform(collection)`: the `perform` of `CategoryTasks` for the task's kind, as `On(Shown(w))`, on the reader of worker `w` |
| `perform_task` | `CollPutCategoryParentTask::perform_task` (`category_tasks.cc` 170-181): `get_writable` if the worker has no writer, then `category_add_parent` as `On(working)`; when `get_writable` throws nothing is added |
| `commit` | `Collection::commit` on the writer: the pool's `Commit`, and `working` becomes the newest snapshot |
| `WriterRelease` | the indexing worker gives the writer back |

Assumptions: the handlers of the category tasks are outside the sources, and
the model sends their tasks to the queue `info`; a `get_readonly` that throws
is a resource error that the worker puts in the result handle (status 500
here, to tell it from the 404 of a `perform`); hierarchies only grow, as
`category_tasks.cc` has no task that removes a parent; what the writer has
not committed stays in the storage's pending changes, whichever object the
pool gives the indexing worker next. The module has one collection. An edit
goes straight to the indexing worker: the processing half and the queues of
the write path are in `TaskManager`, and `CheckpointOrdering` there says that
a reached checkpoint with commit has the edit committed.

### Lifecycle

`Lifecycle` extends `TaskManager` with `phase` (created, started, stopping,
joined) and `exited`, the worker threads that have left their loop. The
caller's actions are the calls of `TEST(CollectionAddViaPipe)`:

| action | code |
|---|---|
| `LifeInit`, `start`, `stop`, `join` | design document, 4.1 and 5; `TEST(CollectionAddViaPipe)` (`unittests/collection.cc` 260-263 and 306-308) is where they are called |
| `send_to_pipe(c)` | design document, 6; called at `unittests/collection.cc` 300-305: the document the pipe makes goes to the indexing queue of `c` |
| `Accept(c)` | any submission of `TaskManager`, while the server is started |
| `Work`, `WorkerExit`, `IndexerWork`, `IndexerExit` | design document, 4.1 and 4.3 |
| `crash` | design document, 6 and 9: the process dies while it runs and a new one is made |

Assumptions, all from the design document: requests are accepted between
`start()` and `stop()`; after `stop()` a dequeue answers the sentinel, so a
worker takes no new task, finishes the one it is in and leaves; the indexing
worker gives back the `Collection` it kept; `join()` returns when every thread
has left.

`crash` may happen in any state between `start()` and `join()`. It keeps what
is on disk or with the clients: `dirs`, `committed`, `durable`, and the record
of the requests (`tasks`, `failed`). It resets everything else: the queues and
`log`, the workers, the checkpoint registry, the pool (no object exists, no
write lock is held), `applied` (the index is what the last commit flushed) and
`collconfigs`, which the new process reads from the stored collection
(`StoredConfig`: the category edits among the flushed changes; how a config
is stored and loaded is not in the sources, so this is an assumption, and no
property is claimed to hold because of it). The new
process is in `phase = "created"` and may be started again.

### ReadPath

State: `requests` (every request with the `QueueState` it got, the number of
commits its collection had when it came in, its status code and the commit
count of the reader that answered it), `queues[category]`, `serving[w]` (the
request of readonly worker `w` and its program counter), and the pool's
variables.

| action | code |
|---|---|
| `FileHandler_enqueue`, `ServerStatusHandler_enqueue`, `CollListHandler_enqueue`, `CollInfoHandler_enqueue`, `SearchHandler_enqueue`, `GetDocumentHandler_enqueue` | `handlers.cc` 40-80 and 117-178: one task, one category, `queue_readonly` |
| `NotFoundHandler_handle` | `handlers.cc` 181-191: answers 404, queues nothing |
| `Borrow`, `Release` | `CollectionPool::get_readonly`, `release`, as the pool module has them |
| `queue_readonly`, `Dequeue`, `PerformAlone`, `Perform` | design document, 4.3 and 4.4 |
| `Write` | the indexing worker as the pool sees it: borrow the writer, commit, release |

Assumptions: `queue_readonly` has no throttle flag, so a readonly queue
answers OK or FULL; a refused request is answered 503 at once; a task whose
`get_readonly` throws answers with the error and the worker goes on;
`CollListTask` gets the pool itself (`taskman->get_collections()`) and needs
no `Collection`.

### Taxonomy and Collection

`Collection` has `mode` (closed, readonly, writable), `schema` (the
configuration of each field of the type `default`), `pipe` (the definition of
the pipe `default`, or NULL), `taxonomy` and `terms` (from `Taxonomy`), and
`last`, the last call with the exception it threw. While the object is closed
the variables stand for what is stored: the tests close a writer and find its
schema and pipe in the reader they open next.

| action | code (`unittests/collection.cc`) |
|---|---|
| `Init`, `open_writable` | 127-129 |
| `from_json(doc)` | 131-146, 254, 268-278: a document without a format throws `InvalidValueError`; a good one replaces the config as a whole |
| `set_schema(field, config)` | 155-192, 204: a new field is added, the same configuration is accepted, another configuration for a field throws `InvalidValueError` and changes nothing |
| `get_schema` | 194-203: throws `InvalidStateError` when closed (`get_pipe`, `doc_count` alike) |
| `set_pipe(p)` | 214-233, 245: a pipe may be changed |
| `close`, `open_readonly` | 236-244 |
| `set_taxonomy(cat_id, parent_id)` | 486-489: a copy of the taxonomy, edited with `add_parent`, replaces the taxonomy; the categories `add_parent` reports as modified are dropped |
| `raw_update_doc`, `category_add_parent`, `category_remove` | 530, 537, 542: the actions of `Taxonomy`, on a writable collection |

Every changing call on a collection that is not writable is `Refused` with
`InvalidStateError` (lines 204, 245, 254). Assumptions: the calls of the index
are refused like those of the config (the tests show it for the config);
`from_json` of a document without a format on a reader may throw either error,
because the tests do not show which check comes first.

`taxonomy[cat]` is the set of parents of `cat` (what `to_json` prints);
`terms[doc]` has the `C` terms (the categories the document names) and the
`A` terms (their ancestors) of an indexed document. `add_parent` and `remove`
are the operations on the taxonomy value, `category_add_parent` and
`category_remove` the operations of `Collection`, which also give the
documents of the modified categories their terms anew; `raw_update_doc`
stores a document with the terms `process_doc` made. The model keeps a taxonomy
acyclic: a call that would make a category its own ancestor is not among the
steps, because the tests do not show what it does. Categories are created on demand,
as the test shows (`parent` and `grand` appear with their first use).

### What the map names

`PROJECT.json` maps each definition to the lines it stands for. Of the mapped
lines, those of `collection_pool.cc`, `category_tasks.cc` and `handlers.cc`
are implementation that the definition translates. The lines of
`checkpoint_handlers.h` are a declaration and its comment, which state the
contract and not the body. The lines of `unittests/collection.cc` are calls
and assertions of tests: `Collection` and `Taxonomy` are reconstructions of
an implementation that is not in the sources, from what its tests call and
expect, and `Opened`, `Commit`, `Close` and `Shown` are the engine at its
boundary as the test shows it. Everything else is marked as modelled from the
design document.

## 3. The runs

| run | configuration | checks | result |
|---|---|---|---|
| `pool` | `MCCollectionPool.cfg` | `TypeOK`, `HandleHasOneOwner`, `ReadonlyCacheBound`, `WriterSlotFreeWhileLent`, `BorrowedAtLatestCommit`, `LendingSpec` | holds, 44 056 states |
| `pool_double_release` | `MCCollectionPoolCareless.cfg` | `HandleHasOneOwner` | violated |
| `write_path` | `MCTaskManager.cfg` | `TypeOK`, `CheckpointOrdering`, `FollowOnBeforeCompletion`, `IndexerOwnsItsCollection`, `EveryAdmittedTaskSettles`, `WritesAreSerial` | holds, 248 916 states |
| `lost_category_edit` | `MCTaskManagerLostEdit.cfg` | `ConfigKeepsEveryEdit` | violated |
| `indexing_queue_depth` | `MCTaskManagerDepth.cfg` | `IndexingQueueWithinMaxDepth` | violated |
| `checkpoint_overtakes_processing` | `MCTaskManagerBarrier.cfg` | `CheckpointCoversEarlierSubmissions` | violated |
| `category_reads` | `MCCategoryReadPath.cfg` | `CatTypeOK`, `ResultSetOnce`, `AnswersAgreeWithCommits` | holds, 91 330 states |
| `category_parent_crash` | `MCCategoryReadPathCrash.cfg` | `TaskErrorsLeaveServerRunning` | violated |
| `lifecycle` | `MCLifecycle.cfg` | `NothingRunsAfterJoin`, `EditsInConfigHaveTheirIndexingTask`, `StopLeadsToJoin`, `CoveredWritesSurviveACrash` | holds, 465 873 states |
| `stop_abandons_queued_work` | `MCLifecycleDrain.cfg` | `JoinedMeansIndexed` | violated |
| `read_path` | `MCReadPath.cfg` | `TypeOK`, `ReadsSeeEarlierCommits`, `ReaderOnlyWhileServing`, `EveryAdmittedRequestIsAnswered` | holds, 231 867 states |
| `collection` | `MCCollection.cfg` | `TypeOK`, `CategoryEditsReachTheDocuments` | holds, 50 873 states |

What the properties say:

* `HandleHasOneOwner`: the number of pointers to an object (in `readonly`, in
  `writable`, in the hands of threads) is one if the object exists and zero if
  not. No leak, no dangling pointer, no object in two hands.
* `ReadonlyCacheBound`: no vector of `readonly` is longer than the limit.
* `WriterSlotFreeWhileLent`: while a thread holds an open writer, the slot of
  its collection is NULL, so its release finds room.
* `BorrowedAtLatestCommit`: an object that enters a thread's hands in a step
  shows every commit made before the step.
* `LendingSpec`: the pool implements `HandleLending`.
* `CheckpointOrdering`: when a checkpoint is reached, every task put on the
  indexing queue before it is performed (applied, failed, or a reached
  checkpoint), and if the checkpoint commits, every change applied before it is
  durable.
* `FollowOnBeforeCompletion`: a processing task reported complete has its
  indexing task on the indexing queue or beyond.
* `IndexerOwnsItsCollection`: the indexing worker's pointer and what it has
  borrowed from the pool are the same; the object is open, writable and
  current.
* `EveryAdmittedTaskSettles`: every admitted request is eventually worked off:
  reported as an error, applied, failed on a resource error, or reached.
* `WritesAreSerial`: the write path implements `SerialWrites`. Whatever the
  handlers, the processing workers and the pool do, the index of a collection
  changes by one task at a time, in the order of its indexing queue, no task
  takes effect twice or after a later one, a checkpoint is reached in its
  place, and `durable` changes only at a committing checkpoint, to what the
  index has then.
* `ResultSetOnce`: no result handle is made ready twice, by a path through
  `perform` or by `perform` and the worker's error report together.
* `AnswersAgreeWithCommits`: the round trip of a category edit, seen from the
  reader. An answer of 200 is about a hierarchy, a category or a parent that
  is committed; that half rests on the isolation of the engine, which the
  model assumes (`Shown`), and tests `perform` only.
  An answer of 404 is about something that was not committed when the
  question came in: a client that saw its commit done and then asks is not
  told "not found", whether the worker's reader is new or lay in the pool's
  cache during the commit. The property fails if `get_readonly` gives out a
  cached reader without reopening it, and if `CollGetCategoryParentTask`
  takes any category of the hierarchy for a parent.
* `NothingRunsAfterJoin`: when `join()` has returned, no worker is in a task,
  no indexing worker has a `Collection`, and the pool has every object back.
  It fails when `perform_task` keeps the result of `get_writable` anywhere
  but in the `Collection *&` of the worker (`category_tasks.cc:175-177`): the
  worker then leaves without giving the writer back.
* `StopLeadsToJoin`: after `stop()`, `join()` returns (or the process has
  died and a new one is there).
* `CoveredWritesSurviveACrash`: once the registry answers reached for a
  checkpoint made with `do_commit`, no step takes a change that was queued
  before the checkpoint out of the index again, the death of the process
  included. It fails if the checkpoint is marked reached before its commit, or
  if `do_commit` is lost on the way to the task.
* `EditsInConfigHaveTheirIndexingTask`: every edit in the config of a
  collection belongs to a category task that is about to be handed to the
  indexing queue, waits there, was applied, or ended in an error: no step of
  this worker or another between `set` (`category_tasks.cc:165`) and
  `queue_indexing_from_processing` (`:166`) leaves an edit in a config
  without its indexing half. When `perform_task` ends in an error
  (`get_writable` at `:176` or `category_add_parent` at `:178` throws) the
  config keeps an edit that the index does not have, which is the design
  document's known gap; the property then says that the task is on record as
  failed, so the gap is never a silent one. With two collections it also
  fails when the indexing half is handed to the queue of the other
  collection. About the death of the process it says nothing: the config a
  new process sees is `StoredConfig`, an assumption of the model.
* `ReadsSeeEarlierCommits`: a request answered with 200 was answered from a
  reader that shows at least the commits its collection had when the request
  came in, also when the reader lay in the cache while the writer committed.
* `ReaderOnlyWhileServing`: a readonly worker holds an open reader of its
  task's collection from `get_readonly` to `release` and nothing otherwise.
* `EveryAdmittedRequestIsAnswered`: a request that a readonly queue admitted
  gets a status code.
* `CategoryEditsReachTheDocuments`: a document whose `A` terms were the
  categories that the transitive closure of the parent relation
  (`Relation!TransitiveClosure`, the reference definition) gives for its `C`
  terms before `category_add_parent`, `category_remove` or `raw_update_doc`
  has them so after it. `from_json` and `set_taxonomy` are left out: they
  replace the taxonomy without being told which categories changed, and the
  tests call them on an empty index only.

### What the violated runs show

1. **Double release** (`collection_pool.cc:118`). `release` returns early for
   NULL only. Released a second time, a writer that sits in its slot is deleted
   and the slot keeps pointing to it; a reader is cached twice. The design
   document asks for a no-op.
2. **Missing return** (`category_tasks.cc:127`).
   `CollGetCategoryParentTask::perform` sets the 404 for a missing hierarchy
   and goes on to `hier->find()` with `hier == NULL`. The other three tasks
   return there. In `CategoryReadPath` a client reaches it with its first
   question: a parent asked of a collection that has no hierarchy of that
   name yet ends the process, and with it every other client's request.
3. **Lost category edit** (`category_tasks.cc:155-165`). Two processing
   workers copy the config, each adds its edit to its copy, each writes its copy
   back: the config has one edit, the index gets both.
4. **Indexing queue beyond its depth** (`category_tasks.cc:166`).
   `queue_indexing_from_processing` has no admission check and no result; the
   design document states `depth <= max depth` of every queue at all times.
5. **A checkpoint overtakes processing** (`checkpoint_handlers.h:46`). The
   checkpoint goes to the indexing queue, a document goes through the
   processing queue first; a checkpoint created after the document was admitted
   is reached before the document is indexed. The barrier holds for the
   indexing queue (`CheckpointOrdering`), not for submissions.
6. **Stop leaves queued work** (`unittests/collection.cc:313`).
   `TEST(CollectionAddViaPipe)` sends a document to the pipe, calls `stop()`
   and `join()`, creates no checkpoint, and expects `doc_count() == 1` from a
   reader it borrows afterwards. The design document's shutdown "drains no
   further work" and commits only at a committing checkpoint: under it the
   document is still queued, or indexed and not committed, when `join()`
   returns. The test describes a task manager that works off its queues and
   commits on the way out.

`CollCreateHandler::enqueue` (`handlers.cc:94`) returns `Queue::FULL` with
every queue empty; the source marks it `FIXME`, and the model takes the
answer as it is.

`IndexDocumentHandler::enqueue` (`handlers.cc:113`) builds its
`ProcessorProcessDocumentTask` from the type, the id and the body, without a
result handle, where the readonly handlers pass theirs: the client of a write
gets the queue state and nothing after it. The design document gives every
task a result handle. In the model the outcome of a processing task is
`tasks[id].result`, which the properties read and no client does; a client
learns of its write through a checkpoint.

## 4. Bounds, symmetry, fairness

| constant | value | why it is enough |
|---|---|---|
| pool: `Threads` | 2 | one borrower against another is the smallest race; the methods are atomic |
| pool: `Collections` | 2 | the maps are keyed by name and a collection never touches another's entry; 2 shows it |
| pool: `Handles` | 3 | one cached, one lent, one being made |
| pool: `max_cached_readers_per_collection` | 1 | the limit is reached and exceeded with two releases; the code compares with the constant only |
| pool: `MaxHeld`, `MaxCommits` | 2, 1 | a thread holds a reader and a writer; one commit separates a stale view from a fresh one |
| write path: `Edits` | 1 (2 in `lost_category_edit`) | an edit is told from another only where two of them race |
| write path: `MaxTasks` | 3 | two tasks before a checkpoint, or a task on each side of it |
| write path: `Workers` | 2 | two processing workers on one collection is the race of the category edit |
| write path: `MaxDepth`, `BusyDepth` | 2, 0 | OK, THROTTLED and FULL all occur within three submissions |
| write path: `Collections`, `Handles` | 1, 1 | the collections share nothing but the pool and the processing workers; the pool has its own runs with two collections, and `lifecycle` has the write path with two; one writer object exists at a time |
| category tasks: `Workers`, `Handles` | 2, 3 | a worker gives its reader back to the cache and the other takes it after the commit; a reader per worker and the writer |
| category tasks: `MaxRequests`, `MaxCommits` | 2, 1 | a question before the commit and one after it |
| category tasks: `Hierarchies`, `CategoryIds` | 1, 3 | the hierarchy is missing before the first edit and present after it; with three ids one category is in the hierarchy with a parent, one without, one is not in it |
| category tasks: `MaxLinks` | 1 | clients add one parent: the edit is in the writer and not committed, then committed; with 2 the run has 1.1 million states and the same cases |
| lifecycle: `Workers`, `MaxTasks` | 2, 2 | `stop()` or the crash finds one task queued and one in a worker's hands, on either queue; a write and the committing checkpoint that covers it; with 3 tasks and one collection the run has 1.5 million states and takes four minutes |
| lifecycle: `Collections`, `Handles` | 2, 2 | two indexing workers, each with its own queue, writer and registry, and processing workers that serve both collections: a task of one collection is in a worker's hands while the other collection's indexing worker leaves, fails or commits; a writer object per collection |
| read path: `Workers`, `Writer` | 2, 1 | one worker gives a reader back to the cache, the writer commits, the other worker takes it |
| read path: `MaxRequests`, `MaxCommits` | 2, 1 | a request before and one after the commit; with 3 requests the run has 6.6 million states and shows nothing new |
| read path: `Handles`, `MaxDepth` | 3, 1 | a reader per worker and the writer; the second request of a category is refused |
| read path: `max_cached_readers_per_collection`, `MaxHeld` | 1, 1 | set in `ReadPath`: a cached reader exists, a worker holds one object |
| collection: `Categories`, `Docs` | 3, 1 | the test's `child`, `parent`, `grand`: an edit two levels above the category of a document; the property speaks of each document by itself |
| collection: `Fields`, `Configs`, `Pipes` | 2, 2, 2 | the test's `store` and `store2`; a field set to the configuration it has and to another one; a pipe that is changed |

Symmetry sets (threads, workers, addresses, requests, category ids,
documents, fields,
configurations, pipes) are used in the runs without a liveness property; the
properties of those runs name no thread, address or category. Deadlock
checking is on for the pool and the collection, which can always be used, and
off elsewhere: after `MaxTasks` or `MaxRequests` requests are worked off,
after the crash of a category task and after `join()` nothing more happens.

Fairness is weak fairness of the steps of each worker thread
(`TaskManager!Fairness`, `Lifecycle!LifeFairness`, `ReadPath!Fairness`). Each
is an operating-system thread that loops on its queue and blocks only when
the queue is empty, so a step that stays possible is taken. `LifeFairness`
adds `join`: its caller is blocked in it until it can return. Nothing is
assumed of submitters, of the caller of `stop()`, or of the writer of the read
path.

## 5. Not modelled

* The index engine behind `Collection`: postings, positions, values, search.
* What a schema, a pipe and a categoriser do to a document (`process_doc`
  beyond the category terms, `categorise`, the n-gram profiles of
  `TEST(CollectionCategoriser)`, the meta terms of `TEST(MetaInfoSimple)` and
  `TEST(MetaInfoMissing)`, the patterns of the default type): functions from
  one document to its terms, with no state and no order of steps; what the
  tests state of them is a table of strings.
* What `set_taxonomy` and `from_json` do to documents that are indexed: the
  tests call them on an empty index.
* The payload of results and documents: a task is an id and a kind, a category
  edit is a model value, the answer of a readonly task is its status code.
* Logging, JSON formatting, error message texts (the message of
  `category_tasks.cc:140` names `parent_id` twice where it means the category
  and the parent; the status code is right).
* `info()` and `clone()` of the category tasks: they copy the task's members
  and change no state.
* Liveness of the category tasks: that every admitted question is answered is
  checked for the read path in `read_path`; with the questions and the
  hierarchies of `CategoryReadPath` and without symmetry the state space is
  beyond what TLC explores in five minutes.
* The bodies of the readonly tasks other than the category tasks (search, document,
  info, status, file): they are outside the sources; the model has their status code
  and the snapshot they read.
* The lazy creation of a collection's queues.
* The admission code of the queues. `Admission` is the contract written in
  the comment of `create_checkpoint` (`checkpoint_handlers.h` 52-59) and in
  the design document; the runs use it and no property is stated about it,
  because such a property would compare the contract with itself.
* That a call of `Collection` which throws leaves the object as it was, and
  that a closed or readonly collection refuses every change: the tests assert
  it and the model is built that way (`Throws`, `Refused`, `Writes`), so it is
  an assumption of the `collection` run and not one of its results.
* How the config reaches the storage directory: the model takes the stored
  config to be what the committed changes make it.
* `CollGetCheckpointsHandler` and `CollGetCheckpointHandler`
  (`checkpoint_handlers.h` has their declarations; their `enqueue` is not in
  the sources). `get_checkpoint` is the registry's answer as the design
  document has it.
* `validation.h` and `multivalue_keymaker.h`: declarations of three name
  checks and of a sort-key maker, without their definitions.

## 6. Plan

Done: the pool and its contract; the write path with checkpoints and the
serial log it implements; the readonly category tasks, run by the readonly
workers on the readers of the pool beside a committing writer; start, stop, join and
the death of the process; the read path; the `Collection` object with its
config and its taxonomy.

Open, in this order:

1. **The shutdown the test expects.** A variant of `Lifecycle` in which the
   workers work off their queues after `stop()` and the indexing worker
   commits before it leaves, checked against `JoinedMeansIndexed` and against
   the rest of `TEST(CollectionAddViaPipe)`: the reader borrowed before the
   write still reports no document after `join()`, a fresh one reports one.
   The test shows the outcome and not the mechanism (who waits for whom when
   a processing worker and an indexing worker leave), and the task manager is
   not in the sources: the variant waits for them.
2. **Checkpoints with three tasks on two collections.** `lifecycle` has two
   collections with two requests, `write_path` three requests on one
   collection; in `lifecycle` three requests on one collection are already
   1.5 million states.
3. **Liveness of the category tasks** (section 5).

------------------------------ MODULE ReadPath ------------------------------
(***************************************************************************)
(* The read path of the server: the handlers of src/src/rest/handlers.cc   *)
(* put readonly tasks on the readonly queues "static", "status", "info"    *)
(* and "search"; readonly workers take them, borrow a reader of the task's *)
(* collection from the CollectionPool, let the task answer and give the    *)
(* reader back.  Meanwhile the writer of the collection commits.           *)
(*                                                                         *)
(* The handlers are the source's.  The queues and the worker loop follow   *)
(* the design document.  The writer is the indexing worker of TaskManager  *)
(* reduced to what the pool and the readers see of it.                     *)
(***************************************************************************)
EXTENDS Naturals, FiniteSets, SequencesExt, TaskQueue

CONSTANTS
    Collections,    \* collection names
    Handles,        \* addresses of Collection objects
    Workers,        \* the readonly worker threads
    Writer,         \* the thread that writes to the collections
    MaxRequests,    \* bound: requests in a behaviour
    MaxCommits,     \* bound: commits per collection
    NULL

ASSUME /\ Workers # {} /\ Writer \notin Workers
       /\ MaxRequests \in Nat \ {0}

VARIABLES
    requests,   \* every request so far, with its answer
    queues,     \* queues[category]: the readonly queue (request ids)
    serving     \* serving[w]: the request worker w has taken, and where it is

VARIABLES readonly, writable, constructed, heap, held, dirs, committed

readVars == <<requests, queues, serving>>
poolVars == <<readonly, writable, constructed, heap, held, dirs, committed>>
vars == <<readVars, poolVars>>

Pool == INSTANCE CollectionPool
            WITH Threads <- Workers \cup {Writer},
                 max_cached_readers_per_collection <- 1,
                 MaxHeld <- 1

Categories == {"static", "status", "info", "search"}

Tasks == {"StaticFileTask", "ServerStatusTask", "CollListTask",
          "CollInfoTask", "PerformSearchTask", "GetDocumentTask"}

NewId == Len(requests) + 1

\* Status codes: 0 while there is no answer.
Answered(id, code, view) ==
    [requests EXCEPT ![id].code = code, ![id].view = view]

-----------------------------------------------------------------------------
(* TaskManager::queue_readonly and the handlers *)

\* The request is recorded with the QueueState the handler gets and with
\* the commits its collection had seen by then; a refused request is
\* answered at once (503).
queue_readonly(category, task, c) ==
    LET state == Admission(queues[category], FALSE) IN
    /\ Len(requests) < MaxRequests
    /\ requests' = Append(requests,
           [task |-> task, coll |-> c, state |-> state,
            seen |-> IF c = NULL THEN 0 ELSE committed[c],
            code |-> IF state = "OK" THEN 0 ELSE 503, view |-> 0])
    /\ queues' = [queues EXCEPT ![category] = push(@, NewId, FALSE)]
    /\ UNCHANGED <<serving, poolVars>>

FileHandler_enqueue == queue_readonly("static", "StaticFileTask", NULL)

ServerStatusHandler_enqueue ==
    queue_readonly("status", "ServerStatusTask", NULL)

CollListHandler_enqueue == queue_readonly("info", "CollListTask", NULL)

CollInfoHandler_enqueue_unqueued(c) ==
    /\ Len(requests) < MaxRequests
    /\ requests' = Append(requests,
           [task |-> "CollInfoTask", coll |-> c, state |-> "OK",
            seen |-> committed[c], code |-> 0, view |-> 0])
    /\ UNCHANGED <<queues, serving, poolVars>>

CollInfoHandler_enqueue(c) == queue_readonly("info", "CollInfoTask", c)

SearchHandler_enqueue(c) == queue_readonly("search", "PerformSearchTask", c)

GetDocumentHandler_enqueue_the_handler(c) ==
    queue_readonly("search", "GetDocumentHandler", c)

GetDocumentHandler_enqueue(c) ==
    queue_readonly("search", "GetDocumentTask", c)

\* No queue and no task: the handler answers by itself.
NotFoundHandler_handle ==
    /\ Len(requests) < MaxRequests
    /\ requests' = Append(requests,
           [task |-> NULL, coll |-> NULL, state |-> NULL, seen |-> 0,
            code |-> 404, view |-> 0])
    /\ UNCHANGED <<queues, serving, poolVars>>

-----------------------------------------------------------------------------
(* The readonly workers *)

Idle == [id |-> 0, pc |-> "idle"]

Busy(w, pc) == serving[w].pc = pc

\* The Collection the worker has borrowed, if any.
Reader(w) == IF held[w] = {} THEN NULL ELSE CHOOSE h \in held[w] : TRUE

Dequeue(w, category) ==
    /\ serving[w] = Idle
    /\ queues[category] # <<>>
    /\ serving' = [serving EXCEPT ![w] =
                       [id |-> front(queues[category]), pc |-> "borrow"]]
    /\ queues' = [queues EXCEPT ![category] = pop(@)]
    /\ UNCHANGED <<requests, poolVars>>

\* A task that needs no Collection answers: the file or a 404, the status,
\* the names of the collections.
PerformAlone(w) ==
    LET id == serving[w].id IN
    /\ Busy(w, "borrow")
    /\ requests[id].coll = NULL
    /\ \E code \in IF requests[id].task = "StaticFileTask"
                   THEN {200, 404} ELSE {200} :
           requests' = Answered(id, code, 0)
    /\ serving' = [serving EXCEPT ![w] = Idle]
    /\ UNCHANGED <<queues, poolVars>>

\* A task on a collection: the worker borrows a reader.  When
\* get_readonly throws (no such collection, storage error) the task's
\* answer is the error and the worker has nothing to give back.
Borrow(w) ==
    LET id == serving[w].id IN
    /\ Busy(w, "borrow")
    /\ requests[id].coll # NULL
    /\ Pool!get_readonly(w, requests[id].coll)
    /\ IF held'[w] = {}
       THEN /\ requests' = Answered(id, 404, 0)
            /\ serving' = [serving EXCEPT ![w] = Idle]
       ELSE /\ serving' = [serving EXCEPT ![w].pc = "perform"]
            /\ UNCHANGED requests
    /\ UNCHANGED queues

\* perform(collection): the answer is made from what the reader shows, or
\* is an error of the task (no such document, a search that is not valid).
Perform(w) ==
    /\ Busy(w, "perform")
    /\ \E code \in {200, 404} :
           requests' = Answered(serving[w].id, code, heap[Reader(w)].view)
    /\ serving' = [serving EXCEPT ![w].pc = "release"]
    /\ UNCHANGED <<queues, poolVars>>

Release(w) ==
    /\ Busy(w, "release")
    /\ Pool!release(w, Reader(w))
    /\ serving' = [serving EXCEPT ![w] = Idle]
    /\ UNCHANGED <<requests, queues>>

-----------------------------------------------------------------------------
(* The writer *)

Write ==
    /\ \/ \E c \in Collections : Pool!get_writable(Writer, c)
       \/ \E h \in held[Writer] : Pool!Commit(Writer, h)
                                     \/ Pool!release(Writer, h)
    /\ UNCHANGED readVars

-----------------------------------------------------------------------------

Init ==
    /\ requests = <<>>
    /\ queues = [category \in Categories |-> <<>>]
    /\ serving = [w \in Workers |-> Idle]
    /\ Pool!Init

Handle ==
    \/ FileHandler_enqueue
    \/ ServerStatusHandler_enqueue
    \/ CollListHandler_enqueue
    \/ NotFoundHandler_handle
    \/ \E c \in Collections :
           \/ CollInfoHandler_enqueue(c)
           \/ SearchHandler_enqueue(c)
           \/ GetDocumentHandler_enqueue(c)

Serve(w) ==
    \/ \E category \in Categories : Dequeue(w, category)
    \/ PerformAlone(w)
    \/ Borrow(w)
    \/ Perform(w)
    \/ Release(w)

Next == Handle \/ Write \/ \E w \in Workers : Serve(w)

Spec == Init /\ [][Next]_vars

\* A readonly worker is a thread that loops on the queues; nothing is
\* assumed of the clients and of the writer.
Fairness == \A w \in Workers : WF_vars(Serve(w))

FairSpec == Spec /\ Fairness

-----------------------------------------------------------------------------
(* Properties *)

Ids == 1 .. MaxRequests

TypeOK ==
    /\ requests \in Seq([task : Tasks \cup {NULL},
                         coll : Collections \cup {NULL},
                         state : QueueState \cup {NULL},
                         seen : 0 .. MaxCommits, view : 0 .. MaxCommits,
                         code : {0, 200, 404, 503}])
    /\ Len(requests) <= MaxRequests
    /\ queues \in [Categories -> Seq(Ids)]
    /\ serving \in [Workers -> [id : Ids \cup {0},
                                pc : {"idle", "borrow", "perform", "release"}]]
    /\ Pool!TypeOK

\* A request is answered from a state of its collection that has every
\* commit made before the request came in: what a client wrote and saw
\* committed (a reached checkpoint with commit) it finds in any search it
\* sends afterwards, whether the worker that serves the search gets a new
\* reader or one that lay in the pool's cache while the writer committed.
ReadsSeeEarlierCommits ==
    \A id \in DOMAIN requests :
        requests[id].coll # NULL /\ requests[id].code = 200
            => requests[id].view >= requests[id].seen

\* A worker has a Collection exactly while it runs a task on it: an open
\* reader of the task's collection from get_readonly until release, and
\* nothing before, after, or when get_readonly threw.  No path of the
\* worker loop keeps or loses a reader.
ReaderOnlyWhileServing ==
    \A w \in Workers :
        IF serving[w].pc \in {"perform", "release"}
        THEN /\ held[w] # {}
             /\ heap[Reader(w)].mode = "readonly"
             /\ heap[Reader(w)].name = requests[serving[w].id].coll
        ELSE held[w] = {}

\* Every request a readonly queue admitted gets its answer, whatever the
\* other requests are, whatever the writer does and whichever opens fail.
EveryAdmittedRequestIsAnswered ==
    \A id \in Ids :
        (id \in DOMAIN requests /\ requests[id].state = "OK")
            ~> (id \in DOMAIN requests /\ requests[id].code # 0)

=============================================================================

---------------------------- MODULE SerialWrites ----------------------------
(***************************************************************************)
(* What the write path of the server promises for every collection,        *)
(* whatever queues and threads make it: the indexing tasks of a collection *)
(* take effect one at a time, in the order in which they were put on its   *)
(* indexing queue, each of them once; a checkpoint is reached in its       *)
(* place in that order; and the durable state changes only when a          *)
(* committing checkpoint is reached, to exactly what the index has then.   *)
(***************************************************************************)
EXTENDS Naturals, FiniteSets, Sequences

CONSTANTS
    Collections,    \* collection names
    Ids             \* task ids

VARIABLES
    pending,    \* pending[c]: the tasks that wait, oldest first
    index,      \* index[c]: the tasks whose change the index has
    flushed,    \* flushed[c]: those of them that are durable
    reached,    \* reached[c]: the checkpoints that are reached
    dropped     \* tasks that ended in a resource error

vars == <<pending, index, flushed, reached, dropped>>

\* A write changes the index; a marker and a commit are checkpoints.
Entries == [id : Ids, kind : {"write", "marker", "commit"}]

Seen(c) ==
    {pending[c][i].id : i \in DOMAIN pending[c]}
        \cup index[c] \cup reached[c] \cup dropped

TypeOK ==
    /\ pending \in [Collections -> Seq(Entries)]
    /\ index \in [Collections -> SUBSET Ids]
    /\ flushed \in [Collections -> SUBSET Ids]
    /\ reached \in [Collections -> SUBSET Ids]
    /\ dropped \subseteq Ids

Init ==
    /\ pending = [c \in Collections |-> <<>>]
    /\ index = [c \in Collections |-> {}]
    /\ flushed = [c \in Collections |-> {}]
    /\ reached = [c \in Collections |-> {}]
    /\ dropped = {}

\* A task that was never seen joins the end.
Enqueue(c, e) ==
    /\ e.id \notin Seen(c)
    /\ pending' = [pending EXCEPT ![c] = Append(@, e)]
    /\ UNCHANGED <<index, flushed, reached, dropped>>

\* The oldest task takes effect ...
Perform(c) ==
    LET e == Head(pending[c]) IN
    /\ index' = IF e.kind = "write" THEN [index EXCEPT ![c] = @ \cup {e.id}]
                ELSE index
    /\ reached' = IF e.kind = "write" THEN reached
                  ELSE [reached EXCEPT ![c] = @ \cup {e.id}]
    /\ flushed' = IF e.kind = "commit" THEN [flushed EXCEPT ![c] = index[c]]
                  ELSE flushed
    /\ UNCHANGED dropped

\* ... or ends in a resource error; a marker touches no resource.
Fail(c) ==
    /\ Head(pending[c]).kind # "marker"
    /\ dropped' = dropped \cup {Head(pending[c]).id}
    /\ UNCHANGED <<index, flushed, reached>>

Take(c) ==
    /\ pending[c] # <<>>
    /\ pending' = [pending EXCEPT ![c] = Tail(@)]
    /\ Perform(c) \/ Fail(c)

Next == \E c \in Collections : Take(c) \/ \E e \in Entries : Enqueue(c, e)

Spec == Init /\ [][Next]_vars

=============================================================================

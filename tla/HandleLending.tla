--------------------------- MODULE HandleLending ----------------------------
(***************************************************************************)
(* What the pool of collections promises its borrowers, without the maps,  *)
(* the vectors and the objects' contents: every handle is bound to one     *)
(* collection name for as long as it exists, and is owned either by the    *)
(* pool (idle, among the readers of its name or as the writer of its       *)
(* name) or by the one thread it was lent to.  The pool keeps at most      *)
(* MaxIdleReaders idle readers and one idle writer per name.               *)
(***************************************************************************)
EXTENDS Naturals, FiniteSets

CONSTANTS Collections, Handles, Threads, MaxIdleReaders, NULL

VARIABLES
    owners,   \* owners[h]: who may use handle h (a set, to show sharing)
    bound     \* bound[h]: the name h is bound to, NULL when h does not exist

lendingVars == <<owners, bound>>

Places == {"readers", "writer"}

\* The handles of collection c that are idle in place p.
IdleIn(p, c) == {h \in Handles : owners[h] = {p} /\ bound[h] = c}

Room(p, c) ==
    Cardinality(IdleIn(p, c)) < (IF p = "readers" THEN MaxIdleReaders ELSE 1)

Init ==
    /\ owners = [h \in Handles |-> {}]
    /\ bound = [h \in Handles |-> NULL]

\* A thread gets a handle of c: an idle one of that name, or a new one.
Lend(t, h, c) ==
    /\ \/ owners[h] = {} /\ bound[h] = NULL
       \/ \E p \in Places : h \in IdleIn(p, c)
    /\ owners' = [owners EXCEPT ![h] = {t}]
    /\ bound' = [bound EXCEPT ![h] = c]

\* The thread that has a handle gives it back: it becomes idle where there
\* is room for it, or ceases to exist.
Return(t, h) ==
    /\ owners[h] = {t}
    /\ \/ /\ \E p \in Places : /\ Room(p, bound[h])
                               /\ owners' = [owners EXCEPT ![h] = {p}]
          /\ UNCHANGED bound
       \/ /\ owners' = [owners EXCEPT ![h] = {}]
          /\ bound' = [bound EXCEPT ![h] = NULL]

\* The pool gives up idle handles: they cease to exist.
Discard(H) ==
    /\ H # {}
    /\ \A h \in H : \E p \in Places : owners[h] = {p}
    /\ owners' = [h \in Handles |-> IF h \in H THEN {} ELSE owners[h]]
    /\ bound' = [h \in Handles |-> IF h \in H THEN NULL ELSE bound[h]]

Next ==
    \/ \E t \in Threads, h \in Handles, c \in Collections : Lend(t, h, c)
    \/ \E t \in Threads, h \in Handles : Return(t, h)
    \/ \E H \in SUBSET Handles : Discard(H)

Spec == Init /\ [][Next]_lendingVars

=============================================================================

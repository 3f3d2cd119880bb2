--------------------------- MODULE CollectionPool ---------------------------
(***************************************************************************)
(* The pool of Collection objects that the threads of the server share     *)
(* (src/src/jsonxapian/collection_pool.cc).                                *)
(*                                                                         *)
(* The pool keeps, per collection name, a vector of idle readonly          *)
(* Collection objects and one slot for an idle writable one.  A borrower   *)
(* takes an object with get_readonly or get_writable, uses it outside the  *)
(* pool's mutex and gives it back with release.  Every method holds the    *)
(* mutex from its first access of the maps to its return, so a method is   *)
(* one step here.                                                          *)
(*                                                                         *)
(* A Collection object is a member of Handles, the set of addresses the    *)
(* allocator can give out; heap says what is at each address.  What the    *)
(* index engine does on open, commit and close is not part of the pool's   *)
(* source: it is modelled at its boundary (a name-keyed set of storage     *)
(* directories, a commit counter per collection and the engine's write     *)
(* lock).                                                                  *)
(***************************************************************************)
EXTENDS Naturals, FiniteSets, SequencesExt

CONSTANTS
    Collections,                        \* collection names
    Handles,                            \* addresses of Collection objects
    Threads,                            \* threads that borrow from the pool
    max_cached_readers_per_collection,  \* 5 in the constructor
    MaxHeld,                            \* bound: objects a thread holds at once
    MaxCommits,                         \* bound: commits per collection
    NULL

ASSUME /\ Collections # {} /\ Handles # {} /\ Threads # {}
       /\ NULL \notin Collections \cup Handles \cup Threads
       /\ max_cached_readers_per_collection \in Nat
       /\ MaxHeld \in Nat \ {0}
       /\ MaxCommits \in Nat

VARIABLES
    readonly,     \* map<string, vector<Collection *>>: idle readers per name
    writable,     \* map<string, Collection *>: the idle writer per name, or NULL
    constructed,  \* the pool object exists
    heap,         \* heap[h]: the Collection object at address h
    held,         \* held[t]: the pointers thread t got and has not given back
    dirs,         \* names that have a storage directory under datadir
    committed     \* committed[c]: number of commits the storage of c has seen

poolVars == <<readonly, writable, constructed>>
vars == <<readonly, writable, constructed, heap, held, dirs, committed>>

-----------------------------------------------------------------------------
(* Collection objects *)

Modes == {"closed", "readonly", "writable"}

\* No object at this address.
NoObject == [name |-> NULL, mode |-> "dead", view |-> 0]

Alive == {h \in Handles : heap[h].mode # "dead"}

is_writable(h) == heap[h].mode = "writable"

\* The heap after delete of every object of H.
Deleted(H) == [h \in Handles |-> IF h \in H THEN NoObject ELSE heap[h]]

\* The heap after object h (made by new Collection(c, datadir + c) if it did
\* not exist) was opened in mode m: it shows the commits the storage has seen
\* at this moment.
Opened(h, c, m) ==
    [heap EXCEPT ![h] = [name |-> c, mode |-> m, view |-> committed[c]]]

\* The open objects that have the engine's write lock of collection c.
WriteLockHolders(c) == {h \in Alive : heap[h].name = c /\ is_writable(h)}

\* open_readonly() succeeds only on existing storage, open_writable() only
\* when no other object has the write lock; both may fail on storage errors.
CanOpenReadonly(c) == c \in dirs
CanOpenWritable(h, c) == WriteLockHolders(c) \subseteq {h}

-----------------------------------------------------------------------------
(* The two maps *)

\* readonly.find(c): the vector of c, empty when there is no entry.
Readers(c) == IF c \in DOMAIN readonly THEN readonly[c] ELSE <<>>

\* writable.find(c): the pointer in the slot of c, NULL when there is no entry.
Slot(c) == IF c \in DOMAIN writable THEN writable[c] ELSE NULL

\* f with the entry of key k inserted or overwritten.
Put(f, k, v) == [x \in DOMAIN f \cup {k} |-> IF x = k THEN v ELSE f[x]]

CachedReaders == UNION {ToSet(readonly[c]) : c \in DOMAIN readonly}
CachedWriters == Range(writable) \ {NULL}
Borrowed == UNION {held[t] : t \in Threads}

-----------------------------------------------------------------------------
(* CollectionPool *)

CollectionPool ==
    /\ ~constructed
    /\ constructed' = TRUE
    /\ readonly' = <<>>
    /\ writable' = <<>>
    /\ UNCHANGED <<heap, held, dirs, committed>>

\* DestroyCollectionPool without its second loop: the idle writers are
\* forgotten, not deleted.
DestroyCollectionPool_readers_only ==
    /\ constructed
    /\ Borrowed = {}
    /\ constructed' = FALSE
    /\ heap' = Deleted(CachedReaders)
    /\ readonly' = <<>>
    /\ writable' = <<>>
    /\ UNCHANGED <<held, dirs, committed>>

\* The destructor deletes what is cached.  It runs when the pool goes out of
\* scope, after the borrowers have given back what they held.
DestroyCollectionPool ==
    /\ constructed
    /\ Borrowed = {}
    /\ constructed' = FALSE
    /\ heap' = Deleted(CachedReaders \cup CachedWriters)
    /\ readonly' = <<>>
    /\ writable' = <<>>
    /\ UNCHANGED <<held, dirs, committed>>

\* exists(collection): an entry in either map counts, whatever it holds.
exists(c) ==
    \/ c \in DOMAIN readonly
    \/ c \in DOMAIN writable
    \/ c \in dirs

\* get_names(result): the directories under datadir.
get_names == dirs

\* get_readonly without pop_back(): the vector keeps the pointer it returns.
get_readonly_without_pop(t, c) ==
    /\ constructed
    /\ Cardinality(held[t]) < MaxHeld
    /\ \E h \in IF Readers(c) = <<>> THEN Handles \ Alive
                                     ELSE {Last(Readers(c))} :
        /\ CanOpenReadonly(c)
        /\ heap' = Opened(h, c, "readonly")
        /\ held' = [held EXCEPT ![t] = @ \cup {h}]
    /\ UNCHANGED <<poolVars, dirs, committed>>

\* get_readonly with open_readonly() in the branch of the new object only: a
\* cached reader is handed out as it was when it was released.
get_readonly_without_reopen(t, c) ==
    /\ constructed
    /\ Cardinality(held[t]) < MaxHeld
    /\ \/ /\ Readers(c) = <<>>
          /\ CanOpenReadonly(c)
          /\ \E h \in Handles \ Alive :
                /\ heap' = Opened(h, c, "readonly")
                /\ held' = [held EXCEPT ![t] = @ \cup {h}]
          /\ UNCHANGED readonly
       \/ /\ Readers(c) # <<>>
          /\ readonly' = [readonly EXCEPT ![c] = Front(@)]
          /\ held' = [held EXCEPT ![t] = @ \cup {Last(Readers(c))}]
          /\ UNCHANGED heap
    /\ UNCHANGED <<writable, constructed, dirs, committed>>

\* get_readonly that returns the object although open_readonly() threw.
get_readonly_swallows_the_error(t, c) ==
    /\ constructed
    /\ Cardinality(held[t]) < MaxHeld
    /\ \E h \in IF Readers(c) = <<>> THEN Handles \ Alive
                                     ELSE {Last(Readers(c))} :
        /\ readonly' = IF Readers(c) = <<>> THEN readonly
                       ELSE [readonly EXCEPT ![c] = Front(@)]
        /\ heap' = Opened(h, c, IF CanOpenReadonly(c) THEN "readonly"
                                                      ELSE "closed")
        /\ held' = [held EXCEPT ![t] = @ \cup {h}]
    /\ UNCHANGED <<writable, constructed, dirs, committed>>

get_readonly(t, c) ==
    /\ constructed
    /\ Cardinality(held[t]) < MaxHeld
    /\ \E h \in IF Readers(c) = <<>> THEN Handles \ Alive
                                     ELSE {Last(Readers(c))} :
        /\ readonly' = IF Readers(c) = <<>> THEN readonly
                       ELSE [readonly EXCEPT ![c] = Front(@)]
        /\ \/ /\ CanOpenReadonly(c)
              /\ heap' = Opened(h, c, "readonly")
              /\ held' = [held EXCEPT ![t] = @ \cup {h}]
           \/ /\ heap' = Deleted({h})      \* open threw: auto_ptr deletes it
              /\ UNCHANGED held
    /\ UNCHANGED <<writable, constructed, dirs, committed>>

\* get_writable without "i->second = NULL": the slot keeps the pointer it
\* returns.
get_writable_keeps_slot(t, c) ==
    /\ constructed
    /\ Cardinality(held[t]) < MaxHeld
    /\ \E h \in IF Slot(c) = NULL THEN Handles \ Alive ELSE {Slot(c)} :
        /\ CanOpenWritable(h, c)
        /\ heap' = Opened(h, c, "writable")
        /\ held' = [held EXCEPT ![t] = @ \cup {h}]
        /\ dirs' = dirs \cup {c}
    /\ UNCHANGED <<poolVars, committed>>

get_writable(t, c) ==
    /\ constructed
    /\ Cardinality(held[t]) < MaxHeld
    /\ \E h \in IF Slot(c) = NULL THEN Handles \ Alive ELSE {Slot(c)} :
        /\ writable' = IF Slot(c) = NULL THEN writable
                       ELSE [writable EXCEPT ![c] = NULL]
        /\ \/ /\ CanOpenWritable(h, c)
              /\ heap' = Opened(h, c, "writable")
              /\ held' = [held EXCEPT ![t] = @ \cup {h}]
              /\ dirs' = dirs \cup {c}
           \/ /\ heap' = Deleted({h})      \* open threw: auto_ptr deletes it
              /\ UNCHANGED <<held, dirs>>
    /\ UNCHANGED <<readonly, constructed, committed>>

\* release of an open writer: into the slot of its name when that is empty;
\* when the slot is taken the object is deleted on return.
ReleaseWritable(h) ==
    LET c == heap[h].name
        free == Slot(c) = NULL
    IN  /\ is_writable(h)
        /\ writable' = IF free THEN Put(writable, c, h) ELSE writable
        /\ heap' = IF free THEN heap ELSE Deleted({h})
        /\ UNCHANGED readonly

\* ReleaseReadonly with "<=" for "<" in the test of the limit.
ReleaseReadonly_off_by_one(h) ==
    LET c == heap[h].name
        room == Len(Readers(c)) <= max_cached_readers_per_collection
    IN  /\ ~is_writable(h)
        /\ readonly' = Put(readonly, c, IF room THEN Append(Readers(c), h)
                                                ELSE Readers(c))
        /\ heap' = IF room THEN heap ELSE Deleted({h})
        /\ UNCHANGED writable

\* ReleaseReadonly with push_back(NULL) and no assignment to back().
ReleaseReadonly_pushes_null(h) ==
    LET c == heap[h].name
        room == Len(Readers(c)) < max_cached_readers_per_collection
    IN  /\ ~is_writable(h)
        /\ readonly' = Put(readonly, c, IF room THEN Append(Readers(c), NULL)
                                                ELSE Readers(c))
        /\ heap' = Deleted({h})
        /\ UNCHANGED writable

\* release of anything else: onto the vector of its name (created if there is
\* none) while that is under the limit, deleted on return otherwise.
ReleaseReadonly(h) ==
    LET c == heap[h].name
        room == Len(Readers(c)) < max_cached_readers_per_collection
    IN  /\ ~is_writable(h)
        /\ readonly' = Put(readonly, c, IF room THEN Append(Readers(c), h)
                                                ELSE Readers(c))
        /\ heap' = IF room THEN heap ELSE Deleted({h})
        /\ UNCHANGED writable

release(t, h) ==
    /\ constructed
    /\ \/ /\ h = NULL
          /\ UNCHANGED <<readonly, writable, heap>>
       \/ /\ h # NULL
          /\ ReleaseWritable(h) \/ ReleaseReadonly(h)
    /\ held' = [held EXCEPT ![t] = @ \ {h}]
    /\ UNCHANGED <<constructed, dirs, committed>>

-----------------------------------------------------------------------------
(* What a borrower does with an object it holds *)

\* commit(): the changes made through the writer become what readers open.
Commit(t, h) ==
    /\ h \in held[t]
    /\ is_writable(h)
    /\ committed[heap[h].name] < MaxCommits
    /\ committed' = [committed EXCEPT ![heap[h].name] = @ + 1]
    /\ heap' = [heap EXCEPT ![h].view = committed[heap[h].name] + 1]
    /\ UNCHANGED <<poolVars, held, dirs>>

\* close(): the object stays bound to its name and gives up the write lock.
Close(t, h) ==
    /\ h \in held[t]
    /\ heap[h].mode # "closed"
    /\ heap' = [heap EXCEPT ![h].mode = "closed"]
    /\ UNCHANGED <<poolVars, held, dirs, committed>>

-----------------------------------------------------------------------------

Init ==
    /\ readonly = <<>>
    /\ writable = <<>>
    /\ constructed = TRUE
    /\ heap = [h \in Handles |-> NoObject]
    /\ held = [t \in Threads |-> {}]
    /\ dirs = {}
    /\ committed = [c \in Collections |-> 0]

\* What thread t may do: borrow, give back what it holds (or NULL), use what
\* it holds.
Borrow(t) ==
    \E c \in Collections : get_readonly(t, c) \/ get_writable(t, c)

GiveBack(t) ==
    \E h \in held[t] \cup {NULL} : release(t, h)

Use(t) ==
    \E h \in held[t] : Commit(t, h) \/ Close(t, h)

Next ==
    \/ CollectionPool
    \/ DestroyCollectionPool
    \/ \E t \in Threads : Borrow(t) \/ GiveBack(t) \/ Use(t)

Spec == Init /\ [][Next]_vars

-----------------------------------------------------------------------------

TypeOK ==
    /\ DOMAIN readonly \subseteq Collections
    /\ \A c \in DOMAIN readonly : readonly[c] \in Seq(Handles)
    /\ DOMAIN writable \subseteq Collections
    /\ \A c \in DOMAIN writable : writable[c] \in Handles \cup {NULL}
    /\ constructed \in BOOLEAN
    /\ \A h \in Handles :
        \/ heap[h] = NoObject
        \/ heap[h] \in [name : Collections, mode : Modes, view : 0..MaxCommits]
    /\ held \in [Threads -> SUBSET Handles]
    /\ dirs \subseteq Collections
    /\ committed \in [Collections -> 0..MaxCommits]

-----------------------------------------------------------------------------
(* Safety *)

\* The places that point to h: threads, writer slots, positions of vectors.
Holders(h) == {t \in Threads : h \in held[t]}
SlotsOf(h) == {c \in DOMAIN writable : writable[c] = h}
PositionsOf(h) ==
    UNION {{<<c, i>> : i \in {j \in DOMAIN readonly[c] : readonly[c][j] = h}} :
           c \in DOMAIN readonly}
Pointers(h) ==
    Cardinality(Holders(h)) + Cardinality(SlotsOf(h))
        + Cardinality(PositionsOf(h))

\* Every Collection object has exactly one owner: it is in one vector of
\* readonly at one position, or in one slot of writable, or with one
\* borrower; and nothing points to a deleted object.  get_readonly and
\* get_writable take the pointer out of the map before they return it,
\* release puts it in or lets auto_ptr delete it, the destructor deletes
\* what is cached: none of them may leak, share or leave a dangling pointer.
HandleHasOneOwner ==
    \A h \in Handles : Pointers(h) = IF h \in Alive THEN 1 ELSE 0

\* release never lets the vector of idle readers of a collection grow past
\* max_cached_readers_per_collection, however many readers are given back.
ReadonlyCacheBound ==
    \A c \in DOMAIN readonly :
        Len(readonly[c]) <= max_cached_readers_per_collection

\* While a borrower has an open writer of a collection, the writer slot of
\* that collection is empty and stays so: release of a writer always finds
\* the slot free, and its branch that deletes the writer is never taken.
WriterSlotFreeWhileLent ==
    \A h \in Borrowed : is_writable(h) => Slot(heap[h].name) = NULL

\* What get_readonly and get_writable hand out is bound to the name asked
\* for and shows every commit made so far, whether the object is new or was
\* idle in the pool while the writer committed: open is called on both.
BorrowedAtLatestCommit ==
    [][\A t \in Threads : \A h \in held'[t] \ held[t] :
          heap'[h].view = committed[heap'[h].name]]_vars

-----------------------------------------------------------------------------
(* The pool implements HandleLending *)

ownersOf ==
    [h \in Handles |->
        Holders(h) \cup (IF h \in CachedReaders THEN {"readers"} ELSE {})
                   \cup (IF h \in CachedWriters THEN {"writer"} ELSE {})]

boundOf == [h \in Handles |-> heap[h].name]

Lending ==
    INSTANCE HandleLending
    WITH owners <- ownersOf, bound <- boundOf,
         MaxIdleReaders <- max_cached_readers_per_collection

\* Every step of the pool is a step of HandleLending or leaves ownership as
\* it is: a handle goes from the pool or from nowhere to one thread, from
\* that thread back to the pool while there is room, and out of existence
\* only from the pool or from the thread that has it.
LendingSpec == Lending!Spec

=============================================================================

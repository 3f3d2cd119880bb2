---------------------- MODULE MCCollectionPoolCareless ----------------------
(***************************************************************************)
(* CollectionPool with borrowers that may call release a second time with  *)
(* a pointer they have already given back.  release() returns early for    *)
(* NULL only; for any other pointer it takes ownership again.              *)
(***************************************************************************)
EXTENDS CollectionPool

VARIABLE released   \* released[t]: the pointers thread t has given back

carelessVars == <<vars, released>>

CarelessInit ==
    /\ Init
    /\ released = [t \in Threads |-> {}]

\* release(h) by the thread that holds h.
ReleaseHeld(t) ==
    \E h \in held[t] :
        /\ release(t, h)
        /\ released' = [released EXCEPT ![t] = @ \cup {h}]

\* release(h) once more, of a pointer whose object still exists.
ReleaseAgain(t) ==
    \E h \in (released[t] \cap Alive) \ held[t] :
        /\ release(t, h)
        /\ UNCHANGED released

CarelessNext ==
    \/ /\ \/ CollectionPool
          \/ DestroyCollectionPool
          \/ \E t \in Threads : Borrow(t) \/ Use(t)
       /\ UNCHANGED released
    \/ \E t \in Threads : ReleaseHeld(t) \/ ReleaseAgain(t)

CarelessSpec == CarelessInit /\ [][CarelessNext]_carelessVars

=============================================================================

-------------------------- MODULE MCCollectionPool --------------------------
(***************************************************************************)
(* CollectionPool for TLC: borrowers that only give back what they hold.   *)
(***************************************************************************)
EXTENDS CollectionPool, TLC

\* Threads and object addresses are interchangeable: no definition of
\* CollectionPool tells two of them apart other than by equality.
Symmetry == Permutations(Threads) \cup Permutations(Handles)

=============================================================================

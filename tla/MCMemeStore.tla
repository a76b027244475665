---------------------------- MODULE MCMemeStore ----------------------------
(***************************************************************************)
(* Model checking MemeStore.  Threads are alike, and so are uuids.         *)
(***************************************************************************)
EXTENDS MemeStore, TLC

Alike == Permutations(Threads) \cup Permutations(Images)
=============================================================================

-------------------------- MODULE MCFetchScheduler --------------------------
(***************************************************************************)
(* Small instances of FetchScheduler.  Projects are interchangeable, and   *)
(* so are the cycles other than the loop's.                                *)
(***************************************************************************)
EXTENDS FetchScheduler, TLC

Symmetry == Permutations(Projects) \cup Permutations(Cycles \ {Loop})
=============================================================================

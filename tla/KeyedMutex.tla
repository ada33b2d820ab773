----------------------------- MODULE KeyedMutex -----------------------------
(***************************************************************************)
(* What AppState.ops promises to its callers: a lock per key that has one  *)
(* owner at a time and that only its owner gives back.  Trying it while it *)
(* is taken changes nothing.                                               *)
(***************************************************************************)
CONSTANTS Keys, Actors, Nobody

VARIABLE owner

Free(k) == owner[k] = Nobody

Acquire(k, a) == Free(k) /\ owner' = [owner EXCEPT ![k] = a]

Release(k, a) == owner[k] = a /\ owner' = [owner EXCEPT ![k] = Nobody]

Init == owner = [k \in Keys |-> Nobody]

Next == \E k \in Keys, a \in Actors : Acquire(k, a) \/ Release(k, a)

Spec == Init /\ [][Next]_owner
=============================================================================

------------------------------ MODULE MCOpLock ------------------------------
(***************************************************************************)
(* A folder "outer" with a repository "inner" nested in it, and a path      *)
(* "gone" below that one where no folder is.                               *)
(***************************************************************************)
EXTENDS OpLock, TLC

CONSTANTS outer, inner, gone, rel

MCDirs == {outer, inner, gone}

MCExisting == {outer, inner}

MCBelow == [t \in MCDirs \X {rel} |-> CASE t[1] = outer -> inner
                                   [] t[1] = inner -> gone
                                   [] OTHER -> NoDir]

Symmetry == Permutations(Calls) \cup Permutations(Projects)
=============================================================================

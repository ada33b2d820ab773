--------------------------- MODULE MCLspSessions ---------------------------
(***************************************************************************)
(* Small instances of LspSessions.                                         *)
(***************************************************************************)
EXTENDS LspSessions, TLC

Symmetry == Permutations(Clients) \cup Permutations(Servers) \cup Permutations(Projects)
=============================================================================

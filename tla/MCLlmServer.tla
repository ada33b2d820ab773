---------------------------- MODULE MCLlmServer ----------------------------
(***************************************************************************)
(* Settings with a context below the agent's, with one above it, and with  *)
(* an external server.                                                     *)
(***************************************************************************)
EXTENDS LlmServer, TLC

CONSTANT model

Local(ctx) == [external |-> FALSE, model |-> model, ctx |-> ctx, backend |-> "auto"]

MCOneSetting == {Local(8)}

MCSettings == {Local(8), Local(64), [Local(8) EXCEPT !.external = TRUE]}

Symmetry == Permutations(Conns) \cup Permutations(Servers)
=============================================================================

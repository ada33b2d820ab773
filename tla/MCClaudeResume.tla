--------------------------- MODULE MCClaudeResume ---------------------------
(***************************************************************************)
(* Small instances of ClaudeResume.                                        *)
(***************************************************************************)
EXTENDS ClaudeResume

CONSTANTS t1, t2, \* terminals
          s1, s2  \* sessions
=============================================================================

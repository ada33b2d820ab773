----------------------------- MODULE MCImageDoc -----------------------------
(***************************************************************************)
(* Small instances of ImageDoc.                                            *)
(***************************************************************************)
EXTENDS ImageDoc

CONSTANTS x1  \* a layer
=============================================================================

---------------------------- MODULE MCCaptionDoc ----------------------------
(***************************************************************************)
(* Small instances of CaptionDoc.                                          *)
(***************************************************************************)
EXTENDS CaptionDoc, TLC

Symmetry == Permutations(Edits)
=============================================================================

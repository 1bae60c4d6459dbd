------------------------------ MODULE MCAnswers ------------------------------
(***************************************************************************)
(* Small instances of Overlap for TLC.                                     *)
(***************************************************************************)
EXTENDS MCGrants, Overlap
=============================================================================

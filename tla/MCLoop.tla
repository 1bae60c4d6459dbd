------------------------------- MODULE MCLoop -------------------------------
(***************************************************************************)
(* Small instances of CleanupLoop for TLC.                                 *)
(***************************************************************************)
EXTENDS MCGrants, CleanupLoop
=============================================================================

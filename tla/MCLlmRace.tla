------------------------------ MODULE MCLlmRace ------------------------------
(***************************************************************************)
(* Small instances of LlmRace.                                             *)
(***************************************************************************)
EXTENDS LlmRace
=============================================================================

-------------------------- MODULE MCLowLatencyMerge --------------------------
(***************************************************************************)
(* Small instances of LowLatencyMerge; the numbers are in the .cfg files.  *)
(***************************************************************************)
EXTENDS LowLatencyMerge
=============================================================================

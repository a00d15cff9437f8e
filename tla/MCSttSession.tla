---------------------------- MODULE MCSttSession ----------------------------
(***************************************************************************)
(* Small instances of SttSession; each configuration chooses what happens. *)
(***************************************************************************)
EXTENDS SttSession
=============================================================================

---------------------------- MODULE MCPeerRuntime ----------------------------
(***************************************************************************)
(* Small instances of PeerRuntime: two configurations to switch between.   *)
(***************************************************************************)
EXTENDS PeerRuntime
=============================================================================

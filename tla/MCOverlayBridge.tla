--------------------------- MODULE MCOverlayBridge ---------------------------
(***************************************************************************)
(* Small instances of OverlayBridge.                                       *)
(***************************************************************************)
EXTENDS OverlayBridge
=============================================================================

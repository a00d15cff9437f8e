--------------------------- MODULE MCOverlayRuntime ---------------------------
(***************************************************************************)
(* Small instances of OverlayRuntime.                                      *)
(***************************************************************************)
EXTENDS OverlayRuntime
=============================================================================

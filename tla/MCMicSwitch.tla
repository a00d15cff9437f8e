----------------------------- MODULE MCMicSwitch ------------------------------
(***************************************************************************)
(* A small instance of MicSwitch: one task that applies settings beside    *)
(* the switch, or two, and names for three microphones.                    *)
(***************************************************************************)
EXTENDS MicSwitch
=============================================================================

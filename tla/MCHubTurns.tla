------------------------------ MODULE MCHubTurns ------------------------------
(***************************************************************************)
(* Small instances of HubTurns.  The two channels share only the switches  *)
(* of translation and overlay, so that an instance has texts of one of     *)
(* them in a behaviour: the invariants relate texts of one channel.        *)
(***************************************************************************)
EXTENDS HubTurns

CONSTANTS u1, m1, p1

OneChannel ==
    \/ over \subseteq Spoken /\ \A t \in PeerTurns : at[t] = "none"
    \/ over \subseteq Peers /\ \A t \in Texts \ PeerTurns : at[t] = "none"

MCSpec == Init /\ [][Next /\ OneChannel']_vars /\ Fairness
=============================================================================

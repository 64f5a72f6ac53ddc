----------------------------- MODULE MCTeamsApp -----------------------------
(* The instances of the app alone. *)
EXTENDS TeamsAppInvariants, MCConstants

\* Every community is connected at the start, and stays so where nothing is
\* revoked or uninstalled.
MCConnectedInit == Init /\ \A n \in Networks : Connected(n)

MCConnectedSpec == MCConnectedInit /\ [][Next]_vars
=============================================================================

----------------------------- MODULE MCBrowsers -----------------------------
(***************************************************************************)
(* The browsers of two administrators.  The community of the second one is *)
(* connected at the start: only the first may have to go to Microsoft.     *)
(***************************************************************************)
EXTENDS Browsers, MCConstants

MCCommunityOf == [b \in Browsers |-> IF b = "b3" THEN "n2" ELSE "n1"]

MCInit == BrowsersInit /\ Connected("n2")

MCSpec == MCInit /\ [][BrowsersNext]_<<vars, browsing>>
=============================================================================

---------------------------- MODULE MCConstants ----------------------------
(***************************************************************************)
(* Values of the constants for TLC.  Two communities; n1 has the spaces s1 *)
(* and s2 of t1 and t2, n2 the space s3 of t3 and t4.  The account of n1   *)
(* is in the team of t1, t2 and t4 only, the account of n2 in both teams.  *)
(***************************************************************************)
EXTENDS TeamsApp, TLC

MCSpaceOf ==
  [t \in Targets |->
     CASE t = "t1" -> "s1" [] t = "t2" -> "s2" [] t \in {"t3", "t4"} -> "s3"]
MCSpaceOwner == [s \in Spaces |-> IF s = "s3" THEN "n2" ELSE "n1"]
MCTeamOf == [t \in Targets |-> IF t = "t3" THEN "eng" ELSE "ops"]
MCJoined ==
  [n \in Networks |-> IF n = "n1" THEN {"ops"} ELSE {"ops", "eng"}]

RequestSymmetry == Permutations(Requests)
ProcessSymmetry == Permutations(Requests) \cup Permutations(Workers)
=============================================================================

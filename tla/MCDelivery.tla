----------------------------- MODULE MCDelivery -----------------------------
(***************************************************************************)
(* The instances of the app together with the bot, which is installed in   *)
(* teams and for a person.                                                 *)
(***************************************************************************)
EXTENDS Delivery, MCConstants

MCChannelOf ==
  [t \in Targets |->
     CASE t = "t1" -> "c1" [] t = "t3" -> "c3"]
MCChannelsOf ==
  [i \in Installations |->
     CASE i = "ops" -> {"c1"} [] i = "eng" -> {"c3"} [] i = "person" -> {}]

\* Every community is connected at the start, and none is disconnected where
\* nothing is revoked or uninstalled.
MCConnectedInit == DeliveryInit /\ \A n \in Networks : Connected(n)

MCConnectedSpec == MCConnectedInit /\ [][DeliveryNext]_DeliveryVars
=============================================================================

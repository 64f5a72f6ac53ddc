---------------------------- MODULE SettingsPage ----------------------------
(***************************************************************************)
(* Rendering of the settings block: getNetworkSettingsInteractionResponse  *)
(* without a callbackId, and getConnectSettingsWithChannelsResponse with   *)
(* channelMaker.  It reads the database three times, at three awaits.      *)
(* One Microsoft account connects a community, and Joined is what Graph    *)
(* answers to joinedTeams for it.                                          *)
(***************************************************************************)
EXTENDS Worker

CONSTANTS
  Teams,
  TeamOf,     \* the team of a target's channel
  Joined      \* the teams the account of a community is a member of

ASSUME TeamsKnown ==
  /\ TeamOf \in [Targets -> Teams]
  /\ Joined \in [Networks -> SUBSET Teams]

VARIABLES
  user,       \* the Network document a page read, used until it is answered
  listed      \* the Channel documents a page lists

view == <<user, listed>>

ViewInit ==
  /\ user = [r \in Requests |-> NoRecord]
  /\ listed = [r \in Requests |-> {}]

ListedIds(r) == {c[1] : c \in listed[r]}

PageNetwork(r) ==
  /\ pc[r] = "page-network"
  /\ user' = [user EXCEPT ![r] = network[job[r].net]]
  /\ Goto(r, "page-channels")
  /\ UNCHANGED <<db, listed>>

\* Bug: the slate with channels is shown to every connected community.
PageChannelsAlways(r) ==
  /\ pc[r] = "page-channels"
  /\ UNCHANGED <<db, view>>
  /\ \/ user[r] = NoRecord /\ Answer(r, "disconnected")
     \/ user[r] # NoRecord /\ Goto(r, "page-children")

\* The channels of every community decide which slate is shown.
PageChannels(r) ==
  /\ pc[r] = "page-channels"
  /\ UNCHANGED <<db, view>>
  /\ \/ user[r] = NoRecord /\ Answer(r, "disconnected")
     \/ user[r] # NoRecord /\ StoredRows # {} /\ Goto(r, "page-children")
     \/ user[r] # NoRecord /\ StoredRows = {} /\ Answer(r, "connected")

\* Bug: only the first document is rendered.
PageFirstChild(r) ==
  /\ pc[r] = "page-children"
  /\ \E i \in StoredRows : listed' = [listed EXCEPT ![r] = FindMany({i})]
  /\ Goto(r, "page-teams")
  /\ UNCHANGED <<db, user>>

\* They are read a second time; children[0] of an empty answer throws.
PageChildren(r) ==
  /\ pc[r] = "page-children"
  /\ StoredRows # {}
  /\ listed' = [listed EXCEPT ![r] = FindMany(StoredRows)]
  /\ Goto(r, "page-teams")
  /\ UNCHANGED <<db, user>>

PageChildrenEmpty(r) ==
  /\ pc[r] = "page-children"
  /\ StoredRows = {}
  /\ Answer(r, "error")
  /\ UNCHANGED <<db, view>>

PageReadFails(r) ==
  /\ pc[r] \in {"page-network", "page-channels", "page-children"}
  /\ "db" \in Faults
  /\ Answer(r, "error")
  /\ UNCHANGED <<db, view>>

\* channelMaker dereferences the team it finds for each connection, and
\* joinedTeams of the account "undefined" gives no list.
TeamsFound(r) ==
  /\ user[r].microsoftId # Undefined
  /\ \A c \in listed[r] : TeamOf[c[2].target] \in Joined[job[r].net]

PageTeams(r) ==
  /\ pc[r] = "page-teams"
  /\ TeamsFound(r)
  /\ Answer(r, "channels")
  /\ UNCHANGED <<db, view>>

\* Graph or Bettermode failing, or a team that is not found: an HTTP 500.
PageTeamsFails(r) ==
  /\ pc[r] = "page-teams"
  /\ ~TeamsFound(r) \/ Faults \cap {"graph", "bettermode"} # {}
  /\ Answer(r, "error")
  /\ UNCHANGED <<db, view>>

GetNetworkSettings(r) ==
  \/ PageNetwork(r) \/ PageChannels(r)
  \/ PageChildren(r) \/ PageChildrenEmpty(r) \/ PageReadFails(r)
  \/ PageTeams(r) \/ PageTeamsFails(r)

ViewTypeOK ==
  /\ user \in [Requests -> Record \cup {NoRecord}]
  /\ listed \in [Requests -> SUBSET Documents]
=============================================================================

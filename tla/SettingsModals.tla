--------------------------- MODULE SettingsModals ---------------------------
(***************************************************************************)
(* The settings callbacks that only read: open-modal, fetch-channels,      *)
(* edit-<id>, upgrade-<id> (the fetch-channels of an edit) and             *)
(* auth-redirect.  Each reads the Network document, asks Graph and         *)
(* Bettermode for what the form offers, and answers with a form; those     *)
(* about a connection read its document as well.                           *)
(***************************************************************************)
EXTENDS SettingsPage

CONSTANTS
  Crowded,    \* communities with more spaces than getSpaces asks for
  Vanished    \* targets whose channel was deleted in its team: Graph no longer
              \* lists it, while forms opened before still offer it

ASSUME FormsKnown == Crowded \subseteq Networks /\ Vanished \subseteq Targets

VARIABLE edited    \* the Channel document a form's handler has read

EditedInit == edited = [r \in Requests |-> NoRecord]

\* The two fetch handlers have a try and answer with a toast; the others leave
\* an exception to the HTTP layer.
NoForm(r) == IF job[r].kind \in {"fetch", "refetch"} THEN "failed" ELSE "error"

\* handleEditBlockCallback reads the Channel document first and does not look
\* at it until Graph and Bettermode have answered.
EditRow(r) ==
  /\ pc[r] = "edit-row"
  /\ edited' = [edited EXCEPT ![r] =
       IF Stored(job[r].row) THEN channel[job[r].row] ELSE NoRecord]
  /\ Goto(r, "edit-network")
  /\ UNCHANGED <<db, view>>

\* user.tenantId of a community without a Network document throws.
FormNetwork(r) ==
  /\ pc[r] \in {"open-network", "edit-network", "refetch-network"}
  /\ \/ ~Connected(job[r].net) /\ Answer(r, NoForm(r))
     \/ /\ Connected(job[r].net)
        /\ \/ pc[r] = "open-network" /\ Goto(r, "open-graph")
           \/ pc[r] = "edit-network" /\ Goto(r, "edit-graph")
           \/ pc[r] = "refetch-network" /\ Goto(r, "refetch-graph")
  /\ user' = [user EXCEPT ![r] = network[job[r].net]]
  /\ UNCHANGED <<db, listed, edited>>

FormReadFails(r) ==
  /\ pc[r] \in {"edit-row", "open-network", "edit-network", "refetch-network",
                "refetch-row"}
  /\ "db" \in Faults
  /\ Answer(r, NoForm(r))
  /\ UNCHANGED <<db, view, edited>>

\* getListOfTeams swallows its failure and returns undefined, which a form for
\* a new connection shows as no teams, and in which every other handler looks
\* for the chosen team.
TeamsListed(r) == user[r].microsoftId # Undefined

OpenGraph(r) ==
  /\ pc[r] = "open-graph"
  /\ job[r].kind = "fetch" => TeamsListed(r)
  /\ Answer(r, "form")
  /\ UNCHANGED <<db, view, edited>>

\* Bug: space?.id for space.id.
EditFoundAnywhere(r) ==
  /\ edited[r] # NoRecord
  /\ TeamsListed(r) /\ TeamOf[edited[r].target] \in Joined[job[r].net]
  /\ edited[r].target \notin Vanished

\* Bug: teams[0] for the team of the document, in which its channel is looked
\* for.
EditFoundInFirstTeam(r) ==
  /\ edited[r] # NoRecord
  /\ Own(job[r], SpaceOf[edited[r].target])
  /\ TeamsListed(r) /\ Joined[job[r].net] = {TeamOf[edited[r].target]}
  /\ edited[r].target \notin Vanished

\* The space, the team and the channel of the document are looked up one by
\* one, and space.id, team.value or channel.value of what find did not find
\* throws: the form opens for a connection of a space of the own community, a
\* team of its account and a channel that is still there.
EditFound(r) ==
  /\ edited[r] # NoRecord
  /\ Own(job[r], SpaceOf[edited[r].target])
  /\ TeamsListed(r) /\ TeamOf[edited[r].target] \in Joined[job[r].net]
  /\ edited[r].target \notin Vanished

\* What a form that has opened is filled in with from the document: after the
\* edit button all of it, after the choice of another team only the events,
\* beside the space and the team in the form and no channel.
DefaultValues(r) ==
  IF job[r].kind = "edit"
    THEN [target |-> edited[r].target, events |-> edited[r].events]
    ELSE [events |-> edited[r].events]

EditGraph(r) ==
  /\ pc[r] = "edit-graph"
  /\ EditFound(r)
  /\ Answer(r, "form")
  /\ UNCHANGED <<db, view, edited>>

\* The space and team are those picked in the form, looked up in what Graph and
\* Bettermode list; the document comes last.
RefetchGraph(r) ==
  /\ pc[r] = "refetch-graph"
  /\ TeamsListed(r)
  /\ Goto(r, "refetch-row")
  /\ UNCHANGED <<db, view, edited>>

RefetchRow(r) ==
  /\ pc[r] = "refetch-row"
  /\ Stored(job[r].row)
  /\ edited' = [edited EXCEPT ![r] = channel[job[r].row]]
  /\ Answer(r, "form")
  /\ UNCHANGED <<db, view>>

\* channelRep.events of a document that is gone throws.
RefetchRowGone(r) ==
  /\ pc[r] = "refetch-row"
  /\ ~Stored(job[r].row)
  /\ Answer(r, NoForm(r))
  /\ UNCHANGED <<db, view, edited>>

\* The space of the document may be none of the hundred getSpaces asked for.
FormGraphFails(r) ==
  /\ \/ pc[r] = "open-graph" /\ job[r].kind = "fetch" /\ ~TeamsListed(r)
     \/ pc[r] = "edit-graph" /\ (~EditFound(r) \/ job[r].net \in Crowded)
     \/ pc[r] = "refetch-graph" /\ ~TeamsListed(r)
     \/ /\ pc[r] \in {"open-graph", "edit-graph", "refetch-graph"}
        /\ Faults \cap {"graph", "bettermode"} # {}
  /\ Answer(r, NoForm(r))
  /\ UNCHANGED <<db, view, edited>>

\* The URL with the signed state, or network.id of undefined.
AuthRedirect(r) ==
  /\ pc[r] = "redirect-network"
  /\ \/ Answer(r, "redirected")
     \/ "bettermode" \in Faults /\ Answer(r, "error")
  /\ UNCHANGED <<db, view, edited>>

SettingsForm(r) ==
  \/ EditRow(r) \/ FormNetwork(r) \/ FormReadFails(r)
  \/ OpenGraph(r) \/ EditGraph(r) \/ RefetchGraph(r)
  \/ RefetchRow(r) \/ RefetchRowGone(r) \/ FormGraphFails(r)
  \/ AuthRedirect(r)

EditedTypeOK == edited \in [Requests -> Row \cup {NoRecord}]
=============================================================================

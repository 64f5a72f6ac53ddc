------------------------- MODULE SettingsCallbacks -------------------------
(***************************************************************************)
(* The callbacks of the settings block that change the database:           *)
(* save-modal, updateBlock-<id>, removeBlock-<id> and auth-voke of         *)
(* callback.logics.ts.  One action per stretch between two awaits.  A      *)
(* rejected database call is possible when "db" is in Faults, a failing    *)
(* Microsoft Graph call when "graph" is.                                   *)
(***************************************************************************)
EXTENDS Worker

\* Bug: the loop starts at the second document.
AlreadyConnectedButFirst(t) ==
  \E i, j \in StoredRows : i # j /\ channel[i].target = t

\* The duplicate check of handleSaveButtonClick over what findMany() returned:
\* all three fields equal, documents of every community.
AlreadyConnected(t) == \E i \in StoredRows : channel[i].target = t

\* Bug: the check is commented out, as it is in handleUpdateButtonClick.
SaveReadUnchecked(r) ==
  /\ pc[r] = "save-read"
  /\ UNCHANGED db
  /\ Goto(r, "save-create")

\* The loop runs on the documents read here; the create is a later turn.
SaveRead(r) ==
  /\ pc[r] = "save-read"
  /\ UNCHANGED db
  /\ IF AlreadyConnected(job[r].target)
       THEN Answer(r, "already")
       ELSE Goto(r, "save-create")

\* findMany() stands before the try: its rejection is an HTTP 500.
SaveReadFails(r) ==
  /\ pc[r] = "save-read" /\ "db" \in Faults
  /\ Answer(r, "error")
  /\ UNCHANGED db

SaveCreate(r) ==
  /\ pc[r] = "save-create"
  /\ ChannelCreate(r, job[r].net, job[r].target, job[r].events)
  /\ Goto(r, "save-user")

SaveCreateFails(r) ==
  /\ pc[r] = "save-create" /\ "db" \in Faults
  /\ Answer(r, "failed")
  /\ UNCHANGED db

\* user.token on null throws a TypeError, which has no response, so that the
\* inner catch throws on e.response.status: the outer catch answers.
SaveUser(r) ==
  /\ pc[r] = "save-user"
  /\ UNCHANGED db
  /\ \/ Connected(job[r].net) /\ Goto(r, "save-install")
     \/ ~Connected(job[r].net) /\ Answer(r, "failed")
     \/ "db" \in Faults /\ Answer(r, "failed")

\* installingBotTeams succeeds or Graph answers with an error status: the
\* inner catch lets the handler go on, and the welcome message is not awaited.
SaveInstall(r) ==
  /\ pc[r] = "save-install"
  /\ AnswerLeaving(r, "saved", "welcome")
  /\ UNCHANGED db

\* No app token, or no answer from Graph: an error without a response.
SaveInstallFails(r) ==
  /\ pc[r] = "save-install" /\ "graph" \in Faults
  /\ Answer(r, "failed")
  /\ UNCHANGED db

WelcomeSent(r) ==
  /\ task[r] = "welcome"
  /\ TaskOver(r)
  /\ UNCHANGED db

\* The try around sendProactiveMessage does not catch what it never awaits.
WelcomeRejected(r) ==
  /\ task[r] = "welcome" /\ "bot" \in Faults
  /\ TaskRejected(r)
  /\ UNCHANGED db

HandleSaveButtonClick(r) ==
  \/ SaveRead(r) \/ SaveReadFails(r)
  \/ SaveCreate(r) \/ SaveCreateFails(r)
  \/ SaveUser(r)
  \/ SaveInstall(r) \/ SaveInstallFails(r)

Welcome(r) == WelcomeSent(r) \/ WelcomeRejected(r)

-----------------------------------------------------------------------------
UpdateWrite(r) ==
  /\ pc[r] = "update-write"
  /\ ChannelUpdate(job[r].row, job[r].target, job[r].events, r)
  /\ Goto(r, "update-user")

\* Bug: ChannelRepository.upsert in place of update.
UpdateWriteUpserts(r) ==
  /\ pc[r] = "update-write" /\ ~Stored(job[r].row)
  /\ ChannelCreate(job[r].row, job[r].net, job[r].target, job[r].events)
  /\ Goto(r, "update-user")

\* The document is gone, or the database call is rejected.
UpdateWriteFails(r) ==
  /\ pc[r] = "update-write"
  /\ ~Stored(job[r].row) \/ "db" \in Faults
  /\ Answer(r, "failed")
  /\ UNCHANGED db

UpdateUser(r) ==
  /\ pc[r] = "update-user"
  /\ UNCHANGED db
  /\ \/ Connected(job[r].net) /\ Goto(r, "update-install")
     \/ ~Connected(job[r].net) /\ Answer(r, "failed")
     \/ "db" \in Faults /\ Answer(r, "failed")

UpdateInstall(r) ==
  /\ pc[r] = "update-install"
  /\ Answer(r, "updated")
  /\ UNCHANGED db

UpdateInstallFails(r) ==
  /\ pc[r] = "update-install" /\ "graph" \in Faults
  /\ Answer(r, "failed")
  /\ UNCHANGED db

HandleUpdateButtonClick(r) ==
  \/ UpdateWrite(r) \/ UpdateWriteFails(r)
  \/ UpdateUser(r)
  \/ UpdateInstall(r) \/ UpdateInstallFails(r)

-----------------------------------------------------------------------------
DeleteRow(r) ==
  /\ pc[r] = "delete-row"
  /\ ChannelDelete(job[r].row, r)
  /\ Answer(r, "deleted")

\* No try around the delete: a document already gone is an HTTP 500.
DeleteRowFails(r) ==
  /\ pc[r] = "delete-row"
  /\ ~Stored(job[r].row) \/ "db" \in Faults
  /\ Answer(r, "error")
  /\ UNCHANGED db

HandleDeleteBlockConfirmation(r) == DeleteRow(r) \/ DeleteRowFails(r)

-----------------------------------------------------------------------------
RevokeNetwork(r) ==
  /\ pc[r] = "revoke-network"
  /\ NetworkDelete(job[r].net)
  /\ Goto(r, "revoke-channels")

\* The catch is shared: without a Network document to delete the channels are
\* not touched either, and the answer is the same.
RevokeNetworkFails(r) ==
  /\ pc[r] = "revoke-network"
  /\ ~Connected(job[r].net) \/ "db" \in Faults
  /\ Answer(r, "closed")
  /\ UNCHANGED db

\* Bug: the filter of deleteMany is the id of the first document.
RevokeFirstChannel(r) ==
  /\ pc[r] = "revoke-channels"
  /\ \E i \in StoredRows : ChannelsRemoved({i}, r)
  /\ swept' = swept \cup {r}
  /\ Answer(r, "closed")

RevokeChannels(r) ==
  /\ pc[r] = "revoke-channels"
  /\ ChannelDeleteMany(r)
  /\ Answer(r, "closed")

RevokeChannelsFails(r) ==
  /\ pc[r] = "revoke-channels" /\ "db" \in Faults
  /\ Answer(r, "closed")
  /\ UNCHANGED db

GetAuthRevokeCallbackResponse(r) ==
  \/ RevokeNetwork(r) \/ RevokeNetworkFails(r)
  \/ RevokeChannels(r) \/ RevokeChannelsFails(r)

SettingsCallback(r) ==
  \/ HandleSaveButtonClick(r)
  \/ HandleUpdateButtonClick(r)
  \/ HandleDeleteBlockConfirmation(r)
  \/ GetAuthRevokeCallbackResponse(r)
=============================================================================

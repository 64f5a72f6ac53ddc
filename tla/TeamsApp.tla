------------------------------ MODULE TeamsApp ------------------------------
(***************************************************************************)
(* The app: every handler of the settings block, the installation and      *)
(* subscription webhooks, the OAuth endpoints and the requests that touch  *)
(* no state, over the same two collections, in any interleaving, with the  *)
(* outside failures of Faults and the loss of a worker.                    *)
(***************************************************************************)
EXTENDS SettingsCallbacks, SettingsModals, OAuthConnect, Installation,
        Subscriptions, OtherRequests

vars == <<db, procs, view, edited, account, notices>>

Init ==
  /\ DatabaseInit /\ WorkersInit
  /\ ViewInit /\ EditedInit /\ AccountsInit /\ NoticesInit

Arrive(r) ==
  /\ \/ \E j \in SaveJobs : Receive(r, j)
     \/ \E j \in UpdateJobs : Receive(r, j)
     \/ \E j \in RowJobs : Receive(r, j)
     \/ \E j \in PlainJobs : Receive(r, j)
     \/ \E j \in EventJobs : Receive(r, j)
  /\ UNCHANGED <<view, edited, account, notices>>

Settings(r) ==
  SettingsCallback(r) /\ UNCHANGED <<view, edited, account, notices>>

Page(r) == GetNetworkSettings(r) /\ UNCHANGED <<edited, account, notices>>

Form(r) == SettingsForm(r) /\ UNCHANGED <<account, notices>>

Lifecycle(r) ==
  InstallationWebhook(r) /\ UNCHANGED <<view, edited, account, notices>>

OAuth(r) == ConnectToMicrosoft(r) /\ UNCHANGED <<view, edited, notices>>

Notify(r) == HandleSubscriptionWebhook(r) /\ UNCHANGED <<view, edited, account>>

Other(r) == OtherRequest(r) /\ UNCHANGED <<view, edited, account, notices>>

Handle(r) ==
  \/ Settings(r) \/ Page(r) \/ Form(r)
  \/ Lifecycle(r) \/ OAuth(r) \/ Notify(r) \/ Other(r)

Background(r) ==
  \/ Welcome(r) /\ UNCHANGED <<view, edited, account, notices>>
  \/ RefreshTokenClient(r) /\ UNCHANGED <<view, edited, notices>>

Lose(w) == Restart(w) /\ UNCHANGED <<view, edited, account, notices>>

\* Requests is finite in a run: the stutter of a server with nothing to do.
Quiet ==
  /\ \A r \in Requests : ~InFlight(r) /\ task[r] = "none"
  /\ UNCHANGED vars

Next ==
  \/ \E r \in Requests : Arrive(r) \/ Handle(r) \/ Background(r)
  \/ \E w \in Workers : Lose(w)
  \/ Quiet

Spec == Init /\ [][Next]_vars

\* The event loop runs every handler whose awaited call has settled.
Fairness == \A r \in Requests : WF_vars(Handle(r)) /\ WF_vars(Background(r))

FairSpec == Spec /\ Fairness

-----------------------------------------------------------------------------
(* Safety *)

\* Types of every variable.
TypeOK ==
  /\ DatabaseTypeOK /\ WorkersTypeOK
  /\ ViewTypeOK /\ EditedTypeOK /\ AccountsTypeOK /\ NoticesTypeOK

\* handleSaveButtonClick refuses a channel that is connected already, and
\* handleUpdateButtonClick has the check commented out: when a connection was
\* given its target by a request over before the one that gave another
\* connection the same target came in, that later request is an update.
OnlyEditsDuplicate ==
  \A i, j \in StoredRows :
    /\ i # j /\ channel[i].target = channel[j].target
    /\ channel[i].by \in past[channel[j].by]
    => job[channel[j].by].kind = "update"

\* A save the user saw succeed has created its connection, and one refused as
\* a duplicate has not; a connection goes away only through a removeBlock of
\* that very connection, or a revoke, that was not over when the save arrived.
SavedConnectionLostOnPurpose ==
  \A i \in Requests :
    /\ reply[i] = "saved" => channel[i] # Unused
    /\ reply[i] \in {"already", "error"} => channel[i] = Unused
    /\ channel[i] = Deleted =>
         \E d \in Requests :
           /\ remover[i] = d /\ d \notin past[i]
           /\ \/ job[d].kind = "delete" /\ job[d].row = i
              \/ job[d].kind = "revoke"

\* A revoke that reached the Channel collection leaves no connection of its
\* community behind that a save finished before the revoke had made.
RevokeSweeps ==
  \A v \in swept : \A i \in StoredRows :
    channel[i].networkId = job[v].net => i \notin past[v]

\* After a revoke, an install or an uninstall is answered, a connection of the
\* community to Microsoft is the work of an OAuth session that was not over
\* when that request arrived.  With a failing database this is promised only
\* by an uninstall that reports success.
DisconnectForgets ==
  \A v \in Requests :
    /\ pc[v] = "done" /\ job[v].kind \in {"revoke", "install", "uninstall"}
    /\ "db" \notin Faults \/ reply[v] = "succeeded"
    /\ Connected(job[v].net)
    => network[job[v].net].session \in Requests \ past[v]

\* The fields of a Network document come from one OAuth session, whichever
\* sessions and refreshes ran beside it, and its tenant is a real one.
RecordFromOneSession ==
  \A n \in Networks : Connected(n) =>
    LET rec == network[n] IN
    /\ rec.token = rec.session
    /\ rec.tenantId = rec.session
    /\ rec.microsoftId \in {rec.session, Undefined}

\* A settings page lists every connection whose save had succeeded before the
\* page was asked for and that is still there, and none that was removed by
\* a request over by then.
PageReflectsDatabase ==
  \A p \in Requests :
    reply[p] \in {"channels", "connected"} /\ job[p].kind = "page" =>
      /\ \A i \in past[p] :
           reply[i] = "saved" /\ Stored(i) => i \in ListedIds(p)
      /\ \A i \in ListedIds(p) :
           channel[i] = Deleted => remover[i] \notin past[p]

\* While nothing outside fails, a settings page is an HTTP 500 only because
\* it lists a connection whose team the community's account is not in, or
\* because the connections went away while it was rendered.
PageFailsOnlyWhen ==
  \A p \in Requests :
    job[p].kind = "page" /\ reply[p] = "error" /\ Faults = {} =>
      \/ \E c \in listed[p] : TeamOf[c[2].target] \notin Joined[job[p].net]
      \/ \E i \in Requests : channel[i] = Deleted /\ remover[i] \notin past[p]

\* A form that edits a connection opens for the community that made it only,
\* although the page lists the connections of every community with an edit
\* button: what keeps updates to the own connections.
EditFormIsOwn ==
  \A r \in Requests : job[r].kind = "edit" /\ reply[r] = "form" =>
    job[job[r].row].net = job[r].net

\* While nothing outside fails, the edit button of a connection answers an
\* HTTP 500 only when the connection is gone, belongs to a space of another
\* community, to a team its account is not in or to a channel that was deleted
\* there, when the community is not connected, or has more than a hundred
\* spaces.
EditFailsOnlyWhen ==
  \A r \in Requests :
    job[r].kind = "edit" /\ reply[r] = "error" /\ Faults = {} =>
      \/ edited[r] = NoRecord /\ channel[job[r].row] = Deleted
      \/ user[r] = NoRecord
      \/ /\ edited[r] # NoRecord
         /\ \/ ~Own(job[r], SpaceOf[edited[r].target])
            \/ TeamOf[edited[r].target] \notin Joined[job[r].net]
            \/ edited[r].target \in Vanished
      \/ job[r].net \in Crowded

\* What the form that edits a connection is filled in with, the events of one
\* whose team the user has just changed included, was put there by one save or
\* update that no update over before the form was asked for had replaced; and
\* no form shows a connection deleted before.
EditFormIsCurrent ==
  \A r \in Requests :
    job[r].kind \in {"edit", "refetch"} /\ reply[r] = "form" =>
      LET i == job[r].row IN
      /\ channel[i] = Deleted => remover[i] \notin past[r]
      /\ \E w \in Requests :
           /\ w = i \/ (job[w].kind = "update" /\ job[w].row = i)
           /\ \A f \in DOMAIN DefaultValues(r) :
                DefaultValues(r)[f] = job[w][f]
           /\ \A u \in past[r] :
                job[u].kind = "update" /\ job[u].row = i /\ reply[u] = "updated"
                  => w \notin past[u]

\* The bot is told to notify a channel about an event only for a connection of
\* the community the event is from, which was not deleted by a request over
\* when the event arrived.
NotifiesOwnLiveConnections ==
  \A r \in Requests : \A d \in posted[r] :
    /\ job[d[1]].kind = "save" /\ job[d[1]].net = job[r].net
    /\ channel[d[1]] = Deleted => remover[d[1]] \notin past[r]

\* The bot is told to notify a channel about an event only when one form, of a
\* save or an update, switched the event on and named that channel, and no
\* update that came after that form was over when the event arrived.
NotifiesAsSubscribed ==
  \A r \in Requests : \A d \in posted[r] :
    \E w \in Requests :
      /\ w = d[1] \/ (job[w].kind = "update" /\ job[w].row = d[1])
      /\ d[2].target = job[w].target /\ job[r].name \in job[w].events
      /\ \A u \in past[r] :
           job[u].kind = "update" /\ job[u].row = d[1] /\ reply[u] = "updated"
             => w \notin past[u]

\* The connections an event concerns: of its community and of a space of the
\* event, if it has one, switched on for it by a save or an update that was
\* over when the event arrived, and neither edited nor deleted since.
Concerned(r) ==
  {i \in StoredRows :
     /\ channel[i].networkId = job[r].net
     /\ channel[i].by \in past[r]
     /\ job[r].name \in channel[i].events
     /\ \/ SpaceOf[channel[i].target] \in job[r].spaces
        \/ job[r].name = "member.verified" \/ job[r].entityType = "MEMBER"}

\* A subscription answered as succeeded has notified every connection the
\* event concerns, and so has a verified member answered while nothing outside
\* failed, also when the lookup ran between saves, updates and deletes: a
\* lookup that is refused, or an entity that is not there, is never taken for
\* nobody to notify.
NoMissedNotification ==
  \A r \in Requests :
    /\ job[r].kind = "event"
    /\ \/ reply[r] = "succeeded"
       \/ pc[r] = "done" /\ Faults = {} /\ job[r].name = "member.verified"
    => \A i \in Concerned(r) : <<i, channel[i]>> \in posted[r]

-----------------------------------------------------------------------------
(* The abstract specification the app implements. *)

Plain(d) ==
  [networkId |-> d.networkId, target |-> d.target, events |-> d.events]

\* The connections, without the history of their documents.
conns ==
  [i \in Requests |-> IF Stored(i) THEN Plain(channel[i]) ELSE channel[i]]

\* A save between its check and its create is a connection asked for.
asks ==
  [i \in Requests |->
     IF pc[i] = "save-create"
       THEN [networkId |-> job[i].net, target |-> job[i].target,
             events |-> job[i].events]
       ELSE NoRecord]

\* The session each community was connected by.
connectedBy ==
  [n \in Networks |-> IF Connected(n) THEN network[n].session ELSE NoRecord]

\* The sessions that have connected their community.
spent ==
  {r \in Requests : job[r].kind = "connect" /\ reply[r] = "redirected"}

Registry == INSTANCE ConnectionRegistry WITH
  Ids <- Requests, Communities <- Networks, Sessions <- Requests,
  Before <- Earlier, conn <- conns, asked <- asks, session <- connectedBy

\* A connection is none of the values that stand for the lack of one.
ASSUME PlainSentinels ==
  \A x \in {NoRecord, Unused, Deleted} : x \notin Registry!Connection

\* Every step of every handler, with its failures and the loss of a worker, is
\* one step of the registry or none: saves are two steps and never three, a
\* document is changed and removed as a whole, never moved between communities
\* or brought back, and neither a refresh nor a callback that failed, or that
\* was answered before, connects a community.
ImplementsRegistry == Registry!RegistrySpec

-----------------------------------------------------------------------------
(* Action properties *)

\* A connection once deleted never returns, and as long as it is stored it
\* belongs to the community that made it: an update in flight while its
\* document is deleted must not bring it back.
NoResurrection ==
  [][\A i \in Requests :
       /\ channel[i] = Deleted => channel'[i] = Deleted
       /\ Stored(i) /\ channel'[i] # Deleted =>
            channel'[i].networkId = channel[i].networkId]_vars

-----------------------------------------------------------------------------
(* Liveness *)

\* Every request is answered, or its worker died.
EveryRequestEnds ==
  \A r \in Requests : InFlight(r) ~> Ended(r)

-----------------------------------------------------------------------------
(* What texts of the program say and the code does not keep. *)

\* "Error saving data" is answered to a save that saved nothing.
ErrorSavingMeansUnsaved ==
  \A r \in Requests :
    job[r].kind = "save" /\ reply[r] = "failed" => channel[r] = Unused

\* "By revoking access, you will lose your settings": a revoke deletes
\* connections of the revoking community only.
RevokeIsPrivate ==
  [][\A i \in Requests : Stored(i) /\ channel'[i] = Deleted =>
       LET d == remover'[i] IN
         job[d].kind = "revoke" => channel[i].networkId = job[d].net]_vars

\* "By revoking, all connections will be deleted": a revoke that was answered
\* has left no connection of its community whose save had succeeded before.
RevokeDeletesConnections ==
  \A v \in Requests : job[v].kind = "revoke" /\ pc[v] = "done" =>
    \A i \in past[v] :
      reply[i] = "saved" /\ Stored(i) => channel[i].networkId # job[v].net

\* "This channel is already connected" is what a second save of one target
\* gets: no two connections of a community have one target.
NoDuplicateConnection ==
  \A i, j \in StoredRows :
    i # j /\ channel[i].target = channel[j].target =>
      channel[i].networkId # channel[j].networkId

\* "I would inform you on community updates in this channel", the welcome
\* message of a save says: an event that is answered, whatever the answer, has
\* notified the connections it concerns whose save succeeded.
WelcomePromiseKept ==
  \A r \in Requests : job[r].kind = "event" /\ pc[r] = "done" =>
    \A i \in Concerned(r) :
      reply[i] = "saved" => <<i, channel[i]>> \in posted[r]
=============================================================================

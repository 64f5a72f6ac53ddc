--------------------------- MODULE TeamsAppProofs ---------------------------
(***************************************************************************)
(* Proofs about TeamsApp for every set of communities, requests, targets,  *)
(* spaces, events, workers and faults.                                     *)
(***************************************************************************)
EXTENDS TeamsAppInvariants, TLAPS

-----------------------------------------------------------------------------
(* Types *)

\* The kind of a job tells its fields.
LEMMA JobFields ==
  ASSUME NEW j \in Jobs
  PROVE  /\ j.kind \in AllKinds /\ j.net \in Networks /\ j.worker \in Workers
         /\ j.kind \in {"save", "update"} =>
              j.target \in Targets /\ j.events \in SUBSET Events
         /\ j.kind \in {"update", "delete", "edit", "refetch", "ask-delete"} =>
              j.row \in Requests
         /\ j.kind = "event" => j.spaces \in SUBSET Spaces
         /\ j # None
<1>1. CASE j \in SaveJobs
  BY <1>1 DEF SaveJobs, AllKinds, OtherKinds, None
<1>2. CASE j \in UpdateJobs
  BY <1>2 DEF UpdateJobs, AllKinds, OtherKinds, None
<1>3. CASE j \in RowJobs
  BY <1>3 DEF RowJobs, AllKinds, OtherKinds, None
<1>4. CASE j \in PlainJobs
  BY <1>4 DEF PlainJobs, AllKinds, OtherKinds, None
<1>5. CASE j \in EventJobs
  BY <1>5 DEF EventJobs, AllKinds, OtherKinds, None
<1> QED BY <1>1, <1>2, <1>3, <1>4, <1>5 DEF Jobs

\* Every operation of the repositories keeps the types of the collections.
LEMMA RepositoryTypes ==
  ASSUME DatabaseTypeOK, NEW r \in Requests
  PROVE  /\ \A n \in Networks : NetworkDelete(n) => DatabaseTypeOK'
         /\ \A n \in Networks, t \in Targets, e \in SUBSET Events :
              ChannelCreate(r, n, t, e) => DatabaseTypeOK'
         /\ \A i \in Requests, t \in Targets, e \in SUBSET Events :
              ChannelUpdate(i, t, e, r) => DatabaseTypeOK'
         /\ \A i \in Requests : ChannelDelete(i, r) => DatabaseTypeOK'
         /\ ChannelDeleteMany(r) => DatabaseTypeOK'
<1> USE DEF DatabaseTypeOK
<1>1. ASSUME NEW n \in Networks, NEW t \in Targets, NEW e \in SUBSET Events,
             ChannelCreate(r, n, t, e)
      PROVE  DatabaseTypeOK'
  BY <1>1 DEF ChannelCreate, Row
<1>2. ASSUME NEW i \in Requests, NEW t \in Targets, NEW e \in SUBSET Events,
             ChannelUpdate(i, t, e, r)
      PROVE  DatabaseTypeOK'
  BY <1>2 DEF ChannelUpdate, Row, Stored
<1>3. ASSUME NEW gone \in SUBSET Requests, ChannelsRemoved(gone, r)
      PROVE  /\ network' \in [Networks -> Record \cup {NoRecord}]
             /\ channel' \in [Requests -> Row \cup {Unused, Deleted}]
             /\ remover' \in [Requests -> Requests \cup {NoOne}]
  BY <1>3 DEF ChannelsRemoved
<1>4. \A i \in Requests : ChannelDelete(i, r) => DatabaseTypeOK'
  BY <1>3 DEF ChannelDelete
<1>5. ChannelDeleteMany(r) => DatabaseTypeOK'
  BY <1>3 DEF ChannelDeleteMany, StoredRows
<1>6. \A n \in Networks : NetworkDelete(n) => DatabaseTypeOK'
  BY DEF NetworkDelete
<1> QED BY <1>1, <1>2, <1>4, <1>5, <1>6

\* How a handler leaves an await, whatever the await.
LEMMA WorkerTypes ==
  ASSUME WorkersTypeOK, NEW r \in Requests
  PROVE  /\ \A l \in Labels : Goto(r, l) => WorkersTypeOK'
         /\ \A l \in Labels : GotoLeaving(r, l, "refresh") => WorkersTypeOK'
         /\ \A x \in Replies : Answer(r, x) => WorkersTypeOK'
         /\ \A x \in Replies : AnswerLeaving(r, x, "welcome") => WorkersTypeOK'
         /\ TaskOver(r) => WorkersTypeOK'
         /\ \A w : Crash(w) => WorkersTypeOK'
<1> USE DEF WorkersTypeOK
<1>1. \A l \in Labels : Goto(r, l) => WorkersTypeOK'
  BY DEF Goto
<1>2. \A l \in Labels : GotoLeaving(r, l, "refresh") => WorkersTypeOK'
  BY DEF GotoLeaving
<1>3. \A x \in Replies : Answer(r, x) => WorkersTypeOK'
  BY DEF Answer
<1>4. \A x \in Replies : AnswerLeaving(r, x, "welcome") => WorkersTypeOK'
  BY DEF AnswerLeaving
<1>5. TaskOver(r) => WorkersTypeOK'
  BY DEF TaskOver
<1>6. \A w : Crash(w) => WorkersTypeOK'
  BY DEF Crash
<1> QED BY <1>1, <1>2, <1>3, <1>4, <1>5, <1>6

\* A request arrives at the entry of its own handler.
LEMMA ReceiveTypes ==
  ASSUME WorkersTypeOK, NEW r \in Requests, NEW j \in Jobs, Receive(r, j)
  PROVE  WorkersTypeOK' /\ UNCHANGED db
<1>1. PICK l \in Entries : OwnLabel(l, j.kind) /\ pc' = [pc EXCEPT ![r] = l]
  BY DEF Receive, Accept
<1>2. l \in Labels
  BY DEF Entries, Labels, SaveLabels, UpdateLabels, DeleteLabels, RevokeLabels,
     PageLabels, InstallLabels, UninstallLabels, AuthorizeLabels,
     ConnectLabels, EventLabels, OtherLabels, OtherKinds, OpenLabels,
     EditLabels, RefetchLabels, RedirectLabels
<1> QED BY <1>1, <1>2 DEF WorkersTypeOK, Receive, Accept

-----------------------------------------------------------------------------
(* The shape of a step *)

\* A handler in flight leaves an await, for another one of its own or for its
\* answer: what any such action does to the worker.
Moves(r) ==
  /\ InFlight(r)
  /\ \E l \in Labels \cup {"done"}, x \in Replies,
        t \in {"none", "welcome", "refresh"} :
       /\ OwnLabel(l, job[r].kind)
       /\ l # "done" => x = reply[r]
       /\ pc' = [pc EXCEPT ![r] = l]
       /\ reply' = [reply EXCEPT ![r] = x]
       /\ task' = [task EXCEPT ![r] = t]
  /\ UNCHANGED <<job, past>>

\* The four ways of Worker to leave an await are moves.
LEMMA Leaving ==
  ASSUME WorkersTypeOK, NEW r \in Requests, InFlight(r)
  PROVE  /\ \A l \in Labels :
              /\ OwnLabel(l, job[r].kind)
              /\ Goto(r, l) \/ GotoLeaving(r, l, "refresh")
              => Moves(r)
         /\ \A x \in Replies : Answer(r, x) => Moves(r)
         /\ \A x \in Replies : AnswerLeaving(r, x, "welcome") => Moves(r)
<1> USE DEF WorkersTypeOK, Moves
<1>1. ASSUME NEW l \in Labels, OwnLabel(l, job[r].kind), Goto(r, l)
      PROVE  Moves(r)
  <2>1. /\ reply' = [reply EXCEPT ![r] = reply[r]]
        /\ task' = [task EXCEPT ![r] = task[r]]
    BY <1>1 DEF Goto
  <2> QED BY <1>1, <2>1 DEF Goto
<1>2. ASSUME NEW l \in Labels, OwnLabel(l, job[r].kind),
             GotoLeaving(r, l, "refresh")
      PROVE  Moves(r)
  <2>1. reply' = [reply EXCEPT ![r] = reply[r]]
    BY <1>2 DEF GotoLeaving
  <2> QED BY <1>2, <2>1 DEF GotoLeaving
<1> DEFINE own == OwnLabel("done", job[r].kind)
<1>3. own
  BY DEF OwnLabel, SaveLabels, UpdateLabels, DeleteLabels, RevokeLabels,
     PageLabels, OpenLabels, EditLabels, RefetchLabels, RedirectLabels,
     InstallLabels, UninstallLabels, AuthorizeLabels, ConnectLabels,
     EventLabels, OtherLabels, OtherKinds
<1>4. ASSUME NEW x \in Replies, Answer(r, x)
      PROVE  Moves(r)
  <2>1. task' = [task EXCEPT ![r] = task[r]]
    BY <1>4 DEF Answer
  <2> QED BY <1>3, <1>4, <2>1 DEF Answer
<1>5. ASSUME NEW x \in Replies, AnswerLeaving(r, x, "welcome")
      PROVE  Moves(r)
  BY <1>3, <1>5 DEF AnswerLeaving
<1> QED BY <1>1, <1>2, <1>4, <1>5

\* A move keeps the types of the worker's variables.
LEMMA MoveTypes ==
  ASSUME WorkersTypeOK, NEW r \in Requests, Moves(r)
  PROVE  WorkersTypeOK'
<1>1. PICK l \in Labels \cup {"done"}, x \in Replies,
           t \in {"none", "welcome", "refresh"} :
             /\ pc' = [pc EXCEPT ![r] = l]
             /\ reply' = [reply EXCEPT ![r] = x]
             /\ task' = [task EXCEPT ![r] = t]
  BY DEF Moves
<1> QED BY <1>1 DEF Moves, WorkersTypeOK

\* What the label a handler is suspended at tells of it.
LEMMA AtLabel ==
  ASSUME WorkersTypeOK, JobAtLabel, NEW r \in Requests, InFlight(r)
  PROVE  /\ job[r] \in Jobs /\ job[r].net \in Networks
         /\ pc[r] \in SaveLabels => job[r].kind = "save"
         /\ pc[r] \in UpdateLabels => job[r].kind = "update"
         /\ pc[r] \in DeleteLabels => job[r].kind = "delete"
         /\ pc[r] \in RevokeLabels => job[r].kind = "revoke"
         /\ pc[r] \in PageLabels => job[r].kind = "page"
         /\ pc[r] \in OpenLabels => job[r].kind \in {"open", "fetch"}
         /\ pc[r] \in EditLabels => job[r].kind = "edit"
         /\ pc[r] \in RefetchLabels => job[r].kind = "refetch"
         /\ pc[r] \in RedirectLabels => job[r].kind = "redirect"
         /\ pc[r] \in InstallLabels => job[r].kind = "install"
         /\ pc[r] \in UninstallLabels => job[r].kind = "uninstall"
         /\ pc[r] \in AuthorizeLabels => job[r].kind = "authorize"
         /\ pc[r] \in ConnectLabels => job[r].kind = "connect"
         /\ pc[r] \in EventLabels => job[r].kind = "event"
         /\ pc[r] \in OtherLabels => job[r].kind \in OtherKinds
<1>1. pc[r] # "idle"
  BY DEF InFlight, Labels, SaveLabels, UpdateLabels, DeleteLabels,
     RevokeLabels, PageLabels, InstallLabels, UninstallLabels, AuthorizeLabels,
     ConnectLabels, EventLabels, OtherLabels, OtherKinds, OpenLabels,
     EditLabels, RefetchLabels, RedirectLabels
<1> QED BY <1>1, JobFields DEF JobAtLabel, OwnLabel

\* One turn of a save that does not write to the Channel collection.
SaveTurn(r) ==
  \/ /\ pc[r] = "save-read" /\ pc'[r] = "save-create"
     /\ ~AlreadyConnected(job[r].target)
  \/ /\ pc[r] = "save-read" /\ pc'[r] = "done"
     /\ reply'[r] \in {"already", "error"}
  \/ pc[r] = "save-create" /\ pc'[r] = "done" /\ reply'[r] = "failed"
  \/ /\ pc[r] \in {"save-user", "save-install"}
     /\ \/ pc'[r] = "save-install"
        \/ pc'[r] = "done" /\ reply'[r] \in {"saved", "failed"}

\* A turn that does not write to the Channel collection.
Walk(r) ==
  /\ Moves(r)
  /\ UNCHANGED <<channel, remover, swept>>
  /\ job[r].kind = "save" => SaveTurn(r)
  /\ job[r].kind # "save" => reply'[r] = reply[r] \/ reply'[r] # "saved"

\* The turns that do.
Writes(r) ==
  /\ Moves(r)
  /\ SaveCreate(r) \/ UpdateWrite(r) \/ DeleteRow(r) \/ RevokeChannels(r)

\* Every action of a save is a turn or its create.
LEMMA SaveSteps ==
  ASSUME DatabaseTypeOK, WorkersTypeOK, JobAtLabel, NEW r \in Requests,
         HandleSaveButtonClick(r)
  PROVE  DatabaseTypeOK' /\ (Walk(r) \/ Writes(r))
<1>1. pc[r] \in SaveLabels
  BY DEF HandleSaveButtonClick, SaveRead, SaveReadFails, SaveCreate,
     SaveCreateFails, SaveUser, SaveInstall, SaveInstallFails, SaveLabels
<1>2. InFlight(r)
  BY <1>1 DEF InFlight, Labels
<1>3. job[r] \in Jobs /\ job[r].net \in Networks /\ job[r].kind = "save"
  BY <1>1, <1>2, AtLabel
<1>4. \A l \in SaveLabels : l \in Labels /\ OwnLabel(l, job[r].kind)
  BY <1>3 DEF Labels, OwnLabel, SaveLabels, UpdateLabels, DeleteLabels,
     RevokeLabels, PageLabels, InstallLabels, UninstallLabels, AuthorizeLabels,
     ConnectLabels, EventLabels, OtherLabels, OtherKinds, OpenLabels,
     EditLabels, RefetchLabels, RedirectLabels
<1> DEFINE Quietly ==
      UNCHANGED db => DatabaseTypeOK' /\ UNCHANGED <<channel, remover, swept>>
<1>5. Quietly
  BY DEF DatabaseTypeOK, db
<1> USE <1>2, <1>3, <1>4, <1>5, Leaving DEF WorkersTypeOK, Replies, SaveLabels
<1>6. CASE SaveRead(r)
  <2>1. Moves(r)
    BY <1>6 DEF SaveRead
  <2> QED BY <1>6, <2>1 DEF SaveRead, Walk, SaveTurn, Answer, Goto
<1>7. CASE SaveReadFails(r)
  <2>1. Moves(r)
    BY <1>7 DEF SaveReadFails
  <2> QED BY <1>7, <2>1 DEF SaveReadFails, Walk, SaveTurn, Answer
<1>8. CASE SaveCreate(r)
  <2>1. Moves(r)
    BY <1>8 DEF SaveCreate
  <2>2. DatabaseTypeOK'
    BY <1>8, RepositoryTypes, JobFields DEF SaveCreate
  <2> QED BY <1>8, <2>1, <2>2 DEF Writes
<1>9. CASE SaveCreateFails(r)
  <2>1. Moves(r)
    BY <1>9 DEF SaveCreateFails
  <2> QED BY <1>9, <2>1 DEF SaveCreateFails, Walk, SaveTurn, Answer
<1>10. CASE SaveUser(r)
  <2>1. Moves(r)
    BY <1>10 DEF SaveUser
  <2> QED BY <1>10, <2>1 DEF SaveUser, Walk, SaveTurn, Answer, Goto
<1>11. CASE SaveInstall(r) \/ SaveInstallFails(r)
  <2>1. Moves(r)
    BY <1>11 DEF SaveInstall, SaveInstallFails
  <2> QED BY <1>11, <2>1 DEF SaveInstall, SaveInstallFails, Walk, SaveTurn,
             Answer, AnswerLeaving
<1> QED BY <1>6, <1>7, <1>8, <1>9, <1>10, <1>11 DEF HandleSaveButtonClick

\* The other settings callbacks.
LEMMA CallbackSteps ==
  ASSUME DatabaseTypeOK, WorkersTypeOK, JobAtLabel, NEW r \in Requests,
         \/ HandleUpdateButtonClick(r)
         \/ HandleDeleteBlockConfirmation(r)
         \/ GetAuthRevokeCallbackResponse(r)
  PROVE  DatabaseTypeOK' /\ (Walk(r) \/ Writes(r))
<1>1. pc[r] \in UpdateLabels \cup DeleteLabels \cup RevokeLabels
  BY DEF HandleUpdateButtonClick, UpdateWrite, UpdateWriteFails, UpdateUser,
     UpdateInstall, UpdateInstallFails, UpdateLabels,
     HandleDeleteBlockConfirmation, DeleteRow, DeleteRowFails, DeleteLabels,
     GetAuthRevokeCallbackResponse, RevokeNetwork, RevokeNetworkFails,
     RevokeChannels, RevokeChannelsFails, RevokeLabels
<1>2. InFlight(r)
  BY <1>1 DEF InFlight, Labels
<1>3. /\ job[r] \in Jobs /\ job[r].net \in Networks
      /\ pc[r] \in UpdateLabels => job[r].kind = "update"
      /\ pc[r] \in DeleteLabels => job[r].kind = "delete"
      /\ pc[r] \in RevokeLabels => job[r].kind = "revoke"
  BY <1>2, AtLabel
<1>4. \A l \in UpdateLabels \cup RevokeLabels : l \in Labels
  BY DEF Labels
<1>5. /\ \A l \in UpdateLabels : OwnLabel(l, "update")
      /\ \A l \in RevokeLabels : OwnLabel(l, "revoke")
  BY DEF Labels, OwnLabel, SaveLabels, UpdateLabels, DeleteLabels,
     RevokeLabels, PageLabels, InstallLabels, UninstallLabels, AuthorizeLabels,
     ConnectLabels, EventLabels, OtherLabels, OtherKinds, OpenLabels,
     EditLabels, RefetchLabels, RedirectLabels
<1> DEFINE Quietly ==
      UNCHANGED db => DatabaseTypeOK' /\ UNCHANGED <<channel, remover, swept>>
<1>6. Quietly
  BY DEF DatabaseTypeOK, db
<1>7. \A x \in Replies : Answer(r, x) => Moves(r)
  BY <1>2, Leaving
<1>8. \A l \in UpdateLabels :
        Goto(r, l) /\ job[r].kind = "update" => Moves(r)
  BY <1>2, <1>4, <1>5, Leaving
<1> DEFINE Unsaved == reply'[r] = reply[r] \/ reply'[r] # "saved"
<1>9. Unsaved
  BY DEF HandleUpdateButtonClick, UpdateWrite, UpdateWriteFails, UpdateUser,
     UpdateInstall, UpdateInstallFails, HandleDeleteBlockConfirmation,
     DeleteRow, DeleteRowFails, GetAuthRevokeCallbackResponse, RevokeNetwork,
     RevokeNetworkFails, RevokeChannels, RevokeChannelsFails, Goto, Answer,
     WorkersTypeOK
<1>10. CASE HandleUpdateButtonClick(r)
  <2>1. pc[r] \in UpdateLabels
    BY <1>10 DEF HandleUpdateButtonClick, UpdateWrite, UpdateWriteFails,
       UpdateUser, UpdateInstall, UpdateInstallFails, UpdateLabels
  <2>2. job[r].kind = "update"
    BY <1>3, <2>1
  <2>3. Moves(r)
    BY <1>7, <1>8, <1>10, <2>2 DEF HandleUpdateButtonClick, UpdateWrite,
       UpdateWriteFails, UpdateUser, UpdateInstall, UpdateInstallFails,
       UpdateLabels, Replies
  <2>4. CASE UpdateWrite(r)
    <3>1. DatabaseTypeOK'
      BY <1>3, <2>2, <2>4, RepositoryTypes, JobFields DEF UpdateWrite
    <3> QED BY <2>3, <2>4, <3>1 DEF Writes
  <2>5. CASE ~UpdateWrite(r)
    <3>1. UNCHANGED db
      BY <1>10, <2>5 DEF HandleUpdateButtonClick, UpdateWriteFails,
         UpdateUser, UpdateInstall, UpdateInstallFails
    <3> QED BY <1>6, <2>2, <2>3, <3>1, <1>9 DEF Walk
  <2> QED BY <2>4, <2>5
<1>11. CASE HandleDeleteBlockConfirmation(r)
  <2>1. pc[r] \in DeleteLabels
    BY <1>11 DEF HandleDeleteBlockConfirmation, DeleteRow, DeleteRowFails,
       DeleteLabels
  <2>2. job[r].kind = "delete"
    BY <1>3, <2>1
  <2>3. Moves(r)
    BY <1>7, <1>11 DEF HandleDeleteBlockConfirmation, DeleteRow,
       DeleteRowFails, Replies
  <2>4. CASE DeleteRow(r)
    <3>1. DatabaseTypeOK'
      BY <1>3, <2>2, <2>4, RepositoryTypes, JobFields DEF DeleteRow
    <3> QED BY <2>3, <2>4, <3>1 DEF Writes
  <2>5. CASE DeleteRowFails(r)
    BY <1>6, <1>9, <2>2, <2>3, <2>5 DEF DeleteRowFails, Walk
  <2> QED BY <1>11, <2>4, <2>5 DEF HandleDeleteBlockConfirmation
<1>12. CASE GetAuthRevokeCallbackResponse(r)
  <2>1. pc[r] \in RevokeLabels
    BY <1>12 DEF GetAuthRevokeCallbackResponse, RevokeNetwork,
       RevokeNetworkFails, RevokeChannels, RevokeChannelsFails, RevokeLabels
  <2>2. job[r].kind = "revoke"
    BY <1>3, <2>1
  <2>3. Goto(r, "revoke-channels") => Moves(r)
    BY <1>2, <1>4, <1>5, <2>2, Leaving DEF RevokeLabels
  <2>4. Moves(r)
    BY <1>7, <1>12, <2>3 DEF GetAuthRevokeCallbackResponse, RevokeNetwork,
       RevokeNetworkFails, RevokeChannels, RevokeChannelsFails, Replies
  <2>5. CASE RevokeNetwork(r)
    <3>1. DatabaseTypeOK' /\ UNCHANGED <<channel, remover, swept>>
      BY <1>3, <2>5, RepositoryTypes DEF RevokeNetwork, NetworkDelete
    <3> QED BY <2>2, <2>4, <3>1, <1>9 DEF Walk
  <2>6. CASE RevokeChannels(r)
    <3>1. DatabaseTypeOK'
      BY <2>6, RepositoryTypes DEF RevokeChannels
    <3> QED BY <2>4, <2>6, <3>1 DEF Writes
  <2>7. CASE RevokeNetworkFails(r) \/ RevokeChannelsFails(r)
    BY <1>6, <1>9, <2>2, <2>4, <2>7
       DEF RevokeNetworkFails, RevokeChannelsFails, Walk
  <2> QED BY <1>12, <2>5, <2>6, <2>7 DEF GetAuthRevokeCallbackResponse
<1> QED BY <1>10, <1>11, <1>12

\* What findMany returns are documents.
LEMMA FindManyTypes ==
  ASSUME DatabaseTypeOK, NEW rows \in SUBSET StoredRows
  PROVE  FindMany(rows) \in SUBSET Documents
BY DEF FindMany, Documents, StoredRows, Stored, DatabaseTypeOK

\* The settings page reads the collections and keeps what it read to itself.
LEMMA PageSteps ==
  ASSUME DatabaseTypeOK, WorkersTypeOK, ViewTypeOK, JobAtLabel,
         NEW r \in Requests, GetNetworkSettings(r)
  PROVE  DatabaseTypeOK' /\ ViewTypeOK' /\ Walk(r)
<1>1. pc[r] \in PageLabels
  BY DEF GetNetworkSettings, PageNetwork, PageChannels, PageChildren,
     PageChildrenEmpty, PageReadFails, PageTeams, PageTeamsFails, PageLabels
<1>2. InFlight(r)
  BY <1>1 DEF InFlight, Labels
<1>3. job[r].net \in Networks /\ job[r].kind = "page"
  BY <1>1, <1>2, AtLabel
<1>4. \A l \in PageLabels : l \in Labels /\ OwnLabel(l, job[r].kind)
  BY <1>3 DEF Labels, OwnLabel, SaveLabels, UpdateLabels, DeleteLabels,
     RevokeLabels, PageLabels, InstallLabels, UninstallLabels, AuthorizeLabels,
     ConnectLabels, EventLabels, OtherLabels, OtherKinds, OpenLabels,
     EditLabels, RefetchLabels, RedirectLabels
<1>5. \A l \in PageLabels : Goto(r, l) => Moves(r)
  BY <1>2, <1>4, Leaving
<1>6. \A x \in Replies : Answer(r, x) => Moves(r)
  BY <1>2, Leaving
<1>7. Moves(r)
  BY <1>5, <1>6 DEF GetNetworkSettings, PageNetwork, PageChannels,
     PageChildren, PageChildrenEmpty, PageReadFails, PageTeams,
     PageTeamsFails, PageLabels, Replies
<1>8. UNCHANGED db
  BY DEF GetNetworkSettings, PageNetwork, PageChannels, PageChildren,
     PageChildrenEmpty, PageReadFails, PageTeams, PageTeamsFails
<1>9. DatabaseTypeOK' /\ Walk(r)
  <2>1. reply'[r] = reply[r] \/ reply'[r] # "saved"
    BY DEF GetNetworkSettings, PageNetwork, PageChannels, PageChildren,
       PageChildrenEmpty, PageReadFails, PageTeams, PageTeamsFails, Goto,
       Answer, WorkersTypeOK
  <2> QED BY <1>3, <1>7, <1>8, <2>1 DEF Walk, db, DatabaseTypeOK
<1>10. CASE PageNetwork(r)
  BY <1>3, <1>9, <1>10 DEF PageNetwork, ViewTypeOK, DatabaseTypeOK
<1>11. CASE PageChildren(r)
  BY <1>9, <1>11, FindManyTypes DEF PageChildren, ViewTypeOK
<1>12. CASE UNCHANGED view
  BY <1>9, <1>12 DEF view, ViewTypeOK
<1> QED BY <1>10, <1>11, <1>12 DEF GetNetworkSettings, PageChannels,
           PageChildrenEmpty, PageReadFails, PageTeams, PageTeamsFails

\* The forms read the collections and keep what they read to themselves.
LEMMA FormSteps ==
  ASSUME DatabaseTypeOK, WorkersTypeOK, ViewTypeOK, EditedTypeOK, JobAtLabel,
         NEW r \in Requests, SettingsForm(r)
  PROVE  DatabaseTypeOK' /\ ViewTypeOK' /\ EditedTypeOK' /\ Walk(r)
<1>1. pc[r] \in OpenLabels \cup EditLabels
                \cup RefetchLabels \cup RedirectLabels
  BY DEF SettingsForm, EditRow, FormNetwork, FormReadFails, OpenGraph,
     EditGraph, RefetchGraph, RefetchRow, RefetchRowGone, FormGraphFails,
     AuthRedirect, OpenLabels, EditLabels, RefetchLabels, RedirectLabels
<1>2. InFlight(r)
  BY <1>1 DEF InFlight, Labels
<1>3. /\ job[r] \in Jobs /\ job[r].net \in Networks
      /\ job[r].kind \in {"open", "fetch", "edit", "refetch", "redirect"}
      /\ pc[r] \in OpenLabels => job[r].kind \in {"open", "fetch"}
      /\ pc[r] \in EditLabels => job[r].kind = "edit"
      /\ pc[r] \in RefetchLabels => job[r].kind = "refetch"
  BY <1>1, <1>2, AtLabel
<1>4. job[r].kind \in {"edit", "refetch"} => job[r].row \in Requests
  BY <1>3, JobFields
<1>5. /\ \A l \in OpenLabels \cup EditLabels \cup RefetchLabels : l \in Labels
      /\ \A l \in OpenLabels : pc[r] \in OpenLabels => OwnLabel(l, job[r].kind)
      /\ \A l \in EditLabels : pc[r] \in EditLabels => OwnLabel(l, job[r].kind)
      /\ \A l \in RefetchLabels :
           pc[r] \in RefetchLabels => OwnLabel(l, job[r].kind)
  BY <1>3 DEF Labels, OwnLabel, SaveLabels, UpdateLabels, DeleteLabels,
     RevokeLabels, PageLabels, InstallLabels, UninstallLabels, AuthorizeLabels,
     ConnectLabels, EventLabels, OtherLabels, OtherKinds, OpenLabels,
     EditLabels, RefetchLabels, RedirectLabels
<1>6. /\ \A l \in OpenLabels : pc[r] \in OpenLabels /\ Goto(r, l) => Moves(r)
      /\ \A l \in EditLabels : pc[r] \in EditLabels /\ Goto(r, l) => Moves(r)
      /\ \A l \in RefetchLabels :
           pc[r] \in RefetchLabels /\ Goto(r, l) => Moves(r)
  BY <1>2, <1>5, Leaving
<1>7. \A x \in Replies : Answer(r, x) => Moves(r)
  BY <1>2, Leaving
<1>8. NoForm(r) \in Replies /\ NoForm(r) # "saved"
  BY DEF NoForm, Replies
<1>9. Moves(r)
  BY <1>6, <1>7, <1>8 DEF SettingsForm, EditRow, FormNetwork, FormReadFails,
     OpenGraph, EditGraph, RefetchGraph, RefetchRow, RefetchRowGone,
     FormGraphFails, AuthRedirect, OpenLabels, EditLabels, RefetchLabels,
     Replies
<1>10. UNCHANGED db
  BY DEF SettingsForm, EditRow, FormNetwork, FormReadFails, OpenGraph,
     EditGraph, RefetchGraph, RefetchRow, RefetchRowGone, FormGraphFails,
     AuthRedirect
<1>11. DatabaseTypeOK' /\ Walk(r)
  <2>1. reply'[r] = reply[r] \/ reply'[r] # "saved"
    BY <1>8 DEF SettingsForm, EditRow, FormNetwork, FormReadFails, OpenGraph,
       EditGraph, RefetchGraph, RefetchRow, RefetchRowGone, FormGraphFails,
       AuthRedirect, Goto, Answer, WorkersTypeOK
  <2> QED BY <1>3, <1>9, <1>10, <2>1 DEF Walk, db, DatabaseTypeOK
<1>12. CASE EditRow(r)
  <2>1. pc[r] \in EditLabels
    BY <1>12 DEF EditRow, EditLabels
  <2>2. Stored(job[r].row) => channel[job[r].row] \in Row
    BY <1>3, <1>4, <2>1 DEF Stored, DatabaseTypeOK
  <2> QED BY <1>11, <1>12, <2>2 DEF EditRow, view, ViewTypeOK, EditedTypeOK
<1>13. CASE FormNetwork(r)
  BY <1>3, <1>11, <1>13 DEF FormNetwork, ViewTypeOK, EditedTypeOK,
     DatabaseTypeOK
<1>14. CASE RefetchRow(r)
  <2>1. pc[r] \in RefetchLabels
    BY <1>14 DEF RefetchRow, RefetchLabels
  <2>2. channel[job[r].row] \in Row
    BY <1>3, <1>4, <1>14, <2>1 DEF RefetchRow, Stored, DatabaseTypeOK
  <2> QED BY <1>11, <1>14, <2>2 DEF RefetchRow, view, ViewTypeOK, EditedTypeOK
<1>15. CASE UNCHANGED <<view, edited>>
  BY <1>11, <1>15 DEF view, ViewTypeOK, EditedTypeOK
<1> QED BY <1>12, <1>13, <1>14, <1>15 DEF SettingsForm, FormReadFails,
           OpenGraph, EditGraph, RefetchGraph, RefetchRowGone,
           FormGraphFails, AuthRedirect

\* The installation webhooks touch the Network collection only.
LEMMA LifecycleSteps ==
  ASSUME DatabaseTypeOK, WorkersTypeOK, JobAtLabel, NEW r \in Requests,
         InstallationWebhook(r)
  PROVE  DatabaseTypeOK' /\ Walk(r)
<1> USE DEF InstallationWebhook, HandleInstalledWebhook,
            HandleUninstalledWebhook, InstallDelete, InstallCreate,
            UninstallDelete, UninstallDeleteFails
<1>1. pc[r] \in InstallLabels \cup UninstallLabels
  BY DEF InstallLabels, UninstallLabels
<1>2. InFlight(r)
  BY <1>1 DEF InFlight, Labels
<1>3. job[r].net \in Networks /\ job[r].kind \in {"install", "uninstall"}
  BY <1>1, <1>2, AtLabel
<1>4. Goto(r, "install-create") => Moves(r)
  <2>1. pc[r] \in InstallLabels => job[r].kind = "install"
    BY <1>2, AtLabel
  <2>2. SUFFICES ASSUME Goto(r, "install-create")  PROVE Moves(r)
    OBVIOUS
  <2>3. pc[r] = "install-delete"
    BY <2>2 DEF Goto, Answer, WorkersTypeOK
  <2>4. "install-create" \in Labels /\ OwnLabel("install-create", job[r].kind)
    BY <2>1, <2>3 DEF Labels, OwnLabel, SaveLabels, UpdateLabels, DeleteLabels,
       RevokeLabels, PageLabels, InstallLabels, UninstallLabels,
       AuthorizeLabels, ConnectLabels, EventLabels, OtherLabels, OtherKinds,
       OpenLabels, EditLabels, RefetchLabels, RedirectLabels
  <2> QED BY <1>2, <2>2, <2>4, Leaving
<1>5. \A x \in Replies : Answer(r, x) => Moves(r)
  BY <1>2, Leaving
<1>6. Moves(r)
  BY <1>4, <1>5 DEF Replies
<1>7. DatabaseTypeOK' /\ UNCHANGED <<channel, remover, swept>>
  <2>1. NetworkDelete(job[r].net) \/ UNCHANGED db
    OBVIOUS
  <2>2. CASE NetworkDelete(job[r].net)
    BY <1>3, <2>2, RepositoryTypes DEF NetworkDelete
  <2>3. CASE UNCHANGED db
    BY <2>3 DEF db, DatabaseTypeOK
  <2> QED BY <2>1, <2>2, <2>3
<1>8. reply'[r] = reply[r] \/ reply'[r] # "saved"
  BY DEF Goto, Answer, WorkersTypeOK
<1> QED BY <1>3, <1>6, <1>7, <1>8 DEF Walk

\* The OAuth callback moves on, or its middleware takes the process down.
LEMMA OAuthSteps ==
  ASSUME DatabaseTypeOK, WorkersTypeOK, AccountsTypeOK, JobAtLabel,
         NEW r \in Requests, ConnectToMicrosoft(r)
  PROVE  /\ DatabaseTypeOK' /\ AccountsTypeOK'
         /\ Walk(r) \/ (Crash(job[r].worker) /\ UNCHANGED db)
<1>1. pc[r] \in ConnectLabels \cup AuthorizeLabels
  BY DEF ConnectToMicrosoft, Authorize, ConnectState, ConnectStateExpired,
     ConnectCodeRefused, ConnectMe, ConnectTenant, ConnectTenantFails,
     ConnectInstall, ConnectInstallFails, ConnectUpsert, ConnectUpsertFails,
     ConnectLabels, AuthorizeLabels
<1>2. InFlight(r)
  BY <1>1 DEF InFlight, Labels
<1>3. /\ job[r].net \in Networks
      /\ job[r].kind \in {"connect", "authorize"}
      /\ pc[r] \in ConnectLabels => job[r].kind = "connect"
  BY <1>1, <1>2, AtLabel
<1>4. pc[r] \in ConnectLabels =>
        \A l \in ConnectLabels : l \in Labels /\ OwnLabel(l, job[r].kind)
  BY <1>3 DEF Labels, OwnLabel, SaveLabels, UpdateLabels, DeleteLabels,
     RevokeLabels, PageLabels, InstallLabels, UninstallLabels, AuthorizeLabels,
     ConnectLabels, EventLabels, OtherLabels, OtherKinds, OpenLabels,
     EditLabels, RefetchLabels, RedirectLabels
<1>5. \A l \in ConnectLabels :
        /\ pc[r] \in ConnectLabels
        /\ Goto(r, l) \/ GotoLeaving(r, l, "refresh")
        => Moves(r)
  BY <1>2, <1>4, Leaving
<1>6. \A x \in Replies : Answer(r, x) => Moves(r)
  BY <1>2, Leaving
<1>7. Moves(r) \/ Crash(job[r].worker)
  BY <1>5, <1>6 DEF ConnectToMicrosoft, Authorize, ConnectState,
     ConnectStateExpired, ConnectCodeRefused, ConnectMe, ConnectTenant,
     ConnectTenantFails, ConnectInstall, ConnectInstallFails, ConnectUpsert,
     ConnectUpsertFails, ConnectLabels, Replies
<1>8. CASE ConnectUpsert(r)
  <2>1. Moves(r)
    BY <1>6, <1>8 DEF ConnectUpsert, Replies
  <2>2. DatabaseTypeOK' /\ UNCHANGED <<channel, remover, swept>>
    BY <1>3, <1>8 DEF ConnectUpsert, NetworkUpsert, DatabaseTypeOK, Record,
       AccountsTypeOK, Sessions, Accounts
  <2>3. AccountsTypeOK'
    BY <1>8 DEF ConnectUpsert, AccountsTypeOK
  <2>4. reply'[r] # "saved"
    BY <1>8 DEF ConnectUpsert, Answer, WorkersTypeOK
  <2> QED BY <1>3, <2>1, <2>2, <2>3, <2>4 DEF Walk
<1>9. CASE ~ConnectUpsert(r)
  <2>1. UNCHANGED db
    BY <1>9 DEF ConnectToMicrosoft, Authorize, ConnectState,
       ConnectStateExpired, ConnectCodeRefused, ConnectMe, ConnectTenant,
       ConnectTenantFails, ConnectInstall, ConnectInstallFails,
       ConnectUpsertFails
  <2>2. ConnectMe(r) => AccountsTypeOK'
    BY DEF ConnectMe, AccountsTypeOK, Accounts, Sessions
  <2>3. ConnectTenant(r) => AccountsTypeOK'
    BY DEF ConnectTenant, AccountsTypeOK, Accounts, Sessions
  <2>4. AccountsTypeOK'
    BY <1>9, <2>2, <2>3 DEF ConnectToMicrosoft, Authorize, ConnectState,
       ConnectStateExpired, ConnectCodeRefused, ConnectTenantFails,
       ConnectInstall, ConnectInstallFails, ConnectUpsertFails, AccountsTypeOK
  <2>5. DatabaseTypeOK'
    BY <2>1 DEF db, DatabaseTypeOK
  <2>6. reply'[r] = reply[r] \/ reply'[r] # "saved"
    BY <1>9 DEF ConnectToMicrosoft, Authorize, ConnectState,
       ConnectStateExpired, ConnectCodeRefused, ConnectMe, ConnectTenant,
       ConnectTenantFails, ConnectInstall, ConnectInstallFails,
       ConnectUpsertFails, Goto, GotoLeaving, Answer, Crash, WorkersTypeOK
  <2> QED BY <1>3, <1>7, <2>1, <2>4, <2>5, <2>6 DEF Walk, db
<1> QED BY <1>8, <1>9

\* A subscription webhook writes neither collection.
LEMMA NotifySteps ==
  ASSUME DatabaseTypeOK, WorkersTypeOK, NoticesTypeOK, JobAtLabel,
         NEW r \in Requests, HandleSubscriptionWebhook(r)
  PROVE  /\ DatabaseTypeOK' /\ NoticesTypeOK' /\ Walk(r)
         /\ \A s \in Requests :
              s # r => found'[s] = found[s] /\ posted'[s] = posted[s]
<1>1. pc[r] \in EventLabels
  BY DEF HandleSubscriptionWebhook, EventStart, EventNetworkUpdated,
     EventOther, EventLookupRefused, EventLookup, EventEntities, EventPost,
     EventFails, EventLabels
<1>2. InFlight(r)
  BY <1>1 DEF InFlight, Labels
<1>3. job[r].kind = "event"
  BY <1>1, <1>2, AtLabel
<1>4. \A l \in EventLabels : l \in Labels /\ OwnLabel(l, job[r].kind)
  BY <1>3 DEF Labels, OwnLabel, SaveLabels, UpdateLabels, DeleteLabels,
     RevokeLabels, PageLabels, InstallLabels, UninstallLabels, AuthorizeLabels,
     ConnectLabels, EventLabels, OtherLabels, OtherKinds, OpenLabels,
     EditLabels, RefetchLabels, RedirectLabels
<1>5. \A l \in EventLabels : Goto(r, l) => Moves(r)
  BY <1>2, <1>4, Leaving
<1>6. \A x \in Replies : Answer(r, x) => Moves(r)
  BY <1>2, Leaving
<1>7. Moves(r)
  BY <1>5, <1>6 DEF HandleSubscriptionWebhook, EventStart,
     EventNetworkUpdated, EventOther, EventLookupRefused, EventLookup,
     EventEntities, EventPost, EventFails, EventLabels, Replies
<1>8. UNCHANGED db
  BY DEF HandleSubscriptionWebhook, EventStart, EventNetworkUpdated,
     EventOther, EventLookupRefused, EventLookup, EventEntities, EventPost,
     EventFails
<1>9. DatabaseTypeOK' /\ Walk(r)
  <2>1. reply'[r] = reply[r] \/ reply'[r] # "saved"
    BY DEF HandleSubscriptionWebhook, EventStart, EventNetworkUpdated,
       EventOther, EventLookupRefused, EventLookup, EventEntities,
       EventPost, EventFails, Goto, Answer, WorkersTypeOK
  <2> QED BY <1>3, <1>7, <1>8, <2>1 DEF Walk, db, DatabaseTypeOK
<1>10. CASE EventLookup(r)
  <2>1. FindMany(SwitchedOn(r)) \in SUBSET Documents
    BY FindManyTypes DEF SwitchedOn
  <2> QED BY <1>9, <1>10, <2>1 DEF EventLookup, NoticesTypeOK
<1>11. CASE EventPost(r)
  BY <1>9, <1>11 DEF EventPost, NoticesTypeOK
<1>12. CASE UNCHANGED notices
  BY <1>9, <1>12 DEF notices, NoticesTypeOK
<1> QED BY <1>10, <1>11, <1>12 DEF HandleSubscriptionWebhook, EventStart,
           EventNetworkUpdated, EventOther, EventLookupRefused,
           EventEntities, EventFails

\* A request of the template reads and writes neither collection.
LEMMA OtherSteps ==
  ASSUME DatabaseTypeOK, WorkersTypeOK, JobAtLabel, NEW r \in Requests,
         OtherRequest(r)
  PROVE  DatabaseTypeOK' /\ Walk(r)
<1> USE DEF OtherRequest, OpenDialog, Constant, NotSupported, FavoritePosts,
            MarkAsFavorite, BettermodeTokens, Refused
<1>1. pc[r] \in OtherLabels
  BY DEF OtherLabels
<1>2. InFlight(r)
  BY <1>1 DEF InFlight, Labels
<1>3. job[r].kind # "save"
  BY DEF OtherKinds
<1>4. UNCHANGED db
  OBVIOUS
<1>5. PICK x \in {"dialog", "succeeded", "unavailable", "error"} : Answer(r, x)
  OBVIOUS
<1>6. Moves(r)
  BY <1>2, <1>5, Leaving DEF Replies
<1>7. reply'[r] # "saved"
  BY <1>5 DEF Answer, WorkersTypeOK
<1> QED BY <1>3, <1>4, <1>6, <1>7 DEF Walk, db, DatabaseTypeOK

\* No handler moves; a promise left running may end.
Rests ==
  /\ UNCHANGED <<job, pc, reply, past, channel, remover, swept>>
  /\ \A s \in Requests : task[s] = "none" => task'[s] = "none"

\* The shapes of a step, as far as the settings' invariant can tell.
Shape ==
  \/ \E r \in Requests, j \in Jobs : Receive(r, j)
  \/ \E r \in Requests : Walk(r) \/ Writes(r)
  \/ \E w \in Workers : Crash(w) /\ UNCHANGED db
  \/ Rests

\* A request nobody sent yet has been told nothing, and is told nothing.
Untold ==
  \A s \in Requests :
    pc[s] = "idle" => found'[s] = found[s] /\ posted'[s] = posted[s]

\* Every step of the app keeps the types and has one of the shapes.
LEMMA StepShape ==
  ASSUME TypeOK, JobAtLabel, [Next]_vars
  PROVE  TypeOK' /\ Shape /\ Untold
<1> USE DEF TypeOK
<1>1. UNCHANGED db => DatabaseTypeOK'
  BY DEF db, DatabaseTypeOK
<1>2. UNCHANGED <<view, edited>> => ViewTypeOK' /\ EditedTypeOK'
  BY DEF view, ViewTypeOK, EditedTypeOK
<1>3. UNCHANGED account => AccountsTypeOK'
  BY DEF AccountsTypeOK
<1>4. UNCHANGED notices => NoticesTypeOK' /\ Untold
  BY DEF notices, NoticesTypeOK, Untold
<1>5. \A w : Crash(w) => WorkersTypeOK'
  BY DEF WorkersTypeOK, Crash
<1>6. \A r \in Requests : Walk(r) \/ Writes(r) => WorkersTypeOK'
  BY MoveTypes DEF Walk, Writes
<1>7. ASSUME NEW r \in Requests, Arrive(r)
      PROVE  TypeOK' /\ Shape /\ Untold
  <2>1. PICK j \in Jobs : Receive(r, j)
    BY <1>7 DEF Arrive, Jobs
  <2>2. WorkersTypeOK' /\ UNCHANGED db
    BY <2>1, ReceiveTypes
  <2> QED BY <1>1, <1>2, <1>3, <1>4, <1>7, <2>1, <2>2 DEF Arrive, Shape
<1>8. ASSUME NEW r \in Requests, Settings(r)
      PROVE  TypeOK' /\ Shape /\ Untold
  <2>1. DatabaseTypeOK' /\ (Walk(r) \/ Writes(r))
    BY <1>8, SaveSteps, CallbackSteps DEF Settings, SettingsCallback
  <2> QED BY <1>2, <1>3, <1>4, <1>6, <1>8, <2>1 DEF Settings, Shape
<1>9. ASSUME NEW r \in Requests, Page(r)
      PROVE  TypeOK' /\ Shape /\ Untold
  <2>1. DatabaseTypeOK' /\ ViewTypeOK' /\ Walk(r)
    BY <1>9, PageSteps DEF Page
  <2>2. EditedTypeOK'
    BY <1>9 DEF Page, EditedTypeOK
  <2> QED BY <1>3, <1>4, <1>6, <1>9, <2>1, <2>2 DEF Page, Shape
<1>10. ASSUME NEW r \in Requests, Lifecycle(r)
       PROVE  TypeOK' /\ Shape /\ Untold
  <2>1. DatabaseTypeOK' /\ Walk(r)
    BY <1>10, LifecycleSteps DEF Lifecycle
  <2> QED BY <1>2, <1>3, <1>4, <1>6, <1>10, <2>1 DEF Lifecycle, Shape
<1>11. ASSUME NEW r \in Requests, task[r] # "none"
       PROVE  job[r].worker \in Workers
  <2>1. pc[r] # "idle"
    BY <1>11 DEF JobAtLabel
  <2> QED BY <2>1, JobFields DEF JobAtLabel
<1>12. ASSUME NEW r \in Requests, OAuth(r)
       PROVE  TypeOK' /\ Shape /\ Untold
  <2>1. /\ DatabaseTypeOK' /\ AccountsTypeOK'
        /\ Walk(r) \/ (Crash(job[r].worker) /\ UNCHANGED db)
    BY <1>12, OAuthSteps DEF OAuth
  <2>2. WorkersTypeOK'
    BY <1>5, <1>6, <2>1
  <2>3. pc[r] \in ConnectLabels \cup AuthorizeLabels
    BY <1>12 DEF OAuth, ConnectToMicrosoft, Authorize, ConnectState,
       ConnectStateExpired, ConnectCodeRefused, ConnectMe, ConnectTenant,
       ConnectTenantFails, ConnectInstall, ConnectInstallFails,
       ConnectUpsert, ConnectUpsertFails, ConnectLabels, AuthorizeLabels
  <2>4. job[r].worker \in Workers
    BY <2>3, JobFields, AtLabel DEF InFlight, Labels
  <2> QED BY <1>2, <1>4, <1>12, <2>1, <2>2, <2>4 DEF OAuth, Shape
<1>13. ASSUME NEW r \in Requests, Notify(r)
       PROVE  TypeOK' /\ Shape /\ Untold
  <2>1. /\ DatabaseTypeOK' /\ NoticesTypeOK' /\ Walk(r)
        /\ \A s \in Requests :
             s # r => found'[s] = found[s] /\ posted'[s] = posted[s]
    BY <1>13, NotifySteps DEF Notify
  <2>2. pc[r] # "idle"
    BY <2>1 DEF Walk, Moves, InFlight, Labels, SaveLabels, UpdateLabels,
       DeleteLabels, RevokeLabels, PageLabels, InstallLabels, UninstallLabels,
       AuthorizeLabels, ConnectLabels, EventLabels, OtherLabels, OtherKinds,
       OpenLabels, EditLabels, RefetchLabels, RedirectLabels
  <2> QED BY <1>2, <1>3, <1>6, <1>13, <2>1, <2>2 DEF Notify, Shape, Untold
<1>14. ASSUME NEW r \in Requests, Background(r)
       PROVE  TypeOK' /\ Shape /\ Untold
  <2>1. UNCHANGED <<db, view, edited, account, notices>>
    BY <1>14 DEF Background, Welcome, WelcomeSent, WelcomeRejected, TaskRejected,
       RefreshTokenClient, RefreshUpdate, RefreshUpdateRejected
  <2>2. task[r] # "none" /\ (TaskOver(r) \/ Crash(job[r].worker))
    BY <1>14 DEF Background, Welcome, WelcomeSent, WelcomeRejected, TaskRejected,
       RefreshTokenClient, RefreshUpdate, RefreshUpdateRejected
  <2>3. WorkersTypeOK'
    BY <2>2, WorkerTypes
  <2>4. Shape
    BY <1>11, <2>1, <2>2 DEF TaskOver, Shape, Rests, db, WorkersTypeOK
  <2> QED BY <1>1, <1>2, <1>3, <1>4, <2>1, <2>3, <2>4
<1>15. ASSUME NEW w \in Workers, Lose(w)
       PROVE  TypeOK' /\ Shape /\ Untold
  BY <1>1, <1>2, <1>3, <1>4, <1>5, <1>15 DEF Lose, Restart, Shape
<1>16. CASE UNCHANGED vars
  <2>1. WorkersTypeOK'
    BY <1>16 DEF vars, procs, WorkersTypeOK
  <2> QED BY <1>1, <1>2, <1>3, <1>4, <1>16, <2>1
          DEF vars, procs, db, Shape, Rests
<1>17. ASSUME NEW r \in Requests, Form(r)
       PROVE  TypeOK' /\ Shape /\ Untold
  <2>1. DatabaseTypeOK' /\ ViewTypeOK' /\ EditedTypeOK' /\ Walk(r)
    BY <1>17, FormSteps DEF Form
  <2> QED BY <1>3, <1>4, <1>6, <1>17, <2>1 DEF Form, Shape
<1>18. ASSUME NEW r \in Requests, Other(r)
       PROVE  TypeOK' /\ Shape /\ Untold
  <2>1. DatabaseTypeOK' /\ Walk(r)
    BY <1>18, OtherSteps DEF Other
  <2> QED BY <1>2, <1>3, <1>4, <1>6, <1>18, <2>1 DEF Other, Shape
<1> QED BY <1>7, <1>8, <1>9, <1>10, <1>12, <1>13, <1>14, <1>15,
           <1>16, <1>17, <1>18 DEF Next, Handle, Quiet

-----------------------------------------------------------------------------
(* What the shapes do *)

\* No label in flight is one of the four other values of pc.
LEMMA LabelsInFlight ==
  \A l \in Labels : l \notin {"idle", "done", "lost"}
BY DEF Labels, SaveLabels, UpdateLabels, DeleteLabels, RevokeLabels,
   PageLabels, OpenLabels, EditLabels, RefetchLabels, RedirectLabels,
   InstallLabels, UninstallLabels, AuthorizeLabels, ConnectLabels, EventLabels,
   OtherLabels, OtherKinds

\* A move is the move of one request that was in flight.
LEMMA MoveEffect ==
  ASSUME WorkersTypeOK, NEW r \in Requests, Moves(r)
  PROVE  /\ pc[r] \notin {"idle", "done", "lost"}
         /\ pc'[r] \in Labels \cup {"done"} /\ OwnLabel(pc'[r], job[r].kind)
         /\ pc'[r] # "done" => reply'[r] = reply[r]
         /\ \A s \in Requests : s # r => pc'[s] = pc[s] /\ reply'[s] = reply[s]
         /\ job' = job /\ past' = past
<1>1. PICK l \in Labels \cup {"done"}, x \in Replies,
           t \in {"none", "welcome", "refresh"} :
             /\ OwnLabel(l, job[r].kind)
             /\ l # "done" => x = reply[r]
             /\ pc' = [pc EXCEPT ![r] = l]
             /\ reply' = [reply EXCEPT ![r] = x]
  BY DEF Moves
<1>2. pc[r] \notin {"idle", "done", "lost"}
  BY LabelsInFlight DEF Moves, InFlight
<1> QED BY <1>1, <1>2 DEF Moves, WorkersTypeOK

\* An arrival concerns one request that had not been sent.
LEMMA ReceiveEffect ==
  ASSUME WorkersTypeOK, NEW r \in Requests, NEW j \in Jobs, Receive(r, j)
  PROVE  /\ pc[r] = "idle" /\ job'[r] = j
         /\ pc'[r] \in Entries /\ OwnLabel(pc'[r], j.kind)
         /\ past'[r] = {s \in Requests : Ended(s)}
         /\ reply' = reply /\ UNCHANGED db
         /\ \A s \in Requests : s # r =>
              job'[s] = job[s] /\ pc'[s] = pc[s] /\ past'[s] = past[s]
<1>1. PICK l \in Entries : OwnLabel(l, j.kind) /\ pc' = [pc EXCEPT ![r] = l]
  BY DEF Receive, Accept
<1> QED BY <1>1 DEF Receive, Accept, WorkersTypeOK

\* A crash ends handlers and answers none.
LEMMA CrashEffect ==
  ASSUME WorkersTypeOK, NEW w, Crash(w)
  PROVE  /\ UNCHANGED <<job, reply, past>>
         /\ \A s \in Requests :
              pc'[s] = pc[s] \/ (InFlight(s) /\ pc'[s] = "lost")
BY DEF Crash, WorkersTypeOK

\* A label that is none has no owner.
LEMMA OwnerOfEnd ==
  \A k : OwnLabel("done", k) /\ OwnLabel("lost", k)
BY DEF OwnLabel, SaveLabels, UpdateLabels, DeleteLabels, RevokeLabels,
   PageLabels, OpenLabels, EditLabels, RefetchLabels, RedirectLabels,
   InstallLabels, UninstallLabels, AuthorizeLabels, ConnectLabels, EventLabels,
   OtherLabels, OtherKinds

\* Handlers run the code of their own job after every step.
LEMMA JobAtLabelStep ==
  ASSUME TypeOK, JobAtLabel, Shape, Untold, WorkersTypeOK'
  PROVE  JobAtLabel'
<1> USE DEF TypeOK
<1>1. ASSUME NEW r \in Requests, NEW j \in Jobs, Receive(r, j)
      PROVE  JobAtLabel'
  <2>1. pc'[r] # "idle"
    BY <1>1, ReceiveEffect DEF Entries
  <2>2. task' = [task EXCEPT ![r] = task[r]]
    BY <1>1 DEF Receive, Accept, WorkersTypeOK
  <2>3. \A s \in Requests : s # r => task'[s] = task[s]
    BY <2>2 DEF WorkersTypeOK
  <2> QED BY <1>1, <2>1, <2>3, ReceiveEffect DEF JobAtLabel, Untold
<1>2. ASSUME NEW r \in Requests, Moves(r)
      PROVE  JobAtLabel'
  <2>1. pc'[r] # "idle"
    BY <1>2, MoveEffect, LabelsInFlight
  <2>2. \A s \in Requests : s # r => task'[s] = task[s]
    BY <1>2 DEF Moves, WorkersTypeOK
  <2> QED BY <1>2, <2>1, <2>2, MoveEffect DEF JobAtLabel, Untold
<1>3. ASSUME NEW w \in Workers, Crash(w)
      PROVE  JobAtLabel'
  <2>1. \A s \in Requests : task[s] = "none" => task'[s] = "none"
    BY <1>3 DEF Crash, WorkersTypeOK
  <2> QED BY <1>3, <2>1, CrashEffect, OwnerOfEnd, LabelsInFlight
          DEF JobAtLabel, Untold, InFlight
<1>4. CASE Rests
  BY <1>4 DEF Rests, JobAtLabel, Untold
<1> QED BY <1>1, <1>2, <1>3, <1>4 DEF Shape, Walk, Writes

-----------------------------------------------------------------------------
(* The parts of the invariant, one by one *)

\* What was over stays over, and what arrives has only that in its past.
LEMMA PastIsOverStep ==
  ASSUME TypeOK, PastIsOver, Shape
  PROVE  PastIsOver'
<1> USE DEF TypeOK, PastIsOver, Ended
<1>1. ASSUME NEW r \in Requests, NEW j \in Jobs, Receive(r, j)
      PROVE  PastIsOver'
  BY <1>1, ReceiveEffect DEF WorkersTypeOK
<1>2. ASSUME NEW r \in Requests, Moves(r)
      PROVE  PastIsOver'
  BY <1>2, MoveEffect DEF WorkersTypeOK
<1>3. ASSUME NEW w \in Workers, Crash(w)
      PROVE  PastIsOver'
  BY <1>3, CrashEffect, LabelsInFlight DEF WorkersTypeOK, InFlight
<1>4. CASE Rests
  BY <1>4 DEF Rests
<1> QED BY <1>1, <1>2, <1>3, <1>4 DEF Shape, Walk, Writes

\* No reply before the end.
LEMMA RepliesLastStep ==
  ASSUME TypeOK, RepliesLast, Shape
  PROVE  RepliesLast'
<1> USE DEF TypeOK, RepliesLast
<1>1. ASSUME NEW r \in Requests, NEW j \in Jobs, Receive(r, j)
      PROVE  RepliesLast'
  BY <1>1, ReceiveEffect
<1>2. ASSUME NEW r \in Requests, Moves(r)
      PROVE  RepliesLast'
  BY <1>2, MoveEffect
<1>3. ASSUME NEW w \in Workers, Crash(w)
      PROVE  RepliesLast'
  BY <1>3, CrashEffect, LabelsInFlight DEF InFlight
<1>4. CASE Rests
  BY <1>4 DEF Rests
<1> QED BY <1>1, <1>2, <1>3, <1>4 DEF Shape, Walk, Writes

\* What each of the four writing turns does to the Channel collection.
Created(r) ==
  /\ pc[r] = "save-create" /\ pc'[r] = "save-user"
  /\ job[r].kind = "save" /\ channel[r] = Unused
  /\ channel'[r] \in Row /\ channel'[r].networkId = job[r].net
  /\ channel'[r].target = job[r].target /\ channel'[r].events = job[r].events
  /\ channel'[r].by = r
  /\ \A i \in Requests : i # r => channel'[i] = channel[i]
  /\ remover' = remover /\ swept' = swept

Updated(r) ==
  /\ job[r].kind = "update"
  /\ pc[r] = "update-write"
  /\ pc'[r] = "update-user" /\ reply'[r] = reply[r]
  /\ job[r].row \in Requests /\ Stored(job[r].row)
  /\ channel'[job[r].row] \in Row
  /\ channel'[job[r].row].networkId = channel[job[r].row].networkId
  /\ channel'[job[r].row].target = job[r].target
  /\ channel'[job[r].row].events = job[r].events
  /\ channel'[job[r].row].by = r
  /\ \A i \in Requests : i # job[r].row => channel'[i] = channel[i]
  /\ remover' = remover /\ swept' = swept

Removed(r) ==
  /\ job[r].kind = "delete"
  /\ pc'[r] = "done" /\ reply'[r] = "deleted"
  /\ job[r].row \in Requests /\ Stored(job[r].row)
  /\ channel'[job[r].row] = Deleted /\ remover'[job[r].row] = r
  /\ \A i \in Requests : i # job[r].row =>
       channel'[i] = channel[i] /\ remover'[i] = remover[i]
  /\ swept' = swept

Swept(r) ==
  /\ job[r].kind = "revoke"
  /\ pc'[r] = "done" /\ reply'[r] = "closed"
  /\ \A i \in Requests :
       \/ Stored(i) /\ channel'[i] = Deleted /\ remover'[i] = r
       \/ ~Stored(i) /\ channel'[i] = channel[i] /\ remover'[i] = remover[i]
  /\ swept' = swept \cup {r}

\* The four turns that write to the Channel collection.
LEMMA WriteEffect ==
  ASSUME TypeOK, JobAtLabel, RowsAreSaved, NEW r \in Requests, Writes(r)
  PROVE  Created(r) \/ Updated(r) \/ Removed(r) \/ Swept(r)
<1> USE DEF TypeOK
<1>1. pc[r] # "idle" /\ job[r] \in Jobs /\ OwnLabel(pc[r], job[r].kind)
  BY MoveEffect DEF Writes, JobAtLabel
<1>2. CASE SaveCreate(r)
  <2>1. pc[r] = "save-create" /\ pc'[r] = "save-user"
    BY <1>2 DEF SaveCreate, Goto, WorkersTypeOK
  <2>2. job[r].kind = "save"
    BY <1>1, <2>1 DEF OwnLabel, SaveLabels
  <2>3. channel[r] = Unused
    BY <2>1 DEF RowsAreSaved
  <2>4. /\ job[r].net \in Networks /\ job[r].target \in Targets
        /\ job[r].events \in SUBSET Events
    BY <1>1, <2>2, JobFields
  <2> QED BY <1>2, <2>1, <2>2, <2>3, <2>4
          DEF SaveCreate, ChannelCreate, DatabaseTypeOK, Row, Created
<1>3. CASE UpdateWrite(r)
  <2>1. pc[r] = "update-write" /\ pc'[r] = "update-user" /\ reply'[r] = reply[r]
    BY <1>3 DEF UpdateWrite, Goto, WorkersTypeOK
  <2>2. job[r].kind = "update"
    BY <1>1, <2>1 DEF OwnLabel, UpdateLabels
  <2>3. /\ job[r].row \in Requests /\ job[r].target \in Targets
        /\ job[r].events \in SUBSET Events
    BY <1>1, <2>2, JobFields
  <2> QED BY <1>3, <2>1, <2>2, <2>3
          DEF UpdateWrite, ChannelUpdate, DatabaseTypeOK, Row, Stored, Updated
<1>4. CASE DeleteRow(r)
  <2>1. pc[r] = "delete-row" /\ pc'[r] = "done" /\ reply'[r] = "deleted"
    BY <1>4 DEF DeleteRow, Answer, WorkersTypeOK
  <2>2. job[r].kind = "delete"
    BY <1>1, <2>1 DEF OwnLabel, DeleteLabels
  <2>3. job[r].row \in Requests
    BY <1>1, <2>2, JobFields
  <2> QED BY <1>4, <2>1, <2>2, <2>3
          DEF DeleteRow, ChannelDelete, ChannelsRemoved, DatabaseTypeOK,
             Removed
<1>5. CASE RevokeChannels(r)
  <2>1. pc[r] = "revoke-channels" /\ pc'[r] = "done" /\ reply'[r] = "closed"
    BY <1>5 DEF RevokeChannels, Answer, WorkersTypeOK
  <2>2. job[r].kind = "revoke"
    BY <1>1, <2>1 DEF OwnLabel, RevokeLabels
  <2> QED BY <1>5, <2>1, <2>2
          DEF RevokeChannels, ChannelDeleteMany, ChannelsRemoved, StoredRows,
              DatabaseTypeOK, Swept
<1> QED BY <1>2, <1>3, <1>4, <1>5 DEF Writes

\* What is stored, and what a row is not: shorthand for the steps below.
LEMMA StoredFacts ==
  ASSUME DatabaseTypeOK
  PROVE  /\ \A i \in Requests : Stored(i) <=> channel[i] \in Row
         /\ Unused \notin Row /\ Deleted \notin Row /\ Unused # Deleted
BY Sentinels DEF Stored, DatabaseTypeOK

\* A connection is the work of the save it is named after.
LEMMA RowsAreSavedStep ==
  ASSUME TypeOK, TypeOK', JobAtLabel, RowsAreSaved, RepliesLast, Shape
  PROVE  RowsAreSaved'
<1> USE DEF TypeOK
<1>6. \A i \in Requests : Stored(i) => channel[i].by \in Requests
  BY DEF Stored, DatabaseTypeOK, Row
<1>1. ASSUME NEW r \in Requests, NEW j \in Jobs, Receive(r, j)
      PROVE  RowsAreSaved'
  <2>1. /\ channel' = channel /\ reply' = reply
        /\ pc[r] = "idle" /\ pc'[r] \in Entries
        /\ \A s \in Requests : s # r => job'[s] = job[s] /\ pc'[s] = pc[s]
    BY <1>1, ReceiveEffect DEF db
  <2>2. channel[r] = Unused /\ reply[r] = "none"
    BY <2>1 DEF RowsAreSaved, RepliesLast
  <2>3. \A i \in Requests : Stored(i) => channel[i].by # r
    BY <2>1 DEF RowsAreSaved
  <2> QED BY <1>6, <2>1, <2>2, <2>3 DEF RowsAreSaved, Entries, Stored
<1>2. ASSUME NEW r \in Requests, Walk(r)
      PROVE  RowsAreSaved'
  <2>1. /\ channel' = channel /\ job' = job
        /\ \A s \in Requests : s # r => pc'[s] = pc[s] /\ reply'[s] = reply[s]
        /\ job[r].kind = "save" => SaveTurn(r)
        /\ job[r].kind # "save" => reply'[r] = reply[r] \/ reply'[r] # "saved"
        /\ OwnLabel(pc'[r], job[r].kind)
        /\ pc'[r] # "done" => reply'[r] = reply[r]
        /\ pc[r] # "idle" /\ pc'[r] # "idle"
    BY <1>2, MoveEffect, LabelsInFlight DEF Walk
  <2>2. CASE job[r].kind = "save"
    BY <1>6, <2>1, <2>2 DEF RowsAreSaved, SaveTurn, Stored, RepliesLast
  <2>3. CASE job[r].kind # "save"
    BY <1>6, <2>1, <2>3 DEF RowsAreSaved, OwnLabel, SaveLabels, Stored
  <2> QED BY <2>2, <2>3
<1>3. ASSUME NEW r \in Requests, Writes(r)
      PROVE  RowsAreSaved'
  <2>1. /\ job' = job
        /\ \A s \in Requests : s # r => pc'[s] = pc[s] /\ reply'[s] = reply[s]
        /\ pc'[r] # "done" => reply'[r] = reply[r]
        /\ pc[r] \notin {"idle", "done", "lost"} /\ pc'[r] # "idle"
    BY <1>3, MoveEffect, LabelsInFlight DEF Writes
  <2>2. CASE Created(r)
    BY <1>6, <2>1, <2>2, StoredFacts
       DEF RowsAreSaved, RepliesLast, Created, Stored
  <2>3. CASE Updated(r)
    BY <1>6, <2>1, <2>3, StoredFacts
       DEF RowsAreSaved, RepliesLast, Updated, Stored
  <2>4. CASE Removed(r)
    BY <1>6, <2>1, <2>4, StoredFacts DEF RowsAreSaved, Removed, Stored
  <2>5. CASE Swept(r)
    BY <1>6, <2>1, <2>5, StoredFacts DEF RowsAreSaved, Swept, Stored
  <2> QED BY <1>3, <2>2, <2>3, <2>4, <2>5, WriteEffect
<1>4. ASSUME NEW w \in Workers, Crash(w), UNCHANGED db
      PROVE  RowsAreSaved'
  BY <1>4, <1>6, CrashEffect, LabelsInFlight DEF RowsAreSaved, db, Stored
<1>5. CASE Rests
  BY <1>5 DEF Rests, RowsAreSaved, Stored
<1> QED BY <1>1, <1>2, <1>3, <1>4, <1>5 DEF Shape

\* Between the duplicate check and the create, only requests that were not over
\* when the save arrived can have connected its channel.
LEMMA CheckedTargetStep ==
  ASSUME TypeOK, TypeOK', JobAtLabel, RowsAreSaved, PastIsOver, CheckedTarget,
         Shape
  PROVE  CheckedTarget'
<1> USE DEF TypeOK, CheckedTarget, StoredRows
<1>1. ASSUME NEW r \in Requests, NEW j \in Jobs, Receive(r, j)
      PROVE  CheckedTarget'
  <2>1. /\ channel' = channel /\ pc'[r] \in Entries
        /\ \A s \in Requests : s # r =>
             job'[s] = job[s] /\ pc'[s] = pc[s] /\ past'[s] = past[s]
    BY <1>1, ReceiveEffect DEF db
  <2> QED BY <2>1 DEF Entries, Stored
<1>2. ASSUME NEW r \in Requests, Walk(r)
      PROVE  CheckedTarget'
  <2>1. /\ channel' = channel /\ job' = job /\ past' = past
        /\ \A s \in Requests : s # r => pc'[s] = pc[s]
        /\ job[r].kind = "save" => SaveTurn(r)
        /\ OwnLabel(pc'[r], job[r].kind)
    BY <1>2, MoveEffect DEF Walk
  <2>2. pc'[r] = "save-create" => ~AlreadyConnected(job[r].target)
    BY <2>1 DEF SaveTurn, OwnLabel, SaveLabels
  <2> QED BY <2>1, <2>2 DEF AlreadyConnected, Stored
<1>3. ASSUME NEW r \in Requests, Writes(r)
      PROVE  CheckedTarget'
  <2>1. /\ job' = job /\ past' = past
        /\ \A s \in Requests : s # r => pc'[s] = pc[s] /\ r \notin past[s]
    BY <1>3, MoveEffect DEF Writes, PastIsOver, Ended
  <2>2. CASE Created(r)
    BY <2>1, <2>2, StoredFacts DEF Created, Stored
  <2>3. CASE Updated(r)
    <3>1. job[job[r].row].kind = "save"
      BY <2>3, StoredFacts DEF RowsAreSaved, Updated
    <3>2. job[r].row # r
      BY <2>3, <3>1 DEF Updated
    <3> QED BY <2>1, <2>3, <3>2, StoredFacts DEF Updated, Stored
  <2>4. CASE Removed(r)
    BY <2>1, <2>4, StoredFacts DEF Removed, Stored
  <2>5. CASE Swept(r)
    BY <2>1, <2>5, StoredFacts DEF Swept, Stored
  <2> QED BY <1>3, <2>2, <2>3, <2>4, <2>5, WriteEffect
<1>4. ASSUME NEW w \in Workers, Crash(w), UNCHANGED db
      PROVE  CheckedTarget'
  BY <1>4, CrashEffect DEF db, Stored
<1>5. CASE Rests
  BY <1>5 DEF Rests, Stored
<1> QED BY <1>1, <1>2, <1>3, <1>4, <1>5 DEF Shape

\* Who deletes a document is in flight when it does.
LEMMA RemovalsStep ==
  ASSUME TypeOK, TypeOK', JobAtLabel, RowsAreSaved, PastIsOver, Removals, Shape
  PROVE  Removals'
<1> USE DEF TypeOK
<1>1. ASSUME NEW r \in Requests, NEW j \in Jobs, Receive(r, j)
      PROVE  Removals'
  <2>1. /\ channel' = channel /\ remover' = remover /\ pc[r] = "idle"
        /\ \A s \in Requests : s # r => job'[s] = job[s] /\ past'[s] = past[s]
    BY <1>1, ReceiveEffect DEF db
  <2>2. channel[r] = Unused /\ job[r] = None
    BY <2>1 DEF RowsAreSaved, JobAtLabel
  <2>3. \A i \in Requests : channel[i] = Deleted => remover[i] # r
    BY <2>2 DEF Removals, None
  <2> QED BY <2>1, <2>2, <2>3, Sentinels DEF Removals
<1>2. ASSUME NEW r \in Requests, Walk(r)
      PROVE  Removals'
  BY <1>2, MoveEffect DEF Walk, Removals
<1>3. ASSUME NEW r \in Requests, Writes(r)
      PROVE  Removals'
  <2>1. /\ job' = job /\ past' = past
        /\ \A s \in Requests : r \notin past[s]
    BY <1>3, MoveEffect DEF Writes, PastIsOver, Ended
  <2>2. CASE Created(r)
    BY <2>1, <2>2, StoredFacts DEF Created, Removals
  <2>3. CASE Updated(r)
    BY <2>1, <2>3, StoredFacts DEF Updated, Removals
  <2>4. CASE Removed(r)
    BY <2>1, <2>4, StoredFacts DEF Removed, Removals
  <2>5. CASE Swept(r)
    BY <2>1, <2>5, StoredFacts DEF Swept, Removals, Stored
  <2> QED BY <1>3, <2>2, <2>3, <2>4, <2>5, WriteEffect
<1>4. ASSUME NEW w \in Workers, Crash(w), UNCHANGED db
      PROVE  Removals'
  BY <1>4, CrashEffect DEF db, Removals
<1>5. CASE Rests
  BY <1>5 DEF Rests, Removals
<1> QED BY <1>1, <1>2, <1>3, <1>4, <1>5 DEF Shape

\* A revoke that emptied the collection meets only later saves.
LEMMA SweptCleanStep ==
  ASSUME TypeOK, TypeOK', JobAtLabel, RowsAreSaved, PastIsOver, SweptClean,
         Shape
  PROVE  SweptClean'
<1> USE DEF TypeOK, StoredRows
<1>1. ASSUME NEW r \in Requests, NEW j \in Jobs, Receive(r, j)
      PROVE  SweptClean'
  <2>1. /\ channel' = channel /\ swept' = swept /\ pc[r] = "idle"
        /\ \A s \in Requests : s # r =>
             job'[s] = job[s] /\ pc'[s] = pc[s] /\ past'[s] = past[s]
    BY <1>1, ReceiveEffect DEF db
  <2>2. r \notin swept
    BY <2>1 DEF SweptClean
  <2> QED BY <2>1, <2>2 DEF SweptClean, Stored, DatabaseTypeOK
<1>2. ASSUME NEW r \in Requests, Moves(r)
      PROVE  /\ \A v \in swept : pc'[v] = pc[v]
             /\ job' = job /\ past' = past
             /\ \A s \in Requests : r \notin past[s]
  <2>1. /\ pc[r] \notin {"idle", "done", "lost"} /\ job' = job /\ past' = past
        /\ \A s \in Requests : s # r => pc'[s] = pc[s]
    BY <1>2, MoveEffect
  <2>2. swept \subseteq Requests /\ r \notin swept
    BY <2>1 DEF SweptClean, DatabaseTypeOK
  <2> QED BY <2>1, <2>2 DEF PastIsOver, Ended
<1>3. ASSUME NEW r \in Requests, Walk(r)
      PROVE  SweptClean'
  BY <1>2, <1>3 DEF Walk, SweptClean, Stored
<1>4. ASSUME NEW r \in Requests, Writes(r)
      PROVE  SweptClean'
  <2>1. Moves(r) /\ swept \subseteq Requests
    BY <1>4 DEF Writes, DatabaseTypeOK
  <2>2. CASE Created(r)
    BY <1>2, <2>1, <2>2, StoredFacts DEF Created, SweptClean, Stored
  <2>3. CASE Updated(r)
    BY <1>2, <2>1, <2>3, StoredFacts DEF Updated, SweptClean, Stored
  <2>4. CASE Removed(r)
    BY <1>2, <2>1, <2>4, StoredFacts DEF Removed, SweptClean, Stored
  <2>5. CASE Swept(r)
    <3>1. \A i \in Requests : ~Stored(i)'
      BY <2>5, StoredFacts DEF Swept, Stored
    <3> QED BY <1>2, <2>1, <2>5, <3>1 DEF Swept, SweptClean
  <2> QED BY <1>4, <2>2, <2>3, <2>4, <2>5, WriteEffect
<1>5. ASSUME NEW w \in Workers, Crash(w), UNCHANGED db
      PROVE  SweptClean'
  <2>1. \A v \in swept : pc'[v] = pc[v]
    BY <1>5, CrashEffect, LabelsInFlight
       DEF SweptClean, InFlight, DatabaseTypeOK
  <2> QED BY <1>5, <2>1, CrashEffect DEF db, SweptClean, Stored
<1>6. CASE Rests
  BY <1>6 DEF Rests, SweptClean, Stored
<1> QED BY <1>1, <1>3, <1>4, <1>5, <1>6 DEF Shape

\* A second connection of a target is a later edit, or of a save that was in
\* flight when the first was made.
LEMMA OnlyEditsDuplicateStep ==
  ASSUME TypeOK, TypeOK', JobAtLabel, RowsAreSaved, PastIsOver, CheckedTarget,
         OnlyEditsDuplicate, Shape
  PROVE  OnlyEditsDuplicate'
<1> USE DEF TypeOK, StoredRows, OnlyEditsDuplicate
<1>1. ASSUME NEW r \in Requests, NEW j \in Jobs, Receive(r, j)
      PROVE  OnlyEditsDuplicate'
  <2>1. /\ channel' = channel /\ pc[r] = "idle"
        /\ \A s \in Requests : s # r => past'[s] = past[s] /\ job'[s] = job[s]
    BY <1>1, ReceiveEffect DEF db
  <2>2. \A i \in Requests : Stored(i) =>
          channel[i].by \in Requests /\ channel[i].by # r
    BY <2>1 DEF RowsAreSaved, Stored, DatabaseTypeOK, Row
  <2> QED BY <2>1, <2>2 DEF Stored
<1>2. ASSUME NEW r \in Requests, Walk(r)
      PROVE  OnlyEditsDuplicate'
  BY <1>2, MoveEffect DEF Walk, Stored
<1>3. ASSUME NEW r \in Requests, Writes(r)
      PROVE  OnlyEditsDuplicate'
  <2>1. /\ past' = past /\ job' = job
        /\ \A s \in Requests : r \notin past[s]
    BY <1>3, MoveEffect DEF Writes, PastIsOver, Ended
  <2>2. \A i \in Requests : Stored(i) => channel[i].by \in Requests
    BY DEF Stored, DatabaseTypeOK, Row
  <2>3. CASE Created(r)
    BY <2>1, <2>2, <2>3, StoredFacts DEF Created, CheckedTarget, Stored
  <2>4. CASE Updated(r)
    BY <2>1, <2>2, <2>4, StoredFacts DEF Updated, Stored
  <2>5. CASE Removed(r)
    BY <2>1, <2>5, StoredFacts DEF Removed, Stored
  <2>6. CASE Swept(r)
    <3>1. \A i \in Requests : ~Stored(i)'
      BY <2>6, StoredFacts DEF Swept, Stored
    <3> QED BY <3>1
  <2> QED BY <1>3, <2>3, <2>4, <2>5, <2>6, WriteEffect
<1>4. ASSUME NEW w \in Workers, Crash(w), UNCHANGED db
      PROVE  OnlyEditsDuplicate'
  BY <1>4, CrashEffect DEF db, Stored
<1>5. CASE Rests
  BY <1>5 DEF Rests, Stored
<1> QED BY <1>1, <1>2, <1>3, <1>4, <1>5 DEF Shape

-----------------------------------------------------------------------------
(* Theorems *)

\* The initial states.
LEMMA InitInvariant == Init => IInv
<1> SUFFICES ASSUME Init PROVE IInv
  OBVIOUS
<1> USE DEF Init, DatabaseInit, WorkersInit, ViewInit, EditedInit, AccountsInit,
            NoticesInit
<1>1. DatabaseTypeOK
  BY DEF DatabaseTypeOK, RecordOf, Record, Sessions, Accounts
<1>2. WorkersTypeOK
  BY DEF WorkersTypeOK, Replies
<1>3. ViewTypeOK /\ EditedTypeOK /\ AccountsTypeOK /\ NoticesTypeOK
  BY DEF ViewTypeOK, EditedTypeOK, AccountsTypeOK, NoticesTypeOK, Accounts
<1>4. JobAtLabel /\ PastIsOver /\ RepliesLast
  BY DEF JobAtLabel, PastIsOver, RepliesLast
<1>5. \A i \in Requests : ~Stored(i)
  BY DEF Stored
<1>6. RowsAreSaved /\ CheckedTarget /\ Removals /\ SweptClean
  BY <1>5, Sentinels DEF RowsAreSaved, CheckedTarget, Removals, SweptClean
<1>7. OnlyEditsDuplicate
  BY <1>5 DEF OnlyEditsDuplicate, StoredRows
<1> QED BY <1>1, <1>2, <1>3, <1>4, <1>6, <1>7 DEF IInv, TypeOK

\* The invariant is inductive.
LEMMA StepInvariant == IInv /\ [Next]_vars => IInv'
<1> SUFFICES ASSUME IInv, [Next]_vars PROVE IInv'
  OBVIOUS
<1> USE DEF IInv
<1>1. TypeOK' /\ Shape /\ Untold
  BY StepShape
<1>2. JobAtLabel'
  BY <1>1, JobAtLabelStep DEF TypeOK
<1>3. PastIsOver' /\ RepliesLast'
  BY <1>1, PastIsOverStep, RepliesLastStep
<1>4. RowsAreSaved'
  BY <1>1, RowsAreSavedStep
<1>5. CheckedTarget'
  BY <1>1, CheckedTargetStep
<1>6. Removals'
  BY <1>1, RemovalsStep
<1>7. SweptClean'
  BY <1>1, SweptCleanStep
<1>8. OnlyEditsDuplicate'
  BY <1>1, OnlyEditsDuplicateStep
<1> QED BY <1>1, <1>2, <1>3, <1>4, <1>5, <1>6, <1>7, <1>8

\* The inductive invariant holds of every reachable state of the app.
THEOREM Invariance == Spec => []IInv
BY InitInvariant, StepInvariant, PTL DEF Spec

\* Every variable keeps its type.
THEOREM TypeCorrect == Spec => []TypeOK
<1>1. IInv => TypeOK
  BY DEF IInv
<1> QED BY <1>1, Invariance, PTL

\* handleSaveButtonClick refuses a target that is taken: a second connection
\* of a target is made while the first one is, or by handleUpdateButtonClick.
THEOREM DuplicatesAreEdits == Spec => []OnlyEditsDuplicate
<1>1. IInv => OnlyEditsDuplicate
  BY DEF IInv
<1> QED BY <1>1, Invariance, PTL

\* A save reported as successful has created its connection, one refused has
\* not, and a connection disappears only through a delete of that very
\* connection, or a revoke, not over when the save arrived.
THEOREM SavedLostOnPurpose == Spec => []SavedConnectionLostOnPurpose
<1>1. IInv => SavedConnectionLostOnPurpose
  BY DEF IInv, SavedConnectionLostOnPurpose, RowsAreSaved, Removals
<1> QED BY <1>1, Invariance, PTL

\* A revoke that reached the Channel collection leaves behind no connection of
\* a save that was over before it.
THEOREM RevokeSweepsAll == Spec => []RevokeSweeps
<1>1. IInv => RevokeSweeps
  BY DEF IInv, RevokeSweeps, SweptClean
<1> QED BY <1>1, Invariance, PTL

\* No step brings a deleted connection back or hands a stored one to another
\* community: an update never works as an upsert.
THEOREM DeletedForGood == Spec => NoResurrection
<1> DEFINE Kept ==
      \A i \in Requests :
        /\ channel[i] = Deleted => channel'[i] = Deleted
        /\ Stored(i) /\ channel'[i] # Deleted =>
             channel'[i].networkId = channel[i].networkId
<1>1. IInv /\ [Next]_vars => [Kept]_vars
  <2> SUFFICES ASSUME IInv, [Next]_vars PROVE Kept
    OBVIOUS
  <2> USE DEF IInv
  <2>1. Shape
    BY StepShape
  <2>2. ASSUME NEW r \in Requests, Writes(r)
        PROVE  Kept
    <3>1. CASE Created(r)
      BY <3>1, StoredFacts DEF Created, Stored, TypeOK
    <3>2. CASE Updated(r)
      BY <3>2, StoredFacts DEF Updated, Stored, TypeOK
    <3>3. CASE Removed(r)
      BY <3>3, StoredFacts DEF Removed, Stored, TypeOK
    <3>4. CASE Swept(r)
      BY <3>4, StoredFacts DEF Swept, Stored, TypeOK
    <3> QED BY <2>2, <3>1, <3>2, <3>3, <3>4, WriteEffect
  <2>3. CASE channel' = channel
    BY <2>3
  <2>4. \/ \E r \in Requests : Writes(r)
        \/ channel' = channel
    BY <2>1, ReceiveEffect DEF Shape, Walk, db, Rests, TypeOK
  <2> QED BY <2>2, <2>3, <2>4
<1>2. NoResurrection <=> [][Kept]_vars
  BY DEF NoResurrection
<1> QED BY <1>1, <1>2, Invariance, PTL DEF Spec
=============================================================================

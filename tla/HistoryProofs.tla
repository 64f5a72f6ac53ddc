--------------------------- MODULE HistoryProofs ---------------------------
(***************************************************************************)
(* What a step of TeamsApp does to one request and to one document, and    *)
(* what a request has read of a document: the lemmas behind the proofs     *)
(* about pages, forms, messages and the Microsoft connection, for every    *)
(* value of the constants.                                                 *)
(***************************************************************************)
EXTENDS TeamsAppProofs, FiniteSetTheorems

-----------------------------------------------------------------------------
(* A step, as one request sees it *)

\* What request s has read or learned so far is left alone.
SameLocals(s) ==
  /\ user'[s] = user[s] /\ listed'[s] = listed[s] /\ edited'[s] = edited[s]
  /\ account'[s] = account[s]
  /\ found'[s] = found[s] /\ posted'[s] = posted[s]

\* It waits while others run, or dies.
Waits(s) ==
  /\ job'[s] = job[s] /\ past'[s] = past[s] /\ reply'[s] = reply[s]
  /\ pc'[s] = pc[s] \/ (InFlight(s) /\ pc'[s] = "lost")
  /\ SameLocals(s)

Arrives(s) == SameLocals(s) /\ \E j \in Jobs : Receive(s, j)

Runs(s) == Handle(s) /\ Moves(s)

\* A handler writes to its own locals only.
LEMMA OtherLocals ==
  ASSUME TypeOK, NEW r \in Requests, Handle(r), NEW s \in Requests, s # r
  PROVE  SameLocals(s)
<1> USE DEF TypeOK, SameLocals
<1>1. CASE Settings(r) \/ Lifecycle(r) \/ Other(r)
  BY <1>1 DEF Settings, Lifecycle, Other, view, notices
<1>2. CASE Page(r)
  <2>1. user'[s] = user[s] /\ listed'[s] = listed[s]
    BY <1>2 DEF Page, GetNetworkSettings, PageNetwork, PageChannels,
       PageChildren, PageChildrenEmpty, PageReadFails, PageTeams,
       PageTeamsFails, view, ViewTypeOK
  <2> QED BY <1>2, <2>1 DEF Page, notices
<1>3. CASE Form(r)
  <2>1. user'[s] = user[s] /\ listed'[s] = listed[s] /\ edited'[s] = edited[s]
    BY <1>3 DEF Form, SettingsForm, EditRow, FormNetwork, FormReadFails,
       OpenGraph, EditGraph, RefetchGraph, RefetchRow, RefetchRowGone,
       FormGraphFails, AuthRedirect, view, ViewTypeOK, EditedTypeOK
  <2> QED BY <1>3, <2>1 DEF Form, notices
<1>4. CASE OAuth(r)
  <2>1. account'[s] = account[s]
    BY <1>4 DEF OAuth, ConnectToMicrosoft, Authorize, ConnectState,
       ConnectStateExpired, ConnectCodeRefused, ConnectMe, ConnectTenant,
       ConnectTenantFails, ConnectInstall, ConnectInstallFails, ConnectUpsert,
       ConnectUpsertFails, AccountsTypeOK
  <2> QED BY <1>4, <2>1 DEF OAuth, view, notices
<1>5. CASE Notify(r)
  <2>1. found'[s] = found[s] /\ posted'[s] = posted[s]
    BY <1>5 DEF Notify, HandleSubscriptionWebhook, EventStart,
       EventNetworkUpdated, EventOther, EventLookupRefused, EventLookup,
       EventEntities, EventPost, EventFails, NoticesTypeOK, notices
  <2> QED BY <1>5, <2>1 DEF Notify, view
<1> QED BY <1>1, <1>2, <1>3, <1>4, <1>5 DEF Handle

\* Each handler runs at labels of its own.
LEMMA HandlerLabels ==
  ASSUME NEW r
  PROVE  /\ HandleSaveButtonClick(r) => pc[r] \in SaveLabels
         /\ HandleUpdateButtonClick(r) => pc[r] \in UpdateLabels
         /\ HandleDeleteBlockConfirmation(r) => pc[r] \in DeleteLabels
         /\ GetAuthRevokeCallbackResponse(r) => pc[r] \in RevokeLabels
         /\ Page(r) => pc[r] \in PageLabels
         /\ Form(r) => pc[r] \in OpenLabels \cup EditLabels
                                   \cup RefetchLabels \cup RedirectLabels
         /\ Lifecycle(r) => pc[r] \in InstallLabels \cup UninstallLabels
         /\ OAuth(r) => pc[r] \in AuthorizeLabels \cup ConnectLabels
         /\ Notify(r) => pc[r] \in EventLabels
         /\ Other(r) => pc[r] \in OtherLabels
<1>1. /\ HandleSaveButtonClick(r) => pc[r] \in SaveLabels
      /\ HandleUpdateButtonClick(r) => pc[r] \in UpdateLabels
      /\ HandleDeleteBlockConfirmation(r) => pc[r] \in DeleteLabels
      /\ GetAuthRevokeCallbackResponse(r) => pc[r] \in RevokeLabels
  BY DEF HandleSaveButtonClick, SaveRead, SaveReadFails, SaveCreate,
     SaveCreateFails, SaveUser, SaveInstall, SaveInstallFails, SaveLabels,
     HandleUpdateButtonClick, UpdateWrite, UpdateWriteFails, UpdateUser,
     UpdateInstall, UpdateInstallFails, UpdateLabels,
     HandleDeleteBlockConfirmation, DeleteRow, DeleteRowFails, DeleteLabels,
     GetAuthRevokeCallbackResponse, RevokeNetwork, RevokeNetworkFails,
     RevokeChannels, RevokeChannelsFails, RevokeLabels
<1>2. /\ Page(r) => pc[r] \in PageLabels
      /\ Form(r) => pc[r] \in OpenLabels \cup EditLabels
                                \cup RefetchLabels \cup RedirectLabels
  BY DEF Page, GetNetworkSettings, PageNetwork, PageChannels, PageChildren,
     PageChildrenEmpty, PageReadFails, PageTeams, PageTeamsFails, PageLabels,
     Form, SettingsForm, EditRow, FormNetwork, FormReadFails, OpenGraph,
     EditGraph, RefetchGraph, RefetchRow, RefetchRowGone, FormGraphFails,
     AuthRedirect, OpenLabels, EditLabels, RefetchLabels, RedirectLabels
<1>3. /\ Lifecycle(r) => pc[r] \in InstallLabels \cup UninstallLabels
      /\ OAuth(r) => pc[r] \in AuthorizeLabels \cup ConnectLabels
  BY DEF Lifecycle, InstallationWebhook, HandleInstalledWebhook,
     HandleUninstalledWebhook, InstallDelete, InstallCreate, UninstallDelete,
     UninstallDeleteFails, InstallLabels, UninstallLabels,
     OAuth, ConnectToMicrosoft, Authorize, ConnectState,
     ConnectStateExpired, ConnectCodeRefused, ConnectMe, ConnectTenant,
     ConnectTenantFails, ConnectInstall, ConnectInstallFails, ConnectUpsert,
     ConnectUpsertFails, ConnectLabels, AuthorizeLabels
<1>4. /\ Notify(r) => pc[r] \in EventLabels
      /\ Other(r) => pc[r] \in OtherLabels
  BY DEF Notify, HandleSubscriptionWebhook, EventStart, EventNetworkUpdated,
     EventOther, EventLookupRefused, EventLookup, EventEntities, EventPost,
     EventFails, EventLabels, Other, OtherRequest, OpenDialog, Constant,
     NotSupported, FavoritePosts, MarkAsFavorite, BettermodeTokens, Refused,
     OtherLabels
<1> QED BY <1>1, <1>2, <1>3, <1>4

\* At a label of a handler it is that handler that runs.
LEMMA AtHandler ==
  ASSUME NEW r, Handle(r)
  PROVE  /\ pc[r] \in SaveLabels => HandleSaveButtonClick(r) /\ Settings(r)
         /\ pc[r] \in UpdateLabels =>
              HandleUpdateButtonClick(r) /\ Settings(r)
         /\ pc[r] \in DeleteLabels =>
              HandleDeleteBlockConfirmation(r) /\ Settings(r)
         /\ pc[r] \in RevokeLabels =>
              GetAuthRevokeCallbackResponse(r) /\ Settings(r)
         /\ pc[r] \in PageLabels => Page(r)
         /\ pc[r] \in OpenLabels \cup EditLabels
                       \cup RefetchLabels \cup RedirectLabels => Form(r)
         /\ pc[r] \in InstallLabels \cup UninstallLabels => Lifecycle(r)
         /\ pc[r] \in AuthorizeLabels \cup ConnectLabels => OAuth(r)
         /\ pc[r] \in EventLabels => Notify(r)
<1> DEFINE Callback ==
      /\ Settings(r)
      /\ \/ HandleSaveButtonClick(r) \/ HandleUpdateButtonClick(r)
         \/ HandleDeleteBlockConfirmation(r)
         \/ GetAuthRevokeCallbackResponse(r)
<1>1. \/ Callback \/ Page(r) \/ Form(r) \/ Lifecycle(r)
      \/ OAuth(r) \/ Notify(r) \/ Other(r)
  BY DEF Handle, Settings, SettingsCallback
<1> HIDE DEF Callback
<1>2. Callback =>
        /\ Settings(r)
        /\ \/ HandleSaveButtonClick(r) \/ HandleUpdateButtonClick(r)
           \/ HandleDeleteBlockConfirmation(r)
           \/ GetAuthRevokeCallbackResponse(r)
  BY DEF Callback
<1> QED BY <1>1, <1>2, HandlerLabels
        DEF SaveLabels, UpdateLabels, DeleteLabels, RevokeLabels, PageLabels,
            OpenLabels, EditLabels, RefetchLabels, RedirectLabels,
            InstallLabels, UninstallLabels, AuthorizeLabels, ConnectLabels,
            EventLabels, OtherLabels

\* A handler runs on, or its expired state takes the worker down.
LEMMA HandlerMoves ==
  ASSUME TypeOK, JobAtLabel, NEW r \in Requests, Handle(r)
  PROVE  Moves(r) \/ ConnectStateExpired(r)
<1> USE DEF TypeOK
<1>1. CASE Settings(r)
  BY <1>1, SaveSteps, CallbackSteps
     DEF Settings, SettingsCallback, Walk, Writes
<1>2. CASE Page(r)
  BY <1>2, PageSteps DEF Page, Walk
<1>3. CASE Form(r)
  BY <1>3, FormSteps DEF Form, Walk
<1>4. CASE Lifecycle(r)
  BY <1>4, LifecycleSteps DEF Lifecycle, Walk
<1>5. CASE Notify(r)
  BY <1>5, NotifySteps DEF Notify, Walk
<1>6. CASE Other(r)
  BY <1>6, OtherSteps DEF Other, Walk
<1>7. CASE OAuth(r)
  <2>1. Moves(r) \/ Crash(job[r].worker)
    BY <1>7, OAuthSteps DEF OAuth, Walk
  <2>2. pc[r] \in ConnectLabels \cup AuthorizeLabels
    BY <1>7 DEF OAuth, ConnectToMicrosoft, Authorize, ConnectState,
       ConnectStateExpired, ConnectCodeRefused, ConnectMe, ConnectTenant,
       ConnectTenantFails, ConnectInstall, ConnectInstallFails,
       ConnectUpsert, ConnectUpsertFails, ConnectLabels, AuthorizeLabels
  <2>3. InFlight(r) /\ job[r] # None
    BY <2>2, AtLabel, JobFields DEF InFlight, Labels
  <2>4. Crash(job[r].worker) => pc'[r] = "lost"
    BY <2>3 DEF Crash
  <2>5. ~ConnectStateExpired(r) => pc'[r] # "lost"
    BY <1>7 DEF OAuth, ConnectToMicrosoft, Authorize, ConnectState,
       ConnectCodeRefused, ConnectMe, ConnectTenant,
       ConnectTenantFails, ConnectInstall, ConnectInstallFails,
       ConnectUpsert, ConnectUpsertFails, Goto, GotoLeaving, Answer,
       WorkersTypeOK
  <2> QED BY <2>1, <2>4, <2>5
<1> QED BY <1>1, <1>2, <1>3, <1>4, <1>5, <1>6, <1>7 DEF Handle

\* When a worker dies a request of it is lost, and nothing else happens.
LEMMA DeathWaits ==
  ASSUME TypeOK, NEW w, Crash(w),
         UNCHANGED <<view, edited, account, notices>>, NEW s \in Requests
  PROVE  Waits(s)
BY CrashEffect DEF TypeOK, Waits, SameLocals, view, notices

\* In every step a request waits, arrives or runs.
LEMMA EachRequest ==
  ASSUME TypeOK, JobAtLabel, [Next]_vars, NEW s \in Requests
  PROVE  Waits(s) \/ Arrives(s) \/ Runs(s)
<1> USE DEF TypeOK
<1>1. ASSUME NEW r \in Requests, Arrive(r)
      PROVE  Waits(s) \/ Arrives(s)
  <2>1. PICK j \in Jobs : Receive(r, j)
    BY <1>1 DEF Arrive, Jobs
  <2>2. SameLocals(s)
    BY <1>1 DEF Arrive, SameLocals, view, notices
  <2>3. s # r => Waits(s)
    BY <2>1, <2>2, ReceiveEffect DEF Waits
  <2> QED BY <2>1, <2>2, <2>3 DEF Arrives
<1>2. ASSUME NEW r \in Requests, Handle(r)
      PROVE  Waits(s) \/ Runs(s)
  <2>1. CASE Moves(r)
    <3>1. s # r => Waits(s)
      BY <1>2, <2>1, MoveEffect, OtherLocals DEF Waits
    <3> QED BY <1>2, <2>1, <3>1 DEF Runs
  <2>2. CASE ConnectStateExpired(r) /\ ~Moves(r)
    <3>1. Crash(job[r].worker) /\ UNCHANGED account
      BY <2>2 DEF ConnectStateExpired
    <3>2. OAuth(r)
      BY <1>2, <2>2, SaveSteps, CallbackSteps, PageSteps, FormSteps,
         LifecycleSteps, NotifySteps, OtherSteps
         DEF Handle, Settings, SettingsCallback, Page, Form, Lifecycle,
             Notify, Other, Walk, Writes
    <3> QED BY <3>1, <3>2, DeathWaits DEF OAuth
  <2> QED BY <1>2, <2>1, <2>2, HandlerMoves
<1>3. ASSUME NEW r \in Requests, Background(r)
      PROVE  Waits(s)
  <2>1. UNCHANGED <<view, edited, account, notices>>
    BY <1>3 DEF Background, Welcome, WelcomeSent, WelcomeRejected, TaskRejected,
       RefreshTokenClient, RefreshUpdate, RefreshUpdateRejected
  <2>2. TaskOver(r) \/ Crash(job[r].worker)
    BY <1>3 DEF Background, Welcome, WelcomeSent, WelcomeRejected, TaskRejected,
       RefreshTokenClient, RefreshUpdate, RefreshUpdateRejected
  <2>3. CASE TaskOver(r)
    BY <2>1, <2>3 DEF TaskOver, Waits, SameLocals, view, notices
  <2> QED BY <2>1, <2>2, <2>3, DeathWaits
<1>4. ASSUME NEW w \in Workers, Lose(w)
      PROVE  Waits(s)
  BY <1>4, DeathWaits DEF Lose, Restart
<1>5. CASE UNCHANGED vars
  BY <1>5 DEF vars, procs, Waits, SameLocals, view, notices
<1> QED BY <1>1, <1>2, <1>3, <1>4, <1>5 DEF Next, Quiet

\* What is known of a request that has arrived, and of one that is over.
LEMMA Fixed ==
  ASSUME IInv, [Next]_vars, NEW s \in Requests, pc[s] # "idle"
  PROVE  /\ job'[s] = job[s] /\ past'[s] = past[s] /\ pc'[s] # "idle"
         /\ Waits(s) \/ Runs(s)
         /\ Ended(s) => Waits(s) /\ pc'[s] = pc[s]
<1> USE DEF IInv, TypeOK
<1>1. CASE Waits(s)
  BY <1>1, LabelsInFlight DEF Waits, InFlight, Ended
<1>2. CASE Runs(s)
  BY <1>2, MoveEffect, LabelsInFlight DEF Runs, Ended
<1>3. ~Arrives(s)
  BY DEF Arrives, Receive, Accept
<1> QED BY <1>1, <1>2, <1>3, EachRequest

-----------------------------------------------------------------------------
(* A step, as one document sees it *)

SameRow(i) == channel'[i] = channel[i] /\ remover'[i] = remover[i]

\* The save of that name creates it.
MadeBySave(i) ==
  /\ InFlight(i) /\ job[i].kind = "save"
  /\ channel[i] = Unused /\ channel'[i] \in Row
  /\ channel'[i].networkId = job[i].net
  /\ channel'[i].target = job[i].target /\ channel'[i].events = job[i].events
  /\ channel'[i].by = i

EditedBy(i, r) ==
  /\ InFlight(r) /\ job[r].kind = "update" /\ job[r].row = i
  /\ Stored(i) /\ channel'[i] \in Row
  /\ channel'[i].networkId = channel[i].networkId
  /\ channel'[i].target = job[r].target /\ channel'[i].events = job[r].events
  /\ channel'[i].by = r

GoneBy(i, r) ==
  /\ InFlight(r) /\ Stored(i)
  /\ channel'[i] = Deleted /\ remover'[i] = r

\* The Channel collection is written by four turns only.
LEMMA ChannelMoves ==
  ASSUME IInv, [Next]_vars
  PROVE  channel' = channel \/ \E r \in Requests : Writes(r)
<1>1. Shape
  BY StepShape DEF IInv
<1> QED BY <1>1, ReceiveEffect DEF Shape, Walk, db, Rests, IInv, TypeOK

\* In every step a document stays, is made, edited or deleted.
LEMMA EachRow ==
  ASSUME IInv, [Next]_vars, NEW i \in Requests
  PROVE  \/ SameRow(i) \/ MadeBySave(i)
         \/ \E r \in Requests : EditedBy(i, r) \/ GoneBy(i, r)
<1> USE DEF IInv, TypeOK
<1>1. Shape
  BY StepShape
<1>2. ASSUME NEW r \in Requests, Writes(r)
      PROVE  SameRow(i) \/ MadeBySave(i) \/ EditedBy(i, r) \/ GoneBy(i, r)
  <2>1. InFlight(r)
    BY <1>2 DEF Writes, Moves
  <2>2. CASE Created(r)
    BY <2>1, <2>2 DEF Created, SameRow, MadeBySave
  <2>3. CASE Updated(r)
    BY <2>1, <2>3 DEF Updated, SameRow, EditedBy
  <2>4. CASE Removed(r)
    BY <2>1, <2>4 DEF Removed, SameRow, GoneBy
  <2>5. CASE Swept(r)
    BY <2>1, <2>5 DEF Swept, SameRow, GoneBy
  <2> QED BY <1>2, <2>2, <2>3, <2>4, <2>5, WriteEffect
<1>3. \/ \E r \in Requests : Writes(r)
      \/ channel' = channel /\ remover' = remover
  BY <1>1, ReceiveEffect DEF Shape, Walk, db, Rests
<1> QED BY <1>2, <1>3 DEF SameRow

\* A step makes at most one document.
LEMMA RowsStayFinite ==
  ASSUME IInv, IsFiniteSet(StoredRows), [Next]_vars
  PROVE  IsFiniteSet(StoredRows')
<1> USE DEF IInv, TypeOK
<1>1. CASE channel' = channel
  BY <1>1 DEF StoredRows, Stored
<1>2. ASSUME NEW r \in Requests, Writes(r)
      PROVE  IsFiniteSet(StoredRows')
  <2>1. StoredRows' \subseteq StoredRows \cup {r}
    BY <1>2, WriteEffect, StoredFacts
       DEF Created, Updated, Removed, Swept, StoredRows, Stored
  <2> QED BY <2>1, FS_AddElement, FS_Subset
<1> QED BY <1>1, <1>2, ChannelMoves

\* A findMany returns as many documents as there are rows.
LEMMA LookupsAreFinite ==
  ASSUME NEW rows, IsFiniteSet(rows)
  PROVE  IsFiniteSet(FindMany(rows))
<1>1. [i \in rows |-> <<i, channel[i]>>] \in Surjection(rows, FindMany(rows))
  BY DEF FindMany, Surjection
<1> QED BY <1>1, FS_Surjection

\* A document that exists has a save that has arrived, and goes on existing.
LEMMA RowLasts ==
  ASSUME IInv, [Next]_vars, NEW i \in Requests, channel[i] # Unused
  PROVE  /\ channel'[i] # Unused /\ pc[i] # "idle" /\ job[i].kind = "save"
         /\ ~Stored(i) => SameRow(i)
         /\ Stored(i)' => Stored(i)
<1> USE DEF IInv, TypeOK
<1>1. pc[i] # "idle" /\ job[i].kind = "save"
  BY DEF RowsAreSaved
<1>2. channel'[i] # Unused
  BY EachRow, StoredFacts DEF SameRow, MadeBySave, EditedBy, GoneBy
<1>3. ~Stored(i) => SameRow(i)
  BY EachRow DEF MadeBySave, EditedBy, GoneBy
<1> QED BY <1>1, <1>2, <1>3 DEF SameRow, Stored

\* Whoever is in flight is in nobody's past.
LEMMA FlightIsNotPast ==
  ASSUME IInv, NEW r \in Requests, InFlight(r), NEW s \in Requests
  PROVE  r \notin past[s]
BY LabelsInFlight DEF IInv, PastIsOver, Ended, InFlight

-----------------------------------------------------------------------------
(* Inputs *)

\* What the buttons and forms promise stays true.
LEMMA InputsKeptStep ==
  ASSUME IInv, InputsKept, [Next]_vars
  PROVE  InputsKept'
<1> USE DEF IInv, TypeOK
<1> SUFFICES ASSUME NEW s \in Requests, pc'[s] # "idle"
             PROVE  (FormInput(job[s]) /\ ButtonInput(job[s])
                       /\ EventInput(job[s]))'
  BY DEF InputsKept
<1>1. ASSUME NEW j \in Jobs, FormInput(j), ButtonInput(j), EventInput(j),
             job'[s] = j
      PROVE  (FormInput(job[s]) /\ ButtonInput(job[s])
                /\ EventInput(job[s]))'
  <2>1. FormInput(j)' /\ EventInput(j)'
    BY <1>1 DEF FormInput, EventInput, Own
  <2>2. ASSUME j.kind \in {"ask-delete", "delete", "edit", "update", "refetch"}
        PROVE  /\ j.row \in Requests /\ channel[j.row] # Unused
               /\ channel'[j.row] # Unused /\ job'[j.row] = job[j.row]
    <3>1. j.row \in Requests /\ channel[j.row] # Unused
      BY <1>1, <2>2, JobFields DEF ButtonInput
    <3> QED BY <3>1, RowLasts, Fixed
  <2>3. ButtonInput(j)'
    BY <1>1, <2>2 DEF ButtonInput
  <2> QED BY <1>1, <2>1, <2>3 DEF FormInput, EventInput, ButtonInput, Own
<1>2. CASE pc[s] # "idle"
  <2>1. job'[s] = job[s] /\ job[s] \in Jobs
    BY <1>2, Fixed DEF JobAtLabel
  <2> QED BY <1>1, <1>2, <2>1 DEF InputsKept
<1>3. CASE pc[s] = "idle"
  <2>1. Arrives(s)
    BY <1>3, EachRequest, MoveEffect, LabelsInFlight DEF Waits, Runs, InFlight
  <2> QED BY <1>1, <2>1, ReceiveEffect DEF Arrives, Receive
<1> QED BY <1>2, <1>3

-----------------------------------------------------------------------------
(* What documents hold *)

\* An update that has just replaced something is the last writer.
LEMMA Overwrites ==
  ASSUME IInv, [Next]_vars, NEW i \in Requests, NEW u \in Requests,
         Stored(i)', Overwrote(u, i)', ~Overwrote(u, i)
  PROVE  channel'[i].by = u /\ InFlight(u)
<1> USE DEF IInv, TypeOK
<1>1. pc[u] # "idle"
  <2>1. job'[u].kind = "update" /\ (pc'[u] = "update-user"
          \/ pc'[u] = "update-install" \/ reply'[u] = "updated")
    BY DEF Overwrote
  <2>2. ~Arrives(u)
    BY <2>1, ReceiveEffect DEF Arrives, Entries, RepliesLast
  <2>3. pc[u] = "idle" => ~Runs(u)
    BY MoveEffect DEF Runs
  <2>4. CASE Waits(u)
    BY <2>1, <2>4 DEF Waits, RepliesLast
  <2> QED BY <2>2, <2>3, <2>4, EachRequest
<1>2. job'[u] = job[u] /\ (Waits(u) \/ Runs(u))
  BY <1>1, Fixed
<1>3. job[u].kind = "update" /\ job[u].row = i
  BY <1>2 DEF Overwrote
<1>4. ~Waits(u)
  BY <1>3 DEF Waits, Overwrote
<1>5. Runs(u)
  BY <1>2, <1>4
<1>6. pc[u] \notin {"update-user", "update-install"} /\ reply[u] # "updated"
  BY <1>3 DEF Overwrote
<1>7. InFlight(u) /\ OwnLabel(pc[u], "update") /\ job[u] \in Jobs
  BY <1>1, <1>3, <1>5 DEF Runs, Moves, JobAtLabel
<1>8. pc[u] \in UpdateLabels
  BY <1>7 DEF OwnLabel, InFlight, Labels, OtherLabels, OtherKinds
<1>9. HandleUpdateButtonClick(u)
  BY <1>5, <1>8, AtHandler DEF Runs
<1>10. UpdateWrite(u)
  BY <1>3, <1>6, <1>9
     DEF HandleUpdateButtonClick, UpdateWriteFails, UpdateUser, UpdateInstall,
         UpdateInstallFails, Overwrote, Goto, Answer, WorkersTypeOK
<1>11. Writes(u) /\ pc[u] = "update-write"
  BY <1>5, <1>10 DEF Writes, Runs, UpdateWrite
<1>12. Updated(u)
  BY <1>3, <1>11, WriteEffect DEF Created, Removed, Swept
<1> QED BY <1>3, <1>7, <1>12 DEF Updated, EditedBy

\* An update that has replaced something had arrived before this step, and had
\* replaced it before or is the last writer now.
LEMMA OverwroteBefore ==
  ASSUME IInv, [Next]_vars, NEW i \in Requests, NEW u \in Requests,
         Stored(i)', Overwrote(u, i)'
  PROVE  /\ pc[u] # "idle" /\ past'[u] = past[u]
         /\ Overwrote(u, i) \/ (channel'[i].by = u /\ InFlight(u))
<1>1. CASE Overwrote(u, i)
  <2>1. pc[u] # "idle"
    BY <1>1 DEF Overwrote, IInv, JobAtLabel, None
  <2> QED BY <1>1, <2>1, Fixed
<1>2. CASE ~Overwrote(u, i)
  <2>1. channel'[i].by = u /\ InFlight(u)
    BY <1>2, Overwrites
  <2>2. pc[u] # "idle"
    BY <2>1, LabelsInFlight DEF InFlight
  <2> QED BY <2>1, <2>2, Fixed
<1> QED BY <1>1, <1>2

\* Documents hold what their last writer said.
LEMMA RowsAreWrittenStep ==
  ASSUME IInv, RowsAreWritten, [Next]_vars
  PROVE  RowsAreWritten'
<1> SUFFICES ASSUME NEW i \in Requests, Stored(i)'
             PROVE  /\ WrittenBy(channel[i].by, i, channel[i])'
                    /\ \A u \in Requests : Overwrote(u, i)' =>
                         channel'[i].by \notin past'[u]
  BY DEF RowsAreWritten
<1>1. ASSUME NEW u \in Requests, Overwrote(u, i)'
      PROVE  /\ past'[u] = past[u]
             /\ Overwrote(u, i) \/ (channel'[i].by = u /\ u \notin past[u])
  BY <1>1, OverwroteBefore, FlightIsNotPast
<1>2. CASE SameRow(i)
  <2>1. Stored(i)
    BY <1>2 DEF SameRow, Stored
  <2>2. channel[i].by \in Requests /\ pc[channel[i].by] # "idle"
    BY <2>1 DEF IInv, TypeOK, DatabaseTypeOK, RowsAreSaved, Stored, Row
  <2>3. job'[channel[i].by] = job[channel[i].by]
    BY <2>2, Fixed
  <2> QED BY <1>1, <1>2, <2>1, <2>3 DEF SameRow, RowsAreWritten, WrittenBy
<1>3. CASE MadeBySave(i)
  <2>1. pc[i] # "idle"
    BY <1>3, LabelsInFlight DEF MadeBySave, InFlight
  <2>2. job'[i] = job[i]
    BY <2>1, Fixed
  <2>3. \A u \in Requests : i \notin past[u]
    BY <1>3, FlightIsNotPast DEF MadeBySave
  <2> QED BY <1>1, <1>3, <2>2, <2>3 DEF MadeBySave, WrittenBy
<1>4. ASSUME NEW r \in Requests, EditedBy(i, r)
      PROVE  /\ WrittenBy(channel[i].by, i, channel[i])'
             /\ \A u \in Requests : Overwrote(u, i)' =>
                  channel'[i].by \notin past'[u]
  <2>1. pc[r] # "idle"
    BY <1>4, LabelsInFlight DEF EditedBy, InFlight
  <2>2. job'[r] = job[r]
    BY <2>1, Fixed
  <2>3. \A u \in Requests : r \notin past[u]
    BY <1>4, FlightIsNotPast DEF EditedBy
  <2> QED BY <1>1, <1>4, <2>2, <2>3 DEF EditedBy, WrittenBy
<1>5. \A r \in Requests : ~GoneBy(i, r)
  BY DEF GoneBy, Stored
<1> QED BY <1>2, <1>3, <1>4, <1>5, EachRow

-----------------------------------------------------------------------------
(* What requests have read *)

\* A document read now is read.
LEMMA ReadNow ==
  ASSUME IInv, RowsAreWritten, NEW r \in Requests, NEW i \in Requests,
         Stored(i)
  PROVE  ReadBy(r, i, channel[i])
<1> USE DEF IInv, TypeOK
<1>1. channel[i] \in Row /\ channel[i] \notin {Unused, Deleted}
  BY DEF Stored, DatabaseTypeOK
<1>2. past[r] \subseteq Requests
  BY DEF WorkersTypeOK
<1>3. channel[i].networkId = job[i].net /\ pc[channel[i].by] # "idle"
  BY DEF RowsAreSaved
<1>4. WrittenBy(channel[i].by, i, channel[i])
  BY DEF RowsAreWritten
<1>5. \A u \in past[r] :
        job[u].kind = "update" /\ job[u].row = i /\ reply[u] = "updated"
          => channel[i].by \notin past[u]
  BY <1>2 DEF RowsAreWritten, Overwrote
<1> QED BY <1>1, <1>3, <1>4, <1>5 DEF ReadBy

\* What was read stays read: the past of a request does not grow.
LEMMA ReadStays ==
  ASSUME IInv, [Next]_vars, NEW r \in Requests, pc[r] # "idle",
         NEW i, NEW doc, ReadBy(r, i, doc)
  PROVE  ReadBy(r, i, doc)'
<1> USE DEF IInv, TypeOK
<1>1. i \in Requests /\ channel[i] # Unused /\ doc.by \in Requests
  BY DEF ReadBy, Row
<1>2. channel'[i] # Unused /\ pc[i] # "idle" /\ job'[i] = job[i]
  BY <1>1, RowLasts, Fixed
<1>3. job'[doc.by] = job[doc.by] /\ pc'[doc.by] # "idle"
  BY <1>1, Fixed DEF ReadBy
<1>4. WrittenBy(doc.by, i, doc)'
  BY <1>3 DEF ReadBy, WrittenBy
<1>5. past'[r] = past[r] /\ past[r] \subseteq Requests
  BY Fixed DEF WorkersTypeOK
<1>6. ASSUME NEW u \in past[r]
      PROVE  job'[u] = job[u] /\ reply'[u] = reply[u] /\ past'[u] = past[u]
  <2>1. u \in Requests /\ Ended(u) /\ pc[u] # "idle"
    BY <1>5, <1>6 DEF PastIsOver, Ended
  <2> QED BY <2>1, Fixed DEF Waits
<1>7. \A u \in past'[r] :
        job'[u].kind = "update" /\ job'[u].row = i /\ reply'[u] = "updated"
          => doc.by \notin past'[u]
  BY <1>5, <1>6 DEF ReadBy
<1>8. channel'[i] = Deleted => remover'[i] \notin past'[r]
  <2>1. CASE SameRow(i)
    BY <1>5, <2>1 DEF SameRow, ReadBy
  <2>2. CASE \E q \in Requests : GoneBy(i, q)
    BY <1>5, <2>2, FlightIsNotPast DEF GoneBy
  <2>3. CASE MadeBySave(i) \/ \E q \in Requests : EditedBy(i, q)
    BY <2>3, StoredFacts DEF MadeBySave, EditedBy
  <2> QED BY <1>1, <2>1, <2>2, <2>3, EachRow
<1> QED BY <1>1, <1>2, <1>3, <1>4, <1>7, <1>8 DEF ReadBy

\* A form comes to use a document it has just read, or none.
LEMMA EditedMoves ==
  ASSUME IInv, NEW s \in Requests, Runs(s)
  PROVE  \/ edited'[s] \in {edited[s], NoRecord}
         \/ /\ job[s].kind \in {"edit", "refetch"} /\ job[s].row \in Requests
            /\ Stored(job[s].row) /\ edited'[s] = channel[job[s].row]
<1> USE DEF IInv, TypeOK
<1>1. CASE Form(s)
  <2>1. CASE EditRow(s) \/ RefetchRow(s)
    <3>1. pc[s] \in EditLabels \cup RefetchLabels
      BY <2>1 DEF EditRow, RefetchRow, EditLabels, RefetchLabels
    <3>2. job[s].kind \in {"edit", "refetch"} /\ job[s].row \in Requests
      BY <3>1, AtLabel, JobFields DEF Runs, Moves
    <3> QED BY <2>1, <3>2 DEF EditRow, RefetchRow, EditedTypeOK
  <2>2. CASE ~EditRow(s) /\ ~RefetchRow(s)
    BY <1>1, <2>2 DEF Form, SettingsForm, FormNetwork, FormReadFails,
       OpenGraph, EditGraph, RefetchGraph, RefetchRowGone, FormGraphFails,
       AuthRedirect
  <2> QED BY <2>1, <2>2
<1>2. CASE ~Form(s)
  BY <1>2 DEF Runs, Handle, Settings, Page, Lifecycle, OAuth, Notify, Other
<1> QED BY <1>1, <1>2

\* A page comes to list the documents there are.
LEMMA ListedMoves ==
  ASSUME IInv, NEW s \in Requests, Runs(s)
  PROVE  \/ listed'[s] = listed[s]
         \/ pc[s] = "page-children" /\ listed'[s] = FindMany(StoredRows)
<1> USE DEF IInv, TypeOK
<1>1. CASE Page(s)
  BY <1>1 DEF Page, GetNetworkSettings, PageNetwork, PageChannels,
     PageChildren, PageChildrenEmpty, PageReadFails, PageTeams,
     PageTeamsFails, view, ViewTypeOK
<1>2. CASE Form(s)
  BY <1>2 DEF Form, SettingsForm, EditRow, FormNetwork, FormReadFails,
     OpenGraph, EditGraph, RefetchGraph, RefetchRow, RefetchRowGone,
     FormGraphFails, AuthRedirect, view
<1>3. CASE ~Page(s) /\ ~Form(s)
  BY <1>3 DEF Runs, Handle, Settings, Lifecycle, OAuth, Notify, Other, view
<1> QED BY <1>1, <1>2, <1>3

\* A notification comes to find documents of the community that are switched
\* on for its event, and to post what it has found.
LEMMA FoundMoves ==
  ASSUME IInv, NEW s \in Requests, Runs(s),
         NEW d \in found'[s] \cup posted'[s]
  PROVE  d \in found[s] \cup posted[s] \/ d \in FindMany(SwitchedOn(s))
<1> USE DEF IInv, TypeOK, NoticesTypeOK
<1>1. CASE ~Notify(s)
  BY <1>1 DEF Runs, Handle, Settings, Page, Form, Lifecycle, OAuth, Other,
     notices
<1>2. CASE EventLookup(s)
  BY <1>2 DEF EventLookup
<1>3. CASE EventPost(s)
  BY <1>3 DEF EventPost
<1>4. CASE UNCHANGED <<found, posted>>
  BY <1>4
<1> QED BY <1>1, <1>2, <1>3, <1>4
        DEF Notify, HandleSubscriptionWebhook, EventStart,
            EventNetworkUpdated, EventOther, EventLookupRefused,
            EventEntities, EventFails, notices

\* What a form uses was read.
LEMMA EditedIsReadStep ==
  ASSUME IInv, RowsAreWritten, EditedIsRead, [Next]_vars
  PROVE  EditedIsRead'
<1> SUFFICES ASSUME NEW s \in Requests, edited'[s] # NoRecord
             PROVE  /\ pc'[s] # "idle" /\ job'[s].kind \in {"edit", "refetch"}
                    /\ ReadBy(s, job[s].row, edited[s])'
  BY DEF EditedIsRead
<1>1. CASE edited'[s] = edited[s]
  <2>1. /\ pc[s] # "idle" /\ job[s].kind \in {"edit", "refetch"}
        /\ ReadBy(s, job[s].row, edited[s])
    BY <1>1 DEF EditedIsRead
  <2>2. PICK i, doc : i = job[s].row /\ doc = edited[s]
    OBVIOUS
  <2>3. ReadBy(s, i, doc)'
    BY <2>1, <2>2, ReadStays
  <2>4. job'[s] = job[s] /\ pc'[s] # "idle"
    BY <2>1, Fixed
  <2> QED BY <1>1, <2>1, <2>2, <2>3, <2>4
<1>2. CASE edited'[s] # edited[s]
  <2>1. Runs(s)
    BY <1>2, EachRequest DEF IInv, Waits, Arrives, SameLocals
  <2>2. pc[s] # "idle"
    BY <2>1, MoveEffect DEF Runs, IInv, TypeOK
  <2>3. /\ job[s].kind \in {"edit", "refetch"} /\ job[s].row \in Requests
        /\ Stored(job[s].row) /\ edited'[s] = channel[job[s].row]
    BY <1>2, <2>1, EditedMoves
  <2>4. PICK i, doc : i = job[s].row /\ doc = channel[job[s].row]
    OBVIOUS
  <2>5. ReadBy(s, i, doc)
    BY <2>3, <2>4, ReadNow
  <2>6. ReadBy(s, i, doc)'
    BY <2>2, <2>5, ReadStays
  <2>7. job'[s] = job[s] /\ pc'[s] # "idle"
    BY <2>2, Fixed
  <2> QED BY <2>3, <2>4, <2>6, <2>7
<1> QED BY <1>1, <1>2

\* What a page lists was read.
LEMMA ListedIsReadStep ==
  ASSUME IInv, RowsAreWritten, ListedIsRead, [Next]_vars
  PROVE  ListedIsRead'
<1> SUFFICES ASSUME NEW s \in Requests, NEW c \in listed'[s]
             PROVE  pc'[s] # "idle" /\ ReadBy(s, c[1], c[2])'
  BY DEF ListedIsRead
<1>1. pc[s] # "idle" /\ ReadBy(s, c[1], c[2])
  <2>1. CASE c \in listed[s]
    BY <2>1 DEF ListedIsRead
  <2>2. CASE c \notin listed[s]
    <3>1. Runs(s)
      BY <2>2, EachRequest DEF IInv, Waits, Arrives, SameLocals
    <3>2. pc[s] # "idle"
      BY <3>1, MoveEffect DEF Runs, IInv, TypeOK
    <3>3. PICK i \in StoredRows : c = <<i, channel[i]>>
      BY <2>2, <3>1, ListedMoves DEF FindMany
    <3> QED BY <3>2, <3>3, ReadNow DEF StoredRows
  <2> QED BY <2>1, <2>2
<1> QED BY <1>1, ReadStays, Fixed

\* What a notification finds and posts was read, and is of its community.
LEMMA FoundIsReadStep ==
  ASSUME IInv, RowsAreWritten, FoundIsRead, [Next]_vars
  PROVE  FoundIsRead'
<1> SUFFICES ASSUME NEW s \in Requests, NEW d \in found'[s] \cup posted'[s]
             PROVE  /\ pc'[s] # "idle" /\ ReadBy(s, d[1], d[2])'
                    /\ d[2].networkId = job'[s].net
                    /\ job'[s].name \in d[2].events
  BY DEF FoundIsRead
<1>1. /\ pc[s] # "idle" /\ ReadBy(s, d[1], d[2])
      /\ d[2].networkId = job[s].net /\ job[s].name \in d[2].events
  <2>1. CASE d \in found[s] \cup posted[s]
    BY <2>1 DEF FoundIsRead
  <2>2. CASE d \notin found[s] \cup posted[s]
    <3>1. Runs(s)
      BY <2>2, EachRequest DEF IInv, Waits, Arrives, SameLocals
    <3>2. pc[s] # "idle"
      BY <3>1, MoveEffect DEF Runs, IInv, TypeOK
    <3>3. PICK i \in SwitchedOn(s) : d = <<i, channel[i]>>
      BY <2>2, <3>1, FoundMoves DEF FindMany
    <3> QED BY <3>2, <3>3, ReadNow DEF SwitchedOn, StoredRows
  <2> QED BY <2>1, <2>2
<1> QED BY <1>1, ReadStays, Fixed

\* The invariant of what was read is inductive.
LEMMA ReadStep == IInv /\ ReadInv /\ [Next]_vars => ReadInv'
BY InputsKeptStep, RowsAreWrittenStep, EditedIsReadStep, ListedIsReadStep,
   FoundIsReadStep DEF ReadInv

\* It holds of the initial states.
LEMMA ReadInit == Init => ReadInv
BY DEF Init, DatabaseInit, WorkersInit, ViewInit, EditedInit, NoticesInit,
   ReadInv, InputsKept, RowsAreWritten, Stored, EditedIsRead, ListedIsRead,
   FoundIsRead

\* Whatever a page lists, a form shows or a message is sent for was one
\* document, written by one save or update as a whole, that no request over
\* when the page, the form or the event came in had replaced or deleted.
THEOREM WhatIsRead == Spec => []ReadInv
BY ReadInit, ReadStep, Invariance, PTL DEF Spec
=============================================================================

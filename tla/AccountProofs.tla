---------------------------- MODULE AccountProofs ---------------------------
(***************************************************************************)
(* Proofs about the Microsoft connection of a community: whose account a   *)
(* Network document is, and that a revoke, an install or an uninstall      *)
(* forgets it, whatever OAuth callbacks, refreshes, crashes and failures   *)
(* of the database or of Graph run beside it.                              *)
(***************************************************************************)
EXTENDS HistoryProofs

-----------------------------------------------------------------------------
(* A step, as one community sees it *)

\* Callback r has stored its account.
ConnectedBy(n, r) ==
  /\ InFlight(r) /\ pc[r] = "connect-upsert" /\ job[r].net = n
  /\ network'[n] =
       [session |-> r, token |-> r, microsoftId |-> account[r].microsoftId,
        tenantId |-> account[r].tenantId]

\* The four statements that write the Network collection.
LEMMA NetworkMoves ==
  ASSUME [Next]_vars
  PROVE  \/ network' = network
         \/ \E r \in Requests :
              \/ RevokeNetwork(r) \/ UninstallDelete(r) \/ ConnectUpsert(r)
              \/ InstallDelete(r) /\ NetworkDelete(job[r].net)
<1>1. UNCHANGED db => network' = network
  BY DEF db
<1>3. ASSUME NEW r \in Requests, Arrive(r)
      PROVE  network' = network
  BY <1>3 DEF Arrive, Receive, Accept, db
<1>4. ASSUME NEW r \in Requests, Settings(r)
      PROVE  network' = network \/ RevokeNetwork(r)
  <2>1. UNCHANGED db \/ RevokeNetwork(r)
          \/ SaveCreate(r) \/ UpdateWrite(r) \/ DeleteRow(r)
          \/ RevokeChannels(r)
    BY <1>4 DEF Settings, SettingsCallback, HandleSaveButtonClick, SaveRead,
       SaveReadFails, SaveCreateFails, SaveUser, SaveInstall,
       SaveInstallFails, HandleUpdateButtonClick, UpdateWriteFails,
       UpdateUser, UpdateInstall, UpdateInstallFails,
       HandleDeleteBlockConfirmation, DeleteRowFails,
       GetAuthRevokeCallbackResponse, RevokeNetworkFails,
       RevokeChannelsFails
  <2> QED BY <1>1, <2>1
          DEF SaveCreate, UpdateWrite, DeleteRow, RevokeChannels,
              ChannelCreate, ChannelUpdate, ChannelDelete, ChannelDeleteMany,
              ChannelsRemoved
<1>5. ASSUME NEW r \in Requests, OAuth(r)
      PROVE  network' = network \/ ConnectUpsert(r)
  BY <1>1, <1>5 DEF OAuth, ConnectToMicrosoft, Authorize, ConnectState,
     ConnectStateExpired, ConnectCodeRefused, ConnectMe, ConnectTenant,
     ConnectTenantFails, ConnectInstall, ConnectInstallFails,
     ConnectUpsertFails
<1>6. ASSUME NEW r \in Requests, Lifecycle(r)
      PROVE  \/ network' = network \/ UninstallDelete(r)
             \/ InstallDelete(r) /\ NetworkDelete(job[r].net)
  BY <1>1, <1>6 DEF Lifecycle, InstallationWebhook, HandleInstalledWebhook,
     HandleUninstalledWebhook, InstallDelete, InstallCreate,
     UninstallDeleteFails
<1>7. ASSUME NEW r \in Requests,
             Page(r) \/ Form(r) \/ Notify(r) \/ Other(r)
      PROVE  UNCHANGED db
  <2>1. Page(r) => UNCHANGED db
    BY DEF Page, GetNetworkSettings, PageNetwork, PageChannels, PageChildren,
       PageChildrenEmpty, PageReadFails, PageTeams, PageTeamsFails
  <2>2. Form(r) => UNCHANGED db
    BY DEF Form, SettingsForm, EditRow, FormNetwork, FormReadFails,
       OpenGraph, EditGraph, RefetchGraph, RefetchRow, RefetchRowGone,
       FormGraphFails, AuthRedirect
  <2>3. Notify(r) => UNCHANGED db
    BY DEF Notify, HandleSubscriptionWebhook, EventStart,
       EventNetworkUpdated, EventOther, EventLookupRefused, EventLookup,
       EventEntities, EventPost, EventFails
  <2>4. Other(r) => UNCHANGED db
    BY DEF Other, OtherRequest, OpenDialog, Constant, NotSupported,
       FavoritePosts, MarkAsFavorite, BettermodeTokens, Refused
  <2> QED BY <1>7, <2>1, <2>2, <2>3, <2>4
<1>8. ASSUME NEW r \in Requests, Background(r)
      PROVE  UNCHANGED db
  BY <1>8 DEF Background, Welcome, WelcomeSent, WelcomeRejected, TaskRejected,
     RefreshTokenClient, RefreshUpdate, RefreshUpdateRejected
<1>9. ASSUME NEW w \in Workers, Lose(w)
      PROVE  UNCHANGED db
  BY <1>9 DEF Lose, Restart
<1>10. UNCHANGED vars => UNCHANGED db
  BY DEF vars
<1> QED BY <1>1, <1>3, <1>4, <1>5, <1>6, <1>7, <1>8, <1>9, <1>10
        DEF Next, Handle, Quiet

\* In every step a community stays as it is, is disconnected, or connected by
\* a callback that has come to its end.
LEMMA EachNetwork ==
  ASSUME IInv, [Next]_vars, NEW n \in Networks
  PROVE  \/ network'[n] \in {network[n], NoRecord}
         \/ \E r \in Requests : ConnectedBy(n, r)
<1> USE DEF IInv, TypeOK, DatabaseTypeOK
<1>1. ASSUME NEW m, NetworkDelete(m)
      PROVE  network'[n] \in {network[n], NoRecord}
  BY <1>1 DEF NetworkDelete
<1>2. ASSUME NEW r \in Requests, ConnectUpsert(r)
      PROVE  network'[n] = network[n] \/ ConnectedBy(n, r)
  <2>1. InFlight(r)
    BY <1>2 DEF ConnectUpsert, InFlight, Labels, ConnectLabels
  <2> QED BY <1>2, <2>1 DEF ConnectUpsert, NetworkUpsert, ConnectedBy
<1> QED BY <1>1, <1>2, NetworkMoves DEF RevokeNetwork, UninstallDelete

-----------------------------------------------------------------------------
(* A step, as one callback sees it *)

\* A callback learns facts of its own account, and needs them to go on.
LEMMA AccountMoves ==
  ASSUME IInv, NEW s \in Requests, Runs(s)
  PROVE  /\ account'[s].microsoftId \in {account[s].microsoftId, s}
         /\ account'[s].tenantId \in {account[s].tenantId, s}
         /\ pc'[s] = "connect-upsert" =>
              account'[s] = account[s] /\ account[s].tenantId # Undefined
         /\ pc'[s] \in {"connect-tenant", "connect-install", "connect-upsert"}
              => \/ account'[s].microsoftId = account[s].microsoftId
                    /\ pc[s] \in {"connect-tenant", "connect-install"}
                 \/ account'[s].microsoftId = s
                 \/ "graph" \in Faults
<1> USE DEF IInv, TypeOK, WorkersTypeOK, AccountsTypeOK
<1>1. CASE ~OAuth(s)
  <2>1. account' = account
    BY <1>1 DEF Runs, Handle, Settings, Page, Form, Lifecycle, Notify, Other
  <2>2. pc'[s] \notin ConnectLabels
    <3>1. pc[s] \in Labels /\ pc[s] \notin ConnectLabels
      BY <1>1, AtHandler DEF Runs, Moves, InFlight
    <3>2. job[s].kind # "connect"
      BY <3>1, AtLabel DEF InFlight, Labels, OtherKinds
    <3> QED BY <3>2, MoveEffect DEF Runs, OwnLabel
  <2> QED BY <2>1, <2>2 DEF ConnectLabels
<1>2. CASE OAuth(s) /\ ConnectMe(s)
  <2>1. \/ account' = [account EXCEPT ![s].microsoftId = s]
        \/ "graph" \in Faults /\ account' = account
    BY <1>2 DEF ConnectMe
  <2>2. pc'[s] = "connect-tenant"
    BY <1>2 DEF ConnectMe, Goto
  <2> QED BY <2>1, <2>2
<1>3. CASE OAuth(s) /\ ConnectTenant(s)
  <2>1. /\ account' = [account EXCEPT ![s].tenantId = s]
        /\ pc[s] = "connect-tenant" /\ pc'[s] = "connect-install"
    BY <1>3 DEF ConnectTenant, Goto
  <2> QED BY <2>1
<1>4. CASE OAuth(s) /\ ~ConnectMe(s) /\ ~ConnectTenant(s)
  <2>1. account' = account
    BY <1>4 DEF OAuth, ConnectToMicrosoft, Authorize, ConnectState,
       ConnectStateExpired, ConnectCodeRefused, ConnectTenantFails,
       ConnectInstall, ConnectInstallFails, ConnectUpsert,
       ConnectUpsertFails
  <2>2. pc'[s] = "connect-upsert" =>
          pc[s] = "connect-install" /\ account[s].tenantId # Undefined
    <3>1. ConnectStateExpired(s) => pc'[s] # "connect-upsert"
      BY DEF ConnectStateExpired, Crash
    <3> QED BY <1>4, <3>1 DEF OAuth, ConnectToMicrosoft, Authorize,
            ConnectState, ConnectCodeRefused, ConnectTenantFails,
            ConnectInstall, ConnectInstallFails, ConnectUpsert,
            ConnectUpsertFails, Goto, GotoLeaving, Answer
  <2>3. pc'[s] = "connect-install" => pc[s] = "connect-tenant"
    <3>1. ConnectStateExpired(s) => pc'[s] # "connect-install"
      BY DEF ConnectStateExpired, Crash
    <3> QED BY <1>4, <3>1 DEF OAuth, ConnectToMicrosoft, Authorize,
            ConnectState, ConnectCodeRefused, ConnectTenantFails,
            ConnectInstall, ConnectInstallFails, ConnectUpsert,
            ConnectUpsertFails, Goto, GotoLeaving, Answer
  <2>4. pc'[s] # "connect-tenant"
    <3>1. ConnectStateExpired(s) => pc'[s] # "connect-tenant"
      BY DEF ConnectStateExpired, Crash
    <3> QED BY <1>4, <3>1 DEF OAuth, ConnectToMicrosoft, Authorize,
            ConnectState, ConnectCodeRefused, ConnectTenantFails,
            ConnectInstall, ConnectInstallFails, ConnectUpsert,
            ConnectUpsertFails, Goto, GotoLeaving, Answer
  <2> QED BY <2>1, <2>2, <2>3, <2>4
<1> QED BY <1>1, <1>2, <1>3, <1>4

\* A page or a form comes to know the Network document there is.
LEMMA UserMoves ==
  ASSUME IInv, NEW s \in Requests, Runs(s)
  PROVE  /\ user'[s] \in {user[s], network[job[s].net]}
         /\ job[s].net \in Networks
<1> USE DEF IInv, TypeOK
<1>0. job[s].net \in Networks
  BY AtLabel DEF Runs, Moves
<1> SUFFICES user'[s] \in {user[s], network[job[s].net]}
  BY <1>0
<1>1. CASE Page(s)
  BY <1>1 DEF Page, GetNetworkSettings, PageNetwork, PageChannels,
     PageChildren, PageChildrenEmpty, PageReadFails, PageTeams,
     PageTeamsFails, view, ViewTypeOK
<1>2. CASE Form(s)
  BY <1>2 DEF Form, SettingsForm, EditRow, FormNetwork, FormReadFails,
     OpenGraph, EditGraph, RefetchGraph, RefetchRow, RefetchRowGone,
     FormGraphFails, AuthRedirect, view, ViewTypeOK
<1>3. CASE ~Page(s) /\ ~Form(s)
  BY <1>3 DEF Runs, Handle, Settings, Lifecycle, OAuth, Notify, Other, view
<1> QED BY <1>1, <1>2, <1>3

\* A revoke, an install or an uninstall that is not excused by the database
\* leaves the community disconnected, or had disconnected it before.
LEMMA DisconnectMoves ==
  ASSUME IInv, NEW v \in Requests, Runs(v),
         job[v].kind \in {"revoke", "install", "uninstall"},
         pc'[v] \in {"revoke-channels", "install-create", "done"},
         "db" \notin Faults \/ reply'[v] = "succeeded"
  PROVE  \/ ~Connected(job[v].net)'
         \/ /\ pc[v] \in {"revoke-channels", "install-create"}
            /\ "db" \notin Faults /\ network' = network
<1> USE DEF IInv, TypeOK, WorkersTypeOK, DatabaseTypeOK
<1>1. InFlight(v) /\ Handle(v) /\ job'[v] = job[v] /\ job[v].net \in Networks
  BY MoveEffect, AtLabel DEF Runs, Moves
<1>2. NetworkDelete(job[v].net) => ~Connected(job[v].net)'
  BY <1>1 DEF NetworkDelete, Connected
<1>3. UNCHANGED db /\ ~Connected(job[v].net) => ~Connected(job[v].net)'
  BY <1>1 DEF db, Connected
<1>4. CASE job[v].kind = "revoke"
  <2>1. GetAuthRevokeCallbackResponse(v)
    BY <1>1, <1>4, AtLabel, AtHandler DEF InFlight, Labels, OtherKinds
  <2>2. CASE RevokeNetwork(v)
    BY <1>2, <2>2 DEF RevokeNetwork
  <2>3. CASE RevokeNetworkFails(v)
    BY <1>3, <2>3 DEF RevokeNetworkFails, Answer
  <2>4. CASE RevokeChannels(v)
    BY <2>4 DEF RevokeChannels, ChannelDeleteMany, ChannelsRemoved, Answer
  <2>5. CASE RevokeChannelsFails(v)
    BY <2>5 DEF RevokeChannelsFails, Answer
  <2> QED BY <2>1, <2>2, <2>3, <2>4, <2>5 DEF GetAuthRevokeCallbackResponse
<1>5. CASE job[v].kind \in {"install", "uninstall"}
  <2>1. InstallationWebhook(v)
    BY <1>1, <1>5, AtLabel, AtHandler
       DEF InFlight, Labels, OtherKinds, Lifecycle
  <2>2. CASE InstallDelete(v)
    BY <1>2, <1>3, <2>2, RepliesLast DEF InstallDelete, Goto, RepliesLast
  <2>3. CASE InstallCreate(v)
    BY <2>3 DEF InstallCreate, Answer, db
  <2>4. CASE UninstallDelete(v)
    BY <1>2, <2>4 DEF UninstallDelete
  <2>5. CASE UninstallDeleteFails(v)
    BY <1>3, <2>5 DEF UninstallDeleteFails, Answer
  <2> QED BY <2>1, <2>2, <2>3, <2>4, <2>5
          DEF InstallationWebhook, HandleInstalledWebhook,
              HandleUninstalledWebhook
<1> QED BY <1>4, <1>5

-----------------------------------------------------------------------------
(* The parts of the invariant, one by one *)

\* A callback stores its own account, with a real tenant.
LEMMA LearnedOwnStep ==
  ASSUME IInv, LearnedOwn, [Next]_vars
  PROVE  LearnedOwn'
<1> SUFFICES ASSUME NEW s \in Requests
             PROVE  /\ account'[s].microsoftId \in {s, Undefined}
                    /\ account'[s].tenantId \in {s, Undefined}
                    /\ pc'[s] = "connect-upsert" => account'[s].tenantId = s
  BY DEF LearnedOwn
<1>1. CASE Waits(s)
  BY <1>1 DEF Waits, SameLocals, LearnedOwn
<1>2. CASE Arrives(s)
  <2>1. pc'[s] # "connect-upsert"
    BY <1>2, ReceiveEffect DEF Arrives, IInv, TypeOK, Entries
  <2> QED BY <1>2, <2>1 DEF Arrives, SameLocals, LearnedOwn
<1>3. CASE Runs(s)
  BY <1>3, AccountMoves DEF LearnedOwn
<1> QED BY <1>1, <1>2, <1>3, EachRequest DEF IInv

\* Every Network document is one callback's.
LEMMA RecordFromOneSessionStep ==
  ASSUME IInv, LearnedOwn, RecordFromOneSession, [Next]_vars
  PROVE  RecordFromOneSession'
<1> SUFFICES ASSUME NEW n \in Networks, Connected(n)'
             PROVE  /\ network'[n].token = network'[n].session
                    /\ network'[n].tenantId = network'[n].session
                    /\ network'[n].microsoftId
                         \in {network'[n].session, Undefined}
  BY DEF RecordFromOneSession
<1>1. CASE network'[n] = network[n]
  BY <1>1 DEF RecordFromOneSession, Connected
<1>2. ASSUME NEW r \in Requests, ConnectedBy(n, r)
      PROVE  /\ network'[n].token = network'[n].session
             /\ network'[n].tenantId = network'[n].session
             /\ network'[n].microsoftId
                  \in {network'[n].session, Undefined}
  BY <1>2 DEF ConnectedBy, LearnedOwn
<1> QED BY <1>1, <1>2, EachNetwork DEF Connected

\* A community is connected again by a session that is in nobody's past.
LEMMA ConnectedAnew ==
  ASSUME IInv, [Next]_vars, NEW v \in Requests, NEW n \in Networks,
         Connected(n)', network'[n] # network[n]
  PROVE  network'[n].session \in Requests \ past[v]
<1>1. PICK r \in Requests : ConnectedBy(n, r)
  BY EachNetwork DEF Connected
<1> QED BY <1>1, FlightIsNotPast DEF ConnectedBy

\* Between a disconnection and the answer, and after it, only such sessions
\* connect.
LEMMA DisconnectStep ==
  ASSUME IInv, Disconnecting, DisconnectForgets, [Next]_vars
  PROVE  Disconnecting' /\ DisconnectForgets'
<1> USE DEF IInv, TypeOK
<1> DEFINE kinds == {"revoke", "install", "uninstall"}
<1>1. ASSUME NEW v \in Requests, job'[v].kind \in kinds,
             pc'[v] \in {"revoke-channels", "install-create", "done"},
             "db" \notin Faults \/ (pc'[v] = "done" /\ reply'[v] = "succeeded"),
             Connected(job[v].net)'
      PROVE  network'[job'[v].net].session \in Requests \ past'[v]
  <2>1. pc[v] # "idle"
    <3>1. ~Arrives(v)
      BY <1>1, ReceiveEffect DEF Arrives, Entries
    <3> QED BY <1>1, <3>1, EachRequest, MoveEffect DEF Waits, Runs
  <2>2. /\ job'[v] = job[v] /\ past'[v] = past[v] /\ job[v].net \in Networks
        /\ Waits(v) \/ Runs(v)
    BY <2>1, Fixed, JobFields DEF JobAtLabel
  <2>3. CASE network'[job[v].net] # network[job[v].net]
    BY <1>1, <2>2, <2>3, ConnectedAnew
  <2>4. CASE network'[job[v].net] = network[job[v].net] /\ Waits(v)
    <3>1. pc'[v] = pc[v] /\ reply'[v] = reply[v]
      BY <1>1, <2>4 DEF Waits
    <3>2. Connected(job[v].net)
      BY <1>1, <2>2, <2>4 DEF Connected
    <3>3. network[job[v].net].session \in Requests \ past[v]
      BY <1>1, <2>2, <3>1, <3>2 DEF Disconnecting, DisconnectForgets
    <3> QED BY <2>2, <2>4, <3>3
  <2>5. CASE network'[job[v].net] = network[job[v].net] /\ Runs(v)
    <3>1. /\ pc[v] \in {"revoke-channels", "install-create"}
          /\ "db" \notin Faults
      BY <1>1, <2>2, <2>5, DisconnectMoves
    <3>2. Connected(job[v].net)
      BY <1>1, <2>2, <2>5 DEF Connected
    <3>3. network[job[v].net].session \in Requests \ past[v]
      BY <3>1, <3>2 DEF Disconnecting
    <3> QED BY <2>2, <2>5, <3>3
  <2> QED BY <2>2, <2>3, <2>4, <2>5
<1>2. DisconnectForgets'
  BY <1>1 DEF DisconnectForgets
<1>3. ASSUME NEW v \in Requests,
             pc'[v] \in {"revoke-channels", "install-create"}
      PROVE  job'[v].kind \in kinds
  <2>1. JobAtLabel'
    BY StepInvariant
  <2> QED BY <1>3, <2>1 DEF JobAtLabel, OwnLabel, RevokeLabels, InstallLabels
<1>4. Disconnecting'
  BY <1>1, <1>3 DEF Disconnecting
<1> QED BY <1>2, <1>4

\* While Graph answers, no account is "undefined".
LEMMA AccountsKnownStep ==
  ASSUME IInv, LearnedOwn, AccountsKnown, [Next]_vars
  PROVE  AccountsKnown'
<1> SUFFICES ASSUME "graph" \notin Faults
             PROVE  AccountsKnown'
  BY DEF AccountsKnown
<1>1. ASSUME NEW n \in Networks, Connected(n)'
      PROVE  network'[n].microsoftId # Undefined
  <2>1. CASE network'[n] = network[n]
    BY <1>1, <2>1 DEF AccountsKnown, Connected
  <2>2. ASSUME NEW r \in Requests, ConnectedBy(n, r)
        PROVE  network'[n].microsoftId # Undefined
    BY <2>2 DEF ConnectedBy, AccountsKnown
  <2> QED BY <1>1, <2>1, <2>2, EachNetwork DEF Connected
<1>2. ASSUME NEW s \in Requests
      PROVE  /\ pc'[s] \in {"connect-tenant", "connect-install",
                             "connect-upsert"}
                  => account'[s].microsoftId # Undefined
             /\ user'[s] # NoRecord => user'[s].microsoftId # Undefined
  <2>1. CASE Waits(s)
    BY <2>1 DEF Waits, SameLocals, AccountsKnown
  <2>2. CASE Arrives(s)
    <3>1. pc'[s] \in Entries
      BY <2>2, ReceiveEffect DEF Arrives, IInv, TypeOK
    <3> QED BY <2>2, <3>1 DEF Arrives, SameLocals, AccountsKnown, Entries
  <2>3. CASE Runs(s)
    <3>1. s # Undefined
      BY Sentinels DEF Sessions
    <3>3. pc'[s] \in {"connect-tenant", "connect-install", "connect-upsert"}
                  => account'[s].microsoftId # Undefined
      BY <2>3, <3>1, AccountMoves DEF AccountsKnown
    <3>4. user'[s] # NoRecord => user'[s].microsoftId # Undefined
      BY <2>3, UserMoves DEF AccountsKnown, Connected
    <3> QED BY <3>3, <3>4
  <2> QED BY <2>1, <2>2, <2>3, EachRequest DEF IInv
<1> QED BY <1>1, <1>2 DEF AccountsKnown

-----------------------------------------------------------------------------
(* Theorems *)

\* The invariant of the Microsoft connections is inductive.
LEMMA AccountStep == IInv /\ AccountInv /\ [Next]_vars => AccountInv'
BY LearnedOwnStep, RecordFromOneSessionStep, DisconnectStep,
   AccountsKnownStep DEF AccountInv

\* It holds of the initial states.
LEMMA AccountInit == Init => AccountInv
<1> SUFFICES ASSUME Init PROVE AccountInv
  OBVIOUS
<1> USE DEF Init, DatabaseInit, WorkersInit, ViewInit, AccountsInit
<1>1. LearnedOwn /\ Disconnecting /\ DisconnectForgets
  BY DEF LearnedOwn, Disconnecting, DisconnectForgets
<1>2. \A n \in Networks : Connected(n) => network[n] = RecordOf(Earlier)
  BY DEF Connected
<1>3. RecordFromOneSession
  BY <1>2 DEF RecordFromOneSession, RecordOf
<1>4. AccountsKnown
  BY <1>2, Sentinels DEF AccountsKnown, RecordOf, Sessions
<1> QED BY <1>1, <1>3, <1>4 DEF AccountInv

\* What is known of accounts holds of every reachable state.
THEOREM AccountInvariance == Spec => []AccountInv
BY AccountInit, AccountStep, Invariance, PTL DEF Spec

\* Every field of a Network document comes from the OAuth session that stored
\* it, with a real tenant, whichever sessions and refreshes ran beside it.
THEOREM OneSessionPerRecord == Spec => []RecordFromOneSession
<1>1. AccountInv => RecordFromOneSession
  BY DEF AccountInv
<1> QED BY <1>1, AccountInvariance, PTL

\* After a revoke, an install or an uninstall a community is connected only by
\* an OAuth session that was not over when that request arrived; with a
\* failing database, after an uninstall that reports success.
THEOREM DisconnectIsFinal == Spec => []DisconnectForgets
<1>1. AccountInv => DisconnectForgets
  BY DEF AccountInv
<1> QED BY <1>1, AccountInvariance, PTL
=============================================================================

--------------------------- MODULE RegistryProofs ---------------------------
(***************************************************************************)
(* Proof that TeamsApp implements ConnectionRegistry: whatever handlers    *)
(* interleave, fail or die, the two collections change as the registry of  *)
(* connections does, for every value of the constants.                     *)
(***************************************************************************)
EXTENDS AccountProofs

-----------------------------------------------------------------------------
(* What a step does to the state of the registry *)

\* A request comes to its create by its check, or was there before.
LEMMA AsksMoves ==
  ASSUME IInv, [Next]_vars, NEW s \in Requests, pc'[s] = "save-create"
  PROVE  \/ pc[s] = "save-create" /\ job'[s] = job[s]
         \/ SaveRead(s)
<1> USE DEF IInv, TypeOK
<1>1. CASE Waits(s)
  BY <1>1 DEF Waits
<1>2. ~Arrives(s)
  BY ReceiveEffect DEF Arrives, Entries
<1>3. CASE Runs(s)
  <2>1. pc[s] \in SaveLabels
    <3>1. InFlight(s) /\ OwnLabel(pc'[s], job[s].kind)
      BY <1>3, MoveEffect DEF Runs, Moves
    <3>2. job[s].kind = "save"
      BY <3>1 DEF OwnLabel, SaveLabels
    <3> QED BY <3>1, <3>2, AtLabel DEF InFlight, Labels, OtherKinds
  <2>2. HandleSaveButtonClick(s)
    BY <1>3, <2>1, AtHandler DEF Runs
  <2> QED BY <2>2
          DEF HandleSaveButtonClick, SaveRead, SaveReadFails, SaveCreate,
              SaveCreateFails, SaveUser, SaveInstall, SaveInstallFails,
              Goto, Answer, AnswerLeaving, WorkersTypeOK
<1> QED BY <1>1, <1>2, <1>3, EachRequest

\* Session s has connected its community.
SpentBy(s) == job[s].kind = "connect" /\ reply[s] = "redirected"

\* A session is spent by its upsert, and stays so.
LEMMA SpentMoves ==
  ASSUME IInv, [Next]_vars, NEW s \in Requests
  PROVE  SpentBy(s)' = SpentBy(s) \/ ConnectUpsert(s)
<1> USE DEF IInv, TypeOK, SpentBy
<1>1. CASE Waits(s)
  BY <1>1 DEF Waits
<1>2. CASE Arrives(s)
  <2>1. pc[s] = "idle" /\ pc'[s] \in Entries /\ reply'[s] = reply[s]
    BY <1>2, ReceiveEffect DEF Arrives
  <2>2. reply[s] = "none"
    BY <2>1 DEF RepliesLast
  <2> QED BY <2>1, <2>2
<1>3. CASE Runs(s)
  <2>1. /\ job'[s] = job[s] /\ reply[s] = "none" /\ InFlight(s)
        /\ pc'[s] # "done" => reply'[s] = reply[s]
    BY <1>3, MoveEffect DEF Runs, Moves, RepliesLast
  <2>2. CASE job[s].kind # "connect"
    BY <2>1, <2>2
  <2>3. CASE job[s].kind = "connect"
    <3>1. ConnectToMicrosoft(s) /\ pc[s] \in ConnectLabels
      BY <1>3, <2>1, <2>3, AtLabel, AtHandler
         DEF Runs, InFlight, Labels, OtherKinds, OAuth
    <3>2. ConnectUpsert(s) \/ reply'[s] # "redirected"
      <4>1. ~Authorize(s)
        BY <3>1 DEF Authorize, ConnectLabels
      <4>2. ConnectStateExpired(s) => reply' = reply
        BY DEF ConnectStateExpired, Crash
      <4> QED BY <2>1, <3>1, <4>1, <4>2
              DEF ConnectToMicrosoft, ConnectState, ConnectCodeRefused,
                  ConnectMe, ConnectTenant, ConnectTenantFails,
                  ConnectInstall, ConnectInstallFails, ConnectUpsertFails,
                  Goto, GotoLeaving, Answer, WorkersTypeOK
    <3> QED BY <2>1, <3>2
  <2> QED BY <2>2, <2>3
<1> QED BY <1>1, <1>2, <1>3, EachRequest

\* Sessions that do not connect now are as spent as before.
LEMMA NoneSpent ==
  ASSUME IInv, [Next]_vars, \A r \in Requests : ~ConnectUpsert(r)
  PROVE  spent' = spent
<1>1. \A r \in Requests : SpentBy(r)' = SpentBy(r)
  BY SpentMoves
<1> QED BY <1>1 DEF spent, SpentBy

\* A handler that moves to another await than its create asks for nothing.
LEMMA NoneAsked ==
  ASSUME IInv, NEW r \in Requests, Moves(r), pc[r] # "save-create",
         pc'[r] # "save-create"
  PROVE  asks' = asks
BY MoveEffect DEF IInv, TypeOK, asks

\* What a connection of the registry is.
LEMMA ConnFacts ==
  ASSUME IInv
  PROVE  \A i \in Requests :
           /\ channel[i] = Unused <=> conns[i] = Unused
           /\ Stored(i) <=> Registry!InUse(i)
           /\ Stored(i) => conns[i] = Plain(channel[i])
           /\ ~Stored(i) => conns[i] = channel[i]
           /\ asks[i] # NoRecord <=> pc[i] = "save-create"
<1> USE DEF IInv, TypeOK
<1>1. ASSUME NEW i \in Requests, Stored(i)
      PROVE  conns[i] = Plain(channel[i]) /\ conns[i] \notin {Unused, Deleted}
  <2>1. conns[i] = Plain(channel[i])
    BY <1>1 DEF conns
  <2>2. Plain(channel[i]) \in Registry!Connection
    BY <1>1, StoredFacts DEF Plain, Registry!Connection, Row
  <2> QED BY <2>1, <2>2, PlainSentinels
<1>2. ASSUME NEW i \in Requests, ~Stored(i)
      PROVE  conns[i] = channel[i] /\ conns[i] \in {Unused, Deleted}
  BY <1>2 DEF conns, Stored
<1>3. ASSUME NEW i \in Requests, pc[i] = "save-create"
      PROVE  asks[i] # NoRecord
  <2>1. job[i] \in Jobs /\ job[i].kind = "save"
    BY <1>3, AtLabel DEF InFlight, Labels, SaveLabels
  <2>2. asks[i] \in Registry!Connection
    BY <1>3, <2>1, JobFields DEF asks, Registry!Connection
  <2> QED BY <2>2, PlainSentinels
<1>4. ASSUME NEW i \in Requests, pc[i] # "save-create"
      PROVE  asks[i] = NoRecord
  BY <1>4 DEF asks
<1> QED BY <1>1, <1>2, <1>3, <1>4 DEF Registry!InUse, Stored

-----------------------------------------------------------------------------
(* A step of the app is a step of the registry *)

\* The check of a save.
LEMMA ChecksAreChecks ==
  ASSUME IInv, [Next]_vars, NEW r \in Requests, SaveRead(r),
         pc'[r] = "save-create"
  PROVE  \E c \in Registry!Connection : Registry!Check(r, c)
<1> USE DEF IInv, TypeOK, WorkersTypeOK
<1>1. PICK c : c = [networkId |-> job[r].net, target |-> job[r].target,
                    events |-> job[r].events]
  OBVIOUS
<1>2. /\ pc[r] = "save-read" /\ UNCHANGED db /\ Goto(r, "save-create")
      /\ ~AlreadyConnected(job[r].target)
  BY DEF SaveRead, Answer
<1>3. c \in Registry!Connection
  <2>1. job[r] \in Jobs /\ job[r].kind = "save"
    BY <1>2, AtLabel DEF InFlight, Labels, SaveLabels
  <2> QED BY <1>1, <2>1, JobFields DEF Registry!Connection
<1>4. conns[r] = Unused /\ asks[r] = NoRecord
  BY <1>2, ConnFacts DEF RowsAreSaved
<1>5. ASSUME NEW j \in Requests, Registry!InUse(j)
      PROVE  conns[j].target # c.target
  <2>1. Stored(j) /\ conns[j] = Plain(channel[j])
    BY <1>5, ConnFacts
  <2>2. channel[j].target # c.target
    BY <1>1, <1>2, <2>1 DEF AlreadyConnected, StoredRows
  <2> QED BY <2>1, <2>2 DEF Plain
<1>6. asks' = [asks EXCEPT ![r] = c]
  BY <1>1, <1>2 DEF Goto, asks
<1>7. conns' = conns /\ connectedBy' = connectedBy /\ spent' = spent
  BY <1>2 DEF Goto, db, conns, Stored, Plain, connectedBy, Connected, spent
<1>8. Registry!Check(r, c)
  BY <1>4, <1>5, <1>6, <1>7 DEF Registry!Check
<1> QED BY <1>3, <1>8

\* The upsert of an OAuth callback.
LEMMA UpsertsAreConnects ==
  ASSUME IInv, [Next]_vars, NEW r \in Requests, ConnectUpsert(r)
  PROVE  /\ job[r].net \in Networks
         /\ Registry!Connect(job[r].net, r)
<1> USE DEF IInv, TypeOK, WorkersTypeOK
<1>1. pc[r] = "connect-upsert" /\ Answer(r, "redirected")
  BY DEF ConnectUpsert
<1>2. InFlight(r) /\ job[r].net \in Networks /\ job[r].kind = "connect"
  BY <1>1, AtLabel DEF InFlight, Labels, ConnectLabels
<1>3. r \notin spent
  BY <1>1 DEF RepliesLast, spent
<1>4. spent' = spent \cup {r}
  BY <1>1, <1>2 DEF Answer, spent
<1>5. /\ network' = [network EXCEPT ![job[r].net] =
           [session |-> r, token |-> r,
            microsoftId |-> account[r].microsoftId,
            tenantId |-> account[r].tenantId]]
      /\ channel' = channel
  BY DEF ConnectUpsert, NetworkUpsert
<1>6. PICK n, rec :
        /\ n = job[r].net
        /\ rec = [session |-> r, token |-> r,
                  microsoftId |-> account[r].microsoftId,
                  tenantId |-> account[r].tenantId]
  OBVIOUS
<1>7. connectedBy' = [connectedBy EXCEPT ![n] = r]
  <2>1. account[r] \in [microsoftId : Accounts, tenantId : Accounts]
    BY DEF AccountsTypeOK
  <2>2. rec \in Record /\ rec.session = r
    BY <1>6, <2>1 DEF Record, Sessions
  <2>3. network' = [network EXCEPT ![n] = rec] /\ rec # NoRecord
    BY <1>5, <1>6, <2>2, Sentinels
  <2> QED BY <2>2, <2>3 DEF connectedBy, Connected, DatabaseTypeOK
<1>8. conns' = conns
  BY <1>5 DEF conns, Stored
<1>9. asks' = asks
  BY <1>1 DEF asks, Answer
<1> QED BY <1>2, <1>3, <1>4, <1>6, <1>7, <1>8, <1>9 DEF Registry!Connect

\* The delete of a revoke, an install or an uninstall.
LEMMA DeletesAreDisconnects ==
  ASSUME IInv, [Next]_vars, NEW r \in Requests, NetworkDelete(job[r].net),
         RevokeNetwork(r) \/ UninstallDelete(r) \/ InstallDelete(r)
  PROVE  /\ job[r].net \in Networks
         /\ Registry!Disconnect(job[r].net)
<1> USE DEF IInv, TypeOK
<1>1. pc[r] \in {"revoke-network", "uninstall-delete", "install-delete"}
  BY DEF RevokeNetwork, UninstallDelete, InstallDelete
<1>2. job[r].net \in Networks
  BY <1>1, AtLabel
     DEF InFlight, Labels, RevokeLabels, InstallLabels, UninstallLabels
<1>3. PICK n \in Networks :
        /\ n = job[r].net /\ Connected(n) /\ channel' = channel
        /\ network' = [network EXCEPT ![n] = NoRecord]
  BY <1>2 DEF NetworkDelete
<1>4. connectedBy[n] # NoRecord
  BY <1>3, Sentinels DEF connectedBy, Connected, DatabaseTypeOK, Record
<1>5. connectedBy' = [connectedBy EXCEPT ![n] = NoRecord]
  BY <1>3 DEF connectedBy, Connected, DatabaseTypeOK
<1>6. conns' = conns
  BY <1>3 DEF conns, Stored
<1>7. asks' = asks
  <2>1. PICK l \in {"revoke-channels", "install-create", "done"} :
          pc' = [pc EXCEPT ![r] = l] /\ job' = job
    BY DEF RevokeNetwork, UninstallDelete, InstallDelete, Goto, Answer
  <2> QED BY <1>1, <2>1 DEF asks, WorkersTypeOK
<1>8. spent' = spent
  <2>1. \/ reply' = reply /\ job' = job
        \/ /\ reply' = [reply EXCEPT ![r] = "succeeded"] /\ job' = job
           /\ pc[r] = "uninstall-delete"
    BY DEF RevokeNetwork, UninstallDelete, InstallDelete, Goto, Answer
  <2>2. pc[r] = "uninstall-delete" => job[r].kind = "uninstall"
    BY AtLabel DEF InFlight, Labels, UninstallLabels
  <2> QED BY <2>1, <2>2 DEF spent, WorkersTypeOK
<1> QED BY <1>2, <1>3, <1>4, <1>5, <1>6, <1>7, <1>8
        DEF Registry!Disconnect

\* The four writing turns add, change, remove and remove all.
LEMMA WritesAreRegistered ==
  ASSUME IInv, [Next]_vars, NEW r \in Requests, Writes(r)
  PROVE  Registry!RegistryNext
<1> USE DEF IInv, TypeOK
<1>1. Moves(r) /\ network' = network /\ \A s \in Requests : ~ConnectUpsert(s)
  <2>1. Moves(r) /\ network' = network
    BY DEF Writes, SaveCreate, UpdateWrite, DeleteRow, RevokeChannels,
       ChannelCreate, ChannelUpdate, ChannelDelete, ChannelDeleteMany,
       ChannelsRemoved
  <2>2. ASSUME NEW s \in Requests, ConnectUpsert(s)
        PROVE  FALSE
    <3>1. /\ pc[s] = "connect-upsert" /\ pc'[s] # pc[s]
          /\ \A t \in Requests : t # s => pc'[t] = pc[t]
      BY <2>2 DEF ConnectUpsert, Answer, WorkersTypeOK
    <3>2. s = r
      BY <2>1, <3>1, MoveEffect
    <3> QED BY <3>1, <3>2
            DEF Writes, SaveCreate, UpdateWrite, DeleteRow, RevokeChannels
  <2> QED BY <2>1, <2>2
<1>2. spent' = spent /\ connectedBy' = connectedBy
  BY <1>1, NoneSpent DEF connectedBy, Connected
<1>3. \A i \in Requests :
        conns'[i] = IF channel'[i] \in Row THEN Plain(channel'[i])
                                           ELSE channel'[i]
  <2>1. DatabaseTypeOK'
    BY StepShape
  <2> QED BY <2>1, Sentinels DEF DatabaseTypeOK, conns, Stored
<1>4. /\ conns = [i \in Requests |-> conns[i]]
      /\ conns' = [i \in Requests |-> conns'[i]]
  BY DEF conns
<1>5. CASE Created(r)
  <2>1. conns[r] = Unused /\ asks[r] # NoRecord
    BY <1>5, ConnFacts DEF Created
  <2>2. conns' = [conns EXCEPT ![r] = asks[r]]
    <3>1. conns'[r] = asks[r]
      BY <1>3, <1>5 DEF Created, Plain, asks
    <3>2. \A i \in Requests : i # r => conns'[i] = conns[i]
      BY <1>5 DEF Created, conns, Stored
    <3> QED BY <1>4, <3>1, <3>2
  <2>3. asks' = [asks EXCEPT ![r] = NoRecord]
    BY <1>1, <1>5, MoveEffect DEF Created, asks
  <2> QED BY <1>2, <2>1, <2>2, <2>3
          DEF Registry!Add, Registry!RegistryNext
<1>6. CASE ~Created(r)
  <2>1. pc[r] # "save-create" /\ pc'[r] # "save-create"
    <3>1. ~SaveCreate(r)
      <4>1. pc[r] = "save-create" => job[r].kind = "save"
        BY <1>1, AtLabel DEF Moves, SaveLabels
      <4> QED BY <1>6, <4>1, WriteEffect
              DEF Updated, Removed, Swept, SaveCreate
    <3> QED BY <3>1 DEF Writes, UpdateWrite, DeleteRow, RevokeChannels, Goto,
            Answer, WorkersTypeOK
  <2>2. asks' = asks
    BY <1>1, <2>1, NoneAsked
  <2>3. CASE Updated(r)
    <3>1. PICK i \in Requests, t \in Targets, e \in SUBSET Events :
            /\ i = job[r].row /\ t = job[r].target /\ e = job[r].events
      <4>1. job[r] \in Jobs
        BY <1>1, AtLabel DEF Moves
      <4> QED BY <2>3, <4>1, JobFields DEF Updated
    <3>2. Stored(i) /\ channel[i] \in Row
      BY <2>3, <3>1, StoredFacts DEF Updated
    <3>3. conns'[i] = [networkId |-> channel[i].networkId, target |-> t,
                       events |-> e]
      BY <1>3, <2>3, <3>1 DEF Updated, Plain
    <3>4. conns[i].networkId = channel[i].networkId
      BY <3>2 DEF conns, Plain
    <3>5. \A j \in Requests : j # i => conns'[j] = conns[j]
      BY <2>3, <3>1 DEF Updated, conns, Stored
    <3>6. conns' = [conns EXCEPT ![i] = [networkId |-> conns[i].networkId,
                                         target |-> t, events |-> e]]
      BY <1>4, <3>3, <3>4, <3>5
    <3>7. Registry!Change(i, t, e)
      BY <1>2, <2>2, <3>2, <3>6, ConnFacts DEF Registry!Change
    <3> QED BY <3>7 DEF Registry!RegistryNext
  <2>4. CASE Removed(r)
    <3>1. PICK i \in Requests : i = job[r].row
      BY <2>4 DEF Removed
    <3>2. conns' = [conns EXCEPT ![i] = Deleted]
      <4>1. conns'[i] = Deleted
        BY <1>3, <2>4, <3>1, Sentinels DEF Removed
      <4>2. \A j \in Requests : j # i => conns'[j] = conns[j]
        BY <2>4, <3>1 DEF Removed, conns, Stored
      <4> QED BY <1>4, <4>1, <4>2
    <3>3. Registry!Remove(i)
      BY <1>2, <2>2, <2>4, <3>1, <3>2, ConnFacts DEF Registry!Remove, Removed
    <3> QED BY <3>3 DEF Registry!RegistryNext
  <2>5. CASE Swept(r)
    <3>1. ASSUME NEW i \in Requests
          PROVE  conns'[i] = IF Registry!InUse(i) THEN Deleted ELSE conns[i]
      <4>1. Stored(i) => conns'[i] = Deleted
        BY <1>3, <2>5, Sentinels DEF Swept
      <4>2. ~Stored(i) => conns'[i] = conns[i]
        BY <2>5 DEF Swept, conns, Stored
      <4> QED BY <4>1, <4>2, ConnFacts
    <3>2. Registry!RemoveAll
      BY <1>2, <1>4, <2>2, <3>1 DEF Registry!RemoveAll
    <3> QED BY <3>2 DEF Registry!RegistryNext
  <2> QED BY <1>6, <2>3, <2>4, <2>5, WriteEffect
<1> QED BY <1>5, <1>6

-----------------------------------------------------------------------------
(* Theorem *)

\* A step of the app is a step of the registry, or leaves it as it is.
LEMMA RegistryStep ==
  ASSUME IInv, [Next]_vars
  PROVE  [Registry!RegistryNext]_(Registry!registry)
<1> USE DEF IInv, TypeOK
<1>1. CASE \E r \in Requests : Writes(r)
  BY <1>1, WritesAreRegistered
<1>2. CASE \E r \in Requests : ConnectUpsert(r)
  BY <1>2, UpsertsAreConnects DEF Registry!RegistryNext
<1>3. CASE \E r \in Requests : SaveRead(r) /\ pc'[r] = "save-create"
  BY <1>3, ChecksAreChecks DEF Registry!RegistryNext
<1>4. CASE \E r \in Requests :
             /\ NetworkDelete(job[r].net)
             /\ RevokeNetwork(r) \/ UninstallDelete(r) \/ InstallDelete(r)
  BY <1>4, DeletesAreDisconnects DEF Registry!RegistryNext
<1>5. CASE /\ \A r \in Requests : ~Writes(r) /\ ~ConnectUpsert(r)
           /\ \A r \in Requests : ~(SaveRead(r) /\ pc'[r] = "save-create")
           /\ ~\E r \in Requests :
                /\ NetworkDelete(job[r].net)
                /\ RevokeNetwork(r) \/ UninstallDelete(r) \/ InstallDelete(r)
  <2>1. channel' = channel /\ network' = network
    BY <1>5, ChannelMoves, NetworkMoves DEF RevokeNetwork, UninstallDelete
  <2>2. conns' = conns /\ connectedBy' = connectedBy /\ spent' = spent
    BY <1>5, <2>1, NoneSpent DEF conns, Stored, connectedBy, Connected
  <2>3. \A s \in Requests : pc'[s] = "save-create" =>
          pc[s] = "save-create" /\ job'[s] = job[s]
    BY <1>5, AsksMoves
  <2>4. PICK S \in SUBSET Requests :
          S = {s \in Requests : pc'[s] # "save-create"}
    OBVIOUS
  <2>5. asks' = [s \in Requests |-> IF s \in S THEN NoRecord ELSE asks[s]]
    BY <2>3, <2>4 DEF asks
  <2>6. Registry!Abandon(S)
    BY <2>2, <2>5 DEF Registry!Abandon
  <2> QED BY <2>6 DEF Registry!RegistryNext
<1> QED BY <1>1, <1>2, <1>3, <1>4, <1>5

\* The app starts as the registry does.
LEMMA RegistryInit == Init => Registry!RegistryInit
<1> SUFFICES ASSUME Init PROVE Registry!RegistryInit
  OBVIOUS
<1> USE DEF Init, DatabaseInit, WorkersInit
<1>1. /\ conns = [i \in Requests |-> Unused]
      /\ asks = [i \in Requests |-> NoRecord]
      /\ spent = {}
  BY DEF conns, Stored, asks, spent, None
<1>2. connectedBy \in [Networks -> {NoRecord, Earlier}]
  BY DEF connectedBy, Connected, RecordOf
<1> QED BY <1>1, <1>2 DEF Registry!RegistryInit

\* Requests that interleave, fail and die change connections and communities
\* only as the registry does: checked at one moment and stored whole at a
\* later one, changed and removed as a whole, connected once by a session.
THEOREM RegistryImplemented == Spec => ImplementsRegistry
BY RegistryInit, RegistryStep, Invariance, PTL
   DEF Spec, ImplementsRegistry, Registry!RegistrySpec
=============================================================================

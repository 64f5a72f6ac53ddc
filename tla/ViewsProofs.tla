----------------------------- MODULE ViewsProofs ----------------------------
(***************************************************************************)
(* Proofs about what the users see: the settings page and the forms, whose *)
(* handlers read at several awaits what other requests write in between.   *)
(***************************************************************************)
EXTENDS AccountProofs

-----------------------------------------------------------------------------
(* What a reader can rely on *)

\* A document once seen is there, or a request deleted it that was not over
\* when the reader arrived.
Seen(p, i) ==
  Stored(i) \/ (channel[i] = Deleted /\ remover[i] \notin past[p])

\* What a reader has seen stays seen in that sense.
LEMMA SeenStays ==
  ASSUME IInv, [Next]_vars, NEW p \in Requests, pc[p] # "idle",
         NEW i \in Requests, Seen(p, i)
  PROVE  Seen(p, i)'
<1> USE DEF IInv, TypeOK
<1>1. past'[p] = past[p]
  BY Fixed
<1>2. CASE SameRow(i)
  BY <1>1, <1>2 DEF SameRow, Seen, Stored
<1>3. CASE \E q \in Requests : GoneBy(i, q)
  BY <1>1, <1>3, FlightIsNotPast DEF GoneBy, Seen
<1>4. CASE MadeBySave(i) \/ \E q \in Requests : EditedBy(i, q)
  BY <1>4, StoredFacts DEF MadeBySave, EditedBy, Seen, Stored
<1> QED BY <1>2, <1>3, <1>4, EachRow

\* A document once deleted stays deleted.
LEMMA DeletedStays ==
  ASSUME IInv, [Next]_vars, NEW i \in Requests, channel[i] = Deleted
  PROVE  channel'[i] = Deleted /\ remover'[i] = remover[i]
BY RowLasts, StoredFacts DEF IInv, TypeOK, Stored, SameRow

\* A page or a form reads only.
LEMMA ReadersRead ==
  ASSUME NEW r, Page(r) \/ Form(r)
  PROVE  UNCHANGED db
<1>1. Page(r) => UNCHANGED db
  BY DEF Page, GetNetworkSettings, PageNetwork, PageChannels, PageChildren,
     PageChildrenEmpty, PageReadFails, PageTeams, PageTeamsFails
<1>2. Form(r) => UNCHANGED db
  BY DEF Form, SettingsForm, EditRow, FormNetwork, FormReadFails,
     OpenGraph, EditGraph, RefetchGraph, RefetchRow, RefetchRowGone,
     FormGraphFails, AuthRedirect
<1> QED BY <1>1, <1>2

-----------------------------------------------------------------------------
(* The settings page *)

\* Which requests run the page's handler.
LEMMA PageRuns ==
  ASSUME IInv, NEW p \in Requests, Runs(p),
         \/ job[p].kind = "page"
         \/ pc'[p] \in PageLabels
  PROVE  GetNetworkSettings(p) /\ UNCHANGED <<network, channel, remover>>
<1>1. job[p].kind = "page"
  BY MoveEffect DEF Runs, OwnLabel, IInv, TypeOK
<1>2. pc[p] \in PageLabels
  BY <1>1, AtLabel DEF Runs, Moves, InFlight, Labels, OtherKinds, IInv, TypeOK
<1> QED BY <1>2, AtHandler, ReadersRead DEF Runs, Page, db

\* A page past its reads has a community and has seen a connection.
LEMMA PageBegunStep ==
  ASSUME IInv, PageBegun, [Next]_vars
  PROVE  PageBegun'
<1> USE DEF IInv, TypeOK
<1> SUFFICES ASSUME NEW p \in Requests
             PROVE  /\ pc'[p] \in {"page-children", "page-teams"} =>
                         user'[p] # NoRecord
                    /\ pc'[p] = "page-children" =>
                         \E i \in Requests : Seen(p, i)'
  BY DEF PageBegun, Seen
<1>1. CASE Waits(p)
  <2>1. pc'[p] \in PageLabels => pc[p] = pc'[p] /\ pc[p] # "idle"
    BY <1>1 DEF Waits, PageLabels
  <2>2. pc'[p] \in {"page-children", "page-teams"} => user'[p] # NoRecord
    BY <1>1, <2>1 DEF Waits, SameLocals, PageBegun, PageLabels
  <2>3. ASSUME pc'[p] = "page-children"
        PROVE  \E i \in Requests : Seen(p, i)'
    <3>1. PICK i \in Requests : Seen(p, i)
      BY <2>1, <2>3 DEF PageBegun, Seen, PageLabels
    <3> QED BY <2>1, <2>3, <3>1, SeenStays DEF PageLabels
  <2> QED BY <2>2, <2>3
<1>2. CASE Arrives(p)
  BY <1>2, ReceiveEffect DEF Arrives, Entries
<1>3. CASE Runs(p) /\ pc'[p] \in {"page-children", "page-teams"}
  <2>1. GetNetworkSettings(p) /\ UNCHANGED <<network, channel, remover>>
    BY <1>3, PageRuns DEF PageLabels
  <2>2. pc'[p] = "page-children" => PageChannels(p) /\ user[p] # NoRecord
           /\ StoredRows # {}
    BY <2>1 DEF GetNetworkSettings, PageNetwork, PageChannels, PageChildren,
       PageChildrenEmpty, PageReadFails, PageTeams, PageTeamsFails, Goto,
       Answer, WorkersTypeOK
  <2>3. pc'[p] = "page-teams" => PageChildren(p)
    BY <2>1 DEF GetNetworkSettings, PageNetwork, PageChannels,
       PageChildrenEmpty, PageReadFails, PageTeams, PageTeamsFails, Goto,
       Answer, WorkersTypeOK
  <2>4. user'[p] # NoRecord
    BY <1>3, <2>2, <2>3 DEF PageChannels, PageChildren, view, PageBegun
  <2>5. pc'[p] = "page-children" => \E i \in Requests : Seen(p, i)'
    BY <2>1, <2>2 DEF StoredRows, Seen, Stored
  <2> QED BY <2>4, <2>5
<1> QED BY <1>1, <1>2, <1>3, EachRequest

\* What a page lists is complete.
LEMMA PageCompleteStep ==
  ASSUME IInv, PageComplete, [Next]_vars
  PROVE  PageComplete'
<1> USE DEF IInv, TypeOK
<1> DEFINE Read(p) ==
      \/ pc[p] = "page-teams"
      \/ job[p].kind = "page" /\ reply[p] \in {"channels", "connected"}
<1> SUFFICES ASSUME NEW p \in Requests, Read(p)',
                    NEW i \in past'[p], reply'[i] = "saved", Stored(i)'
             PROVE  i \in ListedIds(p)'
  BY DEF PageComplete
<1>1. pc[p] # "idle"
  <2>1. ~Arrives(p)
    BY ReceiveEffect DEF Arrives, Entries, RepliesLast
  <2>2. Waits(p) => pc[p] # "idle"
    BY DEF Waits, RepliesLast
  <2> QED BY <2>1, <2>2, EachRequest, MoveEffect DEF Runs
<1>2. /\ job'[p] = job[p] /\ past'[p] = past[p]
      /\ Waits(p) \/ Runs(p)
  BY <1>1, Fixed
<1>3. i \in Requests /\ pc[i] # "idle" /\ Ended(i)
  BY <1>2 DEF WorkersTypeOK, PastIsOver, Ended
<1>4. reply[i] = "saved" /\ channel[i] # Unused
  BY <1>3, Fixed DEF Waits, RowsAreSaved
<1>5. Stored(i)
  BY <1>3, <1>4, RowLasts
<1>6. Read(p) => i \in ListedIds(p)
  BY <1>2, <1>4, <1>5 DEF PageComplete
<1>7. CASE Waits(p)
  BY <1>6, <1>7 DEF Waits, SameLocals, ListedIds
<1>8. CASE Runs(p)
  <2>1. GetNetworkSettings(p) /\ UNCHANGED <<network, channel, remover>>
    BY <1>2, <1>8, PageRuns DEF PageLabels
  <2>2. CASE PageNetwork(p)
    BY <2>2 DEF PageNetwork, Goto, RepliesLast, WorkersTypeOK
  <2>3. CASE PageChannels(p)
    BY <1>3, <1>5, <2>3
       DEF PageChannels, Goto, Answer, RepliesLast, WorkersTypeOK, StoredRows
  <2>4. CASE PageChildren(p)
    <3>1. listed'[p] = FindMany(StoredRows)
      BY <2>4 DEF PageChildren, ViewTypeOK
    <3>2. <<i, channel[i]>> \in listed'[p]
      BY <1>3, <1>5, <3>1 DEF FindMany, StoredRows
    <3>3. <<i, channel[i]>>[1] = i
      OBVIOUS
    <3> QED BY <3>2, <3>3 DEF ListedIds
  <2>5. CASE PageTeams(p)
    BY <1>6, <2>5 DEF PageTeams, view, ListedIds
  <2>6. CASE PageChildrenEmpty(p) \/ PageReadFails(p) \/ PageTeamsFails(p)
    BY <2>6 DEF PageChildrenEmpty, PageReadFails, PageTeamsFails, Answer,
       WorkersTypeOK
  <2> QED BY <2>1, <2>2, <2>3, <2>4, <2>5, <2>6 DEF GetNetworkSettings
<1> QED BY <1>2, <1>7, <1>8

\* Why a page fails, while nothing outside does.
LEMMA PageFailsStep ==
  ASSUME IInv, AccountsKnown, PageBegun, PageFailsOnlyWhen, [Next]_vars
  PROVE  PageFailsOnlyWhen'
<1> USE DEF IInv, TypeOK
<1> SUFFICES ASSUME NEW p \in Requests, job'[p].kind = "page",
                    reply'[p] = "error", Faults = {},
                    \A c \in listed'[p] :
                      TeamOf[c[2].target] \in Joined[job'[p].net]
             PROVE  \E i \in Requests :
                      channel'[i] = Deleted /\ remover'[i] \notin past'[p]
  BY DEF PageFailsOnlyWhen
<1>1. pc[p] # "idle"
  <2>1. Arrives(p) \/ Waits(p) => reply'[p] = reply[p]
    BY ReceiveEffect DEF Arrives, Waits
  <2> QED BY <2>1, EachRequest, MoveEffect DEF RepliesLast, Runs
<1>2. /\ job'[p] = job[p] /\ past'[p] = past[p]
      /\ Waits(p) \/ Runs(p)
  BY <1>1, Fixed
<1>3. CASE Waits(p)
  <2>1. PICK i \in Requests : channel[i] = Deleted /\ remover[i] \notin past[p]
    BY <1>2, <1>3 DEF Waits, SameLocals, PageFailsOnlyWhen
  <2> QED BY <1>2, <2>1, DeletedStays
<1>4. CASE Runs(p)
  <2>1. GetNetworkSettings(p) /\ UNCHANGED <<network, channel, remover>>
    BY <1>2, <1>4, PageRuns
  <2>2. CASE PageChildrenEmpty(p)
    <3>1. PICK i \in Requests : Seen(p, i)
      BY <2>2 DEF PageChildrenEmpty, PageBegun, Seen
    <3>2. ~Stored(i)
      BY <2>2 DEF PageChildrenEmpty, StoredRows
    <3> QED BY <1>2, <2>1, <3>1, <3>2 DEF Seen
  <2>3. CASE PageTeamsFails(p)
    <3>1. ~TeamsFound(p) /\ user[p] # NoRecord /\ listed'[p] = listed[p]
      BY <2>3 DEF PageTeamsFails, PageBegun, view
    <3>2. user[p].microsoftId # Undefined
      BY <3>1 DEF AccountsKnown
    <3> QED BY <1>2, <3>1, <3>2 DEF TeamsFound
  <2>4. CASE PageNetwork(p) \/ PageChildren(p)
    BY <2>4 DEF PageNetwork, PageChildren, Goto, RepliesLast, WorkersTypeOK
  <2>5. CASE PageChannels(p) \/ PageTeams(p)
    BY <2>5
       DEF PageChannels, PageTeams, Goto, Answer, RepliesLast, WorkersTypeOK
  <2> QED BY <2>1, <2>2, <2>3, <2>4, <2>5
          DEF GetNetworkSettings, PageReadFails
<1> QED BY <1>2, <1>3, <1>4

-----------------------------------------------------------------------------
(* The forms *)

\* Which requests run a form's handler.
LEMMA FormRuns ==
  ASSUME IInv, NEW r \in Requests, Runs(r),
         \/ job[r].kind \in {"edit", "refetch"}
         \/ pc'[r] \in EditLabels
  PROVE  /\ SettingsForm(r) /\ UNCHANGED <<network, channel, remover>>
         /\ job[r].kind \in {"edit", "refetch"} /\ job[r].row \in Requests
         /\ job[r].kind = "edit" => pc[r] \in EditLabels
         /\ job[r].kind = "refetch" => pc[r] \in RefetchLabels
<1>1. job[r].kind \in {"edit", "refetch"}
  BY MoveEffect DEF Runs, OwnLabel, IInv, TypeOK
<1>2. /\ job[r].kind = "edit" => pc[r] \in EditLabels
      /\ job[r].kind = "refetch" => pc[r] \in RefetchLabels
  BY <1>1, AtLabel DEF Runs, Moves, InFlight, Labels, OtherKinds, IInv, TypeOK
<1>3. job[r].row \in Requests
  BY <1>1, AtLabel, JobFields DEF Runs, Moves, IInv, TypeOK
<1> QED BY <1>1, <1>2, <1>3, AtHandler, ReadersRead DEF Runs, Form, db

\* A form that has opened is of a document, an edit form of one of its own
\* community's spaces.
LEMMA FormFilledStep ==
  ASSUME IInv, FormFilled, [Next]_vars
  PROVE  FormFilled'
<1> USE DEF IInv, TypeOK
<1> SUFFICES ASSUME NEW r \in Requests, job'[r].kind \in {"edit", "refetch"},
                    reply'[r] = "form"
             PROVE  /\ edited'[r] # NoRecord
                    /\ job'[r].kind = "edit" =>
                         SpaceOwner[SpaceOf[edited'[r].target]] = job'[r].net
  BY DEF FormFilled, Own
<1>1. pc[r] # "idle"
  <2>1. Arrives(r) \/ Waits(r) => reply'[r] = reply[r]
    BY ReceiveEffect DEF Arrives, Waits
  <2> QED BY <2>1, EachRequest, MoveEffect DEF RepliesLast, Runs
<1>2. /\ job'[r] = job[r]
      /\ Waits(r) \/ Runs(r)
  BY <1>1, Fixed
<1>3. CASE Waits(r)
  BY <1>2, <1>3 DEF Waits, SameLocals, FormFilled, Own
<1>4. CASE Runs(r)
  <2>1. /\ SettingsForm(r) /\ job[r].row \in Requests
        /\ job[r].kind = "edit" => pc[r] \in EditLabels
        /\ job[r].kind = "refetch" => pc[r] \in RefetchLabels
    BY <1>2, <1>4, FormRuns
  <2>2. CASE EditGraph(r)
    BY <1>2, <2>2 DEF EditGraph, EditFound, Own
  <2>3. CASE RefetchRow(r)
    <3>1. edited'[r] = channel[job[r].row] /\ channel[job[r].row] \in Row
      BY <2>1, <2>3 DEF RefetchRow, Stored, EditedTypeOK, DatabaseTypeOK
    <3>2. job[r].kind # "edit"
      BY <2>1, <2>3 DEF RefetchRow, EditLabels
    <3> QED BY <1>2, <3>1, <3>2, Sentinels
  <2>4. CASE EditRow(r) \/ FormNetwork(r) \/ RefetchGraph(r)
    BY <2>4 DEF EditRow, FormNetwork, RefetchGraph, Goto, Answer, NoForm,
       RepliesLast, WorkersTypeOK
  <2>5. CASE FormReadFails(r) \/ RefetchRowGone(r) \/ FormGraphFails(r)
             \/ AuthRedirect(r)
    BY <2>5 DEF FormReadFails, RefetchRowGone, FormGraphFails, AuthRedirect,
       Answer, NoForm, WorkersTypeOK
  <2>6. ~OpenGraph(r)
    BY <1>2, <2>1 DEF OpenGraph, EditLabels, RefetchLabels
  <2> QED BY <2>1, <2>2, <2>3, <2>4, <2>5, <2>6 DEF SettingsForm
<1> QED BY <1>2, <1>3, <1>4

\* An edit form that found nothing was of a deleted connection.
LEMMA EditBegunStep ==
  ASSUME IInv, InputsKept, EditBegun, [Next]_vars
  PROVE  EditBegun'
<1> USE DEF IInv, TypeOK
<1> SUFFICES ASSUME NEW r \in Requests,
                    pc'[r] \in {"edit-network", "edit-graph"}
             PROVE  /\ edited'[r] = NoRecord => channel'[job'[r].row] = Deleted
                    /\ pc'[r] = "edit-graph" => user'[r] # NoRecord
  BY DEF EditBegun
<1>1. pc[r] # "idle"
  <2>1. ~Arrives(r)
    BY ReceiveEffect DEF Arrives, Entries
  <2> QED BY <2>1, EachRequest, MoveEffect DEF Waits, Runs
<1>2. job'[r] = job[r] /\ (Waits(r) \/ Runs(r))
  BY <1>1, Fixed
<1>3. CASE Waits(r)
  <2>1. pc'[r] = pc[r]
    BY <1>3 DEF Waits
  <2>2. job[r].row \in Requests
    BY <1>1, <2>1, JobFields DEF JobAtLabel, OwnLabel, EditLabels
  <2>3. edited'[r] = NoRecord => channel'[job[r].row] = Deleted
    BY <1>3, <2>1, <2>2, DeletedStays DEF Waits, SameLocals, EditBegun
  <2> QED BY <1>2, <1>3, <2>1, <2>3 DEF Waits, SameLocals, EditBegun
<1>4. CASE Runs(r)
  <2>1. /\ SettingsForm(r) /\ UNCHANGED <<network, channel, remover>>
        /\ job[r].kind \in {"edit", "refetch"} /\ job[r].row \in Requests
    BY <1>4, FormRuns DEF EditLabels
  <2>2. CASE EditRow(r)
    <3>1. channel[job[r].row] # Unused
      BY <1>1, <2>1 DEF InputsKept, ButtonInput
    <3>2. Stored(job[r].row) => channel[job[r].row] # NoRecord
      BY <2>1, StoredFacts, Sentinels
    <3>3. edited'[r] = NoRecord => channel[job[r].row] = Deleted
      BY <2>2, <3>1, <3>2 DEF EditRow, Stored, EditedTypeOK
    <3>4. pc'[r] # "edit-graph"
      BY <2>2 DEF EditRow, Goto, WorkersTypeOK
    <3> QED BY <1>2, <2>1, <3>3, <3>4
  <2>3. CASE FormNetwork(r)
    <3>1. /\ pc[r] = "edit-network" /\ edited' = edited
          /\ user'[r] # NoRecord
      BY <2>3 DEF FormNetwork, Goto, Answer, WorkersTypeOK, Connected,
         ViewTypeOK
    <3> QED BY <1>2, <2>1, <3>1 DEF EditBegun
  <2>4. CASE ~EditRow(r) /\ ~FormNetwork(r)
    BY <2>1, <2>4 DEF SettingsForm, FormReadFails, OpenGraph, EditGraph,
       RefetchGraph, RefetchRow, RefetchRowGone, FormGraphFails,
       AuthRedirect, Goto, Answer, WorkersTypeOK
  <2> QED BY <2>2, <2>3, <2>4
<1> QED BY <1>2, <1>3, <1>4

\* Why an edit form fails, while nothing outside does.
LEMMA EditFailsStep ==
  ASSUME IInv, AccountsKnown, EditBegun, EditFailsOnlyWhen, [Next]_vars
  PROVE  EditFailsOnlyWhen'
<1> USE DEF IInv, TypeOK
<1> DEFINE Excused(r) ==
      \/ edited[r] = NoRecord /\ channel[job[r].row] = Deleted
      \/ user[r] = NoRecord
      \/ /\ edited[r] # NoRecord
         /\ \/ ~Own(job[r], SpaceOf[edited[r].target])
            \/ TeamOf[edited[r].target] \notin Joined[job[r].net]
            \/ edited[r].target \in Vanished
      \/ job[r].net \in Crowded
<1> SUFFICES ASSUME NEW r \in Requests, job'[r].kind = "edit",
                    reply'[r] = "error", Faults = {}
             PROVE  Excused(r)'
  BY DEF EditFailsOnlyWhen
<1>1. pc[r] # "idle"
  <2>1. Arrives(r) \/ Waits(r) => reply'[r] = reply[r]
    BY ReceiveEffect DEF Arrives, Waits
  <2> QED BY <2>1, EachRequest, MoveEffect DEF RepliesLast, Runs
<1>2. job'[r] = job[r] /\ (Waits(r) \/ Runs(r)) /\ job[r].row \in Requests
  BY <1>1, Fixed, JobFields DEF JobAtLabel
<1>3. ASSUME edited'[r] = edited[r], user'[r] = user[r], Excused(r)
      PROVE  Excused(r)'
  <2>1. channel[job[r].row] = Deleted => channel'[job[r].row] = Deleted
    BY <1>2, DeletedStays
  <2> QED BY <1>2, <1>3, <2>1 DEF Own
<1>4. CASE Waits(r)
  <2>1. reply[r] = "error" /\ job[r].kind = "edit"
    BY <1>2, <1>4 DEF Waits
  <2>2. Excused(r)
    BY <2>1 DEF EditFailsOnlyWhen
  <2> QED BY <1>3, <1>4, <2>2 DEF Waits, SameLocals
<1>5. CASE Runs(r)
  <2>1. /\ SettingsForm(r) /\ UNCHANGED <<network, channel, remover>>
        /\ pc[r] \in EditLabels
    BY <1>2, <1>5, FormRuns
  <2>2. CASE FormNetwork(r)
    <3>1. user'[r] = network[job[r].net] /\ network[job[r].net] = NoRecord
      BY <1>2, <2>2 DEF FormNetwork, Goto, Answer, WorkersTypeOK, Connected,
         RepliesLast, ViewTypeOK
    <3> QED BY <3>1
  <2>3. CASE FormGraphFails(r)
    <3>0. Faults \cap {"graph", "bettermode"} = {}
      OBVIOUS
    <3>1. /\ pc[r] = "edit-graph"
          /\ ~EditFound(r) \/ job[r].net \in Crowded
          /\ edited'[r] = edited[r] /\ user'[r] = user[r]
      BY <2>1, <2>3, <3>0 DEF FormGraphFails, EditLabels, view
    <3>2. user[r].microsoftId # Undefined
      BY <3>1 DEF EditBegun, AccountsKnown
    <3>3. Excused(r)
      BY <3>1, <3>2 DEF EditFound, TeamsListed, EditBegun
    <3> QED BY <1>3, <3>1, <3>3
  <2>4. CASE EditRow(r) \/ OpenGraph(r) \/ EditGraph(r) \/ RefetchGraph(r)
             \/ RefetchRow(r)
    BY <2>4 DEF EditRow, OpenGraph, EditGraph, RefetchGraph, RefetchRow,
       Goto, Answer, WorkersTypeOK, RepliesLast
  <2>5. ~RefetchRowGone(r) /\ ~AuthRedirect(r) /\ ~FormReadFails(r)
    BY <2>1 DEF RefetchRowGone, AuthRedirect, FormReadFails, EditLabels
  <2> QED BY <2>1, <2>2, <2>3, <2>4, <2>5 DEF SettingsForm
<1> QED BY <1>2, <1>4, <1>5

-----------------------------------------------------------------------------
(* Theorems *)

\* The invariant of pages and forms is inductive, given what is known of
\* inputs and accounts.
LEMMA ViewStep ==
  IInv /\ ReadInv /\ AccountInv /\ ViewInv /\ [Next]_vars => ViewInv'
BY PageBegunStep, PageCompleteStep, PageFailsStep, FormFilledStep,
   EditBegunStep, EditFailsStep DEF ReadInv, AccountInv, ViewInv

\* It holds of the initial states.
LEMMA ViewInvInit == Init => ViewInv
BY DEF Init, DatabaseInit, WorkersInit, ViewInit, EditedInit, ViewInv,
   PageBegun, PageComplete, FormFilled, EditBegun, PageFailsOnlyWhen,
   EditFailsOnlyWhen, None

\* An edit form that has opened is of a connection of its own community.
LEMMA OpenEditsAreOwn == IInv /\ ReadInv /\ ViewInv => EditFormIsOwn
<1> SUFFICES ASSUME IInv, ReadInv, ViewInv, NEW r \in Requests,
                    job[r].kind = "edit", reply[r] = "form"
             PROVE  job[job[r].row].net = job[r].net
  BY DEF EditFormIsOwn
<1> DEFINE i == job[r].row
           w == edited[r].by
<1>1. /\ edited[r] # NoRecord
      /\ SpaceOwner[SpaceOf[edited[r].target]] = job[r].net
  BY DEF ViewInv, FormFilled, Own
<1>2. ReadBy(r, i, edited[r])
  BY <1>1 DEF ReadInv, EditedIsRead
<1>3. /\ i \in Requests /\ w \in Requests /\ pc[w] # "idle"
      /\ w = i \/ (job[w].kind = "update" /\ job[w].row = i)
      /\ edited[r].target = job[w].target
  BY <1>2 DEF ReadBy, WrittenBy, Row
<1>4. w = i => job[w].kind = "save"
  BY <1>2 DEF ReadBy, IInv, RowsAreSaved
<1>5. SpaceOwner[SpaceOf[job[w].target]] = job[w].net
  BY <1>3, <1>4 DEF ReadInv, InputsKept, FormInput, Own
<1>6. job[w].net = job[i].net
  BY <1>3 DEF ReadInv, InputsKept, ButtonInput
<1> QED BY <1>1, <1>3, <1>5, <1>6

\* What is known of pages and forms holds of every reachable state.
THEOREM ViewInvariance == Spec => []ViewInv
BY ViewInvInit, ViewStep, Invariance, WhatIsRead, AccountInvariance, PTL
   DEF Spec

\* A settings page lists every connection whose save had succeeded before the
\* page was asked for and that is still there, and none that was removed by a
\* request over by then.
THEOREM PagesAreCurrent == Spec => []PageReflectsDatabase
<1>1. ReadInv /\ ViewInv => PageReflectsDatabase
  <2> SUFFICES ASSUME ReadInv, ViewInv, NEW p \in Requests,
                      reply[p] \in {"channels", "connected"},
                      job[p].kind = "page"
               PROVE  /\ \A i \in past[p] :
                           reply[i] = "saved" /\ Stored(i) => i \in ListedIds(p)
                      /\ \A i \in ListedIds(p) :
                           channel[i] = Deleted => remover[i] \notin past[p]
    BY DEF PageReflectsDatabase
  <2>1. \A i \in past[p] :
          reply[i] = "saved" /\ Stored(i) => i \in ListedIds(p)
    BY DEF ViewInv, PageComplete
  <2>2. \A c \in listed[p] :
          channel[c[1]] = Deleted => remover[c[1]] \notin past[p]
    BY DEF ReadInv, ListedIsRead, ReadBy
  <2> QED BY <2>1, <2>2 DEF ListedIds
<1> QED BY <1>1, WhatIsRead, ViewInvariance, PTL

\* While nothing outside fails, a settings page is an HTTP 500 only for a
\* connection of a team the account is not in, or because the connections went
\* away between its two reads of them.
THEOREM PagesFailForAReason == Spec => []PageFailsOnlyWhen
<1>1. ViewInv => PageFailsOnlyWhen
  BY DEF ViewInv
<1> QED BY <1>1, ViewInvariance, PTL

\* While nothing outside fails, an edit button is an HTTP 500 only for the
\* reasons EditFailsOnlyWhen lists.
THEOREM EditsFailForAReason == Spec => []EditFailsOnlyWhen
<1>1. ViewInv => EditFailsOnlyWhen
  BY DEF ViewInv
<1> QED BY <1>1, ViewInvariance, PTL

\* A form that edits a connection opens for the community that made it only:
\* the space of the document, which nothing but forms of that community wrote,
\* is looked for among the community's own.
THEOREM EditFormsAreOwn == Spec => []EditFormIsOwn
BY OpenEditsAreOwn, Invariance, WhatIsRead, ViewInvariance, PTL

\* What a form that edits a connection is filled in with is from one save or
\* update, that no update over before the form was asked for had replaced, and
\* not of a connection deleted before: all of it after the edit button, its
\* events after the choice of another team.
THEOREM EditFormsAreCurrent == Spec => []EditFormIsCurrent
<1>1. ReadInv /\ ViewInv => EditFormIsCurrent
  <2> SUFFICES ASSUME ReadInv, ViewInv, NEW r \in Requests,
                      job[r].kind \in {"edit", "refetch"}, reply[r] = "form"
               PROVE  LET i == job[r].row IN
                      /\ channel[i] = Deleted => remover[i] \notin past[r]
                      /\ \E w \in Requests :
                           /\ \/ w = i
                              \/ job[w].kind = "update" /\ job[w].row = i
                           /\ \A f \in DOMAIN DefaultValues(r) :
                                DefaultValues(r)[f] = job[w][f]
                           /\ \A u \in past[r] :
                                job[u].kind = "update" /\ job[u].row = i
                                /\ reply[u] = "updated" => w \notin past[u]
    BY DEF EditFormIsCurrent
  <2> DEFINE i == job[r].row
             w == edited[r].by
  <2>1. ReadBy(r, i, edited[r])
    BY DEF ViewInv, FormFilled, ReadInv, EditedIsRead
  <2>2. w \in Requests
    BY <2>1 DEF ReadBy, Row
  <2>3. channel[i] = Deleted => remover[i] \notin past[r]
    BY <2>1 DEF ReadBy
  <2>4. /\ w = i \/ (job[w].kind = "update" /\ job[w].row = i)
        /\ edited[r].target = job[w].target /\ edited[r].events = job[w].events
        /\ \A u \in past[r] :
             job[u].kind = "update" /\ job[u].row = i /\ reply[u] = "updated"
               => w \notin past[u]
    BY <2>1 DEF ReadBy, WrittenBy
  <2>5. \A f \in DOMAIN DefaultValues(r) : DefaultValues(r)[f] = job[w][f]
    <3>1. CASE job[r].kind = "edit"
      BY <2>4, <3>1 DEF DefaultValues
    <3>2. CASE job[r].kind # "edit"
      BY <2>4, <3>2 DEF DefaultValues
    <3> QED BY <3>1, <3>2
  <2> QED BY <2>2, <2>3, <2>4, <2>5
<1> QED BY <1>1, WhatIsRead, ViewInvariance, PTL
=============================================================================

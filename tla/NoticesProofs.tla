---------------------------- MODULE NoticesProofs ---------------------------
(***************************************************************************)
(* Proofs about the notifications of subscription webhooks: none to a      *)
(* channel that is not subscribed, and none missed, although an event is   *)
(* looked up and posted while other requests write.                        *)
(***************************************************************************)
EXTENDS HistoryProofs

-----------------------------------------------------------------------------
(* What an event concerns *)

\* The connections an event concerns become fewer only, and stay as they are.
LEMMA ConcernedBefore ==
  ASSUME IInv, [Next]_vars, NEW r \in Requests, pc[r] # "idle",
         NEW i \in Concerned(r)'
  PROVE  i \in Concerned(r) /\ channel'[i] = channel[i]
<1>1. i \in Requests /\ Stored(i)' /\ channel'[i].by \in past'[r]
  BY DEF Concerned, StoredRows
<1>2. job'[r] = job[r] /\ past'[r] = past[r]
  BY Fixed
<1>3. SameRow(i)
  BY <1>1, <1>2, EachRow, FlightIsNotPast
     DEF MadeBySave, EditedBy, GoneBy, Stored
<1> QED BY <1>1, <1>2, <1>3 DEF SameRow, Concerned, StoredRows, Stored

\* Whatever it concerns is switched on for it, and it is an event that can be
\* switched on.
LEMMA ConcernedIsOn ==
  ASSUME IInv, NEW r \in Requests, NEW i \in Concerned(r)
  PROVE  /\ i \in SwitchedOn(r) /\ i \in StoredRows
         /\ job[r].name \in Toggles
         /\ <<i, channel[i]>> \in FindMany(SwitchedOn(r))
<1>1. i \in SwitchedOn(r) /\ i \in StoredRows
  BY DEF Concerned, SwitchedOn
<1>2. channel[i].events \subseteq Toggles
  BY <1>1 DEF IInv, TypeOK, DatabaseTypeOK, StoredRows, Stored, Row, Events
<1> QED BY <1>1, <1>2 DEF Concerned, FindMany

\* Only a moderation is about an entity, and a verified member has no space.
LEMMA EventShape ==
  ASSUME InputsKept, NEW r \in Requests, pc[r] # "idle", job[r].kind = "event"
  PROVE  /\ job[r].name = "member.verified" => job[r].spaces = {}
         /\ job[r].entityType = "MEMBER" => job[r].name \in Moderations
BY DEF InputsKept, EventInput

\* Which requests run the handler of notifications.
LEMMA NoticeRuns ==
  ASSUME IInv, NEW r \in Requests, Runs(r),
         job[r].kind = "event" \/ pc'[r] \in EventLabels
  PROVE  /\ HandleSubscriptionWebhook(r) /\ UNCHANGED channel
         /\ job[r].kind = "event"
<1>1. job[r].kind = "event"
  BY MoveEffect DEF Runs, OwnLabel, IInv, TypeOK
<1>2. pc[r] \in EventLabels
  BY <1>1, AtLabel DEF Runs, Moves, InFlight, Labels, OtherKinds, IInv, TypeOK
<1>3. HandleSubscriptionWebhook(r)
  BY <1>2, AtHandler DEF Runs, Notify
<1>4. UNCHANGED db
  BY <1>3 DEF HandleSubscriptionWebhook, EventStart, EventNetworkUpdated,
     EventOther, EventLookupRefused, EventLookup, EventEntities, EventPost,
     EventFails
<1> QED BY <1>1, <1>3, <1>4 DEF db

-----------------------------------------------------------------------------
(* The parts of the invariant *)

\* What is to be posted is complete.
LEMMA LookupsCompleteStep ==
  ASSUME IInv, LookupsComplete, [Next]_vars
  PROVE  LookupsComplete'
<1> USE DEF IInv, TypeOK
<1> DEFINE Complete(r) ==
      \A i \in Concerned(r) : <<i, channel[i]>> \in found[r]
<1> SUFFICES ASSUME NEW r \in Requests, pc'[r] \in EventLabels
             PROVE  /\ pc'[r] = "event-entities" =>
                         job'[r].entityType = "MEMBER"
                    /\ pc'[r] = "event-post" => Complete(r)'
  BY DEF LookupsComplete, EventLabels
<1>1. CASE Arrives(r)
  BY <1>1, ReceiveEffect DEF Arrives, Entries
<1>2. ASSUME pc[r] # "idle"
      PROVE  /\ job'[r] = job[r]
             /\ \A i \in Concerned(r)' :
                  i \in Concerned(r) /\ channel'[i] = channel[i]
  BY <1>2, Fixed, ConcernedBefore
<1>3. CASE Waits(r)
  <2>1. pc'[r] = pc[r] /\ pc[r] # "idle" /\ found'[r] = found[r]
    BY <1>3 DEF Waits, SameLocals, EventLabels
  <2> QED BY <1>2, <2>1 DEF LookupsComplete
<1>4. CASE Runs(r)
  <2>1. HandleSubscriptionWebhook(r) /\ pc[r] # "idle"
    BY <1>4, NoticeRuns, MoveEffect DEF Runs
  <2>2. CASE EventLookup(r)
    <3>1. /\ found'[r] = FindMany(SwitchedOn(r))
          /\ pc'[r] = "event-entities" => job[r].entityType = "MEMBER"
      BY <2>2 DEF EventLookup, Goto, Answer, WorkersTypeOK, NoticesTypeOK
    <3> QED BY <1>2, <2>1, <3>1, ConcernedIsOn
  <2>3. CASE ~EventLookup(r)
    BY <2>1, <2>3 DEF HandleSubscriptionWebhook, EventStart,
       EventNetworkUpdated, EventOther, EventLookupRefused, EventEntities,
       EventPost, EventFails, Goto, Answer, WorkersTypeOK
  <2> QED BY <2>2, <2>3
<1> QED BY <1>1, <1>3, <1>4, EachRequest

\* An answer that leaves no excuse has notified everybody concerned.
LEMMA NoMissedStep ==
  ASSUME IInv, InputsKept, LookupsComplete, NoMissedNotification, [Next]_vars
  PROVE  NoMissedNotification'
<1> USE DEF IInv, TypeOK
<1> DEFINE Due(r) ==
      \/ reply[r] = "succeeded"
      \/ pc[r] = "done" /\ Faults = {} /\ job[r].name = "member.verified"
<1> SUFFICES ASSUME NEW r \in Requests, job'[r].kind = "event", Due(r)',
                    NEW i \in Concerned(r)'
             PROVE  <<i, channel'[i]>> \in posted'[r]
  BY DEF NoMissedNotification
<1>1. pc[r] # "idle"
  <2>1. ~Arrives(r)
    BY ReceiveEffect DEF Arrives, Entries, RepliesLast
  <2>2. Waits(r) => pc[r] # "idle"
    BY DEF Waits, RepliesLast
  <2> QED BY <2>1, <2>2, EachRequest, MoveEffect DEF Runs
<1>2. job'[r] = job[r] /\ (Waits(r) \/ Runs(r))
  BY <1>1, Fixed
<1>3. i \in Concerned(r) /\ channel'[i] = channel[i]
  BY <1>1, ConcernedBefore
<1>4. CASE Waits(r)
  <2>1. pc'[r] = "done" => pc[r] = "done"
    BY <1>4 DEF Waits
  <2>2. Due(r)
    BY <1>2, <1>4, <2>1 DEF Waits
  <2>3. <<i, channel[i]>> \in posted[r]
    BY <1>2, <1>3, <2>2 DEF NoMissedNotification
  <2> QED BY <1>3, <1>4, <2>3 DEF Waits, SameLocals
<1>5. CASE Runs(r)
  <2>1. /\ HandleSubscriptionWebhook(r)
        /\ job[r].kind = "event" /\ job[r].name \in Toggles
    BY <1>2, <1>3, <1>5, NoticeRuns, ConcernedIsOn
  <2>2. reply[r] = "none"
    BY <1>5, LabelsInFlight DEF Runs, Moves, InFlight, RepliesLast
  <2>3. CASE EventPost(r)
    BY <1>3, <2>3 DEF EventPost, LookupsComplete, NoticesTypeOK
  <2>4. CASE EventLookup(r)
    <3>1. SwitchedOn(r) # {}
      BY <1>3, ConcernedIsOn
    <3>2. Goto(r, "event-entities") \/ Goto(r, "event-post")
      BY <2>4, <3>1 DEF EventLookup
    <3> QED BY <2>2, <3>2 DEF Goto, WorkersTypeOK
  <2>5. CASE EventStart(r)
    BY <2>2, <2>5 DEF EventStart, Goto, WorkersTypeOK
  <2>6. CASE EventNetworkUpdated(r) \/ EventOther(r)
    <3>1. EventOther(r) /\ job[r].name = "member_invitation.created"
      BY <2>1, <2>6 DEF EventNetworkUpdated, EventOther, Notifies, Toggles
    <3>2. job[r].spaces = {} /\ job[r].entityType # "MEMBER"
      BY <1>1, <2>1, <3>1, EventShape DEF EventOther, Notifies, Toggles,
         Moderations
    <3> QED BY <1>3, <3>1, <3>2 DEF Concerned
  <2>7. CASE EventLookupRefused(r) \/ EventEntities(r) \/ EventFails(r)
    <3>1. reply'[r] = "unavailable"
      BY <2>7 DEF EventLookupRefused, EventEntities, EventFails, Answer,
         WorkersTypeOK
    <3>2. Faults = {} /\ job[r].name = "member.verified"
      BY <1>2, <3>1
    <3>3. job[r].spaces = {} /\ job[r].entityType # "MEMBER"
      BY <1>1, <2>1, <3>2, EventShape DEF Moderations
    <3> QED BY <2>7, <3>2, <3>3 DEF EventLookupRefused, EventEntities,
            EventFails, LookupsComplete
  <2> QED BY <2>1, <2>3, <2>4, <2>5, <2>6, <2>7
          DEF HandleSubscriptionWebhook
<1> QED BY <1>2, <1>4, <1>5

-----------------------------------------------------------------------------
(* Theorems *)

\* The invariant of notifications is inductive, given what is known of inputs.
LEMMA NoticeStep == IInv /\ ReadInv /\ NoticeInv /\ [Next]_vars => NoticeInv'
BY LookupsCompleteStep, NoMissedStep DEF ReadInv, NoticeInv

\* It holds of the initial states.
LEMMA NoticeInit == Init => NoticeInv
BY DEF Init, WorkersInit, NoticeInv, LookupsComplete, NoMissedNotification,
   None

\* A subscription answered as succeeded, or about a verified member and
\* answered while nothing outside failed, has notified every connection the
\* event concerns: what was found is all there was, and a lookup or an entity
\* that fails is never answered as a success.
THEOREM NoneMissed == Spec => []NoMissedNotification
<1>1. NoticeInv => NoMissedNotification
  BY DEF NoticeInv
<1> QED BY <1>1, NoticeInit, NoticeStep, Invariance, WhatIsRead, PTL DEF Spec

\* The bot is told to notify a channel only for a connection of the community
\* the event is from, not deleted by a request over when the event arrived.
THEOREM OwnLiveNotified == Spec => []NotifiesOwnLiveConnections
<1>1. IInv /\ ReadInv => NotifiesOwnLiveConnections
  <2> SUFFICES ASSUME IInv, ReadInv, NEW r \in Requests, NEW d \in posted[r]
               PROVE  /\ job[d[1]].kind = "save" /\ job[d[1]].net = job[r].net
                      /\ channel[d[1]] = Deleted => remover[d[1]] \notin past[r]
    BY DEF NotifiesOwnLiveConnections
  <2>1. ReadBy(r, d[1], d[2]) /\ d[2].networkId = job[r].net
    BY DEF ReadInv, FoundIsRead
  <2> QED BY <2>1 DEF ReadBy, IInv, RowsAreSaved
<1> QED BY <1>1, Invariance, WhatIsRead, PTL

\* The bot is told to notify a channel only when one form named that channel
\* and switched the event on, and no update that came after that form was over
\* when the event arrived.
THEOREM SubscribersNotified == Spec => []NotifiesAsSubscribed
<1>1. ReadInv => NotifiesAsSubscribed
  <2> SUFFICES ASSUME ReadInv, NEW r \in Requests, NEW d \in posted[r]
               PROVE  \E w \in Requests :
                        /\ w = d[1] \/ (job[w].kind = "update"
                                          /\ job[w].row = d[1])
                        /\ d[2].target = job[w].target
                        /\ job[r].name \in job[w].events
                        /\ \A u \in past[r] :
                             job[u].kind = "update" /\ job[u].row = d[1]
                             /\ reply[u] = "updated" => w \notin past[u]
    BY DEF NotifiesAsSubscribed
  <2>1. ReadBy(r, d[1], d[2]) /\ job[r].name \in d[2].events
    BY DEF ReadInv, FoundIsRead
  <2>2. d[2].by \in Requests
    BY <2>1 DEF ReadBy, Row
  <2> QED BY <2>1, <2>2 DEF ReadBy, WrittenBy
<1> QED BY <1>1, WhatIsRead, PTL
=============================================================================

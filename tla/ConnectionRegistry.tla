------------------------- MODULE ConnectionRegistry -------------------------
(***************************************************************************)
(* What the database of the app is for, without requests, workers and      *)
(* failures: the connections of spaces to Teams channels and the Microsoft *)
(* connection of each community, changed one whole step at a time.  A new  *)
(* connection is checked against the others in one step and stored in a    *)
(* later one; a change keeps the community; an id is used once; and an     *)
(* OAuth session connects its community once.                              *)
(***************************************************************************)
CONSTANTS
  Ids,          \* ObjectIds
  Communities,
  Targets,      \* triples (space, team, channel)
  Events,       \* what a connection can be switched on for
  Sessions,     \* OAuth sessions to come
  Before,       \* the session of a community connected at the start
  NoRecord, Unused, Deleted

VARIABLES
  conn,      \* a connection by its id
  asked,     \* a connection that was checked and is not stored yet
  session,   \* the session that connected a community
  spent      \* the sessions that have connected their community

registry == <<conn, asked, session, spent>>

Connection ==
  [networkId : Communities, target : Targets, events : SUBSET Events]

InUse(i) == conn[i] \notin {Unused, Deleted}

RegistryInit ==
  /\ conn = [i \in Ids |-> Unused]
  /\ asked = [i \in Ids |-> NoRecord]
  /\ session \in [Communities -> {NoRecord, Before}]
  /\ spent = {}

\* The target is nobody's at this moment.
Check(i, c) ==
  /\ conn[i] = Unused /\ asked[i] = NoRecord
  /\ \A j \in Ids : InUse(j) => conn[j].target # c.target
  /\ asked' = [asked EXCEPT ![i] = c]
  /\ UNCHANGED <<conn, session, spent>>

Add(i) ==
  /\ conn[i] = Unused /\ asked[i] # NoRecord
  /\ conn' = [conn EXCEPT ![i] = asked[i]]
  /\ asked' = [asked EXCEPT ![i] = NoRecord]
  /\ UNCHANGED <<session, spent>>

\* Connections asked for that never come.
Abandon(S) ==
  /\ asked' = [i \in Ids |-> IF i \in S THEN NoRecord ELSE asked[i]]
  /\ UNCHANGED <<conn, session, spent>>

Change(i, target, events) ==
  /\ InUse(i)
  /\ conn' = [conn EXCEPT ![i] = [networkId |-> conn[i].networkId,
                                  target |-> target, events |-> events]]
  /\ UNCHANGED <<asked, session, spent>>

Remove(i) ==
  /\ InUse(i)
  /\ conn' = [conn EXCEPT ![i] = Deleted]
  /\ UNCHANGED <<asked, session, spent>>

RemoveAll ==
  /\ conn' = [i \in Ids |-> IF InUse(i) THEN Deleted ELSE conn[i]]
  /\ UNCHANGED <<asked, session, spent>>

Connect(n, s) ==
  /\ s \notin spent
  /\ session' = [session EXCEPT ![n] = s]
  /\ spent' = spent \cup {s}
  /\ UNCHANGED <<conn, asked>>

Disconnect(n) ==
  /\ session[n] # NoRecord
  /\ session' = [session EXCEPT ![n] = NoRecord]
  /\ UNCHANGED <<conn, asked, spent>>

RegistryNext ==
  \/ \E i \in Ids : \E c \in Connection : Check(i, c)
  \/ \E i \in Ids : Add(i) \/ Remove(i)
  \/ \E i \in Ids, t \in Targets, e \in SUBSET Events : Change(i, t, e)
  \/ \E S \in SUBSET Ids : Abandon(S)
  \/ RemoveAll
  \/ \E n \in Communities : Disconnect(n) \/ \E s \in Sessions : Connect(n, s)

RegistrySpec == RegistryInit /\ [][RegistryNext]_registry
=============================================================================

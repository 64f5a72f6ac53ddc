---------------------------- MODULE Repositories ----------------------------
(***************************************************************************)
(* The two MongoDB collections of prisma/schema.prisma and the Prisma      *)
(* operations src/repositories performs on them.                           *)
(*                                                                         *)
(* A Network document is the Microsoft connection of one community.  Each  *)
(* of its fields is abstracted to the OAuth session it came from, so that  *)
(* "all fields belong together" can be stated; Undefined stands for the    *)
(* string "undefined" that String(undefined) yields.                       *)
(*                                                                         *)
(* A Channel document is one connection of a space to a Teams channel.     *)
(* Its triple (spaceIds, teamId, channelId) is one value of Targets.  An   *)
(* ObjectId is never issued twice and a request creates at most one        *)
(* document, so a document is named by the request that created it.        *)
(***************************************************************************)

CONSTANTS
  Networks,   \* Bettermode communities that installed the app
  Requests,   \* HTTP requests the app receives
  Targets,    \* triples (space, team, channel)
  Names,      \* names of the subscription events the app receives
  NoRecord,   \* findUnique's null
  Unused,     \* an ObjectId not issued yet
  Deleted,    \* an ObjectId whose document was deleted
  Earlier,    \* the OAuth session of a community connected at the start
  Undefined,  \* the string "undefined"
  NoOne

\* The events a connection can be switched on for: events.constant.ts.
Toggles == {"post.published", "member.verified", "member_invitation.created",
            "space_join_request.accepted", "space_join_request.created",
            "moderation.created", "moderation.rejected", "moderation.accepted",
            "space_membership.deleted", "space_membership.created"}

Events == Names \cap Toggles

Sessions == Requests \cup {Earlier}

Accounts == Sessions \cup {Undefined}

Record == [session : Sessions, token : Sessions,
           microsoftId : Accounts, tenantId : Accounts]

\* by is history: the request that wrote the document last.
Row == [networkId : Networks, target : Targets, events : SUBSET Events,
        by : Requests]

\* null is no document and no session, and a document is there or it is not.
ASSUME Sentinels ==
  /\ NoRecord \notin Record \cup Row \cup Sessions
  /\ Unused \notin Row /\ Deleted \notin Row /\ Unused # Deleted
  /\ Earlier \notin Requests /\ NoOne \notin Requests
  /\ Undefined \notin Sessions

VARIABLES
  network,    \* the Network collection, by networkId
  channel,    \* the Channel collection, by ObjectId
  remover,    \* history: the request that deleted a Channel document
  swept       \* history: the requests that emptied the Channel collection

db == <<network, channel, remover, swept>>

RecordOf(s) == [session |-> s, token |-> s, microsoftId |-> s, tenantId |-> s]

\* The collections before the first modelled request: no channels, and a
\* community is connected or not.
DatabaseInit ==
  /\ network \in [Networks -> {NoRecord, RecordOf(Earlier)}]
  /\ channel = [i \in Requests |-> Unused]
  /\ remover = [i \in Requests |-> NoOne]
  /\ swept = {}

Connected(n) == network[n] # NoRecord

Stored(i) == channel[i] \notin {Unused, Deleted}

StoredRows == {i \in Requests : Stored(i)}

\* What findMany returns for the rows its filter accepts: each document with
\* its ObjectId.
FindMany(rows) == {<<i, channel[i]>> : i \in rows}

Documents == Requests \X Row

\* Prisma's delete throws on a missing document: callers guard with
\* Connected or Stored and treat the other case as the thrown error.
NetworkDelete(n) ==
  /\ Connected(n)
  /\ network' = [network EXCEPT ![n] = NoRecord]
  /\ UNCHANGED <<channel, remover, swept>>

NetworkUpsert(n, rec) ==
  /\ network' = [network EXCEPT ![n] = rec]
  /\ UNCHANGED <<channel, remover, swept>>

ChannelCreate(i, n, target, events) ==
  /\ channel' = [channel EXCEPT ![i] =
       [networkId |-> n, target |-> target, events |-> events, by |-> i]]
  /\ UNCHANGED <<network, remover, swept>>

\* Bug: an update keeps the events of the document it overwrites.
ChannelRetarget(i, target, events, r) ==
  /\ Stored(i)
  /\ channel' = [channel EXCEPT ![i] =
       [networkId |-> channel[i].networkId, target |-> target,
        events |-> channel[i].events, by |-> r]]
  /\ UNCHANGED <<network, remover, swept>>

\* The data of an update never names networkId.
ChannelUpdate(i, target, events, r) ==
  /\ Stored(i)
  /\ channel' = [channel EXCEPT ![i] =
       [networkId |-> channel[i].networkId, target |-> target,
        events |-> events, by |-> r]]
  /\ UNCHANGED <<network, remover, swept>>

\* Deletion of the documents `gone` by request r.
ChannelsRemoved(gone, r) ==
  /\ channel' = [i \in Requests |-> IF i \in gone THEN Deleted ELSE channel[i]]
  /\ remover' = [i \in Requests |-> IF i \in gone THEN r ELSE remover[i]]
  /\ UNCHANGED network

\* Bug: the documents are deleted by what they connect, not by id.
ChannelDeleteByTarget(i, r) ==
  /\ Stored(i)
  /\ LET same == {j \in StoredRows : channel[j].target = channel[i].target}
     IN ChannelsRemoved(same, r)
  /\ UNCHANGED swept

ChannelDelete(i, r) ==
  /\ Stored(i)
  /\ ChannelsRemoved({i}, r)
  /\ UNCHANGED swept

\* deleteMany() without a `where` empties the collection.
ChannelDeleteMany(r) ==
  /\ ChannelsRemoved(StoredRows, r)
  /\ swept' = swept \cup {r}

DatabaseTypeOK ==
  /\ network \in [Networks -> Record \cup {NoRecord}]
  /\ channel \in [Requests -> Row \cup {Unused, Deleted}]
  /\ remover \in [Requests -> Requests \cup {NoOne}]
  /\ swept \subseteq Requests
=============================================================================

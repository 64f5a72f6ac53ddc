--------------------------- MODULE Subscriptions ---------------------------
(***************************************************************************)
(* Subscription webhooks: handleSubscriptionWebhook and the handlers of    *)
(* src/logics/subscriptions, which look up the connections switched on for *)
(* an event, fetch the entities the message names from Bettermode, and     *)
(* post the message with the channel ids to the Teams bot.                 *)
(*                                                                         *)
(* The handlers of events about a space pass its id as the filter of       *)
(* spaceIds.  schema.prisma declares that field a list, whose filter is an *)
(* object such as {has: <string>}: the client refuses the call, and        *)
(* nothing behind it runs.                                                 *)
(***************************************************************************)
EXTENDS Worker

Posts == {"post.published", "post.updated"}

\* network.updated has a handler of its own; space.created stands for the
\* nouns without a case in handleSubscriptionWebhook.
ASSUME EventsKnown ==
  Names \subseteq Toggles \cup Posts \cup {"network.updated", "space.created"}

VARIABLES
  found,     \* the documents a handler's lookup returned
  posted     \* the documents whose channels the bot was told to notify

notices == <<found, posted>>

NoticesInit ==
  /\ found = [r \in Requests |-> {}]
  /\ posted = [r \in Requests |-> {}]

\* Nouns the switch of handleSubscriptionWebhook passes to a handler that
\* notifies somebody, unless it is an invitation to no space.
Notifies(j) ==
  /\ j.name \in Toggles \cup Posts
  /\ j.name = "member_invitation.created" => j.spaces # {}

\* The handlers that need Bettermode before their lookup: for the member, the
\* inviter, or only the client.
AsksFirst(name) ==
  name \in {"member.verified", "member_invitation.created"} \cup Moderations

\* The first turn: the dispatch on the noun and the handler up to its lookup.
EventStart(r) ==
  /\ pc[r] = "event-start"
  /\ Notifies(job[r])
  /\ Goto(r, "event-lookup")
  /\ UNCHANGED <<db, notices>>

\* The update of handleNetworkUpdatedSubscription names fields the schema does
\* not have: the client refuses it.
EventNetworkUpdated(r) ==
  /\ pc[r] = "event-start"
  /\ job[r].name = "network.updated"
  /\ Answer(r, "unavailable")
  /\ UNCHANGED <<db, notices>>

EventOther(r) ==
  /\ pc[r] = "event-start"
  /\ ~Notifies(job[r]) /\ job[r].name # "network.updated"
  /\ Answer(r, "succeeded")
  /\ UNCHANGED <<db, notices>>

\* Bug: the failure of the lookup is swallowed, as getListOfTeams does.
EventLookupSwallowed(r) ==
  /\ pc[r] = "event-lookup"
  /\ job[r].spaces # {}
  /\ Answer(r, "succeeded")
  /\ UNCHANGED <<db, notices>>

\* The filter of a space: the first of an invitation is as far as it gets.
EventLookupRefused(r) ==
  /\ pc[r] = "event-lookup"
  /\ job[r].spaces # {}
  /\ Answer(r, "unavailable")
  /\ UNCHANGED <<db, notices>>

\* Bug: the filter has lost its networkId.
SwitchedOnAnywhere(r) == {i \in StoredRows : job[r].name \in channel[i].events}

\* Bug: findFirst for findMany.
SwitchedOnFirst(r) ==
  LET on == {i \in StoredRows : channel[i].networkId = job[r].net
                                 /\ job[r].name \in channel[i].events}
  IN IF on = {} THEN {} ELSE {CHOOSE i \in on : TRUE}

\* The connections of the community switched on for the event.
SwitchedOn(r) ==
  {i \in StoredRows : channel[i].networkId = job[r].net
                       /\ job[r].name \in channel[i].events}

\* A verified or a moderated member has no space, and a filter that is
\* undefined is none.  A message for nobody is kept.
EventLookup(r) ==
  /\ pc[r] = "event-lookup"
  /\ job[r].spaces = {}
  /\ found' = [found EXCEPT ![r] = FindMany(SwitchedOn(r))]
  /\ \/ job[r].entityType = "MEMBER" /\ Goto(r, "event-entities")
     \/ /\ job[r].entityType # "MEMBER"
        /\ IF SwitchedOn(r) # {} THEN Goto(r, "event-post")
                                 ELSE Answer(r, "succeeded")
  /\ UNCHANGED <<db, posted>>

\* Whatever a moderation is about, its post is fetched: target.postId of a
\* member is undefined, and Bettermode has no post without an id.
EventEntities(r) ==
  /\ pc[r] = "event-entities"
  /\ Answer(r, "unavailable")
  /\ UNCHANGED <<db, notices>>

EventPost(r) ==
  /\ pc[r] = "event-post"
  /\ posted' = [posted EXCEPT ![r] = found[r]]
  /\ Answer(r, "succeeded")
  /\ UNCHANGED <<db, found>>

\* Any other rejection, of the database, an entity or the bot, ends in the
\* catch of handleSubscriptionWebhook like those.
EventFails(r) ==
  /\ \/ /\ pc[r] = "event-start" /\ "bettermode" \in Faults
        /\ AsksFirst(job[r].name)
     \/ pc[r] = "event-lookup" /\ "db" \in Faults
     \/ pc[r] = "event-post" /\ "bot" \in Faults
  /\ Answer(r, "unavailable")
  /\ UNCHANGED <<db, notices>>

HandleSubscriptionWebhook(r) ==
  \/ EventStart(r) \/ EventNetworkUpdated(r) \/ EventOther(r)
  \/ EventLookupRefused(r) \/ EventLookup(r)
  \/ EventEntities(r) \/ EventPost(r) \/ EventFails(r)

NoticesTypeOK ==
  /\ found \in [Requests -> SUBSET Documents]
  /\ posted \in [Requests -> SUBSET Documents]
=============================================================================

------------------------------ MODULE Delivery ------------------------------
(***************************************************************************)
(* The app and the Teams bot: sendProactiveMessage posts the channels of   *)
(* the connections an event handler found, or the channel of a new         *)
(* connection, to the bot; the app goes on when the bot has answered, and  *)
(* the bot sends the cards while it does.  The installation a save or an   *)
(* update asks Graph for is how Teams comes to tell the bot of it.         *)
(***************************************************************************)
EXTENDS TeamsApp, TeamsBot, FiniteSets

CONSTANT ChannelOf    \* the channel of a target

ASSUME ChannelsKnown == ChannelOf \in [Targets -> Channels]

DeliveryVars == <<vars, bot>>

DeliveryInit == Init /\ BotInit

\* How often channelIds names a channel: a duplicate is named twice.
EventChannels(r) ==
  [c \in Channels |->
     Cardinality({d \in found[r] : ChannelOf[d[2].target] = c})]

WelcomeChannels(r) ==
  [c \in Channels |-> IF c = ChannelOf[job[r].target] THEN 1 ELSE 0]

PostEvent(r) ==
  /\ pc[r] = "event-post"
  /\ BotReceive(r, job[r].name, EventChannels(r))

PostWelcome(r) ==
  /\ task[r] = "welcome"
  /\ BotReceive(r, "welcome", WelcomeChannels(r))

SendProactiveMessage(r) == (PostEvent(r) \/ PostWelcome(r)) /\ UNCHANGED vars

\* installingBotTeams; an error status of Graph is swallowed.
Installs(r) ==
  /\ pc[r] \in {"save-install", "update-install"}
  /\ reply'[r] \in {"saved", "updated"}

\* axios.post resolves with the answer of the bot.
HandleAnswered(r) ==
  /\ Handle(r)
  /\ EventPost(r) => Heard(r)
  /\ \/ Installs(r) /\ InstallIn(ChannelOf[job[r].target])
     \/ (~Installs(r) \/ "graph" \in Faults) /\ UNCHANGED bot

BackgroundAnswered(r) ==
  /\ Background(r)
  /\ task[r] = "welcome" => Heard(r) \/ WelcomeRejected(r)
  /\ UNCHANGED bot

Deliver(r) == HttpTrigger(r) /\ UNCHANGED vars

DeliveryNext ==
  \/ \E r \in Requests :
       \/ Arrive(r) /\ UNCHANGED bot
       \/ HandleAnswered(r)
       \/ BackgroundAnswered(r)
       \/ SendProactiveMessage(r)
       \/ Deliver(r)
  \/ \E i \in Installations : MessageHandler(i) /\ UNCHANGED vars
  \/ \E w \in Workers : Lose(w) /\ UNCHANGED bot
  \/ BotDies /\ UNCHANGED vars
  \/ Quiet /\ UNCHANGED bot

DeliverySpec == DeliveryInit /\ [][DeliveryNext]_DeliveryVars

\* The event loops of the workers and of the bot, and the connection between
\* them while the bot is up.
FairDelivery ==
  /\ DeliverySpec
  /\ \A r \in Requests :
       /\ WF_DeliveryVars(HandleAnswered(r))
       /\ WF_DeliveryVars(BackgroundAnswered(r))
       /\ WF_DeliveryVars(SendProactiveMessage(r))
       /\ WF_DeliveryVars(Deliver(r))

-----------------------------------------------------------------------------
(* Safety *)

\* A channel gets one card for one event or new connection, also when racing
\* saves have connected it twice and the app names it twice.
OneCardPerChannel ==
  \A r \in Requests : \A c \in Channels : cards[r][c] + sending[r][c] <= 1

\* A channel hears of an event only when a save or an update of the community
\* of the event named that channel and switched the event on, and it is
\* welcomed only by the save that named it.
CardsForSubscribers ==
  \A r \in Requests : \A c \in Channels : cards[r][c] > 0 =>
    \E w \in Requests :
      /\ job[w].kind \in {"save", "update"} /\ job[w].net = job[r].net
      /\ ChannelOf[job[w].target] = c
      /\ job[r].kind = "event" => job[r].name \in job[w].events
      /\ job[r].kind # "event" => w = r

\* While Teams accepts the cards, an event answered as succeeded reaches every
\* connection it concerns whose channel the bot is told about by Teams: a card
\* is there, on its way, or the bot has not asked for that channel yet.
EventReachesSubscribers ==
  "teams" \notin Faults =>
    \A r \in Requests : job[r].kind = "event" /\ reply[r] = "succeeded" =>
      \A d \in Concerned(r), i \in stored :
        LET c == ChannelOf[channel[d].target] IN
        c \in ChannelsOf[i] =>
          \/ stage[r] = "installations" \/ i \in pending[r]
          \/ cards[r][c] + sending[r][c] = 1

-----------------------------------------------------------------------------
(* Liveness *)

\* The bot comes to an end with every message it has accepted.
EveryCallSettles == \A r \in Requests : Heard(r) ~> ~Busy(r)

-----------------------------------------------------------------------------
(* What a text of the program says and the code does not keep. *)

\* "Notifications can be sent to where the bot is installed": while Teams
\* answers it, the bot that is asked to notify somebody considers every
\* installation it was told of.
ListsWhereInstalled ==
  [][\A r \in Requests :
       stage[r] = "installations" /\ stage'[r] = "channels" =>
         \A i \in Installations : presence[i] = "told" => i \in pending'[r]
    ]_DeliveryVars
=============================================================================

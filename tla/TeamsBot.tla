------------------------------ MODULE TeamsBot ------------------------------
(***************************************************************************)
(* The Teams bot, a function app of its own: httpTrigger answers a POST to *)
(* /api/notification at once and leaves a chain of promises running that   *)
(* lists the installations, the channels of each, and sends a card to the  *)
(* channels asked for.  Nothing catches a rejection: depending on the      *)
(* worker it is logged, or ends the bot with every chain in flight.  The   *)
(* other function of the bot is told where Teams has installed it.         *)
(***************************************************************************)
EXTENDS Worker, Naturals

CONSTANTS
  Channels,        \* Teams channels
  Installations,   \* the teams, groups and persons it may be installed for
  ChannelsOf,      \* the channels Teams reports to the bot for one of them
  StoredAtStart    \* the installations in its storage at the start

\* A channel belongs to one team.
ASSUME InstallationsKnown ==
  /\ ChannelsOf \in [Installations -> SUBSET Channels]
  /\ \A i, j \in Installations : i # j => ChannelsOf[i] \cap ChannelsOf[j] = {}
  /\ StoredAtStart \subseteq Installations

VARIABLES
  call,      \* mode and channelIds of the POST made for a request
  stage,     \* how far its chain of promises is
  pending,   \* the installations whose channels are still to come
  sending,   \* the cards on their way to a channel
  cards,     \* the cards a channel received
  presence,  \* whether Teams has the bot in an installation, and it was told
  stored     \* the installations in the bot's storage

chain == <<call, stage, pending, sending, cards>>

storage == <<presence, stored>>

bot == <<chain, storage>>

BotInit ==
  /\ call = [r \in Requests |-> None]
  /\ stage = [r \in Requests |-> "none"]
  /\ pending = [r \in Requests |-> {}]
  /\ sending = [r \in Requests |-> [c \in Channels |-> 0]]
  /\ cards = [r \in Requests |-> [c \in Channels |-> 0]]
  /\ presence = [i \in Installations |->
                   IF i \in StoredAtStart THEN "told" ELSE "absent"]
  /\ stored = StoredAtStart

-----------------------------------------------------------------------------
\* Graph installs the app in the team of a channel; where it is installed
\* already the error status is swallowed.
InstallIn(c) ==
  /\ presence' = [i \in Installations |->
       IF c \in ChannelsOf[i] /\ presence[i] = "absent"
         THEN "added" ELSE presence[i]]
  /\ UNCHANGED <<chain, stored>>

\* Teams posts the activity to /api/messages, and the handler answers 201: the
\* call of notificationApp.requestHandler, which stores it, is commented out.
MessageHandler(i) ==
  /\ presence[i] = "added"
  /\ presence' = [presence EXCEPT ![i] = "told"]
  /\ UNCHANGED <<chain, stored>>

-----------------------------------------------------------------------------
\* Bug: a mode is missing.
ModesButVerified == (Toggles \cup {"welcome"}) \ {"member.verified"}

\* The modes there is a card for.
Modes == Toggles \cup {"welcome"}

\* asked[c] is how often channelIds names c.  The answer 200 leaves with this
\* turn.
BotReceive(r, mode, asked) ==
  /\ stage[r] = "none"
  /\ call' = [call EXCEPT ![r] = [mode |-> mode, asked |-> asked]]
  /\ stage' = [stage EXCEPT ![r] = "installations"]
  /\ UNCHANGED <<pending, sending, cards, storage>>

BotInstallations(r) ==
  /\ stage[r] = "installations"
  /\ stage' = [stage EXCEPT ![r] = "channels"]
  /\ pending' = [pending EXCEPT ![r] = stored]
  /\ UNCHANGED <<call, sending, cards, storage>>

\* Bug: every channel gets the card.
CalledAnybody(r, c) == call[r].mode \in Modes

\* channelIds.includes, and a case of the switch on the mode.
Called(r, c) == call[r].asked[c] > 0 /\ call[r].mode \in Modes

\* Bug: one card for each time a channel is named.
BotChannelsEach(r) ==
  /\ \E i \in pending[r] :
       /\ pending' = [pending EXCEPT ![r] = @ \ {i}]
       /\ sending' = [sending EXCEPT ![r] =
            [c \in Channels |-> IF c \in ChannelsOf[i] /\ Called(r, c)
                                  THEN @[c] + call[r].asked[c] ELSE @[c]]]
  /\ UNCHANGED <<call, stage, cards, storage>>

BotChannels(r) ==
  /\ \E i \in pending[r] :
       /\ pending' = [pending EXCEPT ![r] = @ \ {i}]
       /\ sending' = [sending EXCEPT ![r] =
            [c \in Channels |-> IF c \in ChannelsOf[i] /\ Called(r, c)
                                  THEN @[c] + 1 ELSE @[c]]]
  /\ UNCHANGED <<call, stage, cards, storage>>

BotCard(r) ==
  /\ \E c \in Channels :
       /\ sending[r][c] > 0
       /\ sending' = [sending EXCEPT ![r][c] = @ - 1]
       /\ cards' = [cards EXCEPT ![r][c] = @ + 1]
  /\ UNCHANGED <<call, stage, pending, storage>>

-----------------------------------------------------------------------------
(* Rejections, of which the worker makes a log entry or its end. *)

BotInstallationsFails(r) ==
  /\ stage[r] = "installations" /\ "teams" \in Faults
  /\ stage' = [stage EXCEPT ![r] = "channels"]
  /\ UNCHANGED <<call, pending, sending, cards, storage>>

\* Bug: a rejection starts the chain over while no card is on its way.
BotChannelsStartsOver(r) ==
  /\ "teams" \in Faults /\ pending[r] # {}
  /\ \A c \in Channels : sending[r][c] = 0 /\ cards[r][c] = 0
  /\ stage' = [stage EXCEPT ![r] = "installations"]
  /\ pending' = [pending EXCEPT ![r] = {}]
  /\ UNCHANGED <<call, sending, cards, storage>>

BotChannelsFails(r) ==
  /\ "teams" \in Faults
  /\ \E i \in pending[r] : pending' = [pending EXCEPT ![r] = @ \ {i}]
  /\ UNCHANGED <<call, stage, sending, cards, storage>>

BotCardFails(r) ==
  /\ "teams" \in Faults
  /\ \E c \in Channels :
       /\ sending[r][c] > 0
       /\ sending' = [sending EXCEPT ![r][c] = @ - 1]
  /\ UNCHANGED <<call, stage, pending, cards, storage>>

Heard(r) == stage[r] # "none"

\* A promise of the chain has not settled.
Busy(r) ==
  \/ stage[r] = "installations"
  \/ pending[r] # {}
  \/ \E c \in Channels : sending[r][c] > 0

BotDies ==
  /\ "teams" \in Faults
  /\ \E r \in Requests : Busy(r)
  /\ stage' = [r \in Requests |-> IF Busy(r) THEN "lost" ELSE stage[r]]
  /\ pending' = [r \in Requests |-> {}]
  /\ sending' = [r \in Requests |-> [c \in Channels |-> 0]]
  /\ UNCHANGED <<call, cards, storage>>

HttpTrigger(r) ==
  \/ BotInstallations(r) \/ BotInstallationsFails(r)
  \/ BotChannels(r) \/ BotChannelsFails(r)
  \/ BotCard(r) \/ BotCardFails(r)

BotTypeOK ==
  /\ stage \in [Requests -> {"none", "installations", "channels", "lost"}]
  /\ pending \in [Requests -> SUBSET Installations]
  /\ sending \in [Requests -> [Channels -> Nat]]
  /\ cards \in [Requests -> [Channels -> Nat]]
  /\ presence \in [Installations -> {"absent", "added", "told"}]
  /\ stored \subseteq Installations
=============================================================================

--------------------------- MODULE DeliveryProofs ---------------------------
(***************************************************************************)
(* Proofs about Delivery: it implements TeamsApp, so that what is proved   *)
(* of the app holds beside the bot; the bot sends no card twice, none to a *)
(* channel nobody subscribed, and none is missed.                          *)
(***************************************************************************)
EXTENDS Delivery, NoticesProofs

\* Every step of the app and the bot is one of the app, or leaves it alone.
LEMMA StepImplements == [DeliveryNext]_DeliveryVars => [Next]_vars
<1> SUFFICES ASSUME [DeliveryNext]_DeliveryVars
             PROVE  [Next]_vars
  OBVIOUS
<1>1. ASSUME NEW r \in Requests,
             Arrive(r) \/ HandleAnswered(r) \/ BackgroundAnswered(r)
      PROVE  Next
  BY <1>1 DEF Next, HandleAnswered, BackgroundAnswered
<1>2. ASSUME NEW r \in Requests, SendProactiveMessage(r) \/ Deliver(r)
      PROVE  UNCHANGED vars
  BY <1>2 DEF SendProactiveMessage, Deliver
<1>3. ASSUME NEW w \in Workers, Lose(w)
      PROVE  Next
  BY <1>3 DEF Next
<1>4. CASE Quiet
  BY <1>4 DEF Next
<1>5. CASE UNCHANGED DeliveryVars
  BY <1>5 DEF DeliveryVars
<1> QED BY <1>1, <1>2, <1>3, <1>4, <1>5 DEF DeliveryNext

\* The app with the bot implements the app alone, which does not know when
\* the bot answers.
THEOREM Implements == DeliverySpec => Spec
<1>1. DeliveryInit => Init
  BY DEF DeliveryInit
<1> QED BY <1>1, StepImplements, PTL DEF DeliverySpec, Spec

\* What holds of the app holds of it beside the bot.
THEOREM DeliveryInvariance == DeliverySpec => []IInv
BY Implements, Invariance, PTL

-----------------------------------------------------------------------------
(* One card per channel *)

\* Before its channels are listed a message has no card, and a channel of an
\* installation still to come has none.
NotYet ==
  \A r \in Requests :
    /\ stage[r] \in {"none", "installations"} =>
         /\ pending[r] = {}
         /\ \A c \in Channels : cards[r][c] = 0 /\ sending[r][c] = 0
    /\ \A i \in pending[r] : \A c \in ChannelsOf[i] :
         cards[r][c] = 0 /\ sending[r][c] = 0

CardInv == BotTypeOK /\ NotYet /\ OneCardPerChannel

\* No card has been sent at the start.
LEMMA CardsInit == DeliveryInit => CardInv
BY InstallationsKnown
   DEF DeliveryInit, BotInit, CardInv, BotTypeOK, NotYet, OneCardPerChannel

\* A message accepted, and its installations listed: no card yet.
LEMMA ListingStep ==
  ASSUME CardInv, NEW r \in Requests, NEW m, NEW a,
         BotReceive(r, m, a) \/ BotInstallations(r) \/ BotInstallationsFails(r)
  PROVE  CardInv'
<1> USE DEF CardInv, BotReceive, BotInstallations, BotInstallationsFails,
            storage
<1>1. BotTypeOK'
  BY DEF BotTypeOK
<1>2. \A c \in Channels : cards[r][c] = 0 /\ sending[r][c] = 0
  BY DEF NotYet
<1>3. /\ \A s \in Requests : s # r =>
           stage'[s] = stage[s] /\ pending'[s] = pending[s]
      /\ stage'[r] \in {"none", "installations"} => pending'[r] = {}
      /\ pending'[r] \subseteq Installations
      /\ UNCHANGED <<cards, sending>>
  BY DEF BotTypeOK, NotYet
<1>4. \A i \in Installations : ChannelsOf[i] \subseteq Channels
  BY InstallationsKnown
<1>5. NotYet'
  BY <1>2, <1>3, <1>4 DEF NotYet
<1>6. OneCardPerChannel'
  BY <1>3 DEF OneCardPerChannel
<1> QED BY <1>1, <1>5, <1>6

\* The channels of one installation: none of them has a card, and none is a
\* channel of another installation.
LEMMA ChannelsStep ==
  ASSUME CardInv, NEW r \in Requests, BotChannels(r) \/ BotChannelsFails(r)
  PROVE  CardInv'
<1> USE DEF CardInv
<1>1. CASE BotChannels(r)
  <2>1. PICK i \in pending[r] :
          /\ pending' = [pending EXCEPT ![r] = @ \ {i}]
          /\ sending' = [sending EXCEPT ![r] =
               [c \in Channels |-> IF c \in ChannelsOf[i] /\ Called(r, c)
                                     THEN @[c] + 1 ELSE @[c]]]
    BY <1>1 DEF BotChannels
  <2>2. UNCHANGED <<call, stage, cards, storage>>
    BY <1>1 DEF BotChannels
  <2>3. \A c \in Channels :
          sending'[r][c] = IF c \in ChannelsOf[i] /\ Called(r, c)
                             THEN sending[r][c] + 1 ELSE sending[r][c]
    BY <2>1 DEF BotTypeOK
  <2>4. \A s \in Requests : s # r =>
          sending'[s] = sending[s] /\ pending'[s] = pending[s]
    BY <2>1 DEF BotTypeOK
  <2>5. BotTypeOK'
    BY <2>1, <2>2, <2>3 DEF BotTypeOK, storage
  <2>6. \A c \in ChannelsOf[i] : cards[r][c] = 0 /\ sending[r][c] = 0
    BY <2>1 DEF NotYet
  <2>7. pending'[r] = pending[r] \ {i} /\ pending[r] \subseteq Installations
    BY <2>1 DEF BotTypeOK
  <2>8. stage[r] \notin {"none", "installations"}
    BY <2>1 DEF NotYet
  <2>9. \A j \in pending'[r] : \A c \in ChannelsOf[j] :
          c \in Channels /\ c \notin ChannelsOf[i]
    BY <2>1, <2>7, InstallationsKnown
  <2>10. \A j \in pending'[r] : \A c \in ChannelsOf[j] :
           cards'[r][c] = 0 /\ sending'[r][c] = 0
    BY <2>2, <2>3, <2>7, <2>9 DEF NotYet
  <2>11. NotYet'
    BY <2>2, <2>4, <2>8, <2>10 DEF NotYet
  <2>12. \A c \in Channels : cards'[r][c] + sending'[r][c] <= 1
    <3> SUFFICES ASSUME NEW c \in Channels
                 PROVE  cards'[r][c] + sending'[r][c] <= 1
      OBVIOUS
    <3>1. CASE c \in ChannelsOf[i]
      <4>1. cards'[r][c] = 0 /\ sending[r][c] = 0
        BY <2>2, <2>6, <3>1
      <4>2. sending'[r][c] \in {0, 1}
        BY <2>3, <4>1
      <4> QED BY <4>1, <4>2
    <3>2. CASE c \notin ChannelsOf[i]
      BY <2>2, <2>3, <3>2 DEF OneCardPerChannel
    <3> QED BY <3>1, <3>2
  <2>13. OneCardPerChannel'
    BY <2>2, <2>4, <2>12 DEF OneCardPerChannel
  <2> QED BY <2>5, <2>11, <2>13
<1>2. CASE BotChannelsFails(r)
  BY <1>2 DEF BotChannelsFails, storage, BotTypeOK, NotYet, OneCardPerChannel
<1> QED BY <1>1, <1>2

\* A card arrives, or is lost.
LEMMA CardStep ==
  ASSUME CardInv, NEW r \in Requests, BotCard(r) \/ BotCardFails(r)
  PROVE  CardInv'
<1> USE DEF CardInv
<1>1. PICK c \in Channels :
        /\ sending[r][c] > 0
        /\ sending' = [sending EXCEPT ![r][c] = @ - 1]
        /\ cards' = cards \/ cards' = [cards EXCEPT ![r][c] = @ + 1]
  <2>1. CASE BotCard(r)
    BY <2>1 DEF BotCard
  <2>2. CASE BotCardFails(r)
    BY <2>2 DEF BotCardFails
  <2> QED BY <2>1, <2>2
<1>2. UNCHANGED <<call, stage, pending, storage>>
  BY DEF BotCard, BotCardFails
<1>3. BotTypeOK'
  <2>1. sending[r] \in [Channels -> Nat] /\ cards[r] \in [Channels -> Nat]
    BY DEF BotTypeOK
  <2>2. sending[r][c] - 1 \in Nat /\ cards[r][c] + 1 \in Nat
    BY <1>1, <2>1
  <2>3. sending' \in [Requests -> [Channels -> Nat]]
    BY <1>1, <2>1, <2>2 DEF BotTypeOK
  <2>4. CASE cards' = cards
    BY <1>2, <2>3, <2>4 DEF BotTypeOK, storage
  <2>5. CASE cards' = [cards EXCEPT ![r][c] = @ + 1]
    <3>1. cards' \in [Requests -> [Channels -> Nat]]
      BY <2>5, <2>1, <2>2 DEF BotTypeOK
    <3> QED BY <1>2, <2>3, <3>1 DEF BotTypeOK, storage
  <2> QED BY <1>1, <2>4, <2>5
<1>4. \A s \in Requests : \A d \in Channels :
        s # r \/ d # c =>
          sending'[s][d] = sending[s][d] /\ cards'[s][d] = cards[s][d]
  BY <1>1 DEF BotTypeOK
<1>5. /\ sending'[r][c] = sending[r][c] - 1
      /\ cards'[r][c] \in {cards[r][c], cards[r][c] + 1}
  BY <1>1 DEF BotTypeOK
<1>6. /\ stage[r] \notin {"none", "installations"}
      /\ \A i \in pending[r] : c \notin ChannelsOf[i]
  BY <1>1 DEF NotYet, BotTypeOK
<1>7. \A s \in Requests : \A i \in pending[s] : ChannelsOf[i] \subseteq Channels
  BY InstallationsKnown DEF BotTypeOK
<1>8. NotYet'
  <2>1. \A s \in Requests : stage[s] \in {"none", "installations"} =>
          /\ pending[s] = {}
          /\ \A d \in Channels : cards'[s][d] = 0 /\ sending'[s][d] = 0
    BY <1>4, <1>6 DEF NotYet
  <2>2. \A s \in Requests : \A i \in pending[s] : \A d \in ChannelsOf[i] :
          cards'[s][d] = 0 /\ sending'[s][d] = 0
    BY <1>4, <1>6, <1>7 DEF NotYet
  <2> QED BY <1>2, <2>1, <2>2 DEF NotYet
<1>9. OneCardPerChannel'
  <2>1. cards'[r][c] + sending'[r][c] <= 1
    BY <1>1, <1>5 DEF OneCardPerChannel, BotTypeOK
  <2> QED BY <1>4, <2>1 DEF OneCardPerChannel
<1> QED BY <1>3, <1>8, <1>9

\* The bot dies with the cards on their way.
LEMMA DeathStep ==
  ASSUME CardInv, BotDies
  PROVE  CardInv'
<1> USE DEF CardInv, BotDies, storage
<1>1. BotTypeOK'
  BY DEF BotTypeOK
<1>2. NotYet'
  BY DEF NotYet, BotTypeOK
<1>3. OneCardPerChannel'
  BY DEF OneCardPerChannel, BotTypeOK
<1> QED BY <1>1, <1>2, <1>3

\* Where the bot is installed does not concern the messages it has accepted.
LEMMA PresenceStep ==
  ASSUME CardInv, UNCHANGED <<chain, stored>>,
         presence' \in [Installations -> {"absent", "added", "told"}]
  PROVE  CardInv'
BY DEF CardInv, chain, BotTypeOK, NotYet, OneCardPerChannel

\* Every step keeps the invariant of the cards.
LEMMA CardsInductive == CardInv /\ [DeliveryNext]_DeliveryVars => CardInv'
<1> SUFFICES ASSUME CardInv, [DeliveryNext]_DeliveryVars
             PROVE  CardInv'
  OBVIOUS
<1>1. CASE UNCHANGED bot
  BY <1>1 DEF CardInv, bot, chain, storage, BotTypeOK, NotYet, OneCardPerChannel
<1>2. ASSUME NEW r \in Requests, SendProactiveMessage(r)
      PROVE  CardInv'
  BY <1>2, ListingStep DEF SendProactiveMessage, PostEvent, PostWelcome
<1>3. ASSUME NEW r \in Requests, Deliver(r)
      PROVE  CardInv'
  BY <1>3, ListingStep, ChannelsStep, CardStep DEF Deliver, HttpTrigger
<1>4. CASE BotDies
  BY <1>4, DeathStep
<1>5. ASSUME NEW i \in Installations, MessageHandler(i)
      PROVE  CardInv'
  BY <1>5, PresenceStep DEF MessageHandler, CardInv, BotTypeOK
<1>6. ASSUME NEW c, InstallIn(c)
      PROVE  CardInv'
  BY <1>6, PresenceStep DEF InstallIn, CardInv, BotTypeOK
<1> QED BY <1>1, <1>2, <1>3, <1>4, <1>5, <1>6
      DEF DeliveryNext, DeliveryVars, HandleAnswered, BackgroundAnswered

\* No channel gets a second card for one event or connection, however often
\* the app names it.
THEOREM OneCard == DeliverySpec => []OneCardPerChannel
<1>1. CardInv => OneCardPerChannel
  BY DEF CardInv
<1> QED BY <1>1, CardsInit, CardsInductive, PTL DEF DeliverySpec

-----------------------------------------------------------------------------
(* What the app has told the bot *)

\* Only a save leaves a welcome to be sent.
WelcomesOfSaves ==
  \A r \in Requests : task[r] = "welcome" => job[r].kind = "save"

\* What a lookup returns has an end.
FiniteLookups ==
  /\ IsFiniteSet(StoredRows)
  /\ \A r \in Requests : IsFiniteSet(found[r] \cup posted[r])

\* The bot was told of the channels the handler of an event has found and of
\* no others, or of the channel of a save.
CallsMade ==
  /\ DOMAIN call = Requests
  /\ \A r \in Requests : stage[r] # "none" =>
       \/ /\ job[r].kind = "event" /\ pc[r] \in {"event-post", "done", "lost"}
          /\ call[r] = [mode |-> job[r].name, asked |-> EventChannels(r)]
       \/ /\ job[r].kind = "save" /\ pc[r] # "idle"
          /\ call[r] = [mode |-> "welcome", asked |-> WelcomeChannels(r)]

\* What counts as notified, the bot has heard of.
PostsHeard ==
  \A r \in Requests : posted[r] # {} =>
    /\ stage[r] # "none" /\ Ended(r) /\ job[r].kind = "event"
    /\ posted[r] \subseteq found[r]

\* A card is sent where the bot was asked to send one.
SentAsCalled ==
  \A r \in Requests : \A c \in Channels :
    cards[r][c] + sending[r][c] > 0 => stage[r] # "none" /\ Called(r, c)

\* While Teams answers, no channel the bot was asked for is left out.
NoneLeftOut ==
  "teams" \notin Faults =>
    \A r \in Requests :
      /\ stage[r] # "lost"
      /\ stage[r] = "channels" =>
           \A i \in stored : \A c \in ChannelsOf[i] :
             \/ i \in pending[r]
             \/ Called(r, c) => cards[r][c] + sending[r][c] = 1

CallInv ==
  /\ WelcomesOfSaves /\ FiniteLookups /\ CallsMade
  /\ PostsHeard /\ SentAsCalled /\ NoneLeftOut

\* Nothing is left to do but the welcome of a save that runs now.
LEMMA TaskMoves ==
  ASSUME IInv, [Next]_vars, NEW s \in Requests, task'[s] = "welcome"
  PROVE  task[s] = "welcome" \/ SaveInstall(s)
<1> USE DEF IInv, TypeOK, WorkersTypeOK
<1> DEFINE Untouched == task' = task
<1>1. ASSUME NEW r \in Requests, Arrive(r)
      PROVE  Untouched
  BY <1>1 DEF Arrive, Receive, Accept
<1>2. ASSUME NEW r \in Requests, Settings(r)
      PROVE  Untouched \/ SaveInstall(r)
  BY <1>2 DEF Settings, SettingsCallback, HandleSaveButtonClick, SaveRead,
     SaveReadFails, SaveCreate, SaveCreateFails, SaveUser,
     SaveInstallFails, HandleUpdateButtonClick, UpdateWrite,
     UpdateWriteFails, UpdateUser, UpdateInstall, UpdateInstallFails,
     HandleDeleteBlockConfirmation, DeleteRow, DeleteRowFails,
     GetAuthRevokeCallbackResponse, RevokeNetwork, RevokeNetworkFails,
     RevokeChannels, RevokeChannelsFails, Goto, Answer
<1>3. ASSUME NEW r \in Requests, Page(r) \/ Form(r)
      PROVE  Untouched
  BY <1>3 DEF Page, GetNetworkSettings, PageNetwork, PageChannels,
     PageChildren, PageChildrenEmpty, PageReadFails, PageTeams,
     PageTeamsFails, Form, SettingsForm, EditRow, FormNetwork,
     FormReadFails, OpenGraph, EditGraph, RefetchGraph, RefetchRow,
     RefetchRowGone, FormGraphFails, AuthRedirect, Goto, Answer
<1>4. ASSUME NEW r \in Requests, Lifecycle(r) \/ Notify(r) \/ Other(r)
      PROVE  Untouched
  BY <1>4 DEF Lifecycle, InstallationWebhook, HandleInstalledWebhook,
     HandleUninstalledWebhook, InstallDelete, InstallCreate,
     UninstallDelete, UninstallDeleteFails, Notify,
     HandleSubscriptionWebhook, EventStart, EventNetworkUpdated, EventOther,
     EventLookupRefused, EventLookup, EventEntities, EventPost, EventFails,
     Other, OtherRequest, OpenDialog, Constant, NotSupported, FavoritePosts,
     MarkAsFavorite, BettermodeTokens, Refused, Goto, Answer
<1>5. ASSUME NEW w, Crash(w)
      PROVE  task'[s] \in {task[s], "none"}
  BY <1>5 DEF Crash
<1>6. ASSUME NEW r \in Requests, OAuth(r)
      PROVE  task'[s] \in {task[s], "none", "refresh"}
  <2>1. CASE ConnectTenantFails(r)
    BY <2>1 DEF ConnectTenantFails, GotoLeaving
  <2>2. CASE ~ConnectTenantFails(r)
    BY <1>5, <1>6, <2>2 DEF OAuth, ConnectToMicrosoft, Authorize,
       ConnectState, ConnectStateExpired, ConnectCodeRefused, ConnectMe,
       ConnectTenant, ConnectInstall, ConnectInstallFails, ConnectUpsert,
       ConnectUpsertFails, Goto, Answer
  <2> QED BY <2>1, <2>2
<1>7. ASSUME NEW r \in Requests, Background(r)
      PROVE  task'[s] \in {task[s], "none"}
  BY <1>5, <1>7 DEF Background, Welcome, WelcomeSent, WelcomeRejected,
     TaskRejected, RefreshTokenClient, RefreshUpdate, RefreshUpdateRejected, TaskOver
<1>8. ASSUME NEW w \in Workers, Lose(w)
      PROVE  task'[s] \in {task[s], "none"}
  BY <1>5, <1>8 DEF Lose, Restart
<1>9. CASE UNCHANGED vars
  BY <1>9 DEF vars, procs
<1>10. ASSUME NEW r \in Requests, SaveInstall(r)
       PROVE  r = s \/ task'[s] = task[s]
  BY <1>10 DEF SaveInstall, AnswerLeaving
<1> QED BY <1>1, <1>2, <1>3, <1>4, <1>6, <1>7, <1>8, <1>9, <1>10
        DEF Next, Handle, Quiet

\* Welcomes stay those of saves.
LEMMA WelcomesStep ==
  ASSUME IInv, WelcomesOfSaves, [Next]_vars
  PROVE  WelcomesOfSaves'
<1> USE DEF IInv, TypeOK
<1> SUFFICES ASSUME NEW s \in Requests, task'[s] = "welcome"
             PROVE  job'[s].kind = "save"
  BY DEF WelcomesOfSaves
<1>1. pc[s] # "idle" /\ job[s].kind = "save"
  <2>1. CASE task[s] = "welcome"
    BY <2>1 DEF WelcomesOfSaves, JobAtLabel
  <2>2. CASE SaveInstall(s)
    <3>1. pc[s] = "save-install"
      BY <2>2 DEF SaveInstall
    <3> QED BY <3>1, AtLabel DEF InFlight, Labels, SaveLabels
  <2> QED BY <2>1, <2>2, TaskMoves
<1> QED BY <1>1, Fixed

\* Lookups stay finite.
LEMMA FiniteStep ==
  ASSUME IInv, FiniteLookups, [Next]_vars
  PROVE  FiniteLookups'
<1> USE DEF IInv, TypeOK, FiniteLookups
<1>1. IsFiniteSet(StoredRows')
  BY RowsStayFinite
<1>2. ASSUME NEW s \in Requests
      PROVE  IsFiniteSet(found'[s] \cup posted'[s])
  <2>1. CASE Waits(s) \/ Arrives(s)
    BY <2>1 DEF Waits, Arrives, SameLocals
  <2>2. CASE Runs(s)
    <3>1. IsFiniteSet(FindMany(SwitchedOn(s)))
      <4>1. IsFiniteSet(SwitchedOn(s))
        BY FS_Subset DEF SwitchedOn
      <4> QED BY <4>1, LookupsAreFinite
    <3>2. found'[s] \cup posted'[s]
            \subseteq (found[s] \cup posted[s]) \cup FindMany(SwitchedOn(s))
      BY <2>2, FoundMoves
    <3> QED BY <3>1, <3>2, FS_Union, FS_Subset
  <2> QED BY <2>1, <2>2, EachRequest
<1> QED BY <1>1, <1>2

-----------------------------------------------------------------------------
(* A step, as one call sees it *)

SameCall(r) ==
  /\ call'[r] = call[r] /\ stage'[r] = stage[r]
  /\ pending'[r] = pending[r] /\ sending'[r] = sending[r]
  /\ cards'[r] = cards[r]

\* The bot lets a call be, accepts it, works on it, or dies.
LEMMA EachCall ==
  ASSUME BotTypeOK, DOMAIN call = Requests, [DeliveryNext]_DeliveryVars,
         NEW r \in Requests
  PROVE  /\ stored' = stored
         /\ DOMAIN call' = Requests
         /\ \/ SameCall(r) \/ BotDies
            \/ SendProactiveMessage(r) \/ Deliver(r)
<1> USE DEF BotTypeOK, SameCall
<1>1. CASE UNCHANGED <<chain, stored>>
  BY <1>1 DEF chain
<1>2. ASSUME NEW s \in Requests, SendProactiveMessage(s)
      PROVE  /\ stored' = stored /\ DOMAIN call' = Requests
             /\ s = r \/ SameCall(r)
  BY <1>2 DEF SendProactiveMessage, PostEvent, PostWelcome, BotReceive,
     storage
<1>3. ASSUME NEW s \in Requests, Deliver(s)
      PROVE  /\ stored' = stored /\ DOMAIN call' = Requests
             /\ s = r \/ SameCall(r)
  <2>1. UNCHANGED <<call, storage>>
    BY <1>3 DEF Deliver, HttpTrigger, BotInstallations,
       BotInstallationsFails, BotChannels, BotChannelsFails, BotCard,
       BotCardFails
  <2>2. s # r => SameCall(r)
    BY <1>3, <2>1 DEF Deliver, HttpTrigger, BotInstallations,
       BotInstallationsFails, BotChannels, BotChannelsFails, BotCard,
       BotCardFails
  <2> QED BY <2>1, <2>2 DEF storage
<1>4. CASE BotDies
  BY <1>4 DEF BotDies, storage
<1>5. UNCHANGED bot => UNCHANGED <<chain, stored>>
  BY DEF bot, storage
<1>6. ASSUME NEW c, InstallIn(c) \/ MessageHandler(c)
      PROVE  UNCHANGED <<chain, stored>>
  BY <1>6 DEF InstallIn, MessageHandler
<1> QED BY <1>1, <1>2, <1>3, <1>4, <1>5, <1>6
        DEF DeliveryNext, DeliveryVars, HandleAnswered, BackgroundAnswered

\* The bot hears of a request by the message the app sends for it, and what it
\* was told stays.
LEMMA CallMoves ==
  ASSUME CardInv, DOMAIN call = Requests, [DeliveryNext]_DeliveryVars,
         NEW r \in Requests
  PROVE  /\ stage[r] # "none" => stage'[r] # "none" /\ call'[r] = call[r]
         /\ stage[r] = "none" /\ stage'[r] # "none" =>
              SendProactiveMessage(r)
<1> USE DEF CardInv, BotTypeOK
<1>1. stage[r] = "none" => ~Busy(r)
  BY DEF NotYet, Busy
<1>2. CASE SameCall(r)
  BY <1>2 DEF SameCall
<1>3. CASE BotDies
  BY <1>1, <1>3 DEF BotDies
<1>4. CASE SendProactiveMessage(r)
  BY <1>4 DEF SendProactiveMessage, PostEvent, PostWelcome, BotReceive
<1>5. CASE Deliver(r)
  <2>1. Busy(r)
    BY <1>5 DEF Deliver, HttpTrigger, BotInstallations,
       BotInstallationsFails, BotChannels, BotChannelsFails, BotCard,
       BotCardFails, Busy
  <2>2. call' = call /\ stage'[r] \in {stage[r], "channels"}
    BY <1>5 DEF Deliver, HttpTrigger, BotInstallations,
       BotInstallationsFails, BotChannels, BotChannelsFails, BotCard,
       BotCardFails
  <2> QED BY <1>1, <2>1, <2>2
<1> QED BY <1>2, <1>3, <1>4, <1>5, EachCall

\* What an event has found when it comes to be posted it keeps.
LEMMA FoundStays ==
  ASSUME IInv, [Next]_vars, NEW r \in Requests, job[r].kind = "event",
         pc[r] \in {"event-post", "done", "lost"}
  PROVE  /\ found'[r] = found[r] /\ job'[r] = job[r]
         /\ pc'[r] \in {"event-post", "done", "lost"}
<1> USE DEF IInv, TypeOK, WorkersTypeOK
<1>1. job'[r] = job[r] /\ (Waits(r) \/ (Runs(r) /\ pc[r] = "event-post"))
  BY Fixed DEF Ended
<1>2. CASE Waits(r)
  BY <1>1, <1>2 DEF Waits, SameLocals
<1>3. CASE Runs(r) /\ pc[r] = "event-post"
  <2>1. EventPost(r) \/ EventFails(r)
    BY <1>3, NoticeRuns
       DEF HandleSubscriptionWebhook, EventStart, EventNetworkUpdated,
           EventOther, EventLookupRefused, EventLookup, EventEntities
  <2> QED BY <1>1, <2>1 DEF EventPost, EventFails, Answer, notices
<1> QED BY <1>1, <1>2, <1>3

\* The bot was told the truth.
LEMMA CallsMadeStep ==
  ASSUME IInv, CardInv, WelcomesOfSaves, CallsMade,
         [DeliveryNext]_DeliveryVars
  PROVE  CallsMade'
<1> USE DEF IInv, TypeOK
<1>1. [Next]_vars
  BY StepImplements
<1>2. DOMAIN call = Requests /\ DOMAIN call' = Requests
  <2>1. CASE \E r \in Requests : TRUE
    BY <2>1, EachCall DEF CallsMade, CardInv
  <2>2. CASE ~\E r \in Requests : TRUE
    <3>1. ~BotDies
      BY <2>2 DEF BotDies
    <3>2. UNCHANGED chain
      BY <2>2, <3>1 DEF DeliveryNext, DeliveryVars, bot, MessageHandler
    <3> QED BY <3>2 DEF CallsMade, chain
  <2> QED BY <2>1, <2>2
<1>3. ASSUME NEW r \in Requests, stage'[r] # "none"
      PROVE  \/ /\ job'[r].kind = "event"
                /\ pc'[r] \in {"event-post", "done", "lost"}
                /\ call'[r] = [mode |-> job'[r].name,
                               asked |-> EventChannels(r)']
             \/ /\ job'[r].kind = "save" /\ pc'[r] # "idle"
                /\ call'[r] = [mode |-> "welcome",
                               asked |-> WelcomeChannels(r)']
  <2>1. CASE stage[r] = "none"
    <3>1. SendProactiveMessage(r) /\ UNCHANGED vars
      BY <1>2, <1>3, <2>1, CallMoves DEF SendProactiveMessage
    <3>2. /\ job' = job /\ pc' = pc
          /\ EventChannels(r)' = EventChannels(r)
          /\ WelcomeChannels(r)' = WelcomeChannels(r)
      BY <3>1 DEF vars, procs, notices, EventChannels, WelcomeChannels
    <3>3. CASE PostEvent(r)
      <4>1. pc[r] = "event-post"
        BY <3>3 DEF PostEvent
      <4>2. job[r].kind = "event"
        BY <4>1, AtLabel DEF InFlight, Labels, EventLabels
      <4> QED BY <1>2, <3>2, <3>3, <4>1, <4>2 DEF PostEvent, BotReceive
    <3>4. CASE PostWelcome(r)
      <4>1. job[r].kind = "save" /\ pc[r] # "idle"
        BY <3>4 DEF PostWelcome, WelcomesOfSaves, JobAtLabel
      <4> QED BY <1>2, <3>2, <3>4, <4>1 DEF PostWelcome, BotReceive
    <3> QED BY <3>1, <3>3, <3>4 DEF SendProactiveMessage
  <2>2. CASE stage[r] # "none"
    <3>1. call'[r] = call[r]
      BY <1>2, <2>2, CallMoves
    <3>2. CASE job[r].kind = "event"
      <4>1. /\ pc[r] \in {"event-post", "done", "lost"}
            /\ call[r] = [mode |-> job[r].name, asked |-> EventChannels(r)]
        BY <2>2, <3>2 DEF CallsMade
      <4>2. /\ found'[r] = found[r] /\ job'[r] = job[r]
            /\ pc'[r] \in {"event-post", "done", "lost"}
        BY <1>1, <3>2, <4>1, FoundStays
      <4>3. EventChannels(r)' = EventChannels(r)
        BY <4>2 DEF EventChannels
      <4> QED BY <3>1, <3>2, <4>1, <4>2, <4>3
    <3>3. CASE job[r].kind # "event"
      <4>1. /\ job[r].kind = "save" /\ pc[r] # "idle"
            /\ call[r] = [mode |-> "welcome", asked |-> WelcomeChannels(r)]
        BY <2>2, <3>3 DEF CallsMade
      <4>2. job'[r] = job[r] /\ pc'[r] # "idle"
        BY <1>1, <4>1, Fixed
      <4>3. WelcomeChannels(r)' = WelcomeChannels(r)
        BY <4>2 DEF WelcomeChannels
      <4> QED BY <3>1, <4>1, <4>2, <4>3
    <3> QED BY <3>2, <3>3
  <2> QED BY <2>1, <2>2
<1> QED BY <1>2, <1>3 DEF CallsMade

\* A handler goes on from its post when the bot has answered.
LEMMA PostMoves ==
  ASSUME IInv, [DeliveryNext]_DeliveryVars, NEW r \in Requests,
         posted'[r] # posted[r]
  PROVE  EventPost(r) /\ Heard(r) /\ job[r].kind = "event"
<1> USE DEF IInv, TypeOK
<1>1. [Next]_vars
  BY StepImplements
<1>2. Runs(r)
  BY <1>1, EachRequest DEF Waits, Arrives, SameLocals
<1>3. Notify(r)
  BY <1>2 DEF Runs, Handle, Settings, Page, Form, Lifecycle, OAuth, Other,
     notices
<1>4. pc[r] \in EventLabels
  BY <1>3, HandlerLabels
<1>5. job[r].kind = "event"
  BY <1>2, <1>4, AtLabel DEF Runs, Moves
<1>6. EventPost(r)
  BY <1>3 DEF Notify, HandleSubscriptionWebhook, EventStart,
     EventNetworkUpdated, EventOther, EventLookupRefused, EventLookup,
     EventEntities, EventFails, notices
<1>7. PICK s \in Requests : HandleAnswered(s)
  <2>1. UNCHANGED vars => posted' = posted
    BY DEF vars, notices
  <2>2. ASSUME NEW s \in Requests, Arrive(s) \/ BackgroundAnswered(s)
        PROVE  posted' = posted
    BY <2>2 DEF Arrive, BackgroundAnswered, Background, notices
  <2>3. ASSUME NEW w \in Workers, Lose(w)
        PROVE  posted' = posted
    BY <2>3 DEF Lose, notices
  <2> QED BY <2>1, <2>2, <2>3
          DEF DeliveryNext, DeliveryVars, SendProactiveMessage, Deliver,
              Quiet
<1>8. s = r
  BY <1>7, OtherLocals DEF HandleAnswered, SameLocals
<1> QED BY <1>5, <1>6, <1>7, <1>8 DEF HandleAnswered

\* What counts as notified, the bot has heard of.
LEMMA PostsHeardStep ==
  ASSUME IInv, CardInv, CallsMade, PostsHeard, [DeliveryNext]_DeliveryVars
  PROVE  PostsHeard'
<1> USE DEF IInv, TypeOK
<1> SUFFICES ASSUME NEW r \in Requests, posted'[r] # {}
             PROVE  /\ stage'[r] # "none" /\ pc'[r] \in {"done", "lost"}
                    /\ job'[r].kind = "event" /\ posted'[r] \subseteq found'[r]
  BY DEF PostsHeard, Ended
<1>1. [Next]_vars /\ (stage[r] # "none" => stage'[r] # "none")
  BY StepImplements, CallMoves DEF CallsMade
<1>2. CASE posted'[r] = posted[r]
  <2>1. /\ stage[r] # "none" /\ Ended(r) /\ job[r].kind = "event"
        /\ posted[r] \subseteq found[r]
    BY <1>2 DEF PostsHeard
  <2>2. Waits(r) /\ pc'[r] = pc[r]
    BY <1>1, <2>1, Fixed DEF Ended
  <2> QED BY <1>1, <1>2, <2>1, <2>2 DEF Waits, SameLocals, Ended
<1>3. CASE posted'[r] # posted[r]
  <2>1. EventPost(r) /\ Heard(r) /\ job[r].kind = "event"
    BY <1>3, PostMoves
  <2>2. /\ posted'[r] = found[r] /\ found' = found
        /\ pc'[r] = "done" /\ job' = job
    BY <2>1 DEF EventPost, Answer, WorkersTypeOK, NoticesTypeOK
  <2> QED BY <1>1, <2>1, <2>2 DEF Heard
<1> QED BY <1>2, <1>3

\* One promise of a chain and one channel: a card comes on its way only where
\* it was called for, and of those on their way none is lost while Teams
\* answers.
LEMMA CardMoves ==
  ASSUME CardInv, NEW r \in Requests, Deliver(r), NEW c \in Channels
  PROVE  /\ \/ cards'[r][c] + sending'[r][c] <= cards[r][c] + sending[r][c]
            \/ Called(r, c)
         /\ BotCard(r) =>
              cards'[r][c] + sending'[r][c] = cards[r][c] + sending[r][c]
<1> USE DEF CardInv
<1>1. /\ cards[r][c] \in Nat /\ sending[r][c] \in Nat
      /\ sending[r] \in [Channels -> Nat] /\ cards[r] \in [Channels -> Nat]
  BY DEF BotTypeOK
<1>2. CASE BotInstallations(r) \/ BotInstallationsFails(r)
             \/ BotChannelsFails(r)
  <2>1. cards' = cards /\ sending' = sending
    BY <1>2 DEF BotInstallations, BotInstallationsFails, BotChannelsFails
  <2>2. ~BotCard(r)
    <3>1. ASSUME BotCard(r) PROVE FALSE
      <4>1. PICK d \in Channels :
              /\ sending[r][d] > 0
              /\ sending' = [sending EXCEPT ![r][d] = @ - 1]
        BY <3>1 DEF BotCard
      <4>2. sending'[r][d] = sending[r][d] - 1 /\ sending[r][d] \in Nat
        BY <1>1, <4>1 DEF BotTypeOK
      <4> QED BY <2>1, <4>1, <4>2
    <3> QED BY <3>1
  <2> QED BY <1>1, <2>1, <2>2
<1>3. CASE BotChannels(r) /\ ~BotCard(r)
  <2>1. PICK i \in pending[r] :
          sending' = [sending EXCEPT ![r] =
            [d \in Channels |-> IF d \in ChannelsOf[i] /\ Called(r, d)
                                  THEN @[d] + 1 ELSE @[d]]]
    BY <1>3 DEF BotChannels
  <2>2. cards' = cards
    BY <1>3 DEF BotChannels
  <2>3. sending'[r][c] = IF c \in ChannelsOf[i] /\ Called(r, c)
                           THEN sending[r][c] + 1 ELSE sending[r][c]
    BY <2>1 DEF BotTypeOK
  <2> QED BY <1>1, <1>3, <2>2, <2>3
<1>4. CASE BotCard(r)
  <2>1. PICK d \in Channels :
          /\ sending' = [sending EXCEPT ![r][d] = @ - 1]
          /\ cards' = [cards EXCEPT ![r][d] = @ + 1]
    BY <1>4 DEF BotCard
  <2>2. /\ sending'[r][c] = IF c = d THEN sending[r][c] - 1 ELSE sending[r][c]
        /\ cards'[r][c] = IF c = d THEN cards[r][c] + 1 ELSE cards[r][c]
    BY <2>1 DEF BotTypeOK
  <2> QED BY <1>1, <2>2
<1>5. CASE BotCardFails(r) /\ ~BotCard(r)
  <2>1. PICK d \in Channels :
          sending' = [sending EXCEPT ![r][d] = @ - 1]
    BY <1>5 DEF BotCardFails
  <2>2. /\ sending'[r][c] = IF c = d THEN sending[r][c] - 1 ELSE sending[r][c]
        /\ cards' = cards
    BY <1>5, <2>1 DEF BotTypeOK, BotCardFails
  <2> QED BY <1>1, <1>5, <2>2
<1> QED BY <1>2, <1>3, <1>4, <1>5 DEF Deliver, HttpTrigger

\* No card but where the bot was asked for one.
LEMMA SentAsCalledStep ==
  ASSUME CardInv, CallsMade, SentAsCalled, [DeliveryNext]_DeliveryVars
  PROVE  SentAsCalled'
<1> USE DEF CardInv
<1> SUFFICES ASSUME NEW r \in Requests, NEW c \in Channels,
                    cards'[r][c] + sending'[r][c] > 0
             PROVE  stage'[r] # "none" /\ Called(r, c)'
  BY DEF SentAsCalled
<1>1. /\ cards[r][c] \in Nat /\ sending[r][c] \in Nat
      /\ CardInv'
  BY CardsInductive DEF BotTypeOK
<1>2. stage'[r] # "none"
  BY <1>1 DEF NotYet
<1>3. stage[r] # "none" /\ Called(r, c)
  <2>1. CASE SameCall(r)
    BY <1>2, <2>1 DEF SameCall, SentAsCalled
  <2>2. CASE BotDies
    <3>1. cards'[r][c] = cards[r][c] /\ sending'[r][c] = 0
      BY <2>2 DEF BotDies
    <3> QED BY <1>1, <3>1 DEF SentAsCalled
  <2>3. CASE SendProactiveMessage(r)
    <3>1. stage[r] = "none" /\ cards' = cards /\ sending' = sending
      BY <2>3 DEF SendProactiveMessage, PostEvent, PostWelcome, BotReceive
    <3> QED BY <1>1, <3>1 DEF NotYet
  <2>4. CASE Deliver(r)
    <3>1. stage[r] # "none"
      BY <1>2, <2>4, CallMoves
         DEF CallsMade, SendProactiveMessage, PostEvent, PostWelcome,
             BotReceive, Deliver, HttpTrigger, BotInstallations,
             BotInstallationsFails, BotChannels, BotChannelsFails, BotCard,
             BotCardFails
    <3>2. cards[r][c] + sending[r][c] > 0 => Called(r, c)
      BY DEF SentAsCalled
    <3>3. cards'[r][c] \in Nat /\ sending'[r][c] \in Nat
      BY <1>1 DEF BotTypeOK
    <3> QED BY <1>1, <2>4, <3>1, <3>2, <3>3, CardMoves
  <2> QED BY <2>1, <2>2, <2>3, <2>4, EachCall DEF CallsMade
<1>4. call'[r] = call[r]
  BY <1>3, CallMoves DEF CallsMade
<1> QED BY <1>2, <1>3, <1>4 DEF Called

\* No channel the bot was asked for is left out while Teams answers.
LEMMA NoneLeftOutStep ==
  ASSUME CardInv, CallsMade, NoneLeftOut, [DeliveryNext]_DeliveryVars
  PROVE  NoneLeftOut'
<1> USE DEF CardInv
<1> SUFFICES ASSUME "teams" \notin Faults, NEW r \in Requests
             PROVE  /\ stage'[r] # "lost"
                    /\ stage'[r] = "channels" =>
                         \A i \in stored' : \A c \in ChannelsOf[i] :
                           \/ i \in pending'[r]
                           \/ Called(r, c)' =>
                                cards'[r][c] + sending'[r][c] = 1
  BY DEF NoneLeftOut
<1>1. /\ stored' = stored /\ DOMAIN call = Requests
      /\ \A i \in stored : ChannelsOf[i] \subseteq Channels
  BY EachCall, InstallationsKnown DEF CallsMade, BotTypeOK
<1>2. /\ stage[r] # "lost"
      /\ stage[r] = "channels" =>
           \A i \in stored : \A c \in ChannelsOf[i] :
             \/ i \in pending[r]
             \/ Called(r, c) => cards[r][c] + sending[r][c] = 1
  BY DEF NoneLeftOut
<1>3. CASE SameCall(r)
  BY <1>1, <1>2, <1>3 DEF SameCall, Called
<1>4. ~BotDies
  BY DEF BotDies
<1>5. CASE SendProactiveMessage(r)
  <2>1. stage'[r] = "installations"
    BY <1>5 DEF SendProactiveMessage, PostEvent, PostWelcome, BotReceive,
       BotTypeOK
  <2> QED BY <2>1
<1>6. CASE Deliver(r) /\ BotInstallations(r)
  <2>1. stage'[r] = "channels" /\ pending'[r] = stored
    BY <1>6 DEF BotInstallations, BotTypeOK
  <2> QED BY <1>1, <2>1
<1>7. CASE Deliver(r) /\ BotChannels(r)
  <2>1. PICK j \in pending[r] :
          /\ pending' = [pending EXCEPT ![r] = @ \ {j}]
          /\ sending' = [sending EXCEPT ![r] =
               [c \in Channels |-> IF c \in ChannelsOf[j] /\ Called(r, c)
                                     THEN @[c] + 1 ELSE @[c]]]
    BY <1>7 DEF BotChannels
  <2>2. /\ UNCHANGED <<call, stage, cards>>
        /\ pending'[r] = pending[r] \ {j} /\ j \in Installations
    BY <1>7, <2>1 DEF BotChannels, BotTypeOK
  <2>3. stage[r] = "channels"
    BY <1>2, <2>1 DEF BotTypeOK, NotYet
  <2>4. ASSUME NEW i \in stored, NEW c \in ChannelsOf[i],
               i \notin pending'[r], Called(r, c)
        PROVE  cards'[r][c] + sending'[r][c] = 1
    <3>1. /\ c \in Channels /\ i \in Installations
          /\ sending'[r][c] = IF c \in ChannelsOf[j] THEN sending[r][c] + 1
                                                     ELSE sending[r][c]
      BY <1>1, <2>1, <2>4 DEF BotTypeOK
    <3>2. CASE i = j
      <4>1. cards[r][c] = 0 /\ sending[r][c] = 0
        BY <2>1, <3>2 DEF NotYet
      <4> QED BY <2>2, <3>1, <3>2, <4>1
    <3>3. CASE i # j
      <4>1. c \notin ChannelsOf[j]
        BY <2>2, <3>1, <3>3, InstallationsKnown
      <4>2. cards[r][c] + sending[r][c] = 1
        BY <1>2, <2>2, <2>3, <2>4, <3>3
      <4> QED BY <2>2, <3>1, <4>1, <4>2
    <3> QED BY <3>2, <3>3
  <2> QED BY <1>1, <1>2, <2>2, <2>4 DEF Called
<1>8. CASE Deliver(r) /\ BotCard(r)
  <2>1. UNCHANGED <<call, stage, pending>>
    BY <1>8 DEF BotCard
  <2>2. \A c \in Channels :
          cards'[r][c] + sending'[r][c] = cards[r][c] + sending[r][c]
    BY <1>8, CardMoves
  <2>3. \A i \in stored : \A c \in ChannelsOf[i] : c \in Channels
    BY <1>1
  <2> QED BY <1>1, <1>2, <2>1, <2>2, <2>3 DEF Called
<1>9. Deliver(r) => BotInstallations(r) \/ BotChannels(r) \/ BotCard(r)
  BY DEF Deliver, HttpTrigger, BotInstallationsFails, BotChannelsFails,
     BotCardFails
<1> QED BY <1>3, <1>4, <1>5, <1>6, <1>7, <1>8, <1>9, EachCall DEF CallsMade

-----------------------------------------------------------------------------
(* Who gets a card *)

\* Nothing has been called at the start.
LEMMA CallInit == DeliveryInit => CallInv
<1> SUFFICES ASSUME DeliveryInit PROVE CallInv
  OBVIOUS
<1> USE DEF DeliveryInit, BotInit, Init, DatabaseInit, WorkersInit,
            NoticesInit
<1>1. StoredRows = {}
  BY DEF StoredRows, Stored
<1>2. FiniteLookups
  BY <1>1, FS_EmptySet DEF FiniteLookups
<1>3. WelcomesOfSaves /\ CallsMade /\ PostsHeard
  BY DEF WelcomesOfSaves, CallsMade, PostsHeard
<1>4. SentAsCalled /\ NoneLeftOut
  BY DEF SentAsCalled, NoneLeftOut
<1> QED BY <1>2, <1>3, <1>4 DEF CallInv

\* What the app tells the bot, and the bot does with it, is right in every
\* reachable state of the two.
THEOREM CallInvariance == DeliverySpec => [](CardInv /\ CallInv)
<1>1. IInv /\ CardInv /\ CallInv /\ [DeliveryNext]_DeliveryVars => CallInv'
  BY StepImplements, WelcomesStep, FiniteStep, CallsMadeStep, PostsHeardStep,
     SentAsCalledStep, NoneLeftOutStep DEF CallInv
<1> QED BY <1>1, CardsInit, CardsInductive, CallInit, DeliveryInvariance, PTL
        DEF DeliverySpec

\* A connection the bot was asked about was named by one form of its own
\* community.
LEMMA FoundIsSubscribed ==
  ASSUME IInv, ReadInv, NEW r \in Requests, NEW d \in found[r]
  PROVE  \E w \in Requests :
           /\ job[w].kind \in {"save", "update"} /\ job[w].net = job[r].net
           /\ job[w].target = d[2].target /\ job[r].name \in job[w].events
<1> USE DEF IInv, TypeOK
<1>1. /\ ReadBy(r, d[1], d[2])
      /\ d[2].networkId = job[r].net /\ job[r].name \in d[2].events
  BY DEF ReadInv, FoundIsRead
<1>2. PICK i, w : i = d[1] /\ w = d[2].by
  OBVIOUS
<1>3. /\ i \in Requests /\ w \in Requests /\ channel[i] # Unused
      /\ pc[w] # "idle" /\ WrittenBy(w, i, d[2]) /\ job[i].net = job[r].net
  BY <1>1, <1>2 DEF ReadBy, Row
<1>4. job[i].kind = "save"
  BY <1>3 DEF RowsAreSaved
<1>5. job[w].kind \in {"save", "update"} /\ job[w].net = job[i].net
  <2>1. CASE w = i
    BY <1>4, <2>1
  <2>2. CASE job[w].kind = "update" /\ job[w].row = i
    BY <1>3, <2>2 DEF ReadInv, InputsKept, ButtonInput
  <2> QED BY <1>3, <2>1, <2>2 DEF WrittenBy
<1> QED BY <1>1, <1>3, <1>5 DEF WrittenBy

\* A set whose members count to more than none has one.
LEMMA CountedHaveMembers == ASSUME NEW S, Cardinality(S) # 0
                            PROVE  S # {}
  BY FS_EmptySet

\* A finite set with a member counts to at least one.
LEMMA MembersAreCounted == ASSUME NEW S, IsFiniteSet(S), S # {}
                           PROVE  Cardinality(S) > 0
<1>1. Cardinality(S) \in Nat
  BY FS_CardinalityType
<1>2. Cardinality(S) # 0
  BY FS_EmptySet
<1> QED BY <1>1, <1>2

\* A channel hears of an event only when one form of the community of the
\* event named that channel and switched the event on, and is welcomed only by
\* the save that named it.
THEOREM CardsAreAskedFor == DeliverySpec => []CardsForSubscribers
<1>1. IInv /\ ReadInv /\ CardInv /\ CallInv => CardsForSubscribers
  <2> SUFFICES ASSUME IInv, ReadInv, CardInv, CallInv,
                      NEW r \in Requests, NEW c \in Channels, cards[r][c] > 0
               PROVE  \E w \in Requests :
                        /\ job[w].kind \in {"save", "update"}
                        /\ job[w].net = job[r].net
                        /\ ChannelOf[job[w].target] = c
                        /\ job[r].kind = "event" =>
                             job[r].name \in job[w].events
                        /\ job[r].kind # "event" => w = r
    BY DEF CardsForSubscribers
  <2> USE DEF CardInv, CallInv
  <2>1. stage[r] # "none" /\ call[r].asked[c] > 0
    <3>1. cards[r][c] + sending[r][c] > 0
      BY DEF BotTypeOK
    <3> QED BY <3>1 DEF SentAsCalled, Called
  <2>2. CASE job[r].kind = "event"
    <3>1. call[r].asked[c] =
            Cardinality({d \in found[r] : ChannelOf[d[2].target] = c})
      BY <2>1, <2>2 DEF CallsMade, EventChannels
    <3>2. PICK d \in found[r] : ChannelOf[d[2].target] = c
      <4>1. PICK S : S = {d \in found[r] : ChannelOf[d[2].target] = c}
        OBVIOUS
      <4>2. Cardinality(S) # 0
        BY <2>1, <3>1, <4>1
      <4>3. S # {}
        BY <4>2, CountedHaveMembers
      <4> QED BY <4>1, <4>3
    <3> QED BY <2>2, <3>2, FoundIsSubscribed
  <2>3. CASE job[r].kind # "event"
    <3>1. job[r].kind = "save" /\ ChannelOf[job[r].target] = c
      BY <2>1, <2>3 DEF CallsMade, WelcomeChannels
    <3> QED BY <3>1
  <2> QED BY <2>2, <2>3
<1> QED BY <1>1, CallInvariance, DeliveryInvariance, Implements, WhatIsRead,
        PTL

\* While Teams accepts the cards, an event answered as succeeded reaches every
\* connection it concerns whose channel Teams tells the bot about.
THEOREM SubscribersAreReached == DeliverySpec => []EventReachesSubscribers
<1>1. IInv /\ NoMissedNotification /\ CardInv /\ CallInv
        => EventReachesSubscribers
  <2> SUFFICES ASSUME IInv, NoMissedNotification, CardInv, CallInv,
                      "teams" \notin Faults, NEW r \in Requests,
                      job[r].kind = "event", reply[r] = "succeeded",
                      NEW d \in Concerned(r), NEW i \in stored,
                      ChannelOf[channel[d].target] \in ChannelsOf[i],
                      stage[r] # "installations", i \notin pending[r]
               PROVE  LET c == ChannelOf[channel[d].target]
                      IN  cards[r][c] + sending[r][c] = 1
    BY DEF EventReachesSubscribers
  <2> USE DEF CardInv, CallInv, BotTypeOK
  <2>1. PICK c : c = ChannelOf[channel[d].target]
    OBVIOUS
  <2>2. c \in Channels
    BY <2>1, InstallationsKnown
  <2>3. <<d, channel[d]>> \in posted[r]
    BY DEF NoMissedNotification
  <2>4. /\ stage[r] # "none" /\ <<d, channel[d]>> \in found[r]
        /\ Ended(r)
    BY <2>3 DEF PostsHeard
  <2>5. stage[r] = "channels"
    BY <2>4 DEF NoneLeftOut
  <2>6. Called(r, c)
    <3>1. call[r] = [mode |-> job[r].name, asked |-> EventChannels(r)]
      BY <2>4 DEF CallsMade
    <3>2. job[r].name \in Modes
      BY ConcernedIsOn DEF Modes
    <3>3. PICK S : S = {e \in found[r] : ChannelOf[e[2].target] = c}
      OBVIOUS
    <3>4. Cardinality(S) > 0
      <4>1. <<d, channel[d]>> \in S
        BY <2>1, <2>4, <3>3
      <4>2. IsFiniteSet(S)
        <5>1. IsFiniteSet(found[r] \cup posted[r])
          BY DEF FiniteLookups
        <5>2. S \subseteq found[r] \cup posted[r]
          BY <3>3
        <5> HIDE DEF CallInv, CardInv, BotTypeOK
        <5> QED BY <5>1, <5>2, FS_Subset
      <4>3. S # {}
        BY <4>1
      <4>4. Cardinality(S) > 0
        BY <4>2, <4>3, MembersAreCounted
      <4> QED BY <4>4
    <3> QED BY <3>1, <3>2, <3>3, <3>4, <2>2
            DEF Called, EventChannels
  <2> QED BY <2>1, <2>5, <2>6 DEF NoneLeftOut
<1> QED BY <1>1, CallInvariance, DeliveryInvariance, Implements, NoneMissed,
        PTL
=============================================================================

# A TLA+ model of the Microsoft Teams app

The program connects Bettermode communities to Microsoft Teams: an administrator
connects the community to a Microsoft account, connects spaces to Teams channels
and chooses events, and the app posts a message to those channels when Bettermode
reports such an event. This directory holds a model of its handlers, the TLC runs
that check it on small instances, and proofs, checked by TLAPS, of what holds for
any number of communities and requests.

    tlc -workers 2 -config Settings.cfg MCTeamsApp
    tlc -workers 2 -config Delivery.cfg MCDelivery
    tlc -workers 2 -config Browsers.cfg MCBrowsers
    for m in *Proofs.tla; do tlapm $m; done

Paths below are relative to the repository.

## 1. Inventory

| Component | Code | State it keeps | Operations | Modelled in |
|---|---|---|---|---|
| Database | `prisma/schema.prisma`, `src/repositories` | `Network` (one per community), `Channel` (one per connection) | find, create, update, upsert, delete, deleteMany | `Repositories` |
| Worker processes | `package.json`, `ecosystem.config.js`, `src/server.ts` | the handlers in flight | receive, await, answer, die, restart | `Worker` |
| Settings callbacks that write | `settings/callback.logics.ts` | none of their own | save, update, delete, revoke | `SettingsCallbacks` |
| Settings page | `settings/interaction.logics.ts`, `helper.ts` | what it has read so far | render | `SettingsPage` |
| Webhook dispatch | `webhook.controller.ts`, `interactions/index.ts`, `dynamic-blocks/index.ts` | none | which handler a webhook reaches | `Dispatch`, `Worker` |
| Settings forms | `settings/callback.logics.ts`, `slates/connect-modal.slate.ts` | what they have read so far | open-modal, fetch-channels, edit, upgrade, auth-redirect, dialogs | `SettingsModals`, `OtherRequests` |
| Settings block in the browser | `settings/slates`, `constants.ts` | the page and modal shown, the request under way | show, click, close, reload, redirect; the maximum of connections | `Browsers` |
| OAuth connection | `oauth.logic.ts`, `microsoft-oauth.middleware.ts`, `jwt.utils.ts` | the account learned so far | redirect to Microsoft, redirect callback, token refresh | `OAuthConnect` |
| Installation webhooks | `installation.logics.ts` | none | AppInstalled, AppUninstalled | `Installation` |
| Subscription webhooks | `src/logics/subscriptions` | the connections looked up | dispatch, look up, fetch entities, post | `Subscriptions` |
| Teams bot | `test-teams-bot/src/httpTrigger.ts`, `internal/messageHandler.ts` | its stored installations, the promises of the messages it accepted | accept a message, list installations and channels, send a card, be told of an installation | `TeamsBot`, `Delivery` |
| Favorites, shortcuts, Bettermode tokens | `interactions/shortcuts`, `favorite-posts`, `bettermode-oauth.logics.ts` | documents of models the schema lacks | the first query throws | `OtherRequests` |
| Signatures, validation, errors, search, test webhook | `src/middlewares`, `federated-search.logics.ts`, ... | none | refuse a request, answer a constant | `OtherRequests` |
| Left over | `microsoft/authPopup.ts`, `callGraph.ts`, `handleEventsTeams.ts` | none | reached by nothing, or commented out | not modelled |

How they interact. Bettermode sends webhooks (installation, subscription,
interaction) and Microsoft sends the browser back to `/oauth/redirect`; each is an
HTTP request to a worker, a process of the app: one in the container (`yarn start`),
two under pm2. Handlers share nothing but the two
collections, read and written through awaited Prisma calls; there is no
transaction, no unique index besides `networkId` of `Network`, and no lock. They
call Microsoft Graph, the Bettermode API and the Teams bot. Two promises are left
running when a handler answers: the welcome message of a save and the token
refresh of a failed tenant lookup. The bot is a process of its own: the app posts
it a message with a list of channels, it answers at once, and then sends the cards.

What is hard about it, and hard to test:

* handlers interleave at every await, within a worker and between the two: a
  check and the write it guards are two turns (save), and a page reads the same
  collection twice;
* two writes of one handler fail separately (revoke), and a handler may have
  written before it reports failure (save, update);
* a rejected promise nobody awaits ends the process with all handlers in flight,
  where node runs it and not pm2;
* the OAuth callback is long and races uninstalls, revokes and other callbacks;
* the bot reports success before it has sent a card, and no promise of its chain
  has a `catch`; what it is told of its installations it does not store;
* a page or a form in a browser is as old as its request: the maximum of
  connections is decided on the page, and buttons outlive what they are about;
* what a connection names may be gone from Teams when its form is opened;
* several queries lack the filter on the community.

The hazards are listed with their lines in `PROJECT.json`, each with the
properties that would catch it.

What makes the parts correct, in a sentence each: a channel is connected once; a
connection is lost only when somebody deletes it; a revoke removes what it says;
a disconnected community stays so until it connects again; a page and a form show
what is in the database; the right channels, and no others, hear of an event, and
each of them once; every request is answered.

## 2. Modules

| Module | Contents |
|---|---|
| `Repositories` | the two collections and one operator per repository call |
| `Worker` | requests, arrivals, awaits, answers, the death of a process |
| `SettingsCallbacks` | `handleSaveButtonClick`, `handleUpdateButtonClick`, `handleDeleteBlockConfirmation`, `getAuthRevokeCallbackResponse` |
| `SettingsPage` | `getNetworkSettingsInteractionResponse` and its helpers |
| `SettingsModals` | the callbacks that open forms |
| `OAuthConnect` | `consumerExtractorMiddleware` to `connectToMicrosoft`, `RefreshTokenClient` |
| `Installation` | `handleInstalledWebhook`, `handleUninstalledWebhook` |
| `OtherRequests` | requests whose answer touches no collection: dialogs, constants, refusals, what is left of the template |
| `Dispatch` | pure: the kind of request a webhook becomes, by type, block or shortcut, context and callbackId |
| `ConnectionRegistry` | the abstract specification: what the database is for, without requests, workers and failures |
| `Subscriptions` | `handleSubscriptionWebhook` and the handlers below it |
| `TeamsApp` | their composition, fairness, and the properties of the app |
| `TeamsAppInvariants` | the inductive invariants, in named parts |
| `TeamsAppProofs` | the shape and the effects of a step; proofs about connections |
| `HistoryProofs` | what a step does to one request or one document; what requests have read |
| `AccountProofs` | proofs about the Microsoft connection |
| `ViewsProofs` | proofs about pages and forms |
| `NoticesProofs` | proofs about notifications |
| `RegistryProofs` | that `TeamsApp` implements `ConnectionRegistry` |
| `TeamsBot` | `httpTrigger` of the bot: the answer, the chain of promises, its rejections |
| `Delivery` | the app and the bot together, and the properties from event to card |
| `DeliveryProofs` | that `Delivery` implements `TeamsApp`; proofs from event to card |
| `Browsers` | the settings block in several browsers, on top of `TeamsApp` and `Dispatch` |
| `BrowsersProofs` | that `Browsers` implements `TeamsApp`; proofs about buttons and the maximum |
| `MCConstants`, `MCTeamsApp`, `MCDelivery`, `MCBrowsers` | instances for TLC |

In `TeamsApp` alone a post to the bot settles at any time: it is all the other
handlers can tell. `Delivery` ties it to the bot's answer.

How state and actions correspond to the code.

* `network` and `channel` are the collections. A field of a `Network` document is
  abstracted to the OAuth session it came from, so that mixing two sessions would
  be visible. A `Channel` document keeps its community, its target and its events.
  A target is space, team and channel as one value, since the check for duplicates
  compares all three; where a form looks them up one by one, `SpaceOf`, `TeamOf`
  and `Vanished` say what each lookup finds. MongoDB never issues an ObjectId twice
  and a request creates at most one document, so documents are named by the request
  that created them.
* `job[r]` is what request `r` asks for, `pc[r]` the await it is suspended at,
  `reply[r]` its answer, `task[r]` a promise it left running. One action is the
  code from one await to the next: the effect of the settled call together with
  the synchronous code after it. Every action has its failing twin: the call
  rejects, and the code goes where its `catch`, or the lack of one, sends it.
  `"failed"` is a toast with an error, `"error"` an HTTP 500, `"unavailable"` the
  failed status of a webhook.
* `user`, `listed`, `edited`, `account`, `found` and `posted` are local
  variables of handlers that live across an await.
* In the bot, `call[r]` is the message posted for request `r`, with the mode and how
  often each channel is named; `stage` is how far its promises are; `pending[r]` the
  installations whose channels are still to come; `sending[r][c]` the cards on their
  way; `cards[r][c]` those that arrived. The first turn of `httpTrigger` accepts the
  message and answers, and a post of the app resolves only after it. A rejection
  in this chain is handled by nobody; whether the Functions worker logs it or ends
  is configuration the code does not show, so it is either (`Bot...Fails`,
  `BotDies`). `presence` is where Teams has the bot and whether it told it so,
  `stored` the installations in the bot's storage. A save or update that reaches
  Graph installs the bot in the team of its channel (`InstallIn`); Teams then posts
  an activity, and `MessageHandler` answers it without storing anything, since the
  call that would is commented out.
* In a browser, `page[b]` is the slate shown with the connections it lists, `modal[b]`
  the form or dialog over it, `busy[b]` the request under way. `PageButtons` and
  `ModalButtons` are the buttons of the slates, each with the word of its callbackId;
  a click is a webhook that `Dispatch` turns into a request; `Show`, `OpenModal`,
  `Reload`, `Redirect` and `Toast` are the interactions of an answer. The browser
  itself is Bettermode's, modelled from those interactions. The other runs take
  requests from anywhere instead, under the assumptions of `Receive`.
* A rejection nothing handles in the app is `Crash`: the requests of that worker are `"lost"`.
  So it is where node runs the app, as `yarn start` and the `Dockerfile` (Node 16) do.
  Under `pm2 start ecosystem.config.js` two processes run in pm2's cluster mode, which
  listens for unhandled rejections and logs them. Of a promise left running that is
  the other outcome of `TaskRejected`. Of a handler, which then is never answered while
  the others go on, it is `Crash` of a worker that handler is alone on: only
  `Crash` reads the worker of a request, so what is proved for any set of workers covers
  one per request. `Restart` is pm2, the container or a deployment doing the same from outside.
* `past`, `remover`, `swept`, `source` and the field `by` are history: which requests were
  over when one arrived, who deleted a document, who emptied the collection, who
  wrote a document last, which page a click was made on. No guard reads them;
  properties do.
* The environment: a form offers spaces of its own community; a button carries the
  id of a connection that was once listed on a page, perhaps one deleted since;
  an update or refetch comes from a form, and a form opens only for connections of
  the own community. The last is not assumed blindly: edit forms open for own
  connections (`EditFormIsOwn`), and in `Browsers`, where requests come from buttons
  and nothing else, buttons send what is assumed (`ClicksAreExpected`). Events carry the
  spaces Bettermode sends.
* `Joined`, `TeamOf` and `Vanished` are external: which teams Graph reports for the
  account of a community, the team of a channel, and the channels that were deleted
  in Teams, which forms opened before still offer and later lookups do not find.

Abstracted: wording and layout of messages, slates and logs; the entity fields a
message quotes (a failing fetch is a fault); the `TenantId` and tokens beyond
their session; `createdAt`, `updatedAt`.

Events about a space. `schema.prisma` declares `spaceIds` a list, and the handlers of
these events pass a string as its filter. The locked client wants a
`StringNullableListFilter` and refuses the call, so they end at their lookup
(`EventLookupRefused`), an invitation at its first space; what the code would do with
the result is not modelled (section 6). A verified member and a moderated member have
no space in the filter: the first is the one event that gets as far as a
notification, the second ends at the post it has not.

## 3. Properties and runs

Bounds. A run has at most three requests in its whole history, since a property
relates a connection, a request that changes it and a request that observes it
(`Browsers` has six: page, form, channels, save, page again and one more click, or
the page and the edit form of somebody else); one or two communities; one or two
spaces with one target each, or two in `Views`; and one or two workers.
`MaxConnections` is one in place of three, reached by one save. A second worker
matters only where a worker may die, so safety runs without a crash have one;
`Answers` has two requests on one worker, which is enough for one to take the
other down. `Requests` bounds the number of requests, and nothing else in the
model grows. Requests (and workers) are interchangeable and no definition chooses
among them, so the symmetry is sound for the safety runs; the liveness run uses
none. The account of `n1` is not in the team of the channel of `n2`, so that a
page of `n1` meets a connection whose team it cannot find; the account of `n2` is
in both. `Crowded` names the communities with more than the hundred spaces
`getSpaces` asks for: `n1` in `Views`. There, too, `n2` has two targets, the
channel of one of which, `t4`, is `Vanished`: its edit form cannot open. The
storage of the bot starts with the team of `n1`'s channel only, so that a message
for `n2` finds nobody although a save installs the bot there; in `Answers` it may
also be installed for a person, who has no channels; `Installed` starts with an
empty storage. In `Browsers` the requests are taken in a fixed order, so there is
no symmetry to use. Communities are connected to Microsoft at the start or not; in
`Delivery`, whose requests never disconnect one, and in `Views` and
`RevokeUninstalled`, whose revokes and uninstalls do, they are
(`MCConnectedSpec`), and in `Browsers` the second is (`MCSpec`).

| Run | What varies | Checks |
|---|---|---|
| `Settings` | saves, updates, deletes, revokes; 2 communities, 2 workers; faults db, graph, bot | `IInv`, `OnlyEditsDuplicate`, `SavedConnectionLostOnPurpose`, `RevokeSweeps`, `NoResurrection`, `ImplementsRegistry` |
| `Lifecycle` | revokes, installs, uninstalls, OAuth callbacks, `network.updated`; 2 workers; every fault but db | `DisconnectForgets`, `RecordFromOneSession`, `ImplementsRegistry` |
| `Views` | pages, edit forms, refetches and delete dialogs beside saves, updates, deletes, revokes, uninstalls; 2 communities; no fault | `PageReflectsDatabase`, `PageFailsOnlyWhen`, `EditFailsOnlyWhen`, `EditFormIsOwn`, `EditFormIsCurrent` |
| `Delivery` | verified members of 2 communities beside saves, updates and deletes, with the bot; no fault | `NotifiesOwnLiveConnections`, `NotifiesAsSubscribed`, `NoMissedNotification`, `OneCardPerChannel`, `CardsForSubscribers`, `EventReachesSubscribers` |
| `Browsers` | two browsers, of 2 communities, from the first page to the edit form; no fault | `MaximumSeen`, `ClicksAreExpected` |
| `Answers` | every kind of request, every fault of the app and the bot, restarts | `EveryRequestEnds`, `EveryCallSettles` (liveness), `NoMissedNotification` |

`Delivery` is without the rejections of the bot, which would excuse
`EventReachesSubscribers`; that they never double a card is proved (`OneCard`).
`Lifecycle` is without the failures of the database, which would excuse `DisconnectForgets`
for revokes and installs; that they break none of its properties is proved.

What they show.

* `OnlyEditsDuplicate`: when two connections have one target, and the request that
  gave it to the one was over before the request that gave it to the other came
  in, the later request is an update. The duplicate check of a save works against
  everything that was there before; races and edits, which do not check, are its
  only holes.
* `SavedConnectionLostOnPurpose`: a save reported as successful did create its
  connection, and what is gone was removed by a delete of that connection or a
  revoke that was not over when the save arrived. Failures, deaths of workers and
  updates never lose one.
* `RevokeSweeps`: a revoke that reached the `Channel` collection leaves nothing
  behind that was saved before it arrived.
* `NoResurrection`: an update that meets a deleted connection does not bring it
  back, and no write moves a connection to another community.
* `ImplementsRegistry`: the app implements `ConnectionRegistry`, an abstract
  specification in which a connection is checked in one step and added in a later
  one, changed or removed as a whole, and in which an OAuth session connects its
  community once. A document is a connection; a save between its check and its
  create is a connection asked for; a callback that redirected has spent its
  session. Every other step, every failure and every death of a worker is a stutter
  or gives up what was asked for.
* `DisconnectForgets`: after a revoke, install or uninstall only an OAuth callback
  that was in flight, or came later, connects the community. The refresh left
  running does not. With a failing database only the uninstall that
  reports success can promise it.
* `RecordFromOneSession`: a `Network` document never mixes two sessions and never
  has an invented tenant; its `microsoftId` may be the string `"undefined"`.
* `PageReflectsDatabase`, `PageFailsOnlyWhen`: a page lists what was saved before
  it was asked for and nothing removed before; without outside failures, its
  HTTP 500 has two causes only, a foreign team and connections that vanish between
  its two reads.
* `EditFailsOnlyWhen`: likewise the edit button of a connection fails only when the
  connection is gone, foreign, of a team the account is not in or of a channel that
  was deleted there, when the community is not connected, or has too many spaces for
  the form to list this one.
* `EditFormIsOwn`, `EditFormIsCurrent`: although pages list every community's
  connections, the edit form opens for own ones; and what it is filled in with is of
  one save or update that no finished update had replaced. After the edit button
  that is the whole connection. After the choice of another team it is the events
  alone, as the space and the team come from the form and no channel is filled in.
* `NotifiesOwnLiveConnections`, `NotifiesAsSubscribed`, `NoMissedNotification`: the
  channels the bot is told to notify of a verified member are exactly those of the
  community that one form switched on, up to changes concurrent with the lookup. An
  event whose lookup is refused, or whose entity is not there, is answered as a
  failure and never as one that concerns nobody (`Answers`, with moderated posts and
  members).
* `OneCardPerChannel`: racing saves make the app name a channel twice; the bot asks
  `includes`, so one card goes out.
* `CardsForSubscribers`: a card in a channel goes back, through app and bot, to a
  form of the event's community that named the channel and switched the event on.
* `EventReachesSubscribers`: while Teams accepts them, an event answered as
  succeeded has a card, or one to come, for every channel it concerns of an
  installation the bot has stored. No mode the app posts is missing in the bot.
* `MaximumSeen`: the maximum of connections holds for what the page knew. Nobody
  opens, fills in or saves the form of a new connection from a page that was asked
  for when that many saves had been reported and their connections were still there,
  of whichever community. An older page, or a second browser, passes the maximum:
  the handler of a save does not check it.
* `ClicksAreExpected`: whatever page or form a browser shows, however old, each of
  its buttons sends a request the handlers are written for: a delete or an edit of a
  connection that existed, an update of a connection of the own community. The app
  verifies neither; the buttons and the form that does not open are all there is.
* `EveryRequestEnds`, `EveryCallSettles`: each request is answered or lost with its
  worker, and the bot ends every chain it starts, by cards, rejections or death.

Fairness. Weak fairness of each request's handler, of its promise left running, of
its post to the bot, and of its chain in the bot (`FairDelivery`): Node's event loop
runs every continuation whose promise has settled, and neither a handler nor the
bot has a loop except the one over the installations, which shrink. It assumes that
calls to MongoDB, Graph, Bettermode, the bot and Teams settle (each client has a timeout or a connection that is reset);
arrivals, restarts and the bot's death need no fairness. Deadlock is
checked in every run: `Quiet` lets the system rest only when no handler is in
flight and no promise is left running.

Every property of a passing run is exercised by a change of the modelled code that
breaks it; these operators stand before the definition they alter, marked `Bug:`.

## 4. Where the program departs from what it says

| Run | The text | What the model shows |
|---|---|---|
| `ErrorSaving` | "Error saving data", `callback.logics.ts:402` | the connection is stored all the same when Graph, or the missing `Network` document, fails after the create |
| `RevokeOthers` | "By revoking access, you will lose your settings", `connected-channels.slate.ts:42` | `deleteMany()` empties the collection for all communities |
| `RevokeUninstalled` | "by revoking, all connections will be deleted", `revoke-Modal.slate.ts:19` | a revoke without a `Network` document, after an uninstall, skips `deleteMany` and answers like any other |
| `RacingSaves` | "this channel is already connected", `callback.logics.ts:319` | two overlapping saves both pass the check |
| `Welcomed` | "I would inform you on community updates in this channel.", `callback.logics.ts:369` | the lookup of an event of a space is refused, and nobody is told |
| `Installed` | "Notifications can be sent to where the bot is installed", `test-teams-bot/README.md:105` | the bot does not store an installation it is told of, and leaves it out of the next message |

The model shows one more, which needs no run of its own since it is one path of one
handler: the bot says "Success sending message" (`httpTrigger.ts:95`) before it has
listed its installations (`BotReceive`).

## 5. Proofs

Every safety property, every action property and every refinement that a passing
run checks is proved for all values of the constants:

| Theorem | States |
|---|---|
| **`TeamsAppProofs`** | |
| `Invariance` | `Spec => []IInv` |
| `TypeCorrect` | `Spec => []TypeOK` |
| `DuplicatesAreEdits` | `Spec => []OnlyEditsDuplicate` |
| `SavedLostOnPurpose` | `Spec => []SavedConnectionLostOnPurpose` |
| `RevokeSweepsAll` | `Spec => []RevokeSweeps` |
| `DeletedForGood` | `Spec => NoResurrection` |
| **`HistoryProofs`** | |
| `WhatIsRead` | `Spec => []ReadInv` |
| **`AccountProofs`** | |
| `AccountInvariance` | `Spec => []AccountInv` |
| `OneSessionPerRecord` | `Spec => []RecordFromOneSession` |
| `DisconnectIsFinal` | `Spec => []DisconnectForgets` |
| **`ViewsProofs`** | |
| `ViewInvariance` | `Spec => []ViewInv` |
| `PagesAreCurrent` | `Spec => []PageReflectsDatabase` |
| `PagesFailForAReason` | `Spec => []PageFailsOnlyWhen` |
| `EditsFailForAReason` | `Spec => []EditFailsOnlyWhen` |
| `EditFormsAreOwn` | `Spec => []EditFormIsOwn` |
| `EditFormsAreCurrent` | `Spec => []EditFormIsCurrent` |
| **`NoticesProofs`** | |
| `NoneMissed` | `Spec => []NoMissedNotification` |
| `OwnLiveNotified` | `Spec => []NotifiesOwnLiveConnections` |
| `SubscribersNotified` | `Spec => []NotifiesAsSubscribed` |
| **`RegistryProofs`** | |
| `RegistryImplemented` | `Spec => ImplementsRegistry` |
| **`DeliveryProofs`** | |
| `Implements` | `DeliverySpec => Spec`: the app with the bot implements the app |
| `DeliveryInvariance` | `DeliverySpec => []IInv`, by `Implements` |
| `OneCard` | `DeliverySpec => []OneCardPerChannel` |
| `CallInvariance` | `DeliverySpec => [](CardInv /\ CallInv)` |
| `CardsAreAskedFor` | `DeliverySpec => []CardsForSubscribers` |
| `SubscribersAreReached` | `DeliverySpec => []EventReachesSubscribers` |
| **`BrowsersProofs`** | |
| `BrowsersInvariance` | `BrowsersSpec => []AllInv` |
| `BrowsersUseTheApp` | `BrowsersSpec => Spec`: what browsers do the app expects |
| `ClicksExpected` | `BrowsersSpec => []ClicksAreExpected` |
| `MaximumIsSeen` | `BrowsersSpec => []MaximumSeen` |

Assumptions. They are the named `ASSUME`s of the modules, and TLC evaluates them in
every run. `Sentinels` and `PlainSentinels`: what stands for the lack of a document, a
session or a request is not one. `Environment`, `TeamsKnown`, `FormsKnown`,
`EventsKnown`, `ChannelsKnown`, `BrowsersKnown`: the constant functions have their
domains and ranges, and `MaxConnections` is a positive number. `InstallationsKnown`: a channel
belongs to one team, so two installations share none. Nothing bounds the sets; not
even `Requests` is finite. Where an argument counts, finiteness is proved: there are
finitely many documents at any time (`RowsStayFinite`), so a page lists and a lookup
finds finitely many.

### Shape, effects, parts

`TeamsAppProofs` proves its properties in three layers. *Shape of a step*: the lemmas
`SaveSteps` to `OtherSteps` show, handler by handler, that every action is an arrival,
the move of one request from an await of its own to the next, the end of a task, or a
death, with the types kept and the database written by four actions only; `StepShape`
collects them. *Effects*: `MoveEffect`, `ReceiveEffect`, `CrashEffect`, `WriteEffect`
say what each shape does. *Parts*: one lemma per conjunct of the invariant, by
cases on the shape. So the parts about connections are proved once, not once per
action, and a new handler adds one lemma to the first layer.

The other modules look at a step from one angle each, with a lemma that says all
there is to see from there, and prove their parts from that lemma: one request
(`EachRequest`) and one document (`EachRow`) in `HistoryProofs`, the record of one
community (`EachNetwork`) in `AccountProofs`, the message of one request to the bot
(`EachCall`) in `DeliveryProofs`, and the clicks of one browser (`BrowserMoves`) in
`BrowsersProofs`.

### The inductive invariants, and why they are needed

*Connections* (`IInv`). That a later save cannot duplicate a channel depends on what
it saw when it read, so the properties alone are not inductive. `IInv` adds

* `JobAtLabel`: a handler runs the code of its own job, and an idle request has no
  trace (so a document cannot be created by the wrong kind of request);
* `PastIsOver` and `RepliesLast`: what was over stays over, so an action of a
  request in flight is never the action of something in another's past;
* `RowsAreSaved`: a document is the work of the save it is named after, past its
  create, and that save is not one answered as refused;
* `CheckedTarget`: a save between its check and its create meets its own target only
  on documents written by requests that were not over when it arrived. This is the
  heart of `DuplicatesAreEdits`: a concurrent write may break the check, but only a
  concurrent one;
* `Removals`: who deleted a document; `SweptClean`: what a revoke left.

*What is read* (`ReadInv`). A page, a form or an event holds copies of documents
while others write them. `RowsAreWritten` says what a stored document is: what its last
writer said, all of it, and that an update that replaced something came in before
that writer was over. `ReadBy` is the same of a copy; a copy stays one for good
(`ReadStays`), since what was over when the reader arrived wrote and deleted
before it read. `EditedIsRead`, `ListedIsRead` and `FoundIsRead` say that every copy is
such a one. The properties of forms and of the right subscribers follow without
another induction. `InputsKept` carries along what `Receive` assumes of a request.

*Accounts* (`AccountInv`). `LearnedOwn`: a callback in flight knows of its own account
only, and has a tenant when it comes to store it. `Disconnecting`: what a disconnect
promises holds from its write on, before it answers; for a revoke the remaining
await is long. `AccountsKnown`: while Graph answers, no id is unknown, which is what
pages and forms look the teams up by.

*Pages and forms* (`ViewInv`). `PageComplete`: the second read of a page has everything
saved before it; `PageBegun` and `EditBegun`: what a page or form between its reads has
seen, so that a later failure has one of the causes named.

*Lookups* (`NoticeInv`). `LookupsComplete`: a handler that is past its lookup has found
every connection the event concerns, or is on its way to the failure of a moderated
member. A connection updated meanwhile is not concerned any more, since its document
has changed hands.

*The bot* (`CardInv`, `CallInv`). For one card per channel, `NotYet`: a channel of an
installation whose listing is still to come has no card and none on its way. For
the cards, `CallsMade` ties a message at the bot to what the app posted,
`PostsHeard` says the bot has every message the app was told it has, `SentAsCalled` that cards
go to channels a message names, and `NoneLeftOut` that a channel it names has its
card once its installation is listed.

*Browsers* (`AllInv`). `PagesAreAnswers`: a page shows the answer to the request it
names, so that how old it is can be said; `ModalsAreOwn`: a form or dialog is about
a connection that was there, an edit form about an own one. It is here that
`EditFormIsOwn` becomes what `Receive` assumes of updates. `FormsFromOffers` and
`AskedFromOffers`: the form of a new connection, and what is sent from it, come from a
page with the button, however much later. With them each step of a browser is a step
of `TeamsApp`, whose assumptions about requests `BrowsersUseTheApp` thereby discharges.

### The refinements

`RegistryImplemented` maps the collections to the registry (`conns`, `connectedBy`), a
save between its check and its create to a connection asked for (`asks`), and a
callback that has redirected to a spent session (`spent`). By `StepShape` there are
few cases: a check (`ChecksAreChecks`), a write of the `Channel` collection
(`WritesAreRegistered`), an upsert (`UpsertsAreConnects`) or a delete
(`DeletesAreDisconnects`) of a `Network` document; all else leaves the mapping alone but
for what it gives up. `IInv` is the invariant it needs.

`Implements` drops the bot, and `BrowsersUseTheApp` the browsers. What is proved of
`Spec` therefore holds beside either.

### Only model-checked

* `EveryRequestEnds` and `EveryCallSettles`: liveness under fairness is out of
  TLAPS' reach.
* The properties of the runs of section 4, which do not hold.
* `Delivery` and `Browsers` are proved to implement `Spec`, which has no fairness;
  that they keep its fairness as well is not stated.

## 6. Not modelled, and why

* What stands behind the first query of favorites, shortcuts and Bettermode tokens:
  they use Prisma models that `schema.prisma` does not have, so that
  `client.member` and the like are undefined and throw before anything changes.
* The signature and the DTOs a request is checked against: a request they refuse is
  a `Refused`. `GET /bettermode/oauth` answers a URL made from its parameters.
* The routes under `/microsoft`: `microsoft/authPopup.ts` is commented out as a whole.
  `callGraph.ts`, `handleEventsTeams.ts`, `favorite-posts/slate.logics.ts` and
  `connected-channeles-added.slate.ts` are reached by no handler that gets that far.
* What stands behind the lookups the client refuses: the entities and messages of
  posts, memberships, join requests, moderated posts and invitations, and the loop
  over the spaces of an invitation.
* The wording of messages and the fields of the entities they quote: an entity is
  there or its fetch fails. What Bettermode answers to a query for a member without
  an id is external.
* Layout: a slate is its buttons, a card of the bot its mode. `teamsBot.ts` and the
  rest of `internal` only register the bot.
* The Express session store and the start of the processes.

## 7. Plan

Written so far, in this order: Repositories, Worker, SettingsCallbacks, SettingsPage,
OAuthConnect, Installation, Subscriptions, SettingsModals, TeamsApp and its proofs,
TeamsBot, Delivery and its proofs, OtherRequests, Dispatch, ConnectionRegistry with
the refinement, Browsers: the collections and the race of saves first, since
everything else observes them.

The proofs followed: connections, what requests read, accounts, views, notices, the
registry, cards, browsers.

Next:

1. theorems about `ConnectionRegistry` itself, carried over to the app by
   `RegistryImplemented`: what a reader may rely on without knowing the handlers;
2. two users who edit one connection from forms opened before either saved
   (`callback.logics.ts:445`): the last update wins, and no text of the program promises
   anything else, so there is no property to state yet; a statement of which edits are lost
   would follow from `RowsAreWritten`.

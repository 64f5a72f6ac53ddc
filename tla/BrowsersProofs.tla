--------------------------- MODULE BrowsersProofs ---------------------------
(***************************************************************************)
(* Proofs about the browsers of the settings block: what they do with      *)
(* pages and forms of any age are steps of TeamsApp, whose assumptions     *)
(* about requests their buttons keep, for every value of the constants.    *)
(***************************************************************************)
EXTENDS Browsers, ViewsProofs

-----------------------------------------------------------------------------
(* The inductive invariant, in named parts *)

\* Forms and dialogs answer the requests that ask for them, a page lists
\* nothing before its last read of the connections, and nothing is listed
\* without end.
FormsAnswerForms ==
  \A r \in Requests :
    /\ reply[r] = "form" => job[r].kind \in {"open", "fetch", "edit", "refetch"}
    /\ reply[r] = "dialog" => job[r].kind \in {"ask-delete", "ask-revoke"}

BlankAtFirst ==
  \A p \in Requests :
    \/ pc[p] \in {"idle", "page-network", "page-channels", "page-children"}
    \/ job[p].kind = "page" /\ reply[p] = "connected"
    => listed[p] = {}

FiniteLists ==
  IsFiniteSet(StoredRows) /\ \A p \in Requests : IsFiniteSet(listed[p])

AnswerInv == FormsAnswerForms /\ BlankAtFirst /\ FiniteLists

\* Types of the browsers' variables.
Forms == {"none", "open", "fetch", "edit", "refetch", "ask-delete",
          "ask-revoke"}

BrowsersTypeOK ==
  /\ page \in [Browsers -> [slate : Replies, rows : SUBSET Requests,
                            asked : Requests \cup {NoOne}]]
  /\ modal \in [Browsers -> [form : Forms, row : Requests \cup {NoOne}]]
  /\ busy \in [Browsers -> Requests \cup {NoOne}]
  /\ source \in [Requests -> Requests \cup {NoOne}]

\* Request s was for the settings page, and is over.
IsPage(s) == s \in Requests /\ Ended(s) /\ job[s].kind = "page"

\* A browser shows the answer to the request it names.
PagesAreAnswers ==
  \A b \in Browsers : page[b] # NoPage =>
    /\ IsPage(page[b].asked)
    /\ page[b].slate = reply[page[b].asked]
    /\ page[b].rows = ListedIds(page[b].asked)

\* The form or dialog about a connection is about one that was there, an edit
\* form about one of the browser's own community.
ModalsAreOwn ==
  \A b \in Browsers :
    /\ modal[b].form = "none" => modal[b] = NoModal
    /\ modal[b].form \in {"edit", "refetch", "ask-delete"} =>
         modal[b].row \in Requests /\ channel[modal[b].row] # Unused
    /\ modal[b].form \in {"edit", "refetch"} =>
         job[modal[b].row].net = CommunityOf[b]

Travels == {"page", "redirect", "authorize", "connect"}

\* What a browser waits for it has asked for, and no modal is open while the
\* page is on its way.
BusyIsOwn ==
  \A b \in Browsers : busy[b] # NoOne =>
    /\ pc[busy[b]] # "idle" /\ job[busy[b]].net = CommunityOf[b]
    /\ job[busy[b]].kind \in Travels => modal[b] = NoModal

\* The page has the button of a new connection.
Offers(p) ==
  \/ p.slate = "connected"
  \/ p.slate = "channels" /\ ~(Cardinality(p.rows) >= MaxConnections)

\* The form of a new connection is above such a page.
FormsFromOffers ==
  \A b \in Browsers :
    \/ modal[b].form \in {"open", "fetch"}
    \/ busy[b] # NoOne /\ job[busy[b]].kind \in {"open", "fetch"}
    => Offers(page[b])

\* And so is what was asked for from it, ever after.
AskedFromOffers ==
  \A r \in Requests : job[r].kind \in {"open", "fetch", "save"} =>
    LET s == source[r] IN
    /\ IsPage(s)
    /\ \/ reply[s] = "connected"
       \/ /\ reply[s] = "channels"
          /\ ~(Cardinality(ListedIds(s)) >= MaxConnections)

BrowserInv ==
  /\ BrowsersTypeOK /\ PagesAreAnswers /\ ModalsAreOwn /\ BusyIsOwn
  /\ FormsFromOffers /\ AskedFromOffers

-----------------------------------------------------------------------------
(* What the app answers *)

\* A request that runs to an answer of these two was for a form or a dialog.
LEMMA FormReplies ==
  ASSUME IInv, NEW s \in Requests, Runs(s)
  PROVE  /\ reply'[s] = "form" =>
              job[s].kind \in {"open", "fetch", "edit", "refetch"}
         /\ reply'[s] = "dialog" => job[s].kind \in {"ask-delete", "ask-revoke"}
<1> USE DEF IInv, TypeOK, WorkersTypeOK, RepliesLast
<1>1. reply[s] = "none" /\ InFlight(s)
  BY MoveEffect DEF Runs, Moves
<1>2. CASE Settings(s)
  <2>1. CASE HandleSaveButtonClick(s)
    BY <1>1, <2>1 DEF HandleSaveButtonClick, SaveRead, SaveReadFails,
       SaveCreate, SaveCreateFails, SaveUser, SaveInstall, SaveInstallFails,
       Goto, Answer, AnswerLeaving
  <2>2. CASE HandleUpdateButtonClick(s) \/ HandleDeleteBlockConfirmation(s)
    BY <1>1, <2>2 DEF HandleUpdateButtonClick, UpdateWrite, UpdateWriteFails,
       UpdateUser, UpdateInstall, UpdateInstallFails,
       HandleDeleteBlockConfirmation, DeleteRow, DeleteRowFails, Goto,
       GotoLeaving, Answer
  <2>3. CASE GetAuthRevokeCallbackResponse(s)
    BY <1>1, <2>3 DEF GetAuthRevokeCallbackResponse, RevokeNetwork,
       RevokeNetworkFails, RevokeChannels, RevokeChannelsFails, Goto, Answer
  <2> QED BY <1>2, <2>1, <2>2, <2>3 DEF Settings, SettingsCallback
<1>3. CASE Page(s)
  BY <1>1, <1>3 DEF Page, GetNetworkSettings, PageNetwork, PageChannels,
     PageChildren, PageChildrenEmpty, PageReadFails, PageTeams,
     PageTeamsFails, Goto, Answer
<1>4. CASE Form(s)
  <2>1. /\ pc[s] \in OpenLabels => job[s].kind \in {"open", "fetch"}
        /\ pc[s] \in EditLabels => job[s].kind = "edit"
        /\ pc[s] \in RefetchLabels => job[s].kind = "refetch"
    BY <1>1, AtLabel
  <2>2. reply'[s] = "form" =>
          pc[s] \in OpenLabels \cup EditLabels \cup RefetchLabels
    BY <1>1, <1>4 DEF Form, SettingsForm, EditRow, FormNetwork,
       FormReadFails, OpenGraph, EditGraph, RefetchGraph, RefetchRow,
       RefetchRowGone, FormGraphFails, AuthRedirect, NoForm, Goto, Answer,
       OpenLabels, EditLabels, RefetchLabels
  <2>3. reply'[s] # "dialog"
    BY <1>1, <1>4 DEF Form, SettingsForm, EditRow, FormNetwork,
       FormReadFails, OpenGraph, EditGraph, RefetchGraph, RefetchRow,
       RefetchRowGone, FormGraphFails, AuthRedirect, NoForm, Goto, Answer
  <2> QED BY <2>1, <2>2, <2>3
<1>5. CASE Lifecycle(s)
  BY <1>1, <1>5 DEF Lifecycle, InstallationWebhook, HandleInstalledWebhook,
     HandleUninstalledWebhook, InstallDelete, InstallCreate, UninstallDelete,
     UninstallDeleteFails, Goto, Answer
<1>6. CASE OAuth(s)
  <2>1. ConnectStateExpired(s) => reply' = reply
    BY DEF ConnectStateExpired, Crash
  <2> QED BY <1>1, <1>6, <2>1 DEF OAuth, ConnectToMicrosoft, Authorize,
          ConnectState, ConnectCodeRefused, ConnectMe, ConnectTenant,
          ConnectTenantFails, ConnectInstall, ConnectInstallFails,
          ConnectUpsert, ConnectUpsertFails, Goto, GotoLeaving, Answer
<1>7. CASE Notify(s)
  BY <1>1, <1>7 DEF Notify, HandleSubscriptionWebhook, EventStart,
     EventNetworkUpdated, EventOther, EventLookupRefused, EventLookup,
     EventEntities, EventPost, EventFails, Goto, Answer
<1>8. CASE Other(s)
  BY <1>1, <1>8 DEF Other, OtherRequest, OpenDialog, Constant, NotSupported,
     FavoritePosts, MarkAsFavorite, BettermodeTokens, Refused, Answer
<1> QED BY <1>2, <1>3, <1>4, <1>5, <1>6, <1>7, <1>8 DEF Runs, Handle

\* Forms and dialogs answer those who ask for them.
LEMMA FormsAnswerFormsStep ==
  ASSUME IInv, FormsAnswerForms, [Next]_vars
  PROVE  FormsAnswerForms'
<1> USE DEF IInv, TypeOK
<1> SUFFICES ASSUME NEW r \in Requests, reply'[r] \in {"form", "dialog"}
             PROVE  /\ reply'[r] = "form" =>
                         job'[r].kind \in {"open", "fetch", "edit", "refetch"}
                    /\ reply'[r] = "dialog" =>
                         job'[r].kind \in {"ask-delete", "ask-revoke"}
  BY DEF FormsAnswerForms
<1>1. CASE Waits(r)
  BY <1>1 DEF Waits, FormsAnswerForms
<1>2. ~Arrives(r)
  BY ReceiveEffect DEF Arrives, RepliesLast
<1>3. CASE Runs(r)
  BY <1>3, FormReplies, MoveEffect DEF Runs
<1> QED BY <1>1, <1>2, <1>3, EachRequest

\* A page lists nothing before its last read.
LEMMA BlankAtFirstStep ==
  ASSUME IInv, BlankAtFirst, [Next]_vars
  PROVE  BlankAtFirst'
<1> USE DEF IInv, TypeOK
<1> DEFINE begun == {"page-network", "page-channels", "page-children"}
<1> SUFFICES ASSUME NEW p \in Requests,
                    \/ pc'[p] \in {"idle"} \cup begun
                    \/ job'[p].kind = "page" /\ reply'[p] = "connected"
             PROVE  listed'[p] = {}
  BY DEF BlankAtFirst
<1>1. CASE Waits(p)
  <2>1. pc[p] \in {"idle"} \cup begun
        \/ (job[p].kind = "page" /\ reply[p] = "connected")
    BY <1>1 DEF Waits
  <2> QED BY <1>1, <2>1 DEF Waits, SameLocals, BlankAtFirst
<1>2. CASE Arrives(p)
  BY <1>2, ReceiveEffect DEF Arrives, SameLocals, BlankAtFirst
<1>3. CASE Runs(p)
  <2>1. job'[p] = job[p] /\ pc'[p] # "idle" /\ reply[p] = "none"
    BY <1>3, MoveEffect, LabelsInFlight DEF Runs, RepliesLast
  <2>2. GetNetworkSettings(p)
    BY <1>3, <2>1, PageRuns DEF PageLabels
  <2>3. CASE PageNetwork(p) \/ PageChannels(p)
    <3>1. pc[p] \in begun /\ listed'[p] = listed[p]
      BY <2>3 DEF PageNetwork, PageChannels, view
    <3> QED BY <3>1 DEF BlankAtFirst
  <2>4. CASE PageChildren(p) \/ PageChildrenEmpty(p) \/ PageReadFails(p)
             \/ PageTeams(p) \/ PageTeamsFails(p)
    BY <2>1, <2>4 DEF PageChildren, PageChildrenEmpty, PageReadFails,
       PageTeams, PageTeamsFails, Goto, Answer, WorkersTypeOK
  <2> QED BY <2>2, <2>3, <2>4 DEF GetNetworkSettings
<1> QED BY <1>1, <1>2, <1>3, EachRequest

\* What is listed stays finite.
LEMMA FiniteListsStep ==
  ASSUME IInv, FiniteLists, [Next]_vars
  PROVE  FiniteLists'
<1> USE DEF IInv, TypeOK, FiniteLists
<1>1. IsFiniteSet(StoredRows')
  BY RowsStayFinite
<1>2. ASSUME NEW p \in Requests
      PROVE  IsFiniteSet(listed'[p])
  <2>1. IsFiniteSet(FindMany(StoredRows))
    BY LookupsAreFinite
  <2>2. listed'[p] = listed[p] \/ listed'[p] = FindMany(StoredRows)
    BY EachRequest, ListedMoves DEF Waits, Arrives, SameLocals
  <2> QED BY <2>1, <2>2
<1> QED BY <1>1, <1>2

\* A finite list has finitely many names.
LEMMA ListsAreFinite ==
  ASSUME NEW s, IsFiniteSet(listed[s])
  PROVE  IsFiniteSet(ListedIds(s))
<1>1. [c \in listed[s] |-> c[1]] \in Surjection(listed[s], ListedIds(s))
  BY DEF ListedIds, Surjection
<1> QED BY <1>1, FS_Surjection

\* What is known of the answers is inductive.
LEMMA AnswerStep == IInv /\ AnswerInv /\ [Next]_vars => AnswerInv'
BY FormsAnswerFormsStep, BlankAtFirstStep, FiniteListsStep DEF AnswerInv

\* It holds of the initial states.
LEMMA AnswerInit == Init => AnswerInv
<1> SUFFICES ASSUME Init PROVE AnswerInv
  OBVIOUS
<1>1. FormsAnswerForms /\ BlankAtFirst
  BY DEF Init, WorkersInit, ViewInit, FormsAnswerForms, BlankAtFirst
<1>2. StoredRows = {} /\ \A p \in Requests : listed[p] = {}
  BY DEF Init, DatabaseInit, ViewInit, StoredRows, Stored
<1>3. FiniteLists
  BY <1>2, FS_EmptySet DEF FiniteLists
<1> QED BY <1>1, <1>3 DEF AnswerInv

-----------------------------------------------------------------------------
(* Buttons and what they send *)

\* The kind of request each button's word becomes.
LEMMA ButtonKinds ==
  /\ WebhookKind(Webhook("auth-redirect")) = "redirect"
  /\ WebhookKind(Webhook("open-modal")) = "open"
  /\ WebhookKind(Webhook("edit")) = "edit"
  /\ WebhookKind(Webhook("delete")) = "ask-delete"
  /\ WebhookKind(Webhook("revoke-modal")) = "ask-revoke"
  /\ WebhookKind(Webhook("fetch-channels")) = "fetch"
  /\ WebhookKind(Webhook("save-modal")) = "save"
  /\ WebhookKind(Webhook("upgrade")) = "refetch"
  /\ WebhookKind(Webhook("updateBlock")) = "update"
  /\ WebhookKind(Webhook("removeBlock")) = "delete"
  /\ WebhookKind(Webhook("auth-voke")) = "revoke"
BY DEF WebhookKind, Webhook, InteractionKind, SettingsKind, CallbackKind

\* A button of a page that is shown, by its word: the connections it lists
\* were there.
PageButton(b, button) ==
  /\ modal[b] = NoModal
  /\ \/ button.word \in {"auth-redirect", "revoke-modal"}
     \/ button.word = "open-modal" /\ Offers(page[b])
     \/ /\ button.word \in {"edit", "delete"}
        /\ button.row \in Requests /\ channel[button.row] # Unused

\* A button of a form or dialog that is open.
ModalButton(b, button) ==
  \/ button.word \in {"fetch-channels", "save-modal"} /\ Offers(page[b])
  \/ button.word = "auth-voke"
  \/ /\ button.word \in {"upgrade", "updateBlock", "removeBlock"}
     /\ button.row \in Requests /\ channel[button.row] # Unused
     /\ button.word # "removeBlock" => job[button.row].net = CommunityOf[b]

\* There are no other buttons.
LEMMA ButtonsKnown ==
  ASSUME IInv, ReadInv, BrowserInv, NEW b \in Browsers,
         NEW button \in Buttons(b)
  PROVE  PageButton(b, button) \/ ModalButton(b, button)
<1> USE DEF BrowserInv, BrowsersTypeOK
<1>1. CASE modal[b] = NoModal
  <2>1. button \in PageButtons(page[b])
    BY <1>1 DEF Buttons
  <2>2. CASE page[b].slate = "disconnected"
    BY <1>1, <2>1, <2>2 DEF PageButtons, Plainly, PageButton
  <2>3. CASE page[b].slate \in {"connected", "channels"}
    <3>1. \/ button \in AddButton(page[b]) \/ button \in RowButtons(page[b])
          \/ button = Plainly("revoke-modal")
      BY <2>1, <2>3 DEF PageButtons
    <3>2. CASE button \in AddButton(page[b])
      BY <1>1, <2>3, <3>2 DEF AddButton, Plainly, PageButton, Offers
    <3>3. CASE button \in RowButtons(page[b])
      <4>1. button.word \in {"edit", "delete"} /\ button.row \in page[b].rows
        BY <3>3 DEF RowButtons
      <4>2. page[b] # NoPage
        BY <2>3 DEF NoPage
      <4>3. /\ page[b].asked \in Requests
            /\ button.row \in ListedIds(page[b].asked)
        BY <4>1, <4>2 DEF PagesAreAnswers, IsPage
      <4>4. PICK c \in listed[page[b].asked] : button.row = c[1]
        BY <4>3 DEF ListedIds
      <4>5. button.row \in Requests /\ channel[button.row] # Unused
        BY <4>3, <4>4 DEF ReadInv, ListedIsRead, ReadBy
      <4> QED BY <1>1, <4>1, <4>5 DEF PageButton
    <3>4. CASE button = Plainly("revoke-modal")
      BY <1>1, <3>4 DEF Plainly, PageButton
    <3> QED BY <3>1, <3>2, <3>3, <3>4
  <2>4. CASE page[b].slate \notin {"disconnected", "connected", "channels"}
    BY <2>1, <2>4 DEF PageButtons
  <2> QED BY <2>2, <2>3, <2>4
<1>2. CASE modal[b] # NoModal
  <2>1. button \in ModalButtons(modal[b])
    BY <1>2 DEF Buttons
  <2>2. modal[b].form \in Forms \ {"none"}
    BY <1>2 DEF ModalsAreOwn
  <2>3. CASE modal[b].form \in {"open", "fetch"}
    <3>1. button.word \in {"fetch-channels", "save-modal"}
      BY <2>1, <2>3 DEF ModalButtons, Plainly
    <3> QED BY <2>3, <3>1 DEF FormsFromOffers, ModalButton
  <2>4. CASE modal[b].form \in {"edit", "refetch", "ask-delete"}
    <3>1. /\ button.row = modal[b].row
          /\ button.word \in {"upgrade", "updateBlock", "removeBlock"}
          /\ button.word # "removeBlock" =>
               modal[b].form \in {"edit", "refetch"}
      BY <2>1, <2>4 DEF ModalButtons
    <3> QED BY <2>4, <3>1 DEF ModalsAreOwn, ModalButton
  <2>5. CASE modal[b].form = "ask-revoke"
    BY <2>1, <2>5 DEF ModalButtons, Plainly, ModalButton
  <2> QED BY <2>2, <2>3, <2>4, <2>5 DEF Forms
<1> QED BY <1>1, <1>2

\* What the app may assume of a request of this browser, and what follows for
\* the browser.
Fit(b, j) ==
  /\ j \in SaveJobs \cup UpdateJobs \cup RowJobs \cup PlainJobs
  /\ FormInput(j) /\ ButtonInput(j) /\ EventInput(j)
  /\ j.net = CommunityOf[b]
  /\ j.kind \in {"open", "fetch", "save"} => Offers(page[b])

\* Every click is fit, whatever the form is filled in with, and one that leads
\* away is from a page without a modal.
LEMMA ClicksAreFit ==
  ASSUME IInv, ReadInv, BrowserInv, NEW b \in Browsers,
         NEW button \in Buttons(b), NEW j \in Clicks(b, button)
  PROVE  Fit(b, j) /\ (j.kind \in Travels => modal[b] = NoModal)
<1> DEFINE kind == WebhookKind(Webhook(button.word))
           n == CommunityOf[b]
<1>1. n \in Networks
  BY BrowsersKnown
<1>2. PageButton(b, button) \/ ModalButton(b, button)
  BY ButtonsKnown
<1>3. CASE button.word = "save-modal"
  <2>1. kind = "save" /\ Offers(page[b])
    BY <1>2, <1>3, ButtonKinds DEF PageButton, ModalButton
  <2>2. j \in SaveJobs /\ FormInput(j) /\ j.kind = "save" /\ j.net = n
    BY <1>1, <2>1 DEF Clicks, SaveJobs
  <2> QED BY <2>1, <2>2 DEF Fit, ButtonInput, EventInput, Travels
<1>4. CASE button.word = "updateBlock"
  <2>1. /\ kind = "update"
        /\ button.row \in Requests /\ channel[button.row] # Unused
        /\ job[button.row].net = n
    BY <1>2, <1>4, ButtonKinds DEF PageButton, ModalButton
  <2>2. /\ j \in UpdateJobs /\ FormInput(j) /\ j.kind = "update"
        /\ j.net = n /\ j.row = button.row
    BY <1>1, <2>1 DEF Clicks, UpdateJobs
  <2> QED BY <2>1, <2>2 DEF Fit, ButtonInput, EventInput, Travels
<1>5. CASE button.word \in {"edit", "delete", "upgrade", "removeBlock"}
  <2>1. /\ kind \in {"delete", "edit", "refetch", "ask-delete"}
        /\ button.row \in Requests /\ channel[button.row] # Unused
        /\ kind = "refetch" => job[button.row].net = n
    BY <1>2, <1>5, ButtonKinds DEF PageButton, ModalButton
  <2>2. /\ j \in RowJobs /\ j.kind = kind /\ j.net = n /\ j.row = button.row
    BY <1>1, <2>1 DEF Clicks, RowJobs
  <2> QED BY <2>1, <2>2 DEF Fit, FormInput, ButtonInput, EventInput, Travels
<1>6. CASE button.word \in {"auth-redirect", "open-modal", "revoke-modal",
                            "fetch-channels", "auth-voke"}
  <2>1. /\ kind \in {"redirect", "open", "ask-revoke", "fetch", "revoke"}
        /\ kind \in {"open", "fetch"} => Offers(page[b])
        /\ kind = "redirect" => modal[b] = NoModal
    BY <1>2, <1>6, ButtonKinds DEF PageButton, ModalButton
  <2>2. j \in PlainJobs /\ j.kind = kind /\ j.net = n
    BY <1>1, <2>1 DEF Clicks, PlainJobs, OtherKinds
  <2> QED BY <2>1, <2>2 DEF Fit, FormInput, ButtonInput, EventInput, Travels
<1> QED BY <1>2, <1>3, <1>4, <1>5, <1>6 DEF PageButton, ModalButton

-----------------------------------------------------------------------------
(* A step of a browser is a step of the app, or none *)

\* Browser b asks for j in request r, with its page as it is.
Asks(b, j, r) ==
  /\ Arrive(r) /\ Receive(r, j) /\ Fit(b, j)
  /\ busy' = [busy EXCEPT ![b] = r]
  /\ source' = [source EXCEPT ![r] = page[b].asked]
  /\ page' = page
  /\ modal' = modal \/ modal' = [modal EXCEPT ![b] = NoModal]
  /\ j.kind \in Travels => modal' = [modal EXCEPT ![b] = NoModal]

\* Only the browser's own page or modal changes.
Follows(b) ==
  /\ UNCHANGED <<vars, source>>
  /\ \/ Dismiss(b)
     \/ /\ busy[b] # NoOne /\ Ended(busy[b])
        /\ Show(b, busy[b]) \/ OpenModal(b, busy[b]) \/ Toast(b, busy[b])

\* What is sent is sent in a request nobody used.
LEMMA SendEffect ==
  ASSUME NEW b, NEW j, Fit(b, j), Send(b, j)
  PROVE  \E r \in Requests :
           /\ Arrive(r) /\ Receive(r, j)
           /\ busy' = [busy EXCEPT ![b] = r]
           /\ source' = [source EXCEPT ![r] = page[b].asked]
<1>1. PICK r \in Fresh : /\ Accept(r, j) /\ busy' = [busy EXCEPT ![b] = r]
                         /\ source' = [source EXCEPT ![r] = page[b].asked]
  BY DEF Send
<1>2. r \in Requests
  <2> DEFINE idle == {s \in Requests : pc[s] = "idle"}
  <2>1. idle # {} /\ r = CHOOSE s \in idle : TRUE
    BY <1>1 DEF Fresh
  <2>2. r \in idle
    BY <2>1
  <2> QED BY <2>2
<1>3. Receive(r, j)
  BY <1>1 DEF Receive, Fit
<1>4. Arrive(r)
  BY <1>3 DEF Arrive, Fit, Send
<1> QED BY <1>1, <1>2, <1>3, <1>4

\* The requests a browser sends without a form.
LEMMA PlainIsFit ==
  ASSUME NEW b \in Browsers, NEW w \in Workers,
         NEW kind \in {"page", "authorize", "connect"}
  PROVE  LET j == [kind |-> kind, net |-> CommunityOf[b], worker |-> w]
         IN  Fit(b, j) /\ j.kind = kind
BY BrowsersKnown DEF Fit, PlainJobs, FormInput, ButtonInput, EventInput

\* Whatever a browser does, it asks for something or follows an answer.
LEMMA BrowserMoves ==
  ASSUME IInv, ReadInv, BrowserInv, NEW b \in Browsers, Browse(b)
  PROVE  Follows(b) \/ \E r \in Requests : \E j : Asks(b, j, r)
<1> USE DEF BrowserInv, BrowsersTypeOK
<1>1. ASSUME NEW kind \in {"page", "authorize", "connect"}, Ask(b, kind),
             page' = page,
             modal' = [modal EXCEPT ![b] = NoModal]
      PROVE  \E r \in Requests : \E j : Asks(b, j, r)
  <2>1. PICK w \in Workers :
          Send(b, [kind |-> kind, net |-> CommunityOf[b], worker |-> w])
    BY <1>1 DEF Ask
  <2>2. PICK j : j = [kind |-> kind, net |-> CommunityOf[b], worker |-> w]
    OBVIOUS
  <2>3. Fit(b, j) /\ Send(b, j)
    BY <2>1, <2>2, PlainIsFit
  <2>4. PICK r \in Requests :
          /\ Arrive(r) /\ Receive(r, j)
          /\ busy' = [busy EXCEPT ![b] = r]
          /\ source' = [source EXCEPT ![r] = page[b].asked]
    BY <2>3, SendEffect
  <2> QED BY <1>1, <2>3, <2>4 DEF Asks
<1>2. CASE Visit(b)
  BY <1>1, <1>2 DEF Visit
<1>3. CASE Click(b)
  <2>0. PICK button \in Buttons(b) : \E j \in Clicks(b, button) : Send(b, j)
    BY <1>3 DEF Click
  <2>1. PICK j \in Clicks(b, button) : Send(b, j)
    BY <2>0
  <2>2. Fit(b, j) /\ (j.kind \in Travels => modal[b] = NoModal)
    BY <2>1, ClicksAreFit
  <2>3. modal[b] = NoModal => modal' = [modal EXCEPT ![b] = NoModal]
    BY <1>3 DEF Click
  <2>4. page' = page /\ modal' = modal
    BY <1>3 DEF Click
  <2>5. PICK r \in Requests :
          /\ Arrive(r) /\ Receive(r, j)
          /\ busy' = [busy EXCEPT ![b] = r]
          /\ source' = [source EXCEPT ![r] = page[b].asked]
    BY <2>1, <2>2, SendEffect
  <2> QED BY <2>2, <2>3, <2>4, <2>5 DEF Asks
<1>4. CASE Dismiss(b)
  BY <1>4 DEF Dismiss, Follows
<1>5. CASE Answered(b)
  <2>1. PICK r \in Requests : r = busy[b]
    BY <1>5 DEF Answered
  <2>2. CASE Reload(b, r)
    BY <1>1, <2>2 DEF Reload
  <2>3. CASE Redirect(b, r)
    <3>1. job[r].kind \in Travels
      BY <2>3 DEF Redirect, Travels
    <3>2. modal[b] = NoModal
      BY <1>5, <2>1, <3>1 DEF Answered, BusyIsOwn
    <3>3. page' = page /\ modal' = [modal EXCEPT ![b] = NoModal]
      BY <2>3, <3>2 DEF Redirect
    <3> QED BY <1>1, <2>3, <3>3 DEF Redirect
  <2>4. CASE Show(b, r) \/ OpenModal(b, r) \/ Toast(b, r)
    <3>1. UNCHANGED <<vars, source>>
      BY <2>4 DEF Show, OpenModal, Toast
    <3> QED BY <1>5, <2>1, <2>4, <3>1 DEF Follows, Answered
  <2> QED BY <1>5, <2>1, <2>2, <2>3, <2>4 DEF Answered
<1> QED BY <1>2, <1>3, <1>4, <1>5 DEF Browse

\* The app works, and no browser moves.
Works ==
  /\ UNCHANGED browsing
  /\ UNCHANGED vars \/ \E r \in Requests : Handle(r) \/ Background(r)

\* The steps of the browsers and the app beside them.
AnyStep ==
  \/ Works
  \/ \E b \in Browsers :
       Follows(b) \/ \E r \in Requests : \E j : Asks(b, j, r)

\* There are no other steps.
LEMMA StepOfAll ==
  ASSUME IInv, ReadInv, BrowserInv, [BrowsersNext]_<<vars, browsing>>
  PROVE  AnyStep
BY BrowserMoves DEF BrowsersNext, AnyStep, Works, Quiet

\* It is one the app takes for itself.
LEMMA StepOfApp ==
  ASSUME IInv, ReadInv, BrowserInv, [BrowsersNext]_<<vars, browsing>>
  PROVE  [Next]_vars
BY StepOfAll DEF AnyStep, Works, Follows, Asks, Next

-----------------------------------------------------------------------------
(* The browsers' invariant is inductive *)

\* The jobs of requests change only by asking.
LEMMA WorkKeepsJobs ==
  ASSUME IInv, Works
  PROVE  job' = job
<1> USE DEF IInv, TypeOK
<1>1. ASSUME NEW r \in Requests, Handle(r)
      PROVE  job' = job
  BY <1>1, HandlerMoves, MoveEffect DEF ConnectStateExpired, Crash
<1>2. ASSUME NEW r \in Requests, Background(r)
      PROVE  job' = job
  BY <1>2 DEF Background, Welcome, WelcomeSent, WelcomeRejected, TaskRejected,
     RefreshTokenClient, RefreshUpdate, RefreshUpdateRejected, TaskOver, Crash
<1> QED BY <1>1, <1>2 DEF Works, vars, procs

\* What a request that is over did is settled.
LEMMA OverStays ==
  ASSUME IInv, [Next]_vars, NEW s \in Requests, Ended(s)
  PROVE  /\ Ended(s)' /\ job'[s] = job[s] /\ reply'[s] = reply[s]
         /\ past'[s] = past[s] /\ ListedIds(s)' = ListedIds(s)
BY Fixed DEF Ended, Waits, SameLocals, ListedIds

\* Every variable of the browsers keeps its type.
LEMMA BrowsersTypeStep ==
  ASSUME IInv, AnswerInv, BrowsersTypeOK, AnyStep
  PROVE  BrowsersTypeOK'
<1> USE DEF IInv, TypeOK, BrowsersTypeOK, AnyStep
<1>1. CASE Works
  BY <1>1 DEF Works, browsing
<1>2. NoModal \in [form : Forms, row : Requests \cup {NoOne}]
  BY DEF NoModal, Forms
<1>3. ASSUME NEW b \in Browsers, NEW r \in Requests, NEW j, Asks(b, j, r)
      PROVE  BrowsersTypeOK'
  BY <1>2, <1>3 DEF Asks
<1>4. ASSUME NEW b \in Browsers, Dismiss(b)
      PROVE  BrowsersTypeOK'
  BY <1>2, <1>4 DEF Dismiss
<1>5. ASSUME NEW b \in Browsers, NEW r \in Requests, Show(b, r)
      PROVE  BrowsersTypeOK'
  <2>1. ListedIds(r) \in SUBSET Requests
    BY DEF ListedIds, ViewTypeOK, Documents
  <2>2. reply[r] \in Replies
    BY DEF WorkersTypeOK
  <2>3. NoPage \in [slate : Replies, rows : SUBSET Requests,
                    asked : Requests \cup {NoOne}]
    BY DEF NoPage, Replies
  <2> QED BY <1>5, <2>1, <2>2, <2>3 DEF Show
<1>6. ASSUME NEW b \in Browsers, NEW r \in Requests, Ended(r), OpenModal(b, r)
      PROVE  BrowsersTypeOK'
  <2>1. job[r].kind \in Forms
    BY <1>6 DEF OpenModal, AnswerInv, FormsAnswerForms, Forms
  <2>2. job[r].kind \in {"edit", "refetch", "ask-delete"} =>
          job[r].row \in Requests
    BY <1>6, JobFields DEF JobAtLabel, Ended
  <2>3. busy' = [busy EXCEPT ![b] = NoOne] /\ page' = page /\ source' = source
    BY <1>6 DEF OpenModal
  <2>4. PICK m : /\ m \in [form : Forms, row : Requests \cup {NoOne}]
                 /\ modal' = [modal EXCEPT ![b] = m]
    BY <1>6, <2>1, <2>2 DEF OpenModal
  <2> QED BY <2>3, <2>4
<1>7. ASSUME NEW b \in Browsers, NEW r \in Requests, Toast(b, r)
      PROVE  BrowsersTypeOK'
  BY <1>7 DEF Toast
<1> QED BY <1>1, <1>3, <1>4, <1>5, <1>6, <1>7 DEF Follows

\* Browsers show what requests that are over have found.
LEMMA PagesAreAnswersStep ==
  ASSUME IInv, BrowserInv, [Next]_vars, AnyStep
  PROVE  PagesAreAnswers'
<1> USE DEF BrowserInv, BrowsersTypeOK, AnyStep
<1> SUFFICES ASSUME NEW a \in Browsers, page'[a] # NoPage
             PROVE  /\ IsPage(page[a].asked)'
                    /\ page'[a].slate = reply'[page'[a].asked]
                    /\ page'[a].rows = ListedIds(page[a].asked)'
  BY DEF PagesAreAnswers
<1>1. PICK s : s = page'[a].asked
  OBVIOUS
<1>2. /\ IsPage(s) /\ page'[a].slate = reply[s]
      /\ page'[a].rows = ListedIds(s)
  <2>1. CASE page'[a] = page[a]
    BY <1>1, <2>1 DEF PagesAreAnswers
  <2>2. CASE page'[a] # page[a]
    <3>1. PICK b \in Browsers : Follows(b) /\ page' # page
      BY <2>2 DEF Works, browsing, Asks
    <3>2. PICK r \in Requests : r = busy[b] /\ Ended(r) /\ Show(b, r)
      BY <3>1 DEF Follows, Dismiss, OpenModal, Toast
    <3>3. a = b /\ page'[a] = [slate |-> reply[r], rows |-> ListedIds(r),
                               asked |-> r]
      BY <2>2, <3>2 DEF Show
    <3> QED BY <1>1, <3>2, <3>3 DEF Show, IsPage
  <2> QED BY <2>1, <2>2
<1>3. /\ IsPage(s)' /\ reply'[s] = reply[s] /\ ListedIds(s)' = ListedIds(s)
  BY <1>2, OverStays DEF IsPage
<1> QED BY <1>1, <1>2, <1>3

\* A form that opens is of an own connection.
LEMMA ModalsAreOwnStep ==
  ASSUME IInv, ReadInv, AnswerInv, EditFormIsOwn, BrowserInv, [Next]_vars,
         AnyStep
  PROVE  ModalsAreOwn'
<1> USE DEF BrowserInv, BrowsersTypeOK, AnyStep
<1> DEFINE rowed == {"edit", "refetch", "ask-delete"}
           Fine(b, m) ==
             /\ m.form = "none" => m = NoModal
             /\ m.form \in rowed =>
                  m.row \in Requests /\ channel[m.row] # Unused
             /\ m.form \in {"edit", "refetch"} =>
                  job[m.row].net = CommunityOf[b]
<1> SUFFICES ASSUME NEW a \in Browsers
             PROVE  Fine(a, modal[a])'
  BY DEF ModalsAreOwn
<1>1. PICK m : m = modal'[a]
  OBVIOUS
<1>2. Fine(a, m)
  <2>1. CASE modal'[a] = modal[a]
    BY <1>1, <2>1 DEF ModalsAreOwn
  <2>2. CASE modal'[a] = NoModal
    BY <1>1, <2>2 DEF NoModal
  <2>3. CASE modal'[a] \notin {modal[a], NoModal}
    <3>1. PICK b \in Browsers :
            \/ Follows(b)
            \/ \E r \in Requests : \E j : Asks(b, j, r)
      BY <2>3 DEF Works, browsing
    <3>2. PICK r \in Requests : r = busy[b] /\ Ended(r) /\ OpenModal(b, r)
      BY <2>3, <3>1 DEF Follows, Dismiss, Show, Toast, Asks
    <3>3. /\ a = b /\ m.form = job[r].kind
          /\ m.form \in rowed => m.row = job[r].row
      BY <1>1, <2>3, <3>2 DEF OpenModal
    <3>4. pc[r] # "idle" /\ job[r].net = CommunityOf[b] /\ job[r] \in Jobs
      BY <3>2, Sentinels DEF BusyIsOwn, IInv, JobAtLabel
    <3>5. job[r].kind \in Forms \ {"none"}
      BY <3>2 DEF OpenModal, AnswerInv, FormsAnswerForms, Forms
    <3>6. ButtonInput(job[r])
      BY <3>4 DEF ReadInv, InputsKept
    <3>7. m.form \in rowed => m.row \in Requests /\ channel[m.row] # Unused
      BY <3>3, <3>4, <3>6, JobFields DEF ButtonInput
    <3>8. m.form = "refetch" => job[m.row].net = CommunityOf[b]
      BY <3>3, <3>4, <3>6 DEF ButtonInput
    <3>9. m.form = "edit" => job[m.row].net = CommunityOf[b]
      BY <3>2, <3>3, <3>4
         DEF EditFormIsOwn, OpenModal, AnswerInv, FormsAnswerForms
    <3> QED BY <3>3, <3>5, <3>7, <3>8, <3>9
  <2> QED BY <2>1, <2>2, <2>3
<1>3. m.row \in Requests /\ channel[m.row] # Unused =>
        channel'[m.row] # Unused /\ job'[m.row] = job[m.row]
  BY RowLasts, Fixed
<1> QED BY <1>1, <1>2, <1>3

\* What a browser waits for it has asked for.
LEMMA BusyIsOwnStep ==
  ASSUME IInv, BrowserInv, [Next]_vars, AnyStep
  PROVE  BusyIsOwn'
<1> USE DEF BrowserInv, BrowsersTypeOK, AnyStep
<1> SUFFICES ASSUME NEW a \in Browsers, busy'[a] # NoOne
             PROVE  /\ pc'[busy'[a]] # "idle"
                    /\ job'[busy'[a]].net = CommunityOf[a]
                    /\ job'[busy'[a]].kind \in Travels => modal'[a] = NoModal
  BY DEF BusyIsOwn
<1>1. ASSUME busy'[a] = busy[a],
             modal'[a] \in {modal[a], NoModal}
      PROVE  /\ pc'[busy'[a]] # "idle"
             /\ job'[busy'[a]].net = CommunityOf[a]
             /\ job'[busy'[a]].kind \in Travels => modal'[a] = NoModal
  <2>1. PICK r \in Requests : r = busy[a]
    BY <1>1
  <2>2. /\ pc[r] # "idle" /\ job[r].net = CommunityOf[a]
        /\ job[r].kind \in Travels => modal[a] = NoModal
    BY <1>1, <2>1 DEF BusyIsOwn
  <2>3. pc'[r] # "idle" /\ job'[r] = job[r]
    BY <2>2, Fixed
  <2> QED BY <1>1, <2>1, <2>2, <2>3
<1>2. CASE Works
  BY <1>1, <1>2 DEF Works, browsing
<1>3. ASSUME NEW b \in Browsers, Follows(b)
      PROVE  busy'[a] = busy[a] /\ modal'[a] \in {modal[a], NoModal}
  <2>1. CASE Dismiss(b)
    BY <2>1 DEF Dismiss
  <2>2. CASE ~Dismiss(b)
    <3>1. /\ busy' = [busy EXCEPT ![b] = NoOne]
          /\ \E m : modal' = modal \/ modal' = [modal EXCEPT ![b] = m]
      BY <1>3, <2>2 DEF Follows, Show, OpenModal, Toast
    <3> QED BY <3>1
  <2> QED BY <2>1, <2>2
<1>4. ASSUME NEW b \in Browsers, NEW r \in Requests, NEW j, Asks(b, j, r)
      PROVE  /\ pc'[busy'[a]] # "idle"
             /\ job'[busy'[a]].net = CommunityOf[a]
             /\ job'[busy'[a]].kind \in Travels => modal'[a] = NoModal
  <2>1. CASE a # b
    <3>1. busy'[a] = busy[a] /\ modal'[a] = modal[a]
      BY <1>4, <2>1 DEF Asks
    <3> QED BY <1>1, <3>1
  <2>2. CASE a = b
    <3>1. /\ busy'[a] = r /\ j.net = CommunityOf[a]
          /\ j.kind \in Travels => modal'[a] = NoModal
      BY <1>4, <2>2 DEF Asks, Fit
    <3>2. j \in Jobs /\ Receive(r, j)
      BY <1>4 DEF Asks, Fit, Jobs
    <3>3. job'[r] = j /\ pc'[r] # "idle"
      BY <3>2, ReceiveEffect DEF IInv, TypeOK, Entries
    <3> QED BY <3>1, <3>3
  <2> QED BY <2>1, <2>2
<1> QED BY <1>1, <1>2, <1>3, <1>4

\* The form of a new connection stays above the page that offered it.
LEMMA FormsFromOffersStep ==
  ASSUME IInv, BrowserInv, AnswerInv, [Next]_vars, AnyStep
  PROVE  FormsFromOffers'
<1> USE DEF BrowserInv, BrowsersTypeOK, AnyStep
<1> DEFINE new == {"open", "fetch"}
           Waiting(b) == busy[b] # NoOne /\ job[busy[b]].kind \in new
<1> SUFFICES ASSUME NEW a \in Browsers,
                    modal'[a].form \in new \/ Waiting(a)'
             PROVE  Offers(page[a])'
  BY DEF FormsFromOffers
<1>1. ASSUME page'[a] = page[a], Offers(page[a])
      PROVE  Offers(page[a])'
  BY <1>1 DEF Offers
<1>2. ASSUME busy'[a] = busy[a], Waiting(a)'
      PROVE  Waiting(a)
  BY <1>2, Fixed DEF BusyIsOwn
<1>3. ASSUME NEW m, m \in {modal[a], NoModal}, m.form \in new
      PROVE  Offers(page[a])
  BY <1>3 DEF FormsFromOffers, NoModal
<1>4. CASE Works
  <2>1. page'[a] = page[a] /\ modal'[a] = modal[a] /\ busy'[a] = busy[a]
    BY <1>4 DEF Works, browsing
  <2> QED BY <1>1, <1>2, <1>3, <2>1 DEF FormsFromOffers
<1>5. ASSUME NEW b \in Browsers, NEW r \in Requests, NEW j, Asks(b, j, r)
      PROVE  Offers(page[a])'
  <2>1. page'[a] = page[a] /\ modal'[a] \in {modal[a], NoModal}
    BY <1>5 DEF Asks
  <2>2. CASE modal'[a].form \in new
    BY <1>1, <1>3, <2>1, <2>2
  <2>3. CASE Waiting(a)' /\ a # b
    <3>1. busy'[a] = busy[a]
      BY <1>5, <2>3 DEF Asks
    <3> QED BY <1>1, <1>2, <2>1, <2>3, <3>1 DEF FormsFromOffers
  <2>4. CASE Waiting(a)' /\ a = b
    <3>1. j \in Jobs /\ Receive(r, j) /\ busy'[a] = r
      BY <1>5, <2>4 DEF Asks, Fit, Jobs
    <3>2. job'[r] = j
      BY <3>1, ReceiveEffect DEF IInv, TypeOK
    <3>3. Offers(page[a])
      BY <1>5, <2>4, <3>1, <3>2 DEF Asks, Fit
    <3> QED BY <1>1, <2>1, <3>3
  <2> QED BY <2>2, <2>3, <2>4
<1>6. ASSUME NEW b \in Browsers, Follows(b)
      PROVE  Offers(page[a])'
  <2>1. CASE a # b
    <3>1. page'[a] = page[a] /\ modal'[a] = modal[a] /\ busy'[a] = busy[a]
      BY <1>6, <2>1 DEF Follows, Dismiss, Show, OpenModal, Toast
    <3> QED BY <1>1, <1>2, <1>3, <3>1 DEF FormsFromOffers
  <2>2. CASE a = b /\ Dismiss(b)
    <3>1. page'[a] = page[a] /\ modal'[a] = NoModal /\ busy'[a] = busy[a]
      BY <2>2 DEF Dismiss
    <3> QED BY <1>1, <1>2, <1>3, <3>1 DEF FormsFromOffers
  <2>3. CASE a = b /\ ~Dismiss(b)
    <3>1. PICK r \in Requests :
            /\ r = busy[a] /\ Ended(r)
            /\ Show(a, r) \/ OpenModal(a, r) \/ Toast(a, r)
      BY <1>6, <2>3 DEF Follows
    <3>2. busy'[a] = NoOne
      BY <3>1 DEF Show, OpenModal, Toast
    <3>3. modal'[a].form \in new
      BY <3>2
    <3>4. CASE Show(a, r)
      <4>1. modal' = modal /\ job[r].kind = "page"
        BY <3>4 DEF Show
      <4>2. modal[a] = NoModal
        BY <3>1, <4>1, Sentinels DEF BusyIsOwn, Travels
      <4> QED BY <3>3, <4>1, <4>2 DEF NoModal
    <3>5. CASE OpenModal(a, r)
      <4>1. job[r].kind \in new /\ page' = page
        BY <3>3, <3>5 DEF OpenModal
      <4>2. Waiting(a)
        BY <3>1, <4>1, Sentinels
      <4> QED BY <1>1, <4>1, <4>2 DEF FormsFromOffers
    <3>6. CASE Toast(a, r)
      <4>1. modal' = modal /\ page' = page
        BY <3>6 DEF Toast
      <4> QED BY <1>1, <1>3, <3>3, <4>1
    <3> QED BY <3>1, <3>4, <3>5, <3>6
  <2> QED BY <2>1, <2>2, <2>3
<1> QED BY <1>4, <1>5, <1>6

\* The page a new connection was asked from goes on to be one that offered it.
LEMMA AskedFromOffersStep ==
  ASSUME IInv, BrowserInv, [Next]_vars, AnyStep
  PROVE  AskedFromOffers'
<1> USE DEF BrowserInv, BrowsersTypeOK, AnyStep
<1> DEFINE new == {"open", "fetch", "save"}
           Offered(s) ==
             /\ IsPage(s)
             /\ \/ reply[s] = "connected"
                \/ /\ reply[s] = "channels"
                   /\ ~(Cardinality(ListedIds(s)) >= MaxConnections)
<1> SUFFICES ASSUME NEW q \in Requests, job'[q].kind \in new
             PROVE  Offered(source[q])'
  BY DEF AskedFromOffers
<1>1. ASSUME NEW s, Offered(s)
      PROVE  Offered(s)'
  BY <1>1, OverStays DEF IsPage
<1>2. PICK s : s = source'[q]
  OBVIOUS
<1>3. ASSUME job'[q] = job[q], source'[q] = source[q]
      PROVE  Offered(s)
  BY <1>2, <1>3 DEF AskedFromOffers
<1>4. Offered(s)
  <2>1. CASE Works
    BY <1>3, <2>1, WorkKeepsJobs DEF Works, browsing
  <2>2. ASSUME NEW b \in Browsers, Follows(b)
        PROVE  Offered(s)
    BY <1>3, <2>2 DEF Follows, vars, procs
  <2>3. ASSUME NEW b \in Browsers, NEW r \in Requests, NEW j, Asks(b, j, r)
        PROVE  Offered(s)
    <3>1. j \in Jobs /\ Receive(r, j)
      BY <2>3 DEF Asks, Fit, Jobs
    <3>2. CASE q # r
      <4>1. job'[q] = job[q] /\ source'[q] = source[q]
        BY <2>3, <3>1, <3>2, ReceiveEffect DEF Asks, IInv, TypeOK
      <4> QED BY <1>3, <4>1
    <3>3. CASE q = r
      <4>1. j.kind \in new
        BY <3>1, <3>3, ReceiveEffect DEF IInv, TypeOK
      <4>2. Offers(page[b]) /\ s = page[b].asked
        BY <1>2, <2>3, <3>3, <4>1 DEF Asks, Fit
      <4>3. page[b] # NoPage
        BY <4>2 DEF Offers, NoPage
      <4> QED BY <4>2, <4>3 DEF PagesAreAnswers, Offers
    <3> QED BY <3>2, <3>3
  <2> QED BY <2>1, <2>2, <2>3
<1> QED BY <1>1, <1>2, <1>4

-----------------------------------------------------------------------------
(* Theorems *)

\* All that is known of the app and the browsers.
AllInv == IInv /\ ReadInv /\ AccountInv /\ ViewInv /\ AnswerInv /\ BrowserInv

\* It holds of the initial states.
LEMMA BrowsersInvInit == BrowsersInit => AllInv
<1> SUFFICES ASSUME BrowsersInit PROVE AllInv
  OBVIOUS
<1>1. IInv /\ ReadInv /\ AccountInv /\ ViewInv /\ AnswerInv
  BY InitInvariant, ReadInit, AccountInit, ViewInvInit, AnswerInit
     DEF BrowsersInit
<1>2. BrowserInv
  BY DEF BrowsersInit, Init, WorkersInit, None, NoPage, NoModal, Forms,
     Replies, BrowserInv, BrowsersTypeOK, PagesAreAnswers, ModalsAreOwn,
     BusyIsOwn, FormsFromOffers, AskedFromOffers
<1> QED BY <1>1, <1>2 DEF AllInv

\* It is inductive, and makes every step one the app takes for itself.
LEMMA BrowsersInvStep ==
  AllInv /\ [BrowsersNext]_<<vars, browsing>> => AllInv' /\ [Next]_vars
<1> SUFFICES ASSUME AllInv, [BrowsersNext]_<<vars, browsing>>
             PROVE  AllInv' /\ [Next]_vars
  OBVIOUS
<1> USE DEF AllInv
<1>1. [Next]_vars /\ AnyStep
  BY StepOfApp, StepOfAll
<1>2. IInv' /\ ReadInv' /\ AccountInv' /\ ViewInv' /\ AnswerInv'
  BY <1>1, StepInvariant, ReadStep, AccountStep, ViewStep, AnswerStep
<1>3. BrowsersTypeOK'
  BY <1>1, BrowsersTypeStep DEF BrowserInv
<1>4. PagesAreAnswers' /\ BusyIsOwn' /\ FormsFromOffers' /\ AskedFromOffers'
  BY <1>1, PagesAreAnswersStep, BusyIsOwnStep, FormsFromOffersStep,
     AskedFromOffersStep
<1>5. ModalsAreOwn'
  BY <1>1, ModalsAreOwnStep, OpenEditsAreOwn
<1> QED BY <1>1, <1>2, <1>3, <1>4, <1>5 DEF BrowserInv

\* What is known of the app and the browsers holds of every reachable state.
THEOREM BrowsersInvariance == BrowsersSpec => []AllInv
BY BrowsersInvInit, BrowsersInvStep, PTL DEF BrowsersSpec

\* Browsers, with pages and forms of any age, send the app only what it
\* assumes of its requests: with them it does what TeamsApp says, and all that
\* is proved of TeamsApp holds.
THEOREM BrowsersUseTheApp == BrowsersSpec => Spec
<1>1. BrowsersInit => Init
  BY DEF BrowsersInit
<1> QED BY <1>1, BrowsersInvariance, BrowsersInvStep, PTL DEF BrowsersSpec, Spec

\* The buttons of pages and forms, however old, name connections that were
\* there, and an update one of the own community.
THEOREM ClicksExpected == BrowsersSpec => []ClicksAreExpected
<1>1. AllInv => ClicksAreExpected
  BY ClicksAreFit DEF AllInv, ClicksAreExpected, Fit
<1> QED BY <1>1, BrowsersInvariance, PTL

\* Nobody opens, fills in or saves the form of a new connection from a page
\* that was asked for when as many connections as there may be, reported as
\* saved, were there and still are.
THEOREM MaximumIsSeen == BrowsersSpec => []MaximumSeen
<1>1. AllInv => MaximumSeen
  <2> SUFFICES ASSUME AllInv, NEW r \in Requests,
                      job[r].kind \in {"open", "fetch", "save"}
               PROVE  Cardinality({i \in past[source[r]] :
                                     Stored(i) /\ reply[i] = "saved"})
                        < MaxConnections
    BY DEF MaximumSeen
  <2> USE DEF AllInv, BrowserInv
  <2>1. PICK s, C : /\ s = source[r]
                    /\ C = {i \in past[s] : Stored(i) /\ reply[i] = "saved"}
    OBVIOUS
  <2>2. /\ IsPage(s)
        /\ \/ reply[s] = "connected"
           \/ /\ reply[s] = "channels"
              /\ ~(Cardinality(ListedIds(s)) >= MaxConnections)
    BY <2>1 DEF AskedFromOffers
  <2>3. C \subseteq ListedIds(s)
    BY <2>1, <2>2 DEF ViewInv, PageComplete, IsPage
  <2>4. IsFiniteSet(ListedIds(s))
    BY <2>2, ListsAreFinite DEF AnswerInv, FiniteLists, IsPage
  <2>5. CASE reply[s] = "connected"
    <3>1. C = {}
      BY <2>2, <2>3, <2>5
         DEF AnswerInv, BlankAtFirst, IsPage, ListedIds
    <3>2. Cardinality(C) = 0
      BY <3>1, FS_EmptySet
    <3> QED BY <2>1, <3>2, BrowsersKnown
  <2>6. CASE reply[s] = "channels"
    <3>1. /\ Cardinality(C) \in Nat /\ Cardinality(ListedIds(s)) \in Nat
          /\ Cardinality(C) <= Cardinality(ListedIds(s))
      BY <2>3, <2>4, FS_Subset, FS_CardinalityType
    <3>2. Cardinality(ListedIds(s)) < MaxConnections
      BY <2>2, <2>6, <3>1, BrowsersKnown
    <3> QED BY <2>1, <3>1, <3>2, BrowsersKnown
  <2> QED BY <2>2, <2>5, <2>6
<1> QED BY <1>1, BrowsersInvariance, PTL
=============================================================================

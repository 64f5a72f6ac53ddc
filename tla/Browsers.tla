------------------------------ MODULE Browsers ------------------------------
(***************************************************************************)
(* The settings block as its users see it: the slate of the page, the      *)
(* modal over it and the buttons both offer.  A browser has one request    *)
(* under way and follows the interactions of the answer: it shows a slate, *)
(* opens or closes a modal, reloads the block, or goes where it is         *)
(* redirected.  What a page or a form shows is as old as its request, and  *)
(* other browsers go on meanwhile.                                         *)
(***************************************************************************)
EXTENDS TeamsApp, Dispatch, FiniteSets, Naturals

CONSTANTS
  Browsers,
  CommunityOf,       \* the community whose settings a browser shows
  MaxConnections     \* 3 in getAuthSettingsBlocks

ASSUME BrowsersKnown ==
  /\ CommunityOf \in [Browsers -> Networks]
  /\ MaxConnections \in Nat \ {0}

VARIABLES
  page,     \* the slate of the block, the rows it lists, the request for it
  modal,    \* the form or dialog, and the connection it is about
  busy,     \* the request under way
  source    \* history: the request for the page a click was made on

browsing == <<page, modal, busy, source>>

NoPage == [slate |-> "none", rows |-> {}, asked |-> NoOne]

NoModal == [form |-> "none", row |-> NoOne]

BrowsersInit ==
  /\ Init
  /\ page = [b \in Browsers |-> NoPage]
  /\ modal = [b \in Browsers |-> NoModal]
  /\ busy = [b \in Browsers |-> NoOne]
  /\ source = [r \in Requests |-> NoOne]

-----------------------------------------------------------------------------
(* Buttons: the word of their callbackId and the connection it carries. *)

Plainly(word) == [word |-> word, row |-> NoOne]

\* Bug: `length > 3`, an off-by-one.
AddButtonPastMaximum(p) ==
  IF p.slate = "channels" /\ Cardinality(p.rows) > MaxConnections
    THEN {} ELSE {Plainly("open-modal")}

\* The alert 'you have reached the max!' stands in its place; the rows are
\* those of every community.
AddButton(p) ==
  IF p.slate = "channels" /\ Cardinality(p.rows) >= MaxConnections
    THEN {} ELSE {Plainly("open-modal")}

RowButtons(p) == [word : {"edit", "delete"}, row : p.rows]

PageButtons(p) ==
  CASE p.slate = "disconnected" -> {Plainly("auth-redirect")}
    [] p.slate \in {"connected", "channels"} ->
         AddButton(p) \cup RowButtons(p) \cup {Plainly("revoke-modal")}
    [] OTHER -> {}

\* Its selects are required: without channels the form cannot be submitted.
ModalButtons(m) ==
  CASE m.form = "open" -> {Plainly("fetch-channels")}
    [] m.form = "fetch" -> {Plainly("fetch-channels"), Plainly("save-modal")}
    [] m.form \in {"edit", "refetch"} ->
         [word : {"upgrade", "updateBlock"}, row : {m.row}]
    [] m.form = "ask-delete" -> [word : {"removeBlock"}, row : {m.row}]
    [] m.form = "ask-revoke" -> {Plainly("auth-voke")}

\* A modal covers the page.
Buttons(b) ==
  IF modal[b] = NoModal THEN PageButtons(page[b]) ELSE ModalButtons(modal[b])

Webhook(word) ==
  [route |-> "/interaction", type |-> "INTERACTION",
   interaction |-> [block |-> "settings", shortcut |-> "none",
                    context |-> "NETWORK", word |-> word]]

\* What the app makes of a click, the fields of the form filled in with a space
\* of the community and any channel and events.
Clicks(b, button) ==
  LET kind == WebhookKind(Webhook(button.word))
      n == CommunityOf[b]
      Saves == [kind : {kind}, net : {n}, worker : Workers,
                target : Targets, events : SUBSET Events]
      Updates == [kind : {kind}, net : {n}, worker : Workers,
                  row : {button.row},
                  target : Targets, events : SUBSET Events]
  IN CASE kind = "save" -> {j \in Saves : FormInput(j)}
       [] kind = "update" -> {j \in Updates : FormInput(j)}
       [] kind \in {"ask-delete", "delete", "edit", "refetch"} ->
            [kind : {kind}, net : {n}, worker : Workers, row : {button.row}]
       [] OTHER -> [kind : {kind}, net : {n}, worker : Workers]

-----------------------------------------------------------------------------
(* Steps of a browser *)

\* Requests are sent in a fixed order: which of them is next is no choice.
Fresh ==
  LET idle == {r \in Requests : pc[r] = "idle"} IN
  IF idle = {} THEN {} ELSE {CHOOSE r \in idle : TRUE}

Send(b, j) ==
  /\ \E r \in Fresh :
       /\ Accept(r, j)
       /\ busy' = [busy EXCEPT ![b] = r]
       /\ source' = [source EXCEPT ![r] = page[b].asked]
  /\ UNCHANGED <<view, edited, account, notices>>

Ask(b, kind) ==
  \E w \in Workers :
    Send(b, [kind |-> kind, net |-> CommunityOf[b], worker |-> w])

\* The user opens the settings of the app, or loads them again.
Visit(b) ==
  /\ busy[b] = NoOne
  /\ Ask(b, "page")
  /\ modal' = [modal EXCEPT ![b] = NoModal]
  /\ UNCHANGED page

Click(b) ==
  /\ busy[b] = NoOne
  /\ \E button \in Buttons(b) : \E j \in Clicks(b, button) : Send(b, j)
  /\ UNCHANGED <<page, modal>>

Dismiss(b) ==
  /\ busy[b] = NoOne /\ modal[b] # NoModal
  /\ modal' = [modal EXCEPT ![b] = NoModal]
  /\ UNCHANGED <<vars, page, busy, source>>

\* The slate of the page; an HTTP 500 shows none.
Show(b, r) ==
  /\ job[r].kind = "page"
  /\ page' = [page EXCEPT ![b] =
       IF reply[r] = "error" THEN NoPage
       ELSE [slate |-> reply[r], rows |-> ListedIds(r), asked |-> r]]
  /\ busy' = [busy EXCEPT ![b] = NoOne]
  /\ UNCHANGED <<vars, modal, source>>

\* OpenModal, and Show inside a modal.
OpenModal(b, r) ==
  /\ reply[r] \in {"form", "dialog"}
  /\ modal' = [modal EXCEPT ![b] =
       [form |-> job[r].kind,
        row |-> IF job[r].kind \in {"edit", "refetch", "ask-delete"}
                  THEN job[r].row ELSE NoOne]]
  /\ busy' = [busy EXCEPT ![b] = NoOne]
  /\ UNCHANGED <<vars, page, source>>

\* Close and Reload.
Reload(b, r) ==
  /\ reply[r] \in {"saved", "updated", "deleted", "closed"}
  /\ Ask(b, "page")
  /\ modal' = [modal EXCEPT ![b] = NoModal]
  /\ UNCHANGED page

\* To /oauth, to Microsoft, back to /oauth/redirect, and to the settings page.
Redirect(b, r) ==
  /\ reply[r] = "redirected"
  /\ \/ job[r].kind = "redirect" /\ Ask(b, "authorize")
     \/ job[r].kind = "authorize" /\ Ask(b, "connect")
     \/ job[r].kind = "connect" /\ Ask(b, "page")
  /\ UNCHANGED <<page, modal>>

\* A toast, or an interaction that failed: all stays as it is.
Toast(b, r) ==
  /\ reply[r] \in {"none", "already", "failed", "error", "unavailable"}
  /\ job[r].kind # "page"
  /\ busy' = [busy EXCEPT ![b] = NoOne]
  /\ UNCHANGED <<vars, page, modal, source>>

Answered(b) ==
  /\ busy[b] # NoOne
  /\ Ended(busy[b])
  /\ \/ Show(b, busy[b]) \/ OpenModal(b, busy[b]) \/ Reload(b, busy[b])
     \/ Redirect(b, busy[b]) \/ Toast(b, busy[b])

Browse(b) == Visit(b) \/ Click(b) \/ Dismiss(b) \/ Answered(b)

BrowsersNext ==
  \/ \E b \in Browsers : Browse(b)
  \/ \E r \in Requests : (Handle(r) \/ Background(r)) /\ UNCHANGED browsing
  \/ Quiet /\ UNCHANGED browsing

BrowsersSpec == BrowsersInit /\ [][BrowsersNext]_<<vars, browsing>>

-----------------------------------------------------------------------------
(* Safety *)

\* The buttons of pages and forms, however old, send what the app assumes of
\* its requests: an update or a delete names a connection that was there, and
\* an update one of the own community, because the form behind an edit button
\* does not open for any other.
ClicksAreExpected ==
  \A b \in Browsers : \A button \in Buttons(b) : \A j \in Clicks(b, button) :
    ButtonInput(j)

\* "you have reached the max!": nobody opens, fills in or saves the form of a
\* new connection from a page that was asked for when so many connections,
\* reported as saved, were there and still are.  The code checks the maximum
\* nowhere but in the button: a page that is older passes it.
MaximumSeen ==
  \A r \in Requests : job[r].kind \in {"open", "fetch", "save"} =>
    Cardinality({i \in past[source[r]] : Stored(i) /\ reply[i] = "saved"})
      < MaxConnections
=============================================================================

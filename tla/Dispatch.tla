------------------------------ MODULE Dispatch ------------------------------
(***************************************************************************)
(* Which handler a webhook reaches, as the kind of request it becomes: the *)
(* type of the webhook, then the key of the block or shortcut, then the    *)
(* context, then the callbackId.  A callbackId is the word it starts with; *)
(* the ObjectId some words carry is hexadecimal and contains none of them, *)
(* so that `includes` is equality with the word.                           *)
(***************************************************************************)

\* getCallbackResponse: the words of a connection first, then the others.
CallbackKind(word) ==
  CASE word = "edit" -> "edit"
    [] word = "delete" -> "ask-delete"
    [] word = "removeBlock" -> "delete"
    [] word = "updateBlock" -> "update"
    [] word = "upgrade" -> "refetch"
    [] word = "revoke-modal" -> "ask-revoke"
    [] word = "auth-voke" -> "revoke"
    [] word = "open-modal" -> "open"
    [] word = "save-modal" -> "save"
    [] word = "fetch-channels" -> "fetch"
    [] word = "auth-redirect" -> "redirect"
    [] OTHER -> "unsupported"

\* getSettingsInteractionResponse and getNetworkSettingsInteractionResponse.
SettingsKind(context, word) ==
  IF context # "NETWORK" THEN "unsupported"
  ELSE IF word = "none" THEN "page" ELSE CallbackKind(word)

\* The mark-as-favorite shortcut takes posts only.
ShortcutKind(key, context) ==
  IF key = "mark-as-favorite" /\ context = "POST"
    THEN "mark" ELSE "unsupported"

\* handleInteractionWebhook: a block comes before a shortcut.
InteractionKind(i) ==
  CASE i.block = "settings" -> SettingsKind(i.context, i.word)
    [] i.block = "favorite-posts" -> "favorites"
    [] i.block = "none" -> ShortcutKind(i.shortcut, i.context)
    [] OTHER -> "unsupported"

\* getShortcutStatesResponse: a guest has no states, and a shortcut nobody
\* knows has none either.
StatesKind(shortcut, guest) ==
  IF shortcut = "mark-as-favorite" /\ ~guest THEN "mark" ELSE "constant"

\* The three routes of WebhookController.
WebhookKind(w) ==
  CASE w.type = "TEST" -> "constant"
    [] w.route = "/search" -> "unsupported"
    [] w.route = "/interaction" -> InteractionKind(w.interaction)
    [] w.type = "APP_INSTALLED" -> "install"
    [] w.type = "APP_UNINSTALLED" -> "uninstall"
    [] w.type = "SUBSCRIPTION" -> "event"
    [] w.type = "SHORTCUTS_STATES" -> StatesKind(w.shortcut, w.guest)
    [] OTHER -> "constant"
=============================================================================

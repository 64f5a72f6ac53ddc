--------------------------- MODULE OtherRequests ---------------------------
(***************************************************************************)
(* The requests whose answer reads and writes no collection of the schema. *)
(* What is left of the app template asks Prisma for models the schema does *)
(* not have: prisma.member and prisma.memberPostSettings are undefined,    *)
(* and their first use throws.                                             *)
(***************************************************************************)
EXTENDS Worker

\* deleteModal and revokeModal: the dialog has the one button that confirms.
OpenDialog(r) ==
  /\ pc[r] = "other" /\ job[r].kind \in {"ask-delete", "ask-revoke"}
  /\ Answer(r, "dialog")
  /\ UNCHANGED db

\* The challenge of a test webhook, an unknown webhook, the states of a guest's
\* shortcuts.
Constant(r) ==
  /\ pc[r] = "other" /\ job[r].kind = "constant"
  /\ Answer(r, "succeeded")
  /\ UNCHANGED db

\* Federated search, and the keys, contexts and callbacks no case names.
NotSupported(r) ==
  /\ pc[r] = "other" /\ job[r].kind = "unsupported"
  /\ Answer(r, "unavailable")
  /\ UNCHANGED db

\* findMany of the favorite posts of a member: an HTTP 500.
FavoritePosts(r) ==
  /\ pc[r] = "other" /\ job[r].kind = "favorites"
  /\ Answer(r, "error")
  /\ UNCHANGED db

\* The shortcut that marks a post looks its mark up first, and so do the states
\* of a member's shortcuts.
MarkAsFavorite(r) ==
  /\ pc[r] = "other" /\ job[r].kind = "mark"
  /\ Answer(r, "error")
  /\ UNCHANGED db

\* POST /bettermode/oauth/token: Bettermode refuses the code, or the member it
\* belongs to cannot be stored and the tokens are not handed out.
BettermodeTokens(r) ==
  /\ pc[r] = "other" /\ job[r].kind = "tokens"
  /\ Answer(r, "error")
  /\ UNCHANGED db

\* A signature that is wrong or older than five minutes (403), or a body
\* without the fields of its DTO (400), reaches no handler.
Refused(r) ==
  /\ pc[r] = "other" /\ job[r].kind = "refused"
  /\ Answer(r, "error")
  /\ UNCHANGED db

OtherRequest(r) ==
  \/ OpenDialog(r) \/ Constant(r) \/ NotSupported(r)
  \/ FavoritePosts(r) \/ MarkAsFavorite(r) \/ BettermodeTokens(r)
  \/ Refused(r)
=============================================================================

------------------------------- MODULE Worker -------------------------------
(***************************************************************************)
(* The life of a request.  It reaches one process of the app, whose event  *)
(* loop interleaves the handlers in flight at every await: pc names the    *)
(* await a handler is suspended at, and one action of a component runs it  *)
(* to the next await.  A promise nobody awaits is the request's task; its  *)
(* rejection is unhandled.                                                 *)
(*                                                                         *)
(* Started by node (yarn start, in the container), an unhandled rejection  *)
(* ends the process, and with it every handler in flight there; the        *)
(* container restarts it, which keeps no state.  In pm2's cluster (yarn    *)
(* deploy:prod) there are two processes, and pm2 listens for the rejection *)
(* and logs it.  A task that is rejected has either outcome.  A handler    *)
(* that is, never answers, whether or not others are lost with it: pm2's   *)
(* outcome is that of a handler alone on its worker, since nothing but     *)
(* Crash reads the worker of a request.                                    *)
(***************************************************************************)
EXTENDS Repositories

CONSTANTS
  Workers,      \* processes of the app
  Kinds,        \* the kinds of request the environment sends
  Faults,       \* the outside failures that may occur
  Spaces,       \* Bettermode spaces
  SpaceOf,      \* the space of a target
  SpaceOwner    \* the community a space belongs to

\* Requests whose answer reads and writes no collection of the schema.
OtherKinds == {"ask-delete", "ask-revoke", "constant", "unsupported",
               "favorites", "mark", "tokens", "refused"}

AllKinds == {"save", "update", "delete", "revoke", "page",
             "open", "fetch", "edit", "refetch", "redirect",
             "install", "uninstall", "authorize", "connect", "event"}
            \cup OtherKinds

AllFaults == {"db", "graph", "bettermode", "bot", "teams", "expiry", "restart"}

ASSUME Environment ==
  /\ Kinds \subseteq AllKinds
  /\ Faults \subseteq AllFaults
  /\ SpaceOf \in [Targets -> Spaces]
  /\ SpaceOwner \in [Spaces -> Networks]

VARIABLES
  job,      \* what a request asks for
  pc,       \* the await it is suspended at
  reply,    \* the answer it was given
  task,     \* the promise it left running
  past      \* history: the requests over when it arrived

procs == <<job, pc, reply, task, past>>

None == [kind |-> "none"]

SaveJobs == [kind : {"save"}, net : Networks, worker : Workers,
             target : Targets, events : SUBSET Events]

UpdateJobs == [kind : {"update"}, net : Networks, worker : Workers,
               row : Requests, target : Targets, events : SUBSET Events]

\* The buttons and forms of a connection carry its id in their callbackId.
RowJobs == [kind : {"delete", "edit", "refetch", "ask-delete"}, net : Networks,
            worker : Workers, row : Requests]

PlainJobs == [kind : {"revoke", "page", "open", "fetch", "redirect",
                      "install", "uninstall", "authorize", "connect"}
                     \cup (OtherKinds \ {"ask-delete"}),
              net : Networks, worker : Workers]

Moderations == {"moderation.created", "moderation.rejected",
                "moderation.accepted"}

\* spaces: the space of the event's object, the default spaces of an
\* invitation, or none for an event of the whole community.  entityType: what
\* a moderation is about.
EventJobs == [kind : {"event"}, net : Networks, worker : Workers,
              name : Names, spaces : SUBSET Spaces,
              entityType : {"none", "POST", "MEMBER"}]

Jobs == SaveJobs \cup UpdateJobs \cup RowJobs \cup PlainJobs \cup EventJobs

SaveLabels == {"save-read", "save-create", "save-user", "save-install"}
UpdateLabels == {"update-write", "update-user", "update-install"}
DeleteLabels == {"delete-row"}
RevokeLabels == {"revoke-network", "revoke-channels"}
PageLabels == {"page-network", "page-channels", "page-children", "page-teams"}
OpenLabels == {"open-network", "open-graph"}
EditLabels == {"edit-row", "edit-network", "edit-graph"}
RefetchLabels == {"refetch-network", "refetch-graph", "refetch-row"}
RedirectLabels == {"redirect-network"}
InstallLabels == {"install-delete", "install-create"}
UninstallLabels == {"uninstall-delete"}
AuthorizeLabels == {"authorize-state"}
ConnectLabels == {"connect-state", "connect-me", "connect-tenant",
                  "connect-install", "connect-upsert"}
EventLabels == {"event-start", "event-lookup", "event-entities", "event-post"}
OtherLabels == {"other"}

Labels ==
  SaveLabels \cup UpdateLabels \cup DeleteLabels \cup RevokeLabels
  \cup PageLabels \cup OpenLabels \cup EditLabels \cup RefetchLabels
  \cup RedirectLabels \cup InstallLabels \cup UninstallLabels
  \cup AuthorizeLabels \cup ConnectLabels \cup EventLabels \cup OtherLabels

\* The labels of a handler belong to its kind of request.
OwnLabel(l, kind) ==
  /\ l \in SaveLabels => kind = "save"
  /\ l \in UpdateLabels => kind = "update"
  /\ l \in DeleteLabels => kind = "delete"
  /\ l \in RevokeLabels => kind = "revoke"
  /\ l \in PageLabels => kind = "page"
  /\ l \in OpenLabels => kind \in {"open", "fetch"}
  /\ l \in EditLabels => kind = "edit"
  /\ l \in RefetchLabels => kind = "refetch"
  /\ l \in RedirectLabels => kind = "redirect"
  /\ l \in InstallLabels => kind = "install"
  /\ l \in UninstallLabels => kind = "uninstall"
  /\ l \in AuthorizeLabels => kind = "authorize"
  /\ l \in ConnectLabels => kind = "connect"
  /\ l \in EventLabels => kind = "event"
  /\ l \in OtherLabels => kind \in OtherKinds

\* The first await of each handler.
Entries == {"save-read", "update-write", "delete-row", "revoke-network",
            "page-network", "open-network", "edit-row", "refetch-network",
            "redirect-network", "install-delete", "uninstall-delete",
            "authorize-state", "connect-state", "event-start", "other"}

Replies == {"none", "saved", "already", "failed", "updated", "deleted",
            "closed", "error", "unavailable", "succeeded", "redirected",
            "disconnected", "connected", "channels", "form", "dialog"}

InFlight(r) == pc[r] \in Labels

Ended(r) == pc[r] \in {"done", "lost"}

WorkersInit ==
  /\ job = [r \in Requests |-> None]
  /\ pc = [r \in Requests |-> "idle"]
  /\ reply = [r \in Requests |-> "none"]
  /\ task = [r \in Requests |-> "none"]
  /\ past = [r \in Requests |-> {}]

Own(j, space) == SpaceOwner[space] = j.net

\* A form offers the spaces of the community (getSpaces).
FormInput(j) == j.kind \in {"save", "update"} => Own(j, SpaceOf[j.target])

\* A connection listed on a page some user still has open, whoever owns it,
\* has its buttons; the form behind the edit button opens for a connection of
\* the own community only (EditFormIsOwn).
ButtonInput(j) ==
  /\ j.kind \in {"ask-delete", "delete", "edit", "update", "refetch"} =>
       channel[j.row] # Unused
  /\ j.kind \in {"update", "refetch"} => job[j.row].net = j.net

\* Bettermode sends events about a space of the community, an invitation with
\* any number of default spaces, and a verified or a moderated member without
\* a space.
EventInput(j) ==
  j.kind = "event" =>
    /\ \A s \in j.spaces : Own(j, s)
    /\ j.entityType = "none" <=> j.name \notin Moderations
    /\ \/ j.name = "member_invitation.created"
       \/ j.name = "member.verified" /\ j.spaces = {}
       \/ j.entityType = "MEMBER" /\ j.spaces = {}
       \/ /\ j.name \notin {"member_invitation.created", "member.verified"}
          /\ j.entityType # "MEMBER"
          /\ \E s \in Spaces : j.spaces = {s}

\* A worker takes the request on, whatever it asks for.
Accept(r, j) ==
  /\ pc[r] = "idle"
  /\ j.kind \in Kinds
  /\ job' = [job EXCEPT ![r] = j]
  /\ \E l \in Entries : OwnLabel(l, j.kind) /\ pc' = [pc EXCEPT ![r] = l]
  /\ past' = [past EXCEPT ![r] = {s \in Requests : Ended(s)}]
  /\ UNCHANGED <<db, reply, task>>

Receive(r, j) ==
  Accept(r, j) /\ FormInput(j) /\ ButtonInput(j) /\ EventInput(j)

\* The four ways a handler leaves an await: on to the next one, there with a
\* promise left running, with an answer, or with both.
Goto(r, l) ==
  /\ pc' = [pc EXCEPT ![r] = l]
  /\ UNCHANGED <<job, reply, task, past>>

GotoLeaving(r, l, t) ==
  /\ pc' = [pc EXCEPT ![r] = l]
  /\ task' = [task EXCEPT ![r] = t]
  /\ UNCHANGED <<job, reply, past>>

Answer(r, x) ==
  /\ pc' = [pc EXCEPT ![r] = "done"]
  /\ reply' = [reply EXCEPT ![r] = x]
  /\ UNCHANGED <<job, task, past>>

AnswerLeaving(r, x, t) ==
  /\ pc' = [pc EXCEPT ![r] = "done"]
  /\ reply' = [reply EXCEPT ![r] = x]
  /\ task' = [task EXCEPT ![r] = t]
  /\ UNCHANGED <<job, past>>

TaskOver(r) ==
  /\ task' = [task EXCEPT ![r] = "none"]
  /\ UNCHANGED <<job, pc, reply, past>>

\* The process w dies: its handlers are never answered.
Crash(w) ==
  LET Hit(r) == job[r] # None /\ job[r].worker = w IN
  /\ pc' = [r \in Requests |-> IF Hit(r) /\ InFlight(r) THEN "lost" ELSE pc[r]]
  /\ task' = [r \in Requests |-> IF Hit(r) THEN "none" ELSE task[r]]
  /\ UNCHANGED <<job, reply, past>>

\* The rejection of a promise left running.
TaskRejected(r) == Crash(job[r].worker) \/ TaskOver(r)

\* max_memory_restart, a deployment or a kill from outside.
Restart(w) ==
  /\ "restart" \in Faults
  /\ Crash(w)
  /\ UNCHANGED db

WorkersTypeOK ==
  /\ job \in [Requests -> Jobs \cup {None}]
  /\ pc \in [Requests -> Labels \cup {"idle", "done", "lost"}]
  /\ reply \in [Requests -> Replies]
  /\ task \in [Requests -> {"none", "welcome", "refresh"}]
  /\ past \in [Requests -> SUBSET Requests]
=============================================================================

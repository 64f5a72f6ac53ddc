------------------------- MODULE TeamsAppInvariants -------------------------
(***************************************************************************)
(* The inductive invariant behind the safety properties of TeamsApp, in    *)
(* named parts.                                                            *)
(***************************************************************************)
EXTENDS TeamsApp

\* A handler runs the code of its own job, and a request nobody sent has left
\* no trace.
JobAtLabel ==
  \A r \in Requests :
    /\ pc[r] = "idle" =>
         job[r] = None /\ task[r] = "none" /\ posted[r] = {} /\ found[r] = {}
    /\ pc[r] # "idle" => job[r] \in Jobs /\ OwnLabel(pc[r], job[r].kind)

\* What was over stays over.
PastIsOver == \A r \in Requests : \A s \in past[r] : Ended(s)

\* A document is the work of the save it is named after, which has passed its
\* create, and keeps the community of that save.
RowsAreSaved ==
  \A i \in Requests :
    /\ channel[i] # Unused =>
         /\ job[i].kind = "save"
         /\ pc[i] \notin {"idle", "save-read", "save-create"}
         /\ reply[i] \notin {"already", "error"}
    /\ Stored(i) =>
         /\ channel[i].networkId = job[i].net
         /\ pc[channel[i].by] # "idle"
         /\ \/ channel[i].by = i
            \/ job[channel[i].by].kind = "update"
    /\ pc[i] \in {"save-user", "save-install"} \/ reply[i] = "saved"
         => channel[i] # Unused

\* A save past its duplicate check meets its own target only on documents
\* written by requests that were not over when it arrived.
CheckedTarget ==
  \A r \in Requests : pc[r] = "save-create" =>
    \A j \in StoredRows :
      channel[j].target = job[r].target => channel[j].by \notin past[r]

\* Who deleted a document: a request still in flight then, so not one that was
\* over when the document's save arrived.
Removals ==
  \A i \in Requests :
    /\ channel[i] # Deleted => remover[i] = NoOne
    /\ channel[i] = Deleted =>
         /\ remover[i] \in Requests
         /\ remover[i] \notin past[i]
         /\ \/ job[remover[i]].kind = "delete" /\ job[remover[i]].row = i
            \/ job[remover[i]].kind = "revoke"

\* Once a revoke has emptied the collection it is over, and every document is
\* the work of a save that was not over when it arrived.
SweptClean ==
  \A v \in swept :
    /\ job[v].kind = "revoke" /\ pc[v] = "done"
    /\ \A i \in StoredRows : i \notin past[v]

\* Before a reply there is none.
RepliesLast == \A r \in Requests : pc[r] # "done" => reply[r] = "none"

IInv ==
  /\ TypeOK /\ JobAtLabel /\ PastIsOver /\ RepliesLast
  /\ RowsAreSaved /\ CheckedTarget /\ Removals /\ SweptClean
  /\ OnlyEditsDuplicate

-----------------------------------------------------------------------------
(* What requests have read: the invariants behind pages, forms and messages. *)

\* What the buttons and forms promise of a request when it arrives stays true
\* as long as it lives.
InputsKept ==
  \A r \in Requests : pc[r] # "idle" =>
    FormInput(job[r]) /\ ButtonInput(job[r]) /\ EventInput(job[r])

\* Request w, the save of document i or an update of it, said what doc holds.
WrittenBy(w, i, doc) ==
  /\ w = i \/ (job[w].kind = "update" /\ job[w].row = i)
  /\ doc.target = job[w].target /\ doc.events = job[w].events

\* Update u has replaced what document i held.
Overwrote(u, i) ==
  /\ job[u].kind = "update" /\ job[u].row = i
  /\ pc[u] \in {"update-user", "update-install"} \/ reply[u] = "updated"

\* A document holds what its last writer said, and an update that has replaced
\* something arrived before that writer was over.
RowsAreWritten ==
  \A i \in Requests : Stored(i) =>
    /\ WrittenBy(channel[i].by, i, channel[i])
    /\ \A u \in Requests : Overwrote(u, i) => channel[i].by \notin past[u]

\* Request r has read document i and found doc: all of it is from one form,
\* which no update over when r arrived had replaced, and no request over by
\* then had deleted the document.
ReadBy(r, i, doc) ==
  /\ i \in Requests /\ channel[i] # Unused
  /\ doc \in Row /\ doc.networkId = job[i].net
  /\ pc[doc.by] # "idle" /\ WrittenBy(doc.by, i, doc)
  /\ \A u \in past[r] :
       job[u].kind = "update" /\ job[u].row = i /\ reply[u] = "updated"
         => doc.by \notin past[u]
  /\ channel[i] = Deleted => remover[i] \notin past[r]

\* What pages list, forms show and messages are sent for was read so.
EditedIsRead ==
  \A r \in Requests : edited[r] # NoRecord =>
    /\ pc[r] # "idle" /\ job[r].kind \in {"edit", "refetch"}
    /\ ReadBy(r, job[r].row, edited[r])

ListedIsRead ==
  \A r \in Requests : \A c \in listed[r] :
    pc[r] # "idle" /\ ReadBy(r, c[1], c[2])

FoundIsRead ==
  \A r \in Requests : \A d \in found[r] \cup posted[r] :
    /\ pc[r] # "idle" /\ ReadBy(r, d[1], d[2])
    /\ d[2].networkId = job[r].net /\ job[r].name \in d[2].events

ReadInv ==
  /\ InputsKept /\ RowsAreWritten
  /\ EditedIsRead /\ ListedIsRead /\ FoundIsRead

-----------------------------------------------------------------------------
(* The Microsoft connection of a community. *)

\* A callback knows of its own account only, and has a real tenant when it
\* comes to store it.
LearnedOwn ==
  \A r \in Requests :
    /\ account[r].microsoftId \in {r, Undefined}
    /\ account[r].tenantId \in {r, Undefined}
    /\ pc[r] = "connect-upsert" => account[r].tenantId = r

\* A revoke or an install that has disconnected its community and is not
\* answered yet: as DisconnectForgets.
Disconnecting ==
  \A v \in Requests :
    /\ pc[v] \in {"revoke-channels", "install-create"}
    /\ "db" \notin Faults
    /\ Connected(job[v].net)
    => network[job[v].net].session \in Requests \ past[v]

\* While Graph answers, every account is known by its id.
AccountsKnown ==
  "graph" \notin Faults =>
    /\ \A n \in Networks : Connected(n) => network[n].microsoftId # Undefined
    /\ \A r \in Requests :
         /\ pc[r] \in {"connect-tenant", "connect-install", "connect-upsert"}
              => account[r].microsoftId # Undefined
         /\ user[r] # NoRecord => user[r].microsoftId # Undefined

AccountInv ==
  /\ LearnedOwn /\ RecordFromOneSession
  /\ Disconnecting /\ DisconnectForgets /\ AccountsKnown

-----------------------------------------------------------------------------
(* Pages and forms between their awaits. *)

\* A page past its first read is of a connected community; one that is to list
\* connections has seen one.
PageBegun ==
  \A p \in Requests :
    /\ pc[p] \in {"page-children", "page-teams"} => user[p] # NoRecord
    /\ pc[p] = "page-children" =>
         \E i \in Requests :
           Stored(i) \/ (channel[i] = Deleted /\ remover[i] \notin past[p])

\* What has been read is complete.
PageComplete ==
  \A p \in Requests :
    pc[p] = "page-teams" \/ (job[p].kind = "page" /\ reply[p] = "channels")
    \/ (job[p].kind = "page" /\ reply[p] = "connected") =>
      \A i \in past[p] : reply[i] = "saved" /\ Stored(i) => i \in ListedIds(p)

\* A form about a connection shows it, and an edit form is of an own space.
FormFilled ==
  \A r \in Requests :
    job[r].kind \in {"edit", "refetch"} /\ reply[r] = "form" =>
      /\ edited[r] # NoRecord
      /\ job[r].kind = "edit" => Own(job[r], SpaceOf[edited[r].target])

\* An edit form that has found no document looked for a deleted one.
EditBegun ==
  \A r \in Requests :
    /\ pc[r] \in {"edit-network", "edit-graph"} /\ edited[r] = NoRecord =>
         channel[job[r].row] = Deleted
    /\ pc[r] = "edit-graph" => user[r] # NoRecord

ViewInv ==
  /\ PageBegun /\ PageComplete /\ FormFilled /\ EditBegun
  /\ PageFailsOnlyWhen /\ EditFailsOnlyWhen

-----------------------------------------------------------------------------
(* The lookup of an event. *)

\* A message on its way to the bot is for everybody concerned, and only the
\* handler of a moderated member asks for an entity that is not there.
LookupsComplete ==
  \A r \in Requests :
    /\ pc[r] = "event-entities" => job[r].entityType = "MEMBER"
    /\ pc[r] = "event-post" =>
         \A i \in Concerned(r) : <<i, channel[i]>> \in found[r]

NoticeInv == LookupsComplete /\ NoMissedNotification
=============================================================================

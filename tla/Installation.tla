---------------------------- MODULE Installation ----------------------------
(***************************************************************************)
(* The AppInstalled and AppUninstalled webhooks of installation.logics.ts. *)
(***************************************************************************)
EXTENDS Worker

\* Bug: an app that is installed again keeps its connection.
InstallDeleteSkipped(r) ==
  /\ pc[r] = "install-delete"
  /\ Goto(r, "install-create")
  /\ UNCHANGED db

\* A missing document, or any other error, is swallowed.
InstallDelete(r) ==
  /\ pc[r] = "install-delete"
  /\ \/ NetworkDelete(job[r].net)
     \/ ~Connected(job[r].net) /\ UNCHANGED db
     \/ "db" \in Faults /\ UNCHANGED db
  /\ Goto(r, "install-create")

\* Bug: the handler starts over until the create succeeds.
InstallCreateRetries(r) ==
  /\ pc[r] = "install-create"
  /\ Goto(r, "install-delete")
  /\ UNCHANGED db

\* The data has the unknown fields name, domain and graphqlUrl and none of the
\* required ones: the client refuses it before it reaches the database.
InstallCreate(r) ==
  /\ pc[r] = "install-create"
  /\ Answer(r, "unavailable")
  /\ UNCHANGED db

HandleInstalledWebhook(r) == InstallDelete(r) \/ InstallCreate(r)

\* Connections of the community stay behind.
UninstallDelete(r) ==
  /\ pc[r] = "uninstall-delete"
  /\ NetworkDelete(job[r].net)
  /\ Answer(r, "succeeded")

UninstallDeleteFails(r) ==
  /\ pc[r] = "uninstall-delete"
  /\ ~Connected(job[r].net) \/ "db" \in Faults
  /\ Answer(r, "unavailable")
  /\ UNCHANGED db

HandleUninstalledWebhook(r) == UninstallDelete(r) \/ UninstallDeleteFails(r)

InstallationWebhook(r) ==
  HandleInstalledWebhook(r) \/ HandleUninstalledWebhook(r)
=============================================================================

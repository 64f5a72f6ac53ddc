---------------------------- MODULE OAuthConnect ----------------------------
(***************************************************************************)
(* The OAuth endpoints: /oauth sends the browser to Microsoft, and back at *)
(* /oauth/redirect come the state JWT, the code exchange by passport and   *)
(* connectToMicrosoft of oauth.logic.ts, which stores the Network          *)
(* document.  The request is the OAuth session; a fact about the account   *)
(* it learns is abstracted to the session, or Undefined.                   *)
(***************************************************************************)
EXTENDS Worker

VARIABLE account    \* what a callback has learned about the Microsoft account

AccountsInit ==
  account = [r \in Requests |->
              [microsoftId |-> Undefined, tenantId |-> Undefined]]

\* The browser on its way out to Microsoft passes the same middleware.
Authorize(r) ==
  /\ pc[r] = "authorize-state"
  /\ Answer(r, "redirected")
  /\ UNCHANGED <<db, account>>

\* consumerExtractorMiddleware accepts the state and passport gets the tokens.
ConnectState(r) ==
  /\ pc[r] = "connect-state"
  /\ Goto(r, "connect-me")
  /\ UNCHANGED <<db, account>>

\* A state older than the hour signJwt gives it: the async middleware rejects
\* and nothing handles it.
ConnectStateExpired(r) ==
  /\ pc[r] \in {"authorize-state", "connect-state"} /\ "expiry" \in Faults
  /\ Crash(job[r].worker)
  /\ UNCHANGED <<db, account>>

ConnectCodeRefused(r) ==
  /\ pc[r] = "connect-state" /\ "graph" \in Faults
  /\ Answer(r, "error")
  /\ UNCHANGED <<db, account>>

\* getMicrosoftID swallows a failure of /me.
ConnectMe(r) ==
  /\ pc[r] = "connect-me"
  /\ \/ account' = [account EXCEPT ![r].microsoftId = r]
     \/ "graph" \in Faults /\ UNCHANGED account
  /\ Goto(r, "connect-tenant")
  /\ UNCHANGED db

ConnectTenant(r) ==
  /\ pc[r] = "connect-tenant"
  /\ account' = [account EXCEPT ![r].tenantId = r]
  /\ Goto(r, "connect-install")
  /\ UNCHANGED db

\* getTenantId swallows a failure too, after starting a token refresh.
ConnectTenantFails(r) ==
  /\ pc[r] = "connect-tenant" /\ "graph" \in Faults
  /\ GotoLeaving(r, "connect-install", "refresh")
  /\ UNCHANGED <<db, account>>

\* getAppToken needs a real tenant; the failure of the POST that installs the
\* bot is swallowed.
ConnectInstall(r) ==
  /\ pc[r] = "connect-install"
  /\ account[r].tenantId # Undefined
  /\ Goto(r, "connect-upsert")
  /\ UNCHANGED <<db, account>>

ConnectInstallFails(r) ==
  /\ pc[r] = "connect-install"
  /\ account[r].tenantId = Undefined \/ "graph" \in Faults
  /\ Answer(r, "error")
  /\ UNCHANGED <<db, account>>

\* One upsert sets every field.
ConnectUpsert(r) ==
  /\ pc[r] = "connect-upsert"
  /\ NetworkUpsert(job[r].net,
       [session |-> r, token |-> r, microsoftId |-> account[r].microsoftId,
        tenantId |-> account[r].tenantId])
  /\ Answer(r, "redirected")
  /\ UNCHANGED account

ConnectUpsertFails(r) ==
  /\ pc[r] = "connect-upsert" /\ "db" \in Faults
  /\ Answer(r, "error")
  /\ UNCHANGED <<db, account>>

ConnectToMicrosoft(r) ==
  \/ Authorize(r)
  \/ ConnectState(r) \/ ConnectStateExpired(r) \/ ConnectCodeRefused(r)
  \/ ConnectMe(r)
  \/ ConnectTenant(r) \/ ConnectTenantFails(r)
  \/ ConnectInstall(r) \/ ConnectInstallFails(r)
  \/ ConnectUpsert(r) \/ ConnectUpsertFails(r)

\* Bug: the refreshed token is stored, in whatever document is there.
RefreshUpdateStores(r) ==
  /\ task[r] = "refresh"
  /\ Connected(job[r].net)
  /\ NetworkUpsert(job[r].net, [network[job[r].net] EXCEPT !.token = r])
  /\ TaskOver(r)
  /\ UNCHANGED account

\* Bug: NetworkRepository.upsert in place of update.
RefreshUpserts(r) ==
  /\ task[r] = "refresh"
  /\ ~Connected(job[r].net)
  /\ NetworkUpsert(job[r].net, RecordOf(r))
  /\ TaskOver(r)
  /\ UNCHANGED account

\* No strategy is registered with passport-oauth2-refresh, so the callback of
\* RefreshTokenClient runs with an error it ignores and no tokens: an update
\* with undefined data changes nothing, and of a missing document it throws
\* where nothing catches.
RefreshUpdate(r) ==
  /\ task[r] = "refresh"
  /\ Connected(job[r].net)
  /\ TaskOver(r)
  /\ UNCHANGED <<db, account>>

RefreshUpdateRejected(r) ==
  /\ task[r] = "refresh"
  /\ ~Connected(job[r].net) \/ "db" \in Faults
  /\ TaskRejected(r)
  /\ UNCHANGED <<db, account>>

RefreshTokenClient(r) == RefreshUpdate(r) \/ RefreshUpdateRejected(r)

AccountsTypeOK ==
  account \in [Requests -> [microsoftId : Accounts, tenantId : Accounts]]
=============================================================================

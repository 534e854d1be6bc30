-------------------------- MODULE CredentialRefresh --------------------------
(***************************************************************************)
(* One connected provider account: its stored OAuth credential, the mark   *)
(* that keeps it out of routing, its reconnect prompt, and everybody who   *)
(* works on them at the same time (api/agent/connections): the sweeps and  *)
(* the nightly check, the owner's refresh button, gateway requests whose   *)
(* token is about to expire or was refused, reconnects, prompts that run   *)
(* out, and sign-ins of the same account from elsewhere.                   *)
(*                                                                         *)
(* A provider that rotates refresh tokens invalidates the one it is given  *)
(* as soon as it answers.  A refresh therefore keeps the credential's row  *)
(* locked from reading it until the answer is committed, and runs in a     *)
(* task of its own.  "active" stands for every availability but            *)
(* reauth_required: nothing here tells them apart.                         *)
(***************************************************************************)
EXTENDS Naturals

CONSTANTS
  Callers,     \* requests, sweeps and tasks running at the same time
  Providers,   \* whose account it may be
  MaxTokens    \* bound: tokens issued after the first sign-in

ASSUME RefreshAssumption ==
  /\ Providers \subseteq {"chatgpt", "claude", "grok", "gemini"}
  /\ MaxTokens \in Nat

VARIABLES
  provider,   \* whose account it is; never changes
  cred,       \* the row of agent_connection_credentials
  conn,       \* availability_status and failure_message
  prompt,     \* the row of agent_connection_authorizations
  caller,     \* what each caller is doing
  issued,     \* at the provider: tokens issued so far
  honoured,   \* at the provider: the refresh tokens it accepts
  stopping,   \* SWEEPS_STOPPING
  lost,       \* history: how the stored refresh token came to be dead
  refused,    \* history: the provider refused the stored refresh token
  asks        \* history: scheduled refreshes asked for since the account came due

vars == <<provider, cred, conn, prompt, caller, issued, honoured, stopping, lost, refused, asks>>

Tokens == 0..MaxTokens

\* due: next_refresh_at has passed.  expiring: the access token ends within five minutes.
\* idleDay: neither refreshed nor tried since the day began.
Credential ==
  [access : Tokens, refresh : Tokens, due : BOOLEAN, expiring : BOOLEAN, idleDay : BOOLEAN]

Fresh(access, refresh) ==
  [access |-> access, refresh |-> refresh, due |-> FALSE, expiring |-> FALSE, idleDay |-> FALSE]
Tried == [cred EXCEPT !.due = FALSE, !.idleDay = FALSE]

\* RECOVERABLE_REAUTHORIZATION_MESSAGES.  "expired" says that the refresh token is dead.
Recoverable == {"login required", "prompt expired", "verification"}
Messages == Recoverable \cup {"none", "expired", "not completed"}
Connection == [availability : {"active", "reauth"}, message : Messages]
Active == [availability |-> "active", message |-> "none"]
Reauth(message) == [availability |-> "reauth", message |-> message]

\* force is the owner's button, force_all the operator's maintenance run.
Scheduled == {"stale", "nightly", "recover"}      \* records_scheduled_attempt
Restoring == {"force", "force_all", "recover"}    \* restores_availability
Modes == Scheduled \cup Restoring \cup {"near_expiry", "rejected"}
Attempts == 1..2                                  \* PROVIDER_CREDENTIAL_REFRESH_ATTEMPTS
Probes == {"verified", "required", "inconclusive"}

\* begin: the refresh task waits for the credential's row.  ask: it holds the row and talks
\* to the provider.  write: the rotated credential is written, not committed.  persist:
\* the connection's row is written too.  refreshed: the request waiting for it reads the
\* credential again.  sent: a request is with the provider.
Tasks == {"begin", "ask", "write", "persist"}
Handlers ==
  {"refreshed", "sent", "mark", "prompting", "settling", "failing", "failed", "exchanging"}
Stages == Tasks \cup Handlers \cup {"idle", "attempted", "expiring"}

\* observed: the access token a request was sent with; earlier: the one refused before it.
\* access, refresh: what the provider answered.  held: the prompt's row is locked.  own: the
\* sign-in answers this account's prompt.
Caller ==
  [stage : Stages, mode : Modes \cup {"none"}, attempt : Attempts,
   observed : Tokens, earlier : Tokens, retried : BOOLEAN,
   access : Tokens, refresh : Tokens, probe : Probes, held : BOOLEAN, own : BOOLEAN,
   message : Messages]

Idle ==
  [stage |-> "idle", mode |-> "none", attempt |-> 1, observed |-> 0, earlier |-> 0,
   retried |-> FALSE, access |-> 0, refresh |-> 0, probe |-> "verified", held |-> FALSE,
   own |-> FALSE, message |-> "none"]

Init ==
  /\ provider \in Providers
  /\ cred = Fresh(0, 0)
  /\ conn = Active
  /\ prompt = "none"
  /\ caller = [c \in Callers |-> Idle]
  /\ issued = 0
  /\ honoured = {0}
  /\ stopping = FALSE
  /\ lost = "none"
  /\ refused = FALSE
  /\ asks = 0

-----------------------------------------------------------------------------
\* Row locks.  A refresh holds the credential's row from "ask" on, and the connection's row
\* too at "persist".  A caller that settles a prompt holds the prompt's row, if there was
\* one.
CredentialFree_unlocked == TRUE
CredentialFree == \A c \in Callers : caller[c].stage \notin {"ask", "write", "persist"}
ConnectionFree == \A c \in Callers : caller[c].stage # "persist"
Settling == {c \in Callers : caller[c].stage \in {"settling", "expiring"}}
PromptFree == \A c \in Settling : ~caller[c].held

Become(c, record) == caller' = [caller EXCEPT ![c] = record]
Leave(c) == Become(c, Idle)
Provider == <<provider, issued, honoured>>
History == <<lost, refused, asks>>

\* The stored credential becomes one the provider has just issued.
Store(access, refresh) ==
  /\ cred' = Fresh(access, refresh)
  /\ lost' = "none"
  /\ refused' = FALSE

-----------------------------------------------------------------------------
\* Who starts a refresh

Begin(c, mode) ==
  /\ caller[c].stage = "idle"
  /\ Become(c, [Idle EXCEPT !.stage = "begin", !.mode = mode])
  /\ UNCHANGED <<cred, conn, prompt, Provider, stopping, History>>

\* refresh_due_provider_credentials lists the account.
SweepStale(c) == ~stopping /\ cred.due /\ conn.availability = "active" /\ Begin(c, "stale")
SweepRecover(c) ==
  /\ ~stopping /\ cred.due
  /\ conn.availability = "reauth" /\ conn.message \in Recoverable
  /\ prompt = "none"
  /\ Begin(c, "recover")
SweepNightly(c) ==
  ~stopping /\ cred.idleDay /\ conn.availability = "active" /\ Begin(c, "nightly")

ForceRefresh(c) == \E mode \in {"force", "force_all"} : Begin(c, mode)

\* gateway_credential: most requests read the credential without a lock.
RequestSent(c) ==
  /\ caller[c].stage = "idle"
  /\ ~cred.expiring
  /\ Become(c, [Idle EXCEPT !.stage = "sent", !.observed = cred.access])
  /\ UNCHANGED <<cred, conn, prompt, Provider, stopping, History>>
RequestRefreshes(c) == cred.expiring /\ Begin(c, "near_expiry")

\* handle_rejected_credential: the provider answers 401.  The first time, the credential is
\* refreshed; the second, the account is to be marked.
RequestRejected(c) ==
  /\ caller[c].stage = "sent"
  /\ Become(c, IF caller[c].retried
                 THEN [caller[c] EXCEPT !.stage = "mark", !.message = "login required"]
                 ELSE [caller[c] EXCEPT !.stage = "begin", !.mode = "rejected"])
  /\ UNCHANGED <<cred, conn, prompt, Provider, stopping, History>>

\* Gemini asks for the account to be verified.
RequestChallenged(c) ==
  /\ provider = "gemini"
  /\ caller[c].stage = "sent"
  /\ Become(c, [Idle EXCEPT !.stage = "mark", !.observed = caller[c].observed,
                  !.message = "verification"])
  /\ UNCHANGED <<cred, conn, prompt, Provider, stopping, History>>

RequestServed(c) ==
  /\ caller[c].stage = "sent"
  /\ Leave(c)
  /\ UNCHANGED <<cred, conn, prompt, Provider, stopping, History>>

StillStored_always(c) == TRUE
StillStored(c) == cred.access = caller[c].observed

\* mark_reauthorization_required_if_current, under the credential's row.
Mark(c) ==
  /\ caller[c].stage = "mark"
  /\ CredentialFree /\ ConnectionFree
  /\ conn' = IF StillStored(c) THEN Reauth(caller[c].message) ELSE conn
  /\ Leave(c)
  /\ UNCHANGED <<cred, prompt, Provider, stopping, History>>

-----------------------------------------------------------------------------
\* refresh_connected_connection

\* Where a caller goes when its refresh ends.
Refreshed(c) ==
  CASE caller[c].mode = "near_expiry" -> [Idle EXCEPT !.stage = "refreshed"]
    [] caller[c].mode = "rejected" ->
         [Idle EXCEPT !.stage = "refreshed", !.retried = TRUE, !.earlier = caller[c].observed]
    [] caller[c].mode = "force_all" -> [Idle EXCEPT !.stage = "attempted"]
    [] OTHER -> Idle
NeedsOwner(c) ==
  CASE caller[c].mode = "force" -> [Idle EXCEPT !.stage = "prompting"]
    [] caller[c].mode = "force_all" -> [Idle EXCEPT !.stage = "attempted"]
    [] OTHER -> Idle
Failed(c) ==
  IF caller[c].mode \in Scheduled \cup {"force_all"}
    THEN [Idle EXCEPT !.stage = "attempted"] ELSE Idle

ShouldRefresh_notRechecked(c) == caller[c].mode = "rejected" => StillStored(c)
ShouldRefresh(c) ==
  CASE caller[c].mode = "rejected" -> StillStored(c)
    [] caller[c].mode = "near_expiry" -> cred.expiring
    [] caller[c].mode \in {"stale", "recover"} -> cred.due
    [] caller[c].mode = "nightly" -> cred.idleDay
    [] OTHER -> TRUE

\* The credential is read FOR UPDATE and judged again; if somebody has refreshed it, there
\* is nothing to do.
LockCredential(c) ==
  /\ caller[c].stage = "begin"
  /\ CredentialFree
  /\ IF ShouldRefresh(c)
       THEN /\ Become(c, [caller[c] EXCEPT !.stage = "ask"])
            /\ asks' = IF caller[c].mode \in {"stale", "recover"} /\ asks < 2
                         THEN asks + 1 ELSE asks
       ELSE /\ Become(c, Refreshed(c))
            /\ UNCHANGED asks
  /\ UNCHANGED <<cred, conn, prompt, Provider, stopping, lost, refused>>

\* What is committed when the refresh ends without a new credential: a scheduled one has
\* moved the account half an hour ahead.
Schedule(c) == IF caller[c].mode \in Scheduled THEN Tried ELSE cred

\* The provider issues a token, and takes the old one back if it rotates them.
Issue(rotates) ==
  /\ cred.refresh \in honoured
  /\ issued < MaxTokens
  /\ issued' = issued + 1
  /\ UNCHANGED provider
  /\ honoured' = IF rotates THEN (honoured \ {cred.refresh}) \cup {issued + 1} ELSE honoured

ProviderAccepts(c) ==
  /\ caller[c].stage = "ask"
  /\ \E rotates \in BOOLEAN :
       /\ Issue(rotates)
       /\ Become(c, [caller[c] EXCEPT !.stage = "write", !.attempt = 1, !.access = issued + 1,
                       !.refresh = IF rotates THEN issued + 1 ELSE cred.refresh])
  /\ UNCHANGED <<cred, conn, prompt, stopping, History>>

RefusedConnection_ifScheduled(mode) ==
  IF mode \in Scheduled /\ (conn.availability = "active" \/ conn.message \in Recoverable)
    THEN Reauth("expired") ELSE conn
RefusedConnection(mode) ==
  IF conn.availability = "active" \/ (mode = "recover" /\ conn.message \in Recoverable)
    THEN Reauth("expired") ELSE conn

\* finish_refresh_reauthorization: invalid_grant.
ProviderRefuses(c) ==
  /\ caller[c].stage = "ask"
  /\ cred.refresh \notin honoured
  /\ conn' = RefusedConnection(caller[c].mode)
  /\ cred' = Schedule(c)
  /\ refused' = TRUE
  /\ Become(c, NeedsOwner(c))
  /\ UNCHANGED <<prompt, Provider, stopping, lost, asks>>

TriesAgain_always(c) == caller[c].mode \in Scheduled /\ ~stopping
TriesAgain(c) ==
  /\ caller[c].mode \in Scheduled
  /\ caller[c].attempt < 2
  /\ ~stopping

\* refresh_provider_token_with_retry after an answer that says nothing about the token.
NoAnswer(c) ==
  IF TriesAgain(c)
    THEN Become(c, [caller[c] EXCEPT !.attempt = @ + 1]) /\ UNCHANGED cred
    ELSE Become(c, Failed(c)) /\ cred' = Schedule(c)

ProviderUnavailable(c) ==
  /\ caller[c].stage = "ask"
  /\ NoAnswer(c)
  /\ UNCHANGED <<conn, prompt, Provider, stopping, History>>

\* The provider rotated the token and its answer is lost on the way.
AnswerLost(c) ==
  /\ caller[c].stage = "ask"
  /\ Issue(TRUE)
  /\ NoAnswer(c)
  /\ lost' = "answer"
  /\ UNCHANGED <<conn, prompt, stopping, refused, asks>>

\* Any other status: finish_refresh_error at once.
ProviderFails(c) ==
  /\ caller[c].stage = "ask"
  /\ Become(c, Failed(c))
  /\ cred' = Schedule(c)
  /\ UNCHANGED <<conn, prompt, Provider, stopping, History>>

\* Gemini accounts are asked for a short answer before they are restored.
Probed(c) == provider = "gemini" /\ caller[c].mode \in Restoring

\* Metadata lookup, probe, and the UPDATE of the connection.
UpdateConnection(c) ==
  /\ caller[c].stage = "write"
  /\ ConnectionFree
  /\ \E probe \in IF Probed(c) THEN Probes ELSE {"verified"} :
       Become(c, [caller[c] EXCEPT !.stage = "persist", !.probe = probe])
  /\ UNCHANGED <<cred, conn, prompt, Provider, stopping, History>>

\* restore_refreshed_availability, which also deletes the prompt.
Restores(c) ==
  /\ caller[c].mode \in Restoring
  /\ caller[c].probe = "verified"
  /\ caller[c].mode = "recover" =>
       conn.availability = "reauth" /\ conn.message \in Recoverable

CommitRefresh(c) ==
  /\ caller[c].stage = "persist"
  /\ Restores(c) => PromptFree
  /\ Store(caller[c].access, caller[c].refresh)
  /\ conn' = IF Restores(c) THEN Active
             ELSE IF caller[c].probe = "required" THEN Reauth("verification") ELSE conn
  /\ prompt' = IF Restores(c) THEN "none" ELSE prompt
  /\ Become(c, IF \/ caller[c].probe = "required"
                  \/ caller[c].probe = "inconclusive" /\ conn.availability = "reauth"
                 THEN NeedsOwner(c) ELSE Refreshed(c))
  /\ UNCHANGED <<Provider, stopping, asks>>

\* The refresh holds the connection's row and wants the prompt's; d holds that and wants
\* the connection's.  PostgreSQL ends one of them.
Deadlocked(c, d) ==
  caller[c].stage = "persist" /\ Restores(c) /\ d \in Settling /\ caller[d].held

\* The refresh is ended.  A scheduled one returns to its savepoint and keeps the
\* credential; in any other the COMMIT of finish_refresh_error is a ROLLBACK.
RefreshAborted(c, d) ==
  /\ Deadlocked(c, d)
  /\ Become(c, Failed(c))
  /\ IF caller[c].mode \in Scheduled
       THEN Store(caller[c].access, caller[c].refresh)
       ELSE /\ lost' = IF caller[c].refresh # cred.refresh THEN "aborted" ELSE lost
            /\ UNCHANGED <<cred, refused>>
  /\ UNCHANGED <<conn, prompt, Provider, stopping, asks>>

SettlerAborted(c, d) ==
  /\ Deadlocked(c, d)
  /\ Leave(d)
  /\ UNCHANGED <<cred, conn, prompt, Provider, stopping, History>>

\* current_credential, once the refresh has ended.
ReadAgain(c) ==
  /\ caller[c].stage = "refreshed"
  /\ Become(c, [caller[c] EXCEPT !.stage = "sent", !.observed = cred.access])
  /\ UNCHANGED <<cred, conn, prompt, Provider, stopping, History>>

\* record_scheduled_refresh_attempt
RecordAttempt(c) ==
  /\ caller[c].stage = "attempted"
  /\ CredentialFree
  /\ cred' = Tried
  /\ Leave(c)
  /\ UNCHANGED <<conn, prompt, Provider, stopping, History>>

-----------------------------------------------------------------------------
\* Prompts and sign-ins

\* start_connection_reauthorization: the prompt is written first, and replaces one that is
\* there.
WritePrompt(c) ==
  /\ caller[c].stage = "prompting"
  /\ Settling = {}
  /\ Become(c, [caller[c] EXCEPT !.stage = "settling", !.held = prompt # "none"])
  /\ UNCHANGED <<cred, conn, prompt, Provider, stopping, History>>
CommitPrompt(c) ==
  /\ caller[c].stage = "settling"
  /\ ConnectionFree
  /\ prompt' = "open"
  /\ conn' = Reauth("none")
  /\ Leave(c)
  /\ UNCHANGED <<cred, Provider, stopping, History>>

Unfinished_restored(message) == Active
Unfinished(message) == IF conn.availability = "reauth" THEN Reauth(message) ELSE conn

\* expire_abandoned_authorizations: one transaction.
DeleteExpired(c) ==
  /\ caller[c].stage = "idle"
  /\ prompt = "expired"
  /\ Settling = {}
  /\ Become(c, [Idle EXCEPT !.stage = "expiring", !.held = TRUE])
  /\ UNCHANGED <<cred, conn, prompt, Provider, stopping, History>>
CommitExpired(c) ==
  /\ caller[c].stage = "expiring"
  /\ ConnectionFree
  /\ prompt' = "none"
  /\ conn' = Unfinished("prompt expired")
  /\ Leave(c)
  /\ UNCHANGED <<cred, Provider, stopping, History>>

\* poll_pending_connection loads a prompt that has expired, or hears from the provider that
\* it was declined; fail_connection then runs two statements, each committed by itself.
PollFails(c) ==
  /\ caller[c].stage = "idle"
  /\ prompt = "expired" \/ (prompt = "open" /\ provider = "grok")
  /\ Become(c, [Idle EXCEPT !.stage = "failing",
                  !.message = IF prompt = "expired" THEN "prompt expired" ELSE "not completed"])
  /\ UNCHANGED <<cred, conn, prompt, Provider, stopping, History>>
FailDeletesPrompt(c) ==
  /\ caller[c].stage = "failing"
  /\ PromptFree
  /\ prompt' = "none"
  /\ Become(c, [caller[c] EXCEPT !.stage = "failed"])
  /\ UNCHANGED <<cred, conn, Provider, stopping, History>>
FailUpdates(c) ==
  /\ caller[c].stage = "failed"
  /\ ConnectionFree
  /\ conn' = Unfinished(caller[c].message)
  /\ Leave(c)
  /\ UNCHANGED <<cred, prompt, Provider, stopping, History>>

\* The code of a sign-in is exchanged: for this account's prompt, or for a new connection
\* that turns out to be this account.
ExchangeCode(c) ==
  /\ caller[c].stage = "idle"
  /\ \E own \in BOOLEAN :
       /\ own => prompt # "none"
       /\ Become(c, [Idle EXCEPT !.stage = "exchanging", !.own = own])
  /\ UNCHANGED <<cred, conn, prompt, Provider, stopping, History>>

\* finish_connection
FinishSignIn(c) ==
  /\ caller[c].stage = "exchanging"
  /\ CredentialFree /\ ConnectionFree
  /\ caller[c].own => PromptFree
  /\ issued < MaxTokens
  /\ issued' = issued + 1
  /\ honoured' = honoured \cup {issued + 1}
  /\ Store(issued + 1, issued + 1)
  /\ prompt' = IF caller[c].own THEN "none" ELSE prompt
  /\ conn' = Active
  /\ Leave(c)
  /\ UNCHANGED <<provider, stopping, asks>>

-----------------------------------------------------------------------------
\* Time, the provider, and the process

TimePasses ==
  /\ \/ ~cred.due /\ cred' = [cred EXCEPT !.due = TRUE] /\ asks' = 0 /\ UNCHANGED prompt
     \/ ~cred.expiring /\ cred' = [cred EXCEPT !.expiring = TRUE] /\ UNCHANGED <<prompt, asks>>
     \/ ~cred.idleDay /\ cred' = [cred EXCEPT !.idleDay = TRUE] /\ UNCHANGED <<prompt, asks>>
     \/ prompt = "open" /\ prompt' = "expired" /\ UNCHANGED <<cred, asks>>
  /\ UNCHANGED <<conn, caller, Provider, stopping, lost, refused>>

\* The provider ends the session, or its user does.
Revoked ==
  /\ cred.refresh \in honoured
  /\ \A c \in Callers : caller[c].stage \notin {"write", "persist"}
  /\ honoured' = honoured \ {cred.refresh}
  /\ lost' = "revoked"
  /\ UNCHANGED <<provider, cred, conn, prompt, caller, issued, stopping, refused, asks>>

\* The client closes its connection: its handler is dropped where it stands, but a refresh
\* runs on in its own task.
HandlerDropped(c) ==
  /\ caller[c].stage \in Handlers
  /\ Leave(c)
  /\ UNCHANGED <<cred, conn, prompt, Provider, stopping, History>>

Restart == caller' = [c \in Callers |-> Idle] /\ stopping' = FALSE

Stop ==
  /\ ~stopping
  /\ stopping' = TRUE
  /\ UNCHANGED <<cred, conn, prompt, caller, Provider, History>>

Settled_sweepsOnly == \A c \in Callers : caller[c].mode \notin Scheduled
Settled == \A c \in Callers : caller[c].stage \notin Tasks

\* wait_for_credential_refreshes returns before its limit.
OrderlyExit ==
  /\ stopping
  /\ Settled
  /\ Restart
  /\ UNCHANGED <<cred, conn, prompt, Provider, History>>

\* The process is killed, or the limit passes.
Killed ==
  /\ Restart
  /\ lost' = IF \E c \in Callers : /\ caller[c].stage \in {"write", "persist"}
                                   /\ caller[c].refresh # cred.refresh
               THEN "killed" ELSE lost
  /\ asks' = 0
  /\ UNCHANGED <<cred, conn, prompt, Provider, refused>>

Next ==
  \/ \E c \in Callers :
       \/ SweepStale(c) \/ SweepRecover(c) \/ SweepNightly(c) \/ ForceRefresh(c)
       \/ RequestSent(c) \/ RequestRefreshes(c) \/ RequestRejected(c)
       \/ RequestChallenged(c) \/ RequestServed(c) \/ Mark(c)
       \/ LockCredential(c) \/ ProviderAccepts(c) \/ ProviderRefuses(c)
       \/ ProviderUnavailable(c) \/ AnswerLost(c) \/ ProviderFails(c)
       \/ UpdateConnection(c) \/ CommitRefresh(c) \/ ReadAgain(c) \/ RecordAttempt(c)
       \/ WritePrompt(c) \/ CommitPrompt(c) \/ DeleteExpired(c) \/ CommitExpired(c)
       \/ PollFails(c) \/ FailDeletesPrompt(c) \/ FailUpdates(c)
       \/ ExchangeCode(c) \/ FinishSignIn(c) \/ HandlerDropped(c)
       \/ \E d \in Callers : RefreshAborted(c, d) \/ SettlerAborted(c, d)
  \/ TimePasses \/ Revoked \/ Stop \/ OrderlyExit \/ Killed

Spec == Init /\ [][Next]_vars

-----------------------------------------------------------------------------
\* The types of the rows, the callers and the histories.
TypeOK ==
  /\ provider \in Providers
  /\ cred \in Credential
  /\ conn \in Connection
  /\ prompt \in {"none", "open", "expired"}
  /\ caller \in [Callers -> Caller]
  /\ issued \in Tokens
  /\ honoured \subseteq Tokens
  /\ stopping \in BOOLEAN
  /\ lost \in {"none", "answer", "aborted", "killed", "revoked"}
  /\ refused \in BOOLEAN
  /\ asks \in 0..2

\* Once no refresh is between the provider's answer and its commit, the stored refresh
\* token is one the provider still accepts, unless the answer never arrived, the process
\* was killed, the transaction was aborted or the session was ended (refresh_detached, the
\* credential's row lock, wait_for_credential_refreshes).
StoredTokenIsHonoured ==
  \/ cred.refresh \in honoured
  \/ lost # "none"
  \/ \E c \in Callers : caller[c].stage \in {"write", "persist"}

\* "A refresh that failed after the provider answered still holds a rotated credential, so commit it"
\* (refresh.rs): the rotated token is stored although the rest of the refresh failed.  It is not when
\* PostgreSQL ends the refresh to resolve a deadlock and there is no savepoint to return to.
RotationIsKept == lost # "aborted"

\* An account whose stored refresh token the provider has refused is not served with until
\* it has another one (finish_refresh_reauthorization, restore_refreshed_availability).
DeadLoginIsNotServed == refused => conn.availability = "reauth"

\* However many sweeps run, an account that comes due is asked for once, and then waits
\* until it is due again (the re-check under the row lock, and next_refresh_at moved ahead).
AskedOncePerInterval == asks < 2

\* An account is marked only on evidence about the credential that is stored: a request
\* whose token is still the stored one, refused twice over with two tokens or challenged;
\* a refresh refused or challenged; or its owner asked for a prompt
\* (mark_reauthorization_required_if_current, handle_rejected_credential).
MarkedOnEvidence ==
  [][conn.availability = "active" /\ conn'.availability = "reauth" =>
       \E c \in Callers :
         \/ /\ caller[c].stage = "mark"
            /\ caller[c].observed = cred.access
            /\ caller[c].message = "login required" => caller[c].earlier # cred.access
         \/ caller[c].stage = "ask" /\ refused'
         \/ caller[c].stage = "persist" /\ caller[c].probe = "required"
         \/ caller[c].stage = "settling"]_vars

\* An account returns to service only with a new access token, committed in the same step
\* (restore_refreshed_availability, finish_connection).
ReturnsWithANewToken ==
  [][conn.availability = "reauth" /\ conn'.availability = "active" =>
       cred'.access # cred.access]_vars

\* refresh_detached and the sweeps, together: the credential that is stored is good, or its
\* account is known to be bad, and the provider is asked no more often than is due.
CredentialIsSound ==
  /\ StoredTokenIsHonoured
  /\ DeadLoginIsNotServed
  /\ AskedOncePerInterval
=============================================================================

--------------------------- MODULE AgentConnections ---------------------------
(***************************************************************************)
(* Connecting provider accounts, merging two sign-ins to one account, and  *)
(* the pools of users an account is shared with (api/agent/connections and *)
(* api/agent/pools).                                                       *)
(*                                                                         *)
(* Users connect accounts of one provider.  A sign-in ends in              *)
(* finish_connection, taken statement by statement: what it reads before   *)
(* its transaction may be stale inside it.  A pool handler is two steps,   *)
(* with the lock it keeps in between, if it takes one.  Availability and   *)
(* the refresh of credentials are in CredentialRefresh.                    *)
(***************************************************************************)
EXTENDS Naturals, FiniteSets

CONSTANTS
  Signers,     \* users who connect accounts
  Askers,      \* users who ask, or are invited, to join pools
  Identities,  \* provider accounts (provider_account_identity)
  Rows,        \* ids of agent_connections, taken again once nothing refers to them
  Handlers     \* handlers running at the same time

HubUsers == Signers \cup Askers

ASSUME AgentConnectionsAssumption ==
  /\ Signers # {} /\ IsFiniteSet(HubUsers) /\ IsFiniteSet(Handlers)
  /\ "none" \notin HubUsers \cup Identities \cup Rows

VARIABLES
  conn,          \* agent_connections with its credential and its authorization
  joinRequests,  \* agent_pool_join_requests: the status of each user's, per connection
  task,          \* what each handler is doing
  switched       \* history: what an older sign-in to another account took a connected row to

connVars == <<conn, joinRequests, task, switched>>

\* ident is the identity of the stored credential; prompt: there is an authorization.
Connection ==
  [status : {"absent", "pending", "connected", "failed"}, user : HubUsers \cup {"none"},
   ident : Identities \cup {"none"}, prompt : BOOLEAN]
Absent == [status |-> "absent", user |-> "none", ident |-> "none", prompt |-> FALSE]
RequestStatuses == {"none", "pending", "accepted", "rejected"}

\* by: who called, where it matters later; user: whose request the pool handlers decide, and finish_connection's
\* pending_owner_id; fresh: the row had no credential when its identity was compared.
Task ==
  [op : {"none", "finish", "fail", "reauthorize", "disconnect", "invite", "decide", "remove", "ask"},
   stage : {"begun", "checked", "owned", "locked", "stored"},
   by : HubUsers \cup {"none"}, row : Rows \cup {"none"}, ident : Identities \cup {"none"},
   user : HubUsers \cup {"none"}, target : Rows \cup {"none"}, status : RequestStatuses,
   fresh : BOOLEAN, clears : BOOLEAN]
NoTask ==
  [op |-> "none", stage |-> "begun", by |-> "none", row |-> "none", ident |-> "none",
   user |-> "none", target |-> "none", status |-> "none", fresh |-> FALSE, clears |-> FALSE]

ConnInit ==
  /\ conn = [r \in Rows |-> Absent]
  /\ joinRequests = [r \in Rows |-> [u \in HubUsers |-> "none"]]
  /\ task = [w \in Handlers |-> NoTask]
  /\ switched = {}

-----------------------------------------------------------------------------
\* Locks

Others(w) == Handlers \ {w}
Finishing(w, stage) == task[w].op = "finish" /\ task[w].stage = stage

IdentityFree_never(w) == TRUE
\* pg_advisory_xact_lock(identity_lock)
IdentityFree(w) ==
  \A v \in Others(w) :
    ~(Finishing(v, "locked") \/ Finishing(v, "stored")) \/ task[v].ident # task[w].ident

\* The credential of r, and r against deletion, from the upsert on.
CredentialFree(r) == \A w \in Handlers : ~(Finishing(w, "stored") /\ task[w].target = r)
\* finish_connection has deleted this authorization.
PromptFree(r) == \A w \in Handlers : ~(Finishing(w, "stored") /\ task[w].row = r /\ conn[r].prompt)

ConnectionFree_unlocked(r) == TRUE
\* agent_connections FOR UPDATE, in invite_member and decide_request.
ConnectionFree(r) == \A w \in Handlers : ~(task[w].op \in {"invite", "decide"} /\ task[w].row = r)
\* The join request finish_connection has deleted.
RequestFree(r, u) ==
  \A w \in Handlers :
    ~(Finishing(w, "stored") /\ task[w].clears /\ task[w].target = r /\ task[w].user = u)

Begin(w, t) == task[w].op = "none" /\ task' = [task EXCEPT ![w] = t]
Ends(w) == task' = [task EXCEPT ![w] = NoTask]
Advances(w, t) == task' = [task EXCEPT ![w] = t] /\ UNCHANGED <<conn, joinRequests, switched>>
Unreferred(r) == \A w \in Handlers : r \notin {task[w].row, task[w].target}

-----------------------------------------------------------------------------
\* Connecting

\* start_provider_authorization: what the provider is asked, and where the user is sent, differs by provider.
Prompted(c) == [c EXCEPT !.prompt = TRUE]

\* start
Start(u, r) ==
  /\ conn[r] = Absent /\ Unreferred(r)
  /\ conn' = [conn EXCEPT ![r] = Prompted([Absent EXCEPT !.status = "pending", !.user = u])]
  /\ switched' = switched \ {r}
  /\ UNCHANGED <<joinRequests, task>>

\* connect_api_key: the key is its own identity, and there is no prompt.
ConnectApiKey(w, u, r, i) ==
  /\ conn[r] = Absent /\ Unreferred(r)
  /\ conn' = [conn EXCEPT ![r] = [Absent EXCEPT !.status = "pending", !.user = u]]
  /\ Begin(w, [NoTask EXCEPT !.op = "finish", !.row = r, !.ident = i])
  /\ switched' = switched \ {r}
  /\ UNCHANGED joinRequests

\* A provider answers an exchange with a token of one identity.  Every other answer is an
\* error that changes nothing, or the denial Poll starts from.
Granted == Identities

\* complete_authorization, and a poll the provider answers with a token.
SignIn(w, u, r) ==
  /\ conn[r].user = u /\ conn[r].prompt
  /\ \E i \in Granted :
       Begin(w, [NoTask EXCEPT !.op = "finish", !.row = r, !.ident = i])
  /\ UNCHANGED <<conn, joinRequests, switched>>

IdentityMatches_unchecked(r, i) == TRUE
\* ensure_reauthorization_matches
IdentityMatches(r, i) == conn[r].ident \in {"none", i}

ChecksIdentity(w) ==
  LET t == task[w] IN
  /\ Finishing(w, "begun")
  /\ Advances(w, IF IdentityMatches(t.row, t.ident)
                   THEN [t EXCEPT !.stage = "checked", !.fresh = conn[t.row].ident = "none"]
                   ELSE NoTask)

\* connection_owner_id
ReadsOwner(w) ==
  LET t == task[w] IN
  /\ Finishing(w, "checked")
  /\ Advances(w, IF conn[t.row] = Absent THEN NoTask
                 ELSE [t EXCEPT !.stage = "owned", !.user = conn[t.row].user])

\* find_duplicate_connection
Duplicates(r, i) == {q \in Rows \ {r} : conn[q].status = "connected" /\ conn[q].ident = i}

FindsDuplicate(w) ==
  LET t == task[w]
      found == Duplicates(t.row, t.ident) IN
  /\ Finishing(w, "owned") /\ IdentityFree(w)
  /\ \E q \in IF found = {} THEN {t.row} ELSE found :
       Advances(w, [t EXCEPT !.stage = "locked", !.target = q])

Cleared_all(t) == {u \in HubUsers : joinRequests[t.target][u] # "none"}
\* The join request of the new owner, when an account is merged.
Cleared(t) == {u \in {t.user} : t.target # t.row /\ joinRequests[t.target][u] # "none"}

\* The credential goes to a row that still exists; the prompt is deleted.
StoresCredential(w) ==
  LET t == task[w] IN
  /\ Finishing(w, "locked") /\ CredentialFree(t.target) /\ PromptFree(t.row)
  /\ Advances(w, IF conn[t.target] = Absent THEN NoTask
                 ELSE [t EXCEPT !.stage = "stored", !.clears = Cleared(t) # {}])

\* The account moves to the new owner, and the row of a merged sign-in goes away with
\* whatever hangs on it.
CommitsConnection(w) ==
  LET t == task[w]
      merged == t.target # t.row
      row == [status |-> "connected", user |-> t.user, ident |-> t.ident,
              prompt |-> merged /\ conn[t.target].prompt]
      kept == [joinRequests EXCEPT ![t.target] =
                 [u \in HubUsers |-> IF t.clears /\ u \in Cleared(t) THEN "none" ELSE @[u]]] IN
  /\ Finishing(w, "stored") /\ ConnectionFree(t.target)
  /\ merged => ConnectionFree(t.row) /\ CredentialFree(t.row)
  /\ conn' = IF merged THEN [conn EXCEPT ![t.target] = row, ![t.row] = Absent]
             ELSE [conn EXCEPT ![t.target] = row]
  /\ joinRequests' = IF merged THEN [kept EXCEPT ![t.row] = [u \in HubUsers |-> "none"]] ELSE kept
  /\ switched' = switched \cup
       (IF t.fresh /\ conn[t.row].ident \notin {"none", t.ident} THEN {t.row, t.target} ELSE {})
  /\ Ends(w)

\* A statement fails, the provider does, or the handler's client leaves.
RollBack(w) == task[w].op # "none" /\ Advances(w, NoTask)

-----------------------------------------------------------------------------
\* Prompts that end, and connections

Settled_failed(c) == [c EXCEPT !.status = "failed"]
\* fail_connection and the sweep leave a connected row connected.
Settled(c) == [c EXCEPT !.status = IF @ = "connected" THEN "connected" ELSE "failed"]

\* poll_pending_connection: the prompt has expired, or the provider denied it.
Poll(w, u, r) ==
  /\ conn[r].user = u /\ conn[r].prompt
  /\ Begin(w, [NoTask EXCEPT !.op = "fail", !.row = r])
  /\ UNCHANGED <<conn, joinRequests, switched>>

DeletesPrompt(w) ==
  LET r == task[w].row IN
  /\ task[w].op = "fail" /\ task[w].stage = "begun" /\ PromptFree(r)
  /\ conn' = [conn EXCEPT ![r].prompt = FALSE]
  /\ task' = [task EXCEPT ![w].stage = "checked"]
  /\ UNCHANGED <<joinRequests, switched>>

MarksFailed(w) ==
  LET r == task[w].row IN
  /\ task[w].op = "fail" /\ task[w].stage = "checked" /\ ConnectionFree(r)
  /\ conn' = [conn EXCEPT ![r] = IF @ = Absent THEN @ ELSE Settled(@)]
  /\ Ends(w)
  /\ UNCHANGED <<joinRequests, switched>>

\* expire_abandoned_authorizations
Expire(r) ==
  /\ conn[r].prompt /\ PromptFree(r) /\ ConnectionFree(r)
  /\ conn' = [conn EXCEPT ![r] = Settled([@ EXCEPT !.prompt = FALSE])]
  /\ UNCHANGED <<joinRequests, task, switched>>

\* refresh_connection finds the login dead and starts a new one, whoever owns the row then.
Refresh(w, u, r) ==
  /\ conn[r].user = u /\ conn[r].status = "connected"
  /\ Begin(w, [NoTask EXCEPT !.op = "reauthorize", !.row = r])
  /\ UNCHANGED <<conn, joinRequests, switched>>

StartsReauthorization(w) ==
  LET r == task[w].row IN
  /\ task[w].op = "reauthorize" /\ PromptFree(r) /\ ConnectionFree(r)
  /\ conn' = [conn EXCEPT ![r] = IF @ = Absent THEN @ ELSE Prompted(@)]
  /\ Ends(w)
  /\ UNCHANGED <<joinRequests, switched>>

\* disconnect: the ownership is read first.
Disconnect(w, u, r) ==
  /\ conn[r].user = u
  /\ Begin(w, [NoTask EXCEPT !.op = "disconnect", !.by = u, !.row = r])
  /\ UNCHANGED <<conn, joinRequests, switched>>

Deletable_anyones(r, u) == TRUE
\* WHERE id = $1 AND user_id = $2, after waiting for the credential.
Deletable(r, u) == conn[r].user = u

Deletes(w) ==
  LET t == task[w]
      gone == Deletable(t.row, t.by) IN
  /\ t.op = "disconnect"
  /\ CredentialFree(t.row) /\ PromptFree(t.row) /\ ConnectionFree(t.row)
  /\ conn' = IF gone THEN [conn EXCEPT ![t.row] = Absent] ELSE conn
  /\ joinRequests' = IF gone THEN [joinRequests EXCEPT ![t.row] = [u \in HubUsers |-> "none"]] ELSE joinRequests
  /\ Ends(w)
  /\ UNCHANGED switched

-----------------------------------------------------------------------------
\* Pools

Owns(u, r) == conn[r].status = "connected" /\ conn[r].user = u
\* The members a pool lists, its owner apart.
Members(r) == {u \in HubUsers : joinRequests[r][u] = "accepted"}
Pool(op, u, r, m, s) ==
  [NoTask EXCEPT !.op = op, !.by = u, !.row = r, !.user = m, !.status = s]

\* invite_member
InviteMember(w, u, r, m) ==
  /\ Owns(u, r) /\ ConnectionFree(r) /\ m # u /\ m \notin Members(r)
  /\ Begin(w, Pool("invite", u, r, m, "accepted"))
  /\ UNCHANGED <<conn, joinRequests, switched>>

\* decide_request; a decision may be taken again.
DecideRequest(w, u, r, m, s) ==
  /\ Owns(u, r) /\ ConnectionFree(r) /\ joinRequests[r][m] # "none"
  /\ Begin(w, Pool("decide", u, r, m, s))
  /\ UNCHANGED <<conn, joinRequests, switched>>

\* remove_member, which locks nothing
RemoveMember(w, u, r, m) ==
  /\ Owns(u, r)
  /\ Begin(w, Pool("remove", u, r, m, "none"))
  /\ UNCHANGED <<conn, joinRequests, switched>>

\* create_request, which locks nothing either
CreateRequest(w, m, r) ==
  /\ conn[r].status = "connected" /\ conn[r].user # m
  /\ Begin(w, Pool("ask", m, r, m, "pending"))
  /\ UNCHANGED <<conn, joinRequests, switched>>

\* Each statement looks at the request as it is now: an invitation is an upsert, a decision
\* needs the row, a removal an accepted one, and a second request is refused.
Writes(t, now) ==
  CASE t.op = "invite" -> TRUE
    [] t.op = "decide" -> now # "none"
    [] t.op = "remove" -> now = "accepted"
    [] t.op = "ask" -> now = "none" /\ conn[t.row] # Absent

WritesRequest(w) ==
  LET t == task[w]
      now == joinRequests[t.row][t.user] IN
  /\ t.op \in {"invite", "decide", "remove", "ask"} /\ RequestFree(t.row, t.user)
  /\ joinRequests' = [joinRequests EXCEPT ![t.row][t.user] = IF Writes(t, now) THEN t.status ELSE @]
  /\ Ends(w)
  /\ UNCHANGED <<conn, switched>>

ConnNext ==
  \/ \E u \in Signers, r \in Rows : Start(u, r)
  \/ \E r \in Rows : Expire(r)
  \/ \E w \in Handlers :
       \/ \E u \in Signers, r \in Rows :
            \/ SignIn(w, u, r) \/ Poll(w, u, r) \/ Refresh(w, u, r) \/ Disconnect(w, u, r)
            \/ \E i \in Identities : ConnectApiKey(w, u, r, i)
            \/ \E m \in Askers :
                 \/ InviteMember(w, u, r, m) \/ RemoveMember(w, u, r, m)
                 \/ \E s \in {"accepted", "rejected"} : DecideRequest(w, u, r, m, s)
       \/ \E m \in Askers, r \in Rows : CreateRequest(w, m, r)
       \/ ChecksIdentity(w) \/ ReadsOwner(w) \/ FindsDuplicate(w)
       \/ StoresCredential(w) \/ CommitsConnection(w) \/ RollBack(w)
       \/ DeletesPrompt(w) \/ MarksFailed(w) \/ StartsReauthorization(w) \/ Deletes(w)
       \/ WritesRequest(w)

ConnSpec == ConnInit /\ [][ConnNext]_connVars

-----------------------------------------------------------------------------
\* Rows keep their shape; a connection is connected exactly when it has a credential, and
\* only one that is has requests.
ConnTypeOK ==
  /\ conn \in [Rows -> Connection]
  /\ \A r \in Rows : (conn[r].status = "connected") = (conn[r].ident # "none")
  /\ \A r \in Rows : (conn[r].status = "absent") = (conn[r].user = "none")
  /\ joinRequests \in [Rows -> [HubUsers -> RequestStatuses]]
  /\ \A r \in Rows, u \in HubUsers : joinRequests[r][u] # "none" => conn[r].status = "connected"
  /\ task \in [Handlers -> Task]
  /\ switched \subseteq Rows

\* finish_connection: "a provider account is represented by at most one connected row",
\* however many sign-ins to it finish together, and however many times one prompt is completed.
OneConnectionPerIdentity ==
  \A i \in Identities :
    Cardinality({r \in Rows : conn[r].status = "connected" /\ conn[r].ident = i}) <= 1

\* A connected account stays connected, with its provider account, until the user it belongs
\* to at that moment deletes it, and changes hands only by a sign-in to that account.  The
\* exception is a row that two sign-ins to different provider accounts were completing at once,
\* both having passed the identity check before it had a credential.
AccountIsKept ==
  [][\A r \in Rows :
       conn[r].status = "connected" =>
         \/ /\ conn'[r].status = "connected"
            /\ conn'[r].ident = conn[r].ident
            /\ conn'[r].user # conn[r].user =>
                 \E w \in Handlers :
                   Finishing(w, "stored") /\ task[w].target = r /\ task[w].ident = conn[r].ident
         \/ /\ conn'[r] = Absent
            /\ \E w \in Handlers :
                 task[w].op = "disconnect" /\ task[w].row = r /\ task[w].by = conn[r].user
         \/ r \in switched']_connVars

\* A user becomes a member of a pool only by the hand of who owns the account at that moment,
\* and stops being one only by being removed or rejected, with the account, or by becoming
\* its owner: members survive a change of hands.
MembersAreOwnersChoice ==
  [][\A r \in Rows, u \in HubUsers :
       /\ u \in Members(r)' \ Members(r) =>
            \E w \in Handlers :
              task[w].op \in {"invite", "decide"} /\ task[w].row = r /\ task[w].by = conn[r].user
       /\ u \in Members(r) \ Members(r)' =>
            \/ conn'[r] = Absent \/ conn'[r].user = u
            \/ \E w \in Handlers :
                 task[w].op \in {"remove", "decide"} /\ task[w].row = r /\ task[w].user = u]_connVars
=============================================================================

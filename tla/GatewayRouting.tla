--------------------------- MODULE GatewayRouting ----------------------------
(***************************************************************************)
(* How a gateway request finds an account that answers it (api/gateway:    *)
(* selection, proxy, providers/gemini, voice).  A request lists the        *)
(* accounts it may use, once, and walks that list.  Before it sends        *)
(* anything through an account it claims it: an account whose cooldown has *)
(* passed, or that is half open, is taken as a probe, which the database   *)
(* grants to one request at a time for five minutes.                       *)
(*                                                                         *)
(* Time enters only through its effects: a cooldown of thirty minutes      *)
(* ends, a claim becomes five minutes old.  Whatever claimed an account    *)
(* before a cooldown began is older than five minutes when it ends.        *)
(***************************************************************************)
EXTENDS Naturals, Sequences, FiniteSets

CONSTANTS
  Accounts,            \* connected accounts of one provider
  Requests,            \* handlers running at the same time
  Browsers,            \* those that come from the Playground, not with a key
  Scopes,              \* Scopes[r]: the sets of accounts that a caller of r may reach
  Providers,           \* whose accounts they may be
  MaxUpstreamAttempts  \* MAX_UPSTREAM_ATTEMPTS

ASSUME RoutingAssumption ==
  /\ IsFiniteSet(Accounts)
  /\ Browsers \subseteq Requests
  /\ Scopes \in [Requests -> SUBSET ((SUBSET Accounts) \ {{}})]
  /\ Providers \subseteq {"chatgpt", "gemini", "other"}
  /\ MaxUpstreamAttempts \in Nat
  /\ Requests \cap {"nobody", "left", "unreadable"} = {}

VARIABLES
  provider,   \* whose accounts they are; never changes
  account,    \* the availability columns of agent_connections
  request,    \* what each handler is doing
  overstayed  \* history: accounts with a probe that has lasted for more than five minutes

routingVars == <<provider, account, request, overstayed>>

\* availability_status with what its times say now.  limited: rate_limited_until is to come;
\* due: it has passed.  half_open: retry_claimed_at is NULL; probed: it is less than five
\* minutes old; stale: it is older.
Statuses == {"active", "limited", "due", "half_open", "probed", "stale", "reauth"}
HalfOpen == {"half_open", "probed", "stale"}

\* by (history): whose claim it is while "probed", or how that request went without
\* releasing it.
Account == [status : Statuses, by : Requests \cup {"nobody", "left", "unreadable"}]

\* A ProviderCandidate: what the list said of the account.
Candidate == [id : Accounts, status : {"active", "rate_limited", "half_open", "reauth"}]

\* The request paths of a provider: a model listing of Gemini's and a browser's voice call to
\* ChatGPT have loops of their own, any other request goes through proxy_request_for_user.
Kinds(r) ==
  CASE provider = "chatgpt" -> {"proxy"} \cup (IF r \in Browsers THEN {"voice"} ELSE {})
    [] provider = "gemini" -> {"gemini", "models"}
    [] OTHER -> {"proxy"}

\* rest: the candidates from the current one on, of `count` listed.  used: attempts_used;
\* tries: candidate_attempts; retried: credential_retried; saw: the outcomes kept for the
\* answer.  owed (history): accounts listed as free, not touched since and not tried yet.
Request ==
  [stage : {"idle", "next", "lookup", "send", "done"}, kind : {"none", "proxy", "gemini", "models", "voice"},
   rest : Seq(Candidate), count : Nat, used : Nat, tries : Nat, probe : BOOLEAN,
   retried : BOOLEAN, saw : SUBSET {"limit", "reauth", "pool"},
   answer : {"none", "served", "upstream", "limited", "reauth", "pool", "error"},
   owed : SUBSET Accounts]

Idle ==
  [stage |-> "idle", kind |-> "none", rest |-> <<>>, count |-> 0, used |-> 0, tries |-> 0,
   probe |-> FALSE, retried |-> FALSE, saw |-> {}, answer |-> "none", owed |-> {}]

RoutingInit ==
  /\ provider \in Providers
  /\ account = [a \in Accounts |-> [status |-> "active", by |-> "nobody"]]
  /\ request = [r \in Requests |-> Idle]
  /\ overstayed = {}

-----------------------------------------------------------------------------
Status(a) == account[a].status
Current(r) == request[r].rest[1].id
Probing(r, a) ==
  request[r].stage \in {"lookup", "send"} /\ request[r].probe /\ Current(r) = a
Probers(a) == {r \in Requests : Probing(r, a)}

\* An account whose row would let a request in that listed it just now.
Free(a) == Status(a) \in {"active", "due", "half_open", "stale"}

\* Request r goes on as `record`, and account a's row becomes `row`.
Step(r, record, a, row) ==
  /\ account' = [account EXCEPT ![a] = row]
  /\ request' = [q \in Requests |->
       LET next == IF q = r THEN record ELSE request[q] IN
       IF row = account[a] THEN next
       ELSE [next EXCEPT !.owed = @ \ {a}]]
  /\ overstayed' = {b \in overstayed : Probers(b)' # {}}
  /\ UNCHANGED provider

Row(status) == [status |-> status, by |-> "nobody"]

\* mark_rate_limited, mark_active, release_probe and the mark for reconnect.
Limited(a) == IF Status(a) = "reauth" THEN account[a] ELSE Row("limited")
Restored(a) == IF Status(a) \in {"active", "reauth"} THEN account[a] ELSE Row("active")
Reauth(a) == IF Status(a) = "reauth" THEN account[a] ELSE Row("reauth")

Released_onlySent(r, a) ==
  IF request[r].probe /\ request[r].stage = "send" /\ Status(a) \in HalfOpen
    THEN Row("half_open") ELSE account[a]
Released(r, a) ==
  IF request[r].probe /\ Status(a) \in HalfOpen THEN Row("half_open") ELSE account[a]

\* continue 'candidates
Onwards(r) ==
  [request[r] EXCEPT !.stage = "next", !.rest = Tail(@), !.tries = 0, !.probe = FALSE,
                     !.retried = FALSE]
Saw(record, what) == [record EXCEPT !.saw = @ \cup {what}]

TurnedAway == {"limited", "reauth", "pool"}
Done(r, answer) ==
  [Idle EXCEPT !.stage = "done", !.answer = answer,
     !.owed = IF answer \in TurnedAway THEN request[r].owed ELSE {}]

\* What a request whose candidates, or whose budget, ran out is answered.
Concluded(r) ==
  LET saw == request[r].saw IN
  Done(r, CASE "limit" \in saw -> "limited"
            [] saw \cap {"limit", "reauth"} = {"reauth"} -> "reauth"
            [] saw = {"pool"} -> "pool"
            [] OTHER -> "error")

\* attempt_budget
Budget(r) ==
  IF request[r].count > MaxUpstreamAttempts THEN request[r].count ELSE MaxUpstreamAttempts

\* The loop goes on while it has a send left.
MayTry(r) == request[r].used < Budget(r)

ShouldRetrySame_spendsTheRest(r) ==
  LET remaining == Len(request[r].rest) - 1 IN
  /\ request[r].used < Budget(r)
  /\ \/ remaining = 0
     \/ request[r].tries < 2 /\ Budget(r) - request[r].used >= remaining
\* should_retry_same_candidate
ShouldRetrySame(r) ==
  LET remaining == Len(request[r].rest) - 1 IN
  /\ request[r].used < Budget(r)
  /\ \/ remaining = 0
     \/ request[r].tries < 2 /\ Budget(r) - request[r].used > remaining

-----------------------------------------------------------------------------
\* selected_provider_candidates

Bucket(a) ==
  CASE Status(a) = "half_open" -> 0
    [] Status(a) = "due" -> 1
    [] Status(a) = "active" -> 2
    [] OTHER -> 3

Seen(a) ==
  CASE Status(a) \in {"limited", "due"} -> "rate_limited"
    [] Status(a) \in HalfOpen -> "half_open"
    [] OTHER -> Status(a)

\* The ORDER BY of the list; what decides inside a bucket is left open.
Listings(scope) ==
  {list \in [1..Cardinality(scope) -> scope] :
     \A i, j \in DOMAIN list : i < j => list[i] # list[j] /\ Bucket(list[i]) <= Bucket(list[j])}

Preferring_twice(list, a) == <<a>> \o list
\* The account a browser request names is tried first: it is removed from its place and
\* inserted at the head.
Preferring(list, a) ==
  LET place == CHOOSE i \in DOMAIN list : list[i] = a IN
  [i \in DOMAIN list |-> IF i = 1 THEN a ELSE IF i <= place THEN list[i - 1] ELSE list[i]]

\* scope: the accounts of the user and of joined pools, of an organization, the platform's
\* stock, or the one account of a ticket.
Select(r) ==
  /\ request[r].stage = "idle"
  /\ \E kind \in Kinds(r), scope \in Scopes[r] :
     \E list \in Listings(scope) :
     \E order \in {list} \cup (IF r \in Browsers THEN {Preferring(list, a) : a \in scope} ELSE {}) :
       request' = [request EXCEPT ![r] =
         [Idle EXCEPT !.stage = "next", !.kind = kind, !.count = Len(order),
            !.rest = [i \in 1..Len(order) |-> [id |-> order[i], status |-> Seen(order[i])]],
            !.owed = {a \in scope : Free(a)}]]
  /\ UNCHANGED <<provider, account, overstayed>>

\* claim_candidate for a candidate that was not active when it was listed: the UPDATE looks
\* at the row again.
Claimable_taken(candidate) ==
  \/ candidate.status = "rate_limited" /\ Status(candidate.id) = "due"
  \/ candidate.status = "half_open" /\ Status(candidate.id) \in HalfOpen
Claimable_cooling(candidate) ==
  \/ candidate.status = "rate_limited" /\ Status(candidate.id) \in {"due", "limited"}
  \/ candidate.status = "half_open" /\ Status(candidate.id) \in {"half_open", "stale"}
Claimable(candidate) ==
  \/ candidate.status = "rate_limited" /\ Status(candidate.id) = "due"
  \/ candidate.status = "half_open" /\ Status(candidate.id) \in {"half_open", "stale"}

Looking(r, probe) == [request[r] EXCEPT !.stage = "lookup", !.probe = probe]

\* The head of the loop: an account listed as active is used as it is, one that can be
\* claimed becomes this request's probe, the others are skipped.
Claim(r) ==
  /\ request[r].stage = "next"
  /\ request[r].rest # <<>>
  /\ MayTry(r)
  /\ LET candidate == request[r].rest[1]
         a == candidate.id IN
     IF candidate.status = "active" THEN Step(r, Looking(r, FALSE), a, account[a])
     ELSE IF Claimable(candidate)
       THEN Step(r, Looking(r, TRUE), a, [status |-> "probed", by |-> r])
     ELSE Step(r, Saw(Onwards(r), IF candidate.status = "reauth" THEN "reauth" ELSE "limit"),
               a, account[a])

RunOut(r) ==
  /\ request[r].stage = "next"
  /\ request[r].rest = <<>> \/ ~MayTry(r)
  /\ request' = [request EXCEPT ![r] = Concluded(r)]
  /\ UNCHANGED <<provider, account, overstayed>>

\* gateway_credential.  It does not look at the account's availability.
Tried(r, record) == [record EXCEPT !.owed = @ \ {Current(r)}]

Spends(r) == IF request[r].kind = "voice" THEN 0 ELSE 1
Sent(r) ==
  [request[r] EXCEPT !.stage = "send", !.used = @ + Spends(r), !.tries = @ + Spends(r)]

CredentialReady(r) ==
  /\ request[r].stage = "lookup"
  /\ Step(r, Tried(r, Sent(r)), Current(r), account[Current(r)])

\* The refresh of a token about to expire was refused, which marked the account.
CredentialRefused(r) ==
  /\ request[r].stage = "lookup"
  /\ Step(r, Tried(r, Saw(Onwards(r), "reauth")), Current(r), Reauth(Current(r)))

\* The refresh failed otherwise, the account was disconnected, or the token lacks something.
CredentialMissing(r) ==
  /\ request[r].stage = "lookup"
  /\ Step(r, Tried(r, Onwards(r)), Current(r), Released(r, Current(r)))

-----------------------------------------------------------------------------
\* What the provider answers to a request that was sent

\* After a failure that says nothing about the account: the same account again, the next
\* one, or, with the budget spent, the end (`last`).
Retry(r, last) ==
  LET a == Current(r) IN
  IF request[r].used >= Budget(r) THEN Step(r, last, a, Released(r, a))
  ELSE IF ShouldRetrySame(r) THEN Step(r, Sent(r), a, account[a])
  ELSE Step(r, Onwards(r), a, Released(r, a))

\* No answer at all.
Unreachable(r) == request[r].stage = "send" /\ Retry(r, Concluded(r))

\* 408 or 5xx.  A model listing keeps no response to give back.
Transient(r) ==
  /\ request[r].stage = "send"
  /\ Retry(r, IF request[r].kind = "models" THEN Concluded(r) ELSE Done(r, "upstream"))

\* 429
RateLimited(r) ==
  /\ request[r].stage = "send"
  /\ Step(r, Saw(Onwards(r), "limit"), Current(r), Limited(Current(r)))

\* handle_rejected_credential: a refreshed token is tried once, at no cost to the budget;
\* the account is marked; or it is given up for this request.
LoginRejected(r) ==
  /\ request[r].stage = "send"
  /\ LET a == Current(r) IN
     \/ /\ ~request[r].retried
        /\ Step(r, [request[r] EXCEPT !.retried = TRUE], a, account[a])
     \/ Step(r, Saw(Onwards(r), "reauth"), a, Reauth(a))
     \/ Step(r, Onwards(r), a, Released(r, a))

\* A refusal that is about this account: 402 and 403 (Gemini: 403), for a model listing and
\* a voice call any other error.
Refused(r) ==
  /\ request[r].stage = "send"
  /\ LET a == Current(r) IN
     Step(r, IF request[r].kind \in {"proxy", "gemini"}
               THEN Saw(Onwards(r), "pool") ELSE Onwards(r), a, Released(r, a))

\* Anything else is given to the client.
Served(r) ==
  /\ request[r].stage = "send"
  /\ Step(r, Done(r, "served"), Current(r), Restored(Current(r)))

\* Gemini's 403 asks for the account to be verified, and the token it was asked with is
\* still the stored one, or is not.
Challenged(r) ==
  /\ request[r].stage = "send"
  /\ LET a == Current(r) IN
     \/ Step(r, Saw(Onwards(r), "reauth"), a, Reauth(a))
     \/ Step(r, Onwards(r), a, Released(r, a))

\* The row when r goes away without release_probe.
Deserted(r, a, how) ==
  IF account[a].by = r /\ Probing(r, a) THEN [account[a] EXCEPT !.by = how] ELSE account[a]

\* The body of Gemini's 403, or its list of models, cannot be read: the error is returned
\* with `?`, which releases nothing.
Unreadable(r) ==
  /\ request[r].stage = "send"
  /\ Step(r, Done(r, "error"), Current(r), Deserted(r, Current(r), "unreadable"))

\* A voice call whose answer is lost or unreadable may have begun: it is not tried again.
CallLost(r) ==
  /\ request[r].stage = "send"
  /\ Step(r, Done(r, "error"), Current(r), Released(r, Current(r)))

\* proxy_request_for_user
Proxy(r) ==
  /\ request[r].kind = "proxy"
  /\ \/ Unreachable(r) \/ Transient(r) \/ RateLimited(r) \/ LoginRejected(r)
     \/ Refused(r) \/ Served(r)

\* gemini_proxy_request_for_user
GeminiProxy(r) ==
  /\ request[r].kind = "gemini"
  /\ \/ Unreachable(r) \/ Transient(r) \/ RateLimited(r) \/ LoginRejected(r)
     \/ Refused(r) \/ Challenged(r) \/ Unreadable(r) \/ Served(r)

\* gemini_models_for_user
GeminiModels(r) ==
  /\ request[r].kind = "models"
  /\ \/ Unreachable(r) \/ Transient(r) \/ RateLimited(r) \/ LoginRejected(r)
     \/ Refused(r) \/ Unreadable(r) \/ Served(r)

\* create_session and start_session
VoiceSession(r) ==
  /\ request[r].kind = "voice"
  /\ \/ RateLimited(r) \/ LoginRejected(r) \/ Refused(r) \/ CallLost(r) \/ Served(r)

Finish(r) ==
  /\ request[r].stage = "done"
  /\ request' = [request EXCEPT ![r] = Idle]
  /\ UNCHANGED <<provider, account, overstayed>>

\* The client goes away, a statement fails, or the process ends: the handler is dropped
\* where it is.
Drop(r) ==
  /\ request[r].stage \in {"next", "lookup", "send"}
  /\ LET a == Current(r) IN
     IF request[r].stage = "next"
       THEN request' = [request EXCEPT ![r] = Idle] /\ UNCHANGED <<provider, account, overstayed>>
       ELSE Step(r, Idle, a, Deserted(r, a, "left"))

-----------------------------------------------------------------------------
\* Time, and what else changes an account

Overstay(a) == overstayed' = IF Probers(a) # {} THEN overstayed \cup {a} ELSE overstayed

CooldownEnds(a) ==
  /\ Status(a) = "limited"
  /\ account' = [account EXCEPT ![a].status = "due"]
  /\ Overstay(a)
  /\ UNCHANGED <<provider, request>>

ClaimAges(a) ==
  /\ Status(a) = "probed"
  /\ account' = [account EXCEPT ![a] = Row("stale")]
  /\ Overstay(a)
  /\ UNCHANGED <<provider, request>>

\* The owner's refresh or reconnect; a sweep, or another request's refresh, that is refused.
Elsewhere(a) ==
  /\ \E status \in {"active", "reauth"} \ {Status(a)} :
       account' = [account EXCEPT ![a] = Row(status)]
  /\ request' = [q \in Requests |-> [request[q] EXCEPT !.owed = @ \ {a}]]
  /\ UNCHANGED <<provider, overstayed>>

RoutingNext ==
  \/ \E r \in Requests :
       \/ Select(r) \/ Claim(r) \/ RunOut(r)
       \/ CredentialReady(r) \/ CredentialRefused(r) \/ CredentialMissing(r)
       \/ Proxy(r) \/ GeminiProxy(r) \/ GeminiModels(r) \/ VoiceSession(r)
       \/ Finish(r) \/ Drop(r)
  \/ \E a \in Accounts : CooldownEnds(a) \/ ClaimAges(a) \/ Elsewhere(a)

RoutingSpec == RoutingInit /\ [][RoutingNext]_routingVars

-----------------------------------------------------------------------------
\* Every handler and every row stays within its declared shape, and no list names an account
\* twice.
RoutingTypeOK ==
  /\ provider \in Providers
  /\ account \in [Accounts -> Account]
  /\ request \in [Requests -> Request]
  /\ \A r \in Requests : \A i, j \in DOMAIN request[r].rest :
       request[r].rest[i].id = request[r].rest[j].id => i = j
  /\ overstayed \in SUBSET Accounts

\* claim_candidate: two requests never probe one account at the same time, whether claims are
\* released, refused, overtaken by an older success or left behind, unless, since nobody last
\* probed it, a probe of it has outlived its five minutes.
OneProbe ==
  \A a \in Accounts \ overstayed : Cardinality(Probers(a)) <= 1

\* release_probe: an account that a recent claim keeps from other requests is being probed
\* by the request that claimed it; no way through the loops forgets the release, but for a
\* dropped handler and for Gemini answers that cannot be read.
NoProbeLeftBehind ==
  \A a \in Accounts : Status(a) = "probed" =>
    \/ account[a].by \in {"left", "unreadable"}
    \/ account[a].by \in Requests /\ Probing(account[a].by, a)

\* MAX_UPSTREAM_ATTEMPTS: "A larger pool gets one send per account so failover can reach every
\* account before the request fails."  However many sends an account takes, one is left for
\* each account after it.
RoomForTheRest ==
  \A r \in Requests :
    LET later == IF request[r].stage = "send" THEN Len(request[r].rest) - 1 ELSE Len(request[r].rest)
    IN request[r].used + later <= Budget(r)

\* attempt_budget, should_retry_same_candidate: a request is not turned away while an
\* account that was free when it was listed, and that nobody has touched since, was never
\* tried; the retries of earlier accounts leave a send for each later one.
FreeAccountIsTried ==
  \A r \in Requests :
    /\ request[r].stage = "done" /\ request[r].answer \in TurnedAway
    => request[r].owed = {}

\* A request that had listed account a before its cooldown began: it saw it in another
\* state, or it took it for a probe then.
ListedEarlier(r, a) ==
  /\ request[r].stage = "send"
  /\ Current(r) = a
  /\ request[r].rest[1].status = "rate_limited" => request[r].probe

\* claim_candidate, mark_active: a cooldown ends before its time only through the owner or
\* through an answer to a request that had listed its accounts before the limit was set.
CooldownHolds ==
  [][\A a \in Accounts :
       Status(a) = "limited" /\ account'[a].status \notin {"limited", "due", "reauth"} =>
         \/ \A r \in Requests : request'[r].stage = request[r].stage
         \/ \E r \in Requests : request'[r].stage = "done" /\ ListedEarlier(r, a)]_routingVars

\* claim_candidate, release_probe: an account that is probed is probed by one request, which
\* releases it on every way through the loops.
ProbesAreHeld == OneProbe /\ NoProbeLeftBehind

\* attempt_budget: the sends of a request are shared out so that failover reaches every
\* account it may use before the request fails.
FailoverReachesAll == RoomForTheRest /\ FreeAccountIsTried
=============================================================================

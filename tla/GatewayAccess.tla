---------------------------- MODULE GatewayAccess ----------------------------
(***************************************************************************)
(* Getting into the gateway: keys that are made, presented and revoked     *)
(* (api/gateway/keys, api/service/keys), and the token buckets that limit  *)
(* how often (core/rate_limit, api/limits).                                *)
(*                                                                         *)
(* A bucket is refilled when it is next touched, and dropped when a sweep  *)
(* finds it full; it is counted here in the units that one tick refills.   *)
(* A gateway request passes the limiter, the handler, which reads the key, *)
(* and the limiter again with the handler's answer; one that is dropped    *)
(* while it is handled does not come back.  The limiter knows the answer   *)
(* only as "the key was refused" or not: it was not when the key worked,   *)
(* and not when the handler failed or answered before it had judged it.    *)
(***************************************************************************)
EXTENDS Naturals, FiniteSets

CONSTANTS
  Customers,   \* hub users
  GatewayKeys, \* keys that can be made
  Guesses,     \* strings shaped like a key that are none
  Clients,     \* client addresses, as ClientIpSource::key groups them
  Calls,       \* requests under way at the same time
  Cost,        \* units a token is worth
  Burst,       \* tokens of a full bucket
  PruneEvery,  \* takes between two sweeps of a bucket set
  MaxActive,   \* MAX_ACTIVE_KEYS
  MaxClock     \* bound: ticks

ASSUME AccessAssumption ==
  /\ {Cost, Burst, PruneEvery, MaxActive} \subseteq Nat \ {0}
  /\ MaxClock \in Nat /\ IsFiniteSet(Calls)
  /\ GatewayKeys \cap Guesses = {}

VARIABLES
  gatewayKey,  \* gateway_keys, of one kind: "unmade", or active or revoked with the user who owns it
  buckets,     \* the bucket sets
  operations,  \* takes from each set, counted up to PruneEvery
  clock,
  call,        \* what each request is doing
  spent,       \* history: what an unbounded table of buckets refilled every tick would hold, full minus this
  unrefused    \* history: keys, or guesses, that came with a request whose answer was no refusal of them

accessVars == <<gatewayKey, buckets, operations, clock, call, spent, unrefused>>

Full == Burst * Cost
Presented == GatewayKeys \cup Guesses

\* keys and failures are GatewayLimit's, users is the UserLimit of the routes that manage keys.
BucketSets == {"keys", "failures", "users"}
Subjects(s) ==
  CASE s = "keys" -> Presented [] s = "failures" -> Clients [] s = "users" -> Customers

KeyRow == [state : {"unmade", "active", "revoked"}, user : Customers \cup {"nobody"}]
Bucket == [tokens : 0..Full, updated : 0..MaxClock]
NoBucket == [tokens |-> 0, updated |-> MaxClock + 1]

\* op use: presents `key` from `client`; counted: its token was taken on the way in; unrefused: its answer does
\* not say that the key failed.
\* op make: `user` held fewer than MaxActive keys when they were counted.
Call ==
  [op : {"none", "use", "make"}, stage : {"inside", "refused", "unrefused"},
   key : Presented \cup {"nothing"}, client : Clients \cup {"nowhere"},
   user : Customers \cup {"nobody"}, counted : BOOLEAN]
NoCall ==
  [op |-> "none", stage |-> "inside", key |-> "nothing", client |-> "nowhere",
   user |-> "nobody", counted |-> FALSE]

AccessInit ==
  /\ gatewayKey = [k \in GatewayKeys |-> [state |-> "unmade", user |-> "nobody"]]
  /\ buckets = [s \in BucketSets |-> [i \in Subjects(s) |-> NoBucket]]
  /\ operations = [s \in BucketSets |-> 0]
  /\ clock = 0
  /\ call = [c \in Calls |-> NoCall]
  /\ spent = [s \in BucketSets |-> [i \in Subjects(s) |-> 0]]
  /\ unrefused = {}

-----------------------------------------------------------------------------
\* Token buckets

AtMost(a, b) == IF a < b THEN a ELSE b

Refilled(b) == AtMost(b.tokens + (clock - b.updated), Full)

Kept_notSpent(b) == Refilled(b) < Cost
\* The sweep keeps the buckets that are not full yet.
Kept(b) == Refilled(b) < Full

\* take counts every call, and sweeps the set when the count comes round.
Swept(s) ==
  LET n == (operations[s] + 1) % PruneEvery IN
  [i \in Subjects(s) |->
     IF n = 0 /\ buckets[s][i] # NoBucket /\ ~Kept(buckets[s][i])
       THEN NoBucket ELSE buckets[s][i]]

\* take finds or, if it may, creates the bucket of i.
Opened(s, i, create) ==
  LET b == Swept(s)[i] IN
  IF b = NoBucket /\ create THEN [tokens |-> Full, updated |-> clock] ELSE b

TakenFrom_forgetsRefill(b) ==
  [tokens |-> IF Refilled(b) < Cost THEN b.tokens ELSE Refilled(b) - Cost, updated |-> clock]
\* What a take leaves in the bucket, whether it was given a token or refused.
TakenFrom(b) ==
  [tokens |-> IF Refilled(b) < Cost THEN Refilled(b) ELSE Refilled(b) - Cost, updated |-> clock]

HasToken(b) == b = NoBucket \/ Refilled(b) >= Cost

\* The takes of one step: asked[s] is the subject that spends from set s, and whether it may create its bucket.
Takes(asked) ==
  LET found(s) == Opened(s, asked[s].of, asked[s].create) IN
  /\ buckets' = [s \in BucketSets |->
       IF s \notin DOMAIN asked THEN buckets[s]
       ELSE [Swept(s) EXCEPT ![asked[s].of] = IF found(s) = NoBucket THEN NoBucket ELSE TakenFrom(found(s))]]
  /\ operations' = [s \in BucketSets |->
       IF s \in DOMAIN asked THEN (operations[s] + 1) % PruneEvery ELSE operations[s]]
  /\ spent' = [s \in BucketSets |->
       IF s \in DOMAIN asked /\ found(s) # NoBucket /\ Full - spent[s][asked[s].of] >= Cost
         THEN [spent[s] EXCEPT ![asked[s].of] = @ + Cost] ELSE spent[s]]

One(s, i, create) == [x \in {s} |-> [of |-> i, create |-> create]]
NoTakes == UNCHANGED <<buckets, operations, spent>>

\* Time passes.
Tick ==
  /\ clock < MaxClock
  /\ clock' = clock + 1
  /\ spent' = [s \in BucketSets |-> [i \in Subjects(s) |-> IF spent[s][i] = 0 THEN 0 ELSE spent[s][i] - 1]]
  /\ UNCHANGED <<gatewayKey, buckets, operations, call, unrefused>>

-----------------------------------------------------------------------------
\* limit_gateway

CreatesOnArrival_always == TRUE
\* acquire_existing: a key that has never worked gets no bucket.
CreatesOnArrival == FALSE

\* A request comes, with a key that was made or a guess: refused while its address has failed too often, or
\* its key has no token left.
Arrives(c, client, k) ==
  LET b == Opened("keys", k, CreatesOnArrival) IN
  /\ call[c].op = "none"
  /\ k \in GatewayKeys => gatewayKey[k].state # "unmade"
  /\ HasToken(buckets["failures"][client])
  /\ Takes(One("keys", k, CreatesOnArrival))
  /\ call' = IF HasToken(b)
       THEN [call EXCEPT ![c] = [NoCall EXCEPT !.op = "use", !.key = k, !.client = client,
                                               !.counted = (b # NoBucket)]]
       ELSE call
  /\ UNCHANGED <<gatewayKey, clock, unrefused>>

\* One without a key spends nothing on its way in.
ArrivesWithoutKey(c, client) ==
  /\ call[c].op = "none"
  /\ HasToken(buckets["failures"][client])
  /\ call' = [call EXCEPT ![c] = [NoCall EXCEPT !.op = "use", !.client = client]]
  /\ NoTakes /\ UNCHANGED <<gatewayKey, clock, unrefused>>

\* authorize_gateway_key
Authorizes(c) ==
  LET k == call[c].key
      valid == k \in GatewayKeys /\ gatewayKey[k].state = "active" IN
  /\ call[c].op = "use" /\ call[c].stage = "inside"
  /\ call' = [call EXCEPT ![c].stage = IF valid THEN "unrefused" ELSE "refused"]
  /\ unrefused' = IF valid THEN unrefused \cup {k} ELSE unrefused
  /\ NoTakes /\ UNCHANGED <<gatewayKey, clock>>

\* The handler answers before it authorizes (gemini_request, for a path it cannot read), or the database fails
\* while it does: an error, but no refusal of the key.
AnswersUnjudged(c) ==
  /\ call[c].op = "use" /\ call[c].stage = "inside"
  /\ call' = [call EXCEPT ![c].stage = "unrefused"]
  /\ unrefused' = unrefused \cup ({call[c].key} \ {"nothing"})
  /\ NoTakes /\ UNCHANGED <<gatewayKey, clock>>

\* The first request of a key, as the limiter takes it: the key has no bucket yet.
FirstUse(c) == call[c].key # "nothing" /\ ~call[c].counted

\* The handler has answered: a key it refused is counted for its address, the first use of another for the key.
Answers(c) ==
  /\ call[c].op = "use" /\ call[c].stage # "inside"
  /\ IF call[c].stage = "refused" THEN Takes(One("failures", call[c].client, TRUE))
     ELSE IF FirstUse(c) THEN Takes(One("keys", call[c].key, TRUE))
     ELSE NoTakes
  /\ call' = [call EXCEPT ![c] = NoCall]
  /\ UNCHANGED <<gatewayKey, clock, unrefused>>

\* The client leaves, or a key's insert fails, and the request is dropped where it is.
Dropped(c) ==
  /\ call[c].op # "none"
  /\ call' = [call EXCEPT ![c] = NoCall]
  /\ NoTakes /\ UNCHANGED <<gatewayKey, clock, unrefused>>

-----------------------------------------------------------------------------
\* Making and revoking keys

ActiveOf(u) == {k \in GatewayKeys : gatewayKey[k].state = "active" /\ gatewayKey[k].user = u}

MayHoldAnother_atTheMost(u) == Cardinality(ActiveOf(u)) <= MaxActive
MayHoldAnother(u) == Cardinality(ActiveOf(u)) < MaxActive

\* create_service_key behind limit_by_user: the keys are counted before the insert.
CountsKeys(c, u) ==
  /\ call[c].op = "none"
  /\ Takes(One("users", u, TRUE))
  /\ call' = IF HasToken(Opened("users", u, TRUE)) /\ MayHoldAnother(u)
       THEN [call EXCEPT ![c] = [NoCall EXCEPT !.op = "make", !.user = u]] ELSE call
  /\ UNCHANGED <<gatewayKey, clock, unrefused>>

\* create_key_of_kind
InsertsKey(c, k) ==
  /\ call[c].op = "make"
  /\ gatewayKey[k].state = "unmade"
  /\ gatewayKey' = [gatewayKey EXCEPT ![k] = [state |-> "active", user |-> call[c].user]]
  /\ call' = [call EXCEPT ![c] = NoCall]
  /\ NoTakes /\ UNCHANGED <<clock, unrefused>>

\* revoke_key_of_kind behind the same limiter, for a key of the user's own.
RevokesKey(u, k) ==
  /\ Takes(One("users", u, TRUE))
  /\ gatewayKey' = IF HasToken(Opened("users", u, TRUE)) /\ k \in ActiveOf(u)
       THEN [gatewayKey EXCEPT ![k].state = "revoked"] ELSE gatewayKey
  /\ UNCHANGED <<clock, call, unrefused>>

AccessNext ==
  \/ Tick
  \/ \E c \in Calls :
       \/ \E client \in Clients :
            \/ \E k \in Presented : Arrives(c, client, k)
            \/ ArrivesWithoutKey(c, client)
       \/ Authorizes(c)
       \/ AnswersUnjudged(c)
       \/ Answers(c)
       \/ Dropped(c)
       \/ \E u \in Customers : CountsKeys(c, u)
       \/ \E k \in GatewayKeys : InsertsKey(c, k)
  \/ \E u \in Customers, k \in GatewayKeys : RevokesKey(u, k)

AccessSpec == AccessInit /\ [][AccessNext]_accessVars

-----------------------------------------------------------------------------
\* Properties

\* Rows have their shape, and no bucket holds more than a full one or was touched later than now.
AccessTypeOK ==
  /\ gatewayKey \in [GatewayKeys -> KeyRow]
  /\ \A s \in BucketSets : buckets[s] \in [Subjects(s) -> Bucket \cup {NoBucket}]
  /\ operations \in [BucketSets -> 0..PruneEvery - 1]
  /\ clock \in 0..MaxClock
  /\ call \in [Calls -> Call]
  /\ \A s \in BucketSets : spent[s] \in [Subjects(s) -> 0..Full]
  /\ unrefused \subseteq Presented

\* "A bucket that has refilled to capacity is indistinguishable from a fresh one": refilling on touch and
\* sweeping away give everybody, at every moment, what a table that forgets nothing and refills every tick would.
NobodyIsForgotten ==
  \A s \in BucketSets : \A i \in Subjects(s) :
    (IF buckets[s][i] = NoBucket THEN Full ELSE Refilled(buckets[s][i])) = Full - spent[s][i]

\* A string that was only ever refused never gets a bucket of its own, however many of them are presented and
\* in whatever order they are answered: they spend from the budget of the address they come from.
RefusedKeysGetNoBucket == \A k \in Presented : buckets["keys"][k] # NoBucket => k \in unrefused

\* What the limiter keeps of its two promises.
LimitsHold == NobodyIsForgotten /\ RefusedKeysGetNoBucket

\* "A bucket exists only for keys that have worked, so random strings cannot grow the map": the rule as it is
\* stated, of which this is the second half.
RandomStringsAreNotCounted == \A g \in Guesses : buckets["keys"][g] = NoBucket

\* The count and the insert are apart, so requests made together can pass MAX_ACTIVE_KEYS (service/keys.rs),
\* by no more than the other requests that were on their way.
KeysAreCapped ==
  \A u \in Customers : Cardinality(ActiveOf(u)) < MaxActive + Cardinality(Calls)
=============================================================================

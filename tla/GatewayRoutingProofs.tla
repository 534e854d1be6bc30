------------------------ MODULE GatewayRoutingProofs -------------------------
(***************************************************************************)
(* Proofs about how a gateway request finds an account, for any accounts,  *)
(* requests, scopes and budget: probes are held by one request and         *)
(* released, failover reaches every account, and cooldowns last.           *)
(*                                                                         *)
(* RoutingInv relates a request's list to the rows it was read from.  An   *)
(* account that is still owed to a request stands in its list with the     *)
(* status its row has now, so the claim that is tried finds it; the sends  *)
(* that are left are at least the candidates to come; and while an account *)
(* is probed its row is in no state that lets another request claim it.    *)
(***************************************************************************)
EXTENDS GatewayRouting, SequenceTheorems, FiniteSetTheorems, TLAPS

BudgetOf(n) == IF n > MaxUpstreamAttempts THEN n ELSE MaxUpstreamAttempts

\* A request that goes through account a, or as a probe of it.
Using(q, a) == q.stage \in {"lookup", "send"} /\ q.rest[1].id = a
ProbesWith(q, a) == Using(q, a) /\ q.probe = TRUE

\* The candidates of a request, one of which it has at hand while it uses an account; the
\* sends it has left are at least as many as the candidates that are to come.
RestFits(q) ==
  /\ \A i, j \in DOMAIN q.rest : q.rest[i].id = q.rest[j].id => i = j
  /\ q.stage \in {"lookup", "send"} => q.rest # <<>> /\ (q.probe = FALSE => q.rest[1].status = "active")
  /\ q.stage \in {"idle", "done"} => q.rest = <<>>
  /\ q.used + (IF q.stage = "send" THEN Len(q.rest) - 1 ELSE Len(q.rest)) <= BudgetOf(q.count)

\* An account that is owed to a request is as it was listed, and to come.
OwedOne(q, a) ==
  /\ Free(a)
  /\ \E i \in DOMAIN q.rest :
       q.rest[i].id = a /\ q.rest[i].status = Seen(a) /\ (q.stage = "send" => i # 1)

\* An account whose probe has not overstayed is probed once, and its claim cannot be made again.
ProbesFit ==
  \A a \in Accounts \ overstayed, r \in Requests :
    ProbesWith(request[r], a) =>
      /\ Status(a) \in {"active", "limited", "probed", "reauth"}
      /\ \A q \in Requests : ProbesWith(request[q], a) => q = r

\* A recent claim that was not left behind is its request's.
ClaimsFit ==
  \A a \in Accounts : Status(a) = "probed" =>
    \/ account[a].by \in {"left", "unreadable"}
    \/ account[a].by \in Requests /\ ProbesWith(request[account[a].by], a)

RoutingInv ==
  /\ provider \in Providers
  /\ account \in [Accounts -> Account]
  /\ request \in [Requests -> Request]
  /\ overstayed \in SUBSET Accounts
  /\ \A r \in Requests : RestFits(request[r])
  /\ \A r \in Requests : \A a \in request[r].owed : OwedOne(request[r], a)
  /\ ProbesFit
  /\ ClaimsFit
-----------------------------------------------------------------------------
\* The fields of a request and of its candidates.
LEMMA RoutingTypes ==
  ASSUME RoutingInv
  PROVE  /\ \A a \in Accounts : account[a] \in Account /\ Status(a) \in Statuses
         /\ \A r \in Requests :
              /\ request[r] \in Request /\ request[r].rest \in Seq(Candidate)
              /\ request[r].used \in Nat /\ request[r].count \in Nat /\ request[r].tries \in Nat
              /\ request[r].probe \in BOOLEAN
              /\ request[r].owed \subseteq Accounts
              /\ RestFits(request[r])
              /\ \A a \in request[r].owed : OwedOne(request[r], a)
         /\ MaxUpstreamAttempts \in Nat
         /\ Requests \cap {"nobody", "left", "unreadable"} = {}
  BY RoutingAssumption DEF RoutingInv, Status, Account, Request

\* A request that has candidates has one at hand.
LEMMA CurrentIs ==
  ASSUME RoutingInv, NEW r \in Requests, request[r].rest # <<>>
  PROVE  /\ Len(request[r].rest) \in Nat /\ Len(request[r].rest) > 0 /\ 1 \in DOMAIN request[r].rest
         /\ request[r].rest[1] \in Candidate /\ Current(r) \in Accounts /\ Current(r) = request[r].rest[1].id
<1>1. request[r].rest \in Seq(Candidate)
  BY RoutingTypes
<1>2. Len(request[r].rest) \in Nat /\ Len(request[r].rest) > 0 /\ DOMAIN request[r].rest = 1..Len(request[r].rest)
  BY <1>1
<1>3. 1 \in DOMAIN request[r].rest
  BY <1>2
<1>4. request[r].rest[1] \in Candidate
  BY <1>1, <1>2
<1> QED
  BY <1>2, <1>3, <1>4 DEF Current, Candidate

\* What the model counts are the probes the invariant speaks of.
LEMMA ProbingIs ==
  ASSUME RoutingInv, NEW r \in Requests, NEW a
  PROVE  Probing(r, a) <=> ProbesWith(request[r], a)
<1>1. request[r].probe \in BOOLEAN
  BY RoutingTypes
<1> QED
  BY <1>1 DEF Probing, ProbesWith, Using, Current

\* A request moves on that neither held a probe nor takes one; no row changes.
LEMMA RequestMoves ==
  ASSUME RoutingInv, NEW r \in Requests, NEW q \in Request,
         request' = [request EXCEPT ![r] = q], UNCHANGED <<provider, account, overstayed>>,
         \A a : ~ProbesWith(request[r], a), \A a : ~ProbesWith(q, a),
         RestFits(q), \A a \in q.owed : OwedOne(q, a)
  PROVE  RoutingInv'
<1>1. \A p \in Requests : request'[p] = IF p = r THEN q ELSE request[p]
  BY DEF RoutingInv
<1>2. request' \in [Requests -> Request]
  BY DEF RoutingInv
<1>3. \A p \in Requests : RestFits(request'[p])
  BY <1>1 DEF RoutingInv
<1>4. \A p \in Requests : RestFits(request[p])'
  BY <1>3 DEF RestFits, BudgetOf
<1>5. \A p \in Requests : \A a \in request'[p].owed : OwedOne(request'[p], a)
  BY <1>1 DEF RoutingInv
<1>6. \A p \in Requests : \A a \in request'[p].owed : OwedOne(request[p], a)'
  BY <1>5 DEF OwedOne, Free, Seen, Status
<1>7. \A p \in Requests, a \in Accounts : ProbesWith(request'[p], a) => p # r /\ ProbesWith(request[p], a)
  BY <1>1
<1>8. ProbesFit'
  <2> SUFFICES ASSUME NEW a \in Accounts \ overstayed, NEW p \in Requests, ProbesWith(request'[p], a)
               PROVE  /\ Status(a) \in {"active", "limited", "probed", "reauth"}
                      /\ \A o \in Requests : ProbesWith(request'[o], a) => o = p
    BY DEF ProbesFit, ProbesWith, Using, Status
  <2> QED
    BY <1>7 DEF RoutingInv, ProbesFit
<1>9. ClaimsFit'
  <2> SUFFICES ASSUME NEW a \in Accounts, Status(a) = "probed", account[a].by \notin {"left", "unreadable"}
               PROVE  account[a].by \in Requests /\ ProbesWith(request'[account[a].by], a)
    BY DEF ClaimsFit, ProbesWith, Using, Status
  <2>1. account[a].by \in Requests /\ ProbesWith(request[account[a].by], a)
    BY DEF RoutingInv, ClaimsFit
  <2>2. account[a].by # r
    BY <2>1
  <2> QED
    BY <1>1, <2>1, <2>2
<1> QED
  BY <1>2, <1>4, <1>6, <1>8, <1>9 DEF RoutingInv

\* What a step of r does to the handlers: what is owed of the account shrinks if its row changed.
LEMMA StepFields ==
  ASSUME RoutingInv, NEW r \in Requests, NEW record \in Request, NEW a \in Accounts, NEW row \in Account,
         Step(r, record, a, row), NEW p \in Requests, NEW q, q = IF p = r THEN record ELSE request[p]
  PROVE  /\ request'[p] \in Request
         /\ request'[p].stage = q.stage /\ request'[p].rest = q.rest /\ request'[p].probe = q.probe
         /\ request'[p].used = q.used /\ request'[p].count = q.count
         /\ request'[p].owed = IF row = account[a] THEN q.owed ELSE q.owed \ {a}
<1>1. q \in Request
  BY DEF RoutingInv
<1>2. request'[p] = IF row = account[a] THEN q ELSE [q EXCEPT !.owed = @ \ {a}]
  BY DEF Step
<1> QED
  BY <1>1, <1>2 DEF Request

\* Requests alike in what the invariant says of one.
LEMMA RequestsAlike ==
  ASSUME NEW p, NEW q, p.stage = q.stage, p.rest = q.rest, p.probe = q.probe, p.used = q.used, p.count = q.count
  PROVE  /\ RestFits(p) <=> RestFits(q)
         /\ \A a : OwedOne(p, a) <=> OwedOne(q, a)
  BY DEF RestFits, OwedOne

\* Request r, which is about to use account a or uses it, goes on as record, and a's row becomes row: it keeps
\* its row, with a probe of r only as long as r holds it; its probes are over or new; or r leaves one behind.
LEMMA StepKeeps ==
  ASSUME RoutingInv, NEW r \in Requests, NEW record \in Request, NEW a \in Accounts, NEW row \in Account,
         Step(r, record, a, row),
         request[r].stage = "next" \/ Using(request[r], a),
         RestFits(record),
         \A b \in record.owed : (b = a /\ row # account[a]) \/ OwedOne(record, b),
         \A b : ProbesWith(record, b) =>
           b = a /\ (ProbesWith(request[r], a) \/ (row.status = "probed" /\ Status(a) \in {"due", "half_open", "stale"})),
         \/ /\ row = account[a]
            /\ Status(a) = "probed" /\ account[a].by = r /\ ProbesWith(request[r], a) => ProbesWith(record, a)
         \/ row.status \in {"active", "limited", "reauth"}
         \/ /\ row.status = "probed" /\ row.by = r /\ Status(a) \in {"due", "half_open", "stale"}
            /\ ProbesWith(record, a)
         \/ row.status = "half_open" /\ ProbesWith(request[r], a) /\ ~ProbesWith(record, a)
         \/ row.status = Status(a) /\ row.by \in {"left", "unreadable"}
  PROVE  RoutingInv'
<1> DEFINE q(p) == IF p = r THEN record ELSE request[p]
<1>1. \A p \in Requests :
         /\ request'[p] \in Request
         /\ request'[p].stage = q(p).stage /\ request'[p].rest = q(p).rest /\ request'[p].probe = q(p).probe
         /\ request'[p].used = q(p).used /\ request'[p].count = q(p).count
         /\ request'[p].owed = IF row = account[a] THEN q(p).owed ELSE q(p).owed \ {a}
  <2> TAKE p \in Requests
  <2>1. PICK x : x = q(p)
    OBVIOUS
  <2>2. x = IF p = r THEN record ELSE request[p]
    BY <2>1
  <2> HIDE DEF q
  <2>3. /\ request'[p] \in Request
        /\ request'[p].stage = x.stage /\ request'[p].rest = x.rest /\ request'[p].probe = x.probe
        /\ request'[p].used = x.used /\ request'[p].count = x.count
        /\ request'[p].owed = IF row = account[a] THEN x.owed ELSE x.owed \ {a}
    BY <2>2, StepFields
  <2> QED
    BY <2>1, <2>3
<1>2. q(r) = record /\ \A p \in Requests \ {r} : q(p) = request[p]
  OBVIOUS
<1> HIDE DEF q
<1>3. /\ account' = [account EXCEPT ![a] = row] /\ overstayed' = {b \in overstayed : Probers(b)' # {}}
      /\ provider' = provider
  BY DEF Step
<1>4. account'[a] = row /\ \A b \in Accounts \ {a} : account'[b] = account[b]
  BY <1>3 DEF RoutingInv
<1>5. /\ request' \in [Requests -> Request] /\ account' \in [Accounts -> Account]
      /\ overstayed' \in SUBSET Accounts /\ provider' \in Providers
  <2>1. request' = [p \in Requests |-> request'[p]]
    BY DEF Step
  <2> QED
    BY <1>1, <1>3, <2>1 DEF RoutingInv
<1>6. ASSUME NEW p \in Requests
      PROVE  RestFits(request[p])'
  <2>1. RestFits(q(p))
    BY <1>2 DEF RoutingInv
  <2>2. RestFits(request'[p])
    BY <1>1, <2>1, RequestsAlike
  <2> QED
    BY <2>2 DEF RestFits, BudgetOf
<1>7. ASSUME NEW p \in Requests, NEW b \in request'[p].owed
      PROVE  OwedOne(request[p], b)'
  <2>1. b \in q(p).owed /\ ~(b = a /\ row # account[a])
    BY <1>1, <1>7
  <2>2. OwedOne(q(p), b)
    BY <1>2, <2>1 DEF RoutingInv
  <2>3. b \in Accounts
    BY <1>2, <2>1, RoutingTypes DEF Request
  <2>4. account'[b] = account[b]
    BY <1>4, <2>1, <2>3
  <2>5. OwedOne(request'[p], b)
    BY <1>1, <2>2, RequestsAlike
  <2> QED
    BY <2>4, <2>5 DEF OwedOne, Free, Seen, Status
<1>8. \A p \in Requests : \A b : ProbesWith(request'[p], b) <=> ProbesWith(q(p), b)
  BY <1>1 DEF ProbesWith, Using
<1>9. ProbesFit'
  <2> SUFFICES ASSUME NEW b \in Accounts \ overstayed', NEW p \in Requests, ProbesWith(request'[p], b)
               PROVE  /\ account'[b].status \in {"active", "limited", "probed", "reauth"}
                      /\ \A o \in Requests : ProbesWith(request'[o], b) => o = p
    BY DEF ProbesFit, ProbesWith, Using, Status
  <2>1. b \notin overstayed
    <3>1. Probing(p, b)'
      <4>1. request'[p].probe \in BOOLEAN
        BY <1>1 DEF Request
      <4> QED
        BY <4>1 DEF Probing, ProbesWith, Using, Current
    <3>2. Probers(b)' # {}
      BY <3>1 DEF Probers
    <3> QED
      BY <1>3, <3>2
  <2>2. \A o \in Requests : ProbesWith(request[o], b) =>
          /\ Status(b) \in {"active", "limited", "probed", "reauth"}
          /\ \A o2 \in Requests : ProbesWith(request[o2], b) => o2 = o
    BY <2>1 DEF RoutingInv, ProbesFit
  <2>3. CASE b # a
    <3>1. \A o \in Requests : ProbesWith(request'[o], b) => ProbesWith(request[o], b)
      BY <1>2, <1>8, <2>3
    <3>2. account'[b] = account[b]
      BY <1>4, <2>3
    <3> QED
      BY <2>2, <3>1, <3>2 DEF Status
  <2>4. CASE b = a /\ row.status = "probed" /\ Status(a) \in {"due", "half_open", "stale"}
    <3>1. \A o \in Requests : ~ProbesWith(request[o], a)
      BY <2>2, <2>4
    <3>2. \A o \in Requests : ProbesWith(request'[o], a) => o = r
      BY <1>2, <1>8, <3>1
    <3> QED
      BY <1>4, <2>4, <3>2
  <2>5. CASE b = a /\ ~(row.status = "probed" /\ Status(a) \in {"due", "half_open", "stale"})
    <3>1. \A o \in Requests : ProbesWith(request'[o], a) => ProbesWith(request[o], a)
      BY <1>2, <1>8, <2>5
    <3>2. row.status = Status(a) \/ row.status \in {"active", "limited", "reauth"}
      <4>1. CASE row.status = "half_open" /\ ProbesWith(request[r], a) /\ ~ProbesWith(record, a)
        BY <1>2, <1>8, <2>2, <2>5, <3>1, <4>1
      <4> QED
        BY <2>5, <4>1 DEF Status
    <3> QED
      BY <1>4, <2>2, <2>5, <3>1, <3>2
  <2> QED
    BY <2>3, <2>4, <2>5
<1>10. ClaimsFit'
  <2> SUFFICES ASSUME NEW b \in Accounts, account'[b].status = "probed", account'[b].by \notin {"left", "unreadable"}
               PROVE  account'[b].by \in Requests /\ ProbesWith(request'[account'[b].by], b)
    BY DEF ClaimsFit, ProbesWith, Using, Status
  <2>1. CASE b # a
    <3>1. account'[b] = account[b]
      BY <1>4, <2>1
    <3>2. account[b].by \in Requests /\ ProbesWith(request[account[b].by], b)
      BY <3>1 DEF RoutingInv, ClaimsFit, Status
    <3>3. account[b].by # r
      BY <2>1, <3>2 DEF ProbesWith, Using
    <3> QED
      BY <1>2, <1>8, <3>1, <3>2, <3>3
  <2>2. CASE b = a /\ row = account[a]
    <3>0. account'[b] = account[a]
      BY <1>4, <2>2
    <3>1. account[a].by \in Requests /\ ProbesWith(request[account[a].by], a) /\ Status(a) = "probed"
      BY <3>0 DEF RoutingInv, ClaimsFit, Status
    <3>2. account[a].by = r => ProbesWith(record, a)
      BY <2>2, <3>0, <3>1 DEF Status
    <3> QED
      BY <1>2, <1>4, <1>8, <2>2, <3>1, <3>2
  <2>3. CASE b = a /\ row # account[a]
    BY <1>2, <1>4, <1>8, <2>3 DEF Status
  <2> QED
    BY <2>1, <2>2, <2>3
<1> QED
  BY <1>5, <1>6, <1>7, <1>9, <1>10 DEF RoutingInv

\* A request that has ended is at rest.
AtRest(q) ==
  /\ q \in Request /\ q.stage \in {"idle", "done"} /\ q.rest = <<>> /\ q.used = 0 /\ q.count = 0 /\ q.owed = {}

LEMMA AtRestFits ==
  ASSUME NEW q, AtRest(q)
  PROVE  RestFits(q) /\ (\A a : ~ProbesWith(q, a)) /\ (\A a \in q.owed : OwedOne(q, a))
<1>1. BudgetOf(0) \in Nat
  BY RoutingAssumption DEF BudgetOf
<1>2. DOMAIN q.rest = {} /\ Len(q.rest) = 0
  BY DEF AtRest
<1> QED
  BY <1>1, <1>2 DEF AtRest, RestFits, ProbesWith, Using

LEMMA IdleIs == AtRest(Idle) /\ Idle.stage = "idle" /\ Idle.kind = "none"
  BY DEF Idle, AtRest, Request

\* A request that is answered, and has not been turned away from an account it is owed.
LEMMA DoneIs ==
  ASSUME NEW r \in Requests, NEW answer \in {"served", "upstream", "limited", "reauth", "pool", "error"},
         answer \notin TurnedAway \/ request[r].owed = {}
  PROVE  AtRest(Done(r, answer)) /\ Done(r, answer).stage = "done"
<1> DEFINE owed == IF answer \in TurnedAway THEN request[r].owed ELSE {}
<1>1. owed = {}
  OBVIOUS
<1>2. Done(r, answer) = [Idle EXCEPT !.stage = "done", !.answer = answer, !.owed = {}]
  BY <1>1 DEF Done
<1>3. Idle \in Request /\ Idle.rest = <<>> /\ Idle.used = 0 /\ Idle.count = 0
  BY IdleIs DEF AtRest
<1> QED
  BY <1>2, <1>3 DEF AtRest, Request

LEMMA ConcludedIs ==
  ASSUME NEW r \in Requests, request[r].owed = {}
  PROVE  AtRest(Concluded(r)) /\ Concluded(r).stage = "done"
<1> DEFINE saw == request[r].saw
           answer == CASE "limit" \in saw -> "limited"
                       [] saw \cap {"limit", "reauth"} = {"reauth"} -> "reauth"
                       [] saw = {"pool"} -> "pool"
                       [] OTHER -> "error"
<1>1. Concluded(r) = Done(r, answer)
  BY DEF Concluded
<1>2. answer \in {"served", "upstream", "limited", "reauth", "pool", "error"}
  OBVIOUS
<1> HIDE DEF answer
<1> QED
  BY <1>1, <1>2, DoneIs

\* attempt_budget: a request whose sends are spent has no candidate left, and nothing is owed to it.
LEMMA NothingIsOwed ==
  ASSUME RoutingInv, NEW r \in Requests,
         \/ request[r].stage = "next" /\ (request[r].rest = <<>> \/ ~MayTry(r))
         \/ request[r].stage = "send" /\ request[r].used >= Budget(r)
  PROVE  request[r].owed = {}
<1>1. /\ RestFits(request[r]) /\ request[r].rest \in Seq(Candidate) /\ request[r].used \in Nat
      /\ request[r].count \in Nat /\ MaxUpstreamAttempts \in Nat
      /\ \A a \in request[r].owed : OwedOne(request[r], a)
  BY RoutingTypes
<1>2. Budget(r) = BudgetOf(request[r].count) /\ Budget(r) \in Nat
  BY <1>1 DEF Budget, BudgetOf
<1>3. Len(request[r].rest) \in Nat /\ DOMAIN request[r].rest = 1..Len(request[r].rest)
      /\ (request[r].rest = <<>> => Len(request[r].rest) = 0)
  BY <1>1
<1>4. CASE request[r].stage = "next"
  <2>1. Len(request[r].rest) = 0
    <3>1. request[r].used + Len(request[r].rest) <= Budget(r)
      BY <1>1, <1>2, <1>4 DEF RestFits
    <3> QED
      BY <1>1, <1>2, <1>3, <1>4, <3>1 DEF MayTry
  <2>2. DOMAIN request[r].rest = {}
    BY <1>3, <2>1
  <2> QED
    BY <1>1, <2>2 DEF OwedOne
<1>5. CASE request[r].stage = "send"
  <2>1. Len(request[r].rest) <= 1
    <3>1. request[r].used + (Len(request[r].rest) - 1) <= Budget(r)
      BY <1>1, <1>2, <1>5 DEF RestFits
    <3>2. request[r].used >= Budget(r)
      BY <1>5
    <3> QED
      BY <1>1, <1>2, <1>3, <3>1, <3>2
  <2>2. \A i \in DOMAIN request[r].rest : i = 1
    BY <1>3, <2>1
  <2> QED
    BY <1>1, <1>5, <2>2 DEF OwedOne
<1> QED
  BY <1>4, <1>5

\* What a request keeps when it goes on to its next candidate.
LEMMA NextCandidateFits ==
  ASSUME RoutingInv, NEW r \in Requests, request[r].rest # <<>>, NEW q \in Request,
         q.stage = "next", q.rest = Tail(request[r].rest), q.used = request[r].used, q.count = request[r].count,
         q.owed \subseteq request[r].owed \ (IF request[r].stage = "send" THEN {} ELSE {Current(r)})
  PROVE  RestFits(q) /\ (\A a : ~ProbesWith(q, a)) /\ (\A a \in q.owed : OwedOne(q, a))
<1> DEFINE rest == request[r].rest
<1>1. /\ rest \in Seq(Candidate) /\ rest # <<>> /\ RestFits(request[r]) /\ request[r].used \in Nat
      /\ BudgetOf(request[r].count) \in Nat
      /\ \A a \in request[r].owed : OwedOne(request[r], a)
  BY RoutingTypes DEF BudgetOf
<1>2. /\ Len(rest) \in Nat /\ Len(rest) > 0 /\ Len(q.rest) = Len(rest) - 1 /\ q.rest \in Seq(Candidate)
      /\ \A i \in 1..Len(q.rest) : q.rest[i] = rest[i + 1]
  BY <1>1, HeadTailProperties
<1>3. DOMAIN q.rest = 1..(Len(rest) - 1) /\ DOMAIN rest = 1..Len(rest)
  BY <1>1, <1>2
<1>4. \A i, j \in DOMAIN rest : rest[i].id = rest[j].id => i = j
  BY <1>1 DEF RestFits
<1>5. \A i, j \in DOMAIN q.rest : q.rest[i].id = q.rest[j].id => i = j
  <2> SUFFICES ASSUME NEW i \in DOMAIN q.rest, NEW j \in DOMAIN q.rest, q.rest[i].id = q.rest[j].id
               PROVE  i = j
    OBVIOUS
  <2>1. i + 1 \in DOMAIN rest /\ j + 1 \in DOMAIN rest /\ i \in Nat /\ j \in Nat
        /\ q.rest[i] = rest[i + 1] /\ q.rest[j] = rest[j + 1]
    BY <1>2, <1>3
  <2>2. i + 1 = j + 1
    BY <1>4, <2>1
  <2> QED
    BY <2>1, <2>2
<1>6. q.used + Len(q.rest) <= BudgetOf(q.count)
  <2>1. request[r].used + (Len(rest) - 1) <= BudgetOf(request[r].count)
    <3>1. request[r].used + (IF request[r].stage = "send" THEN Len(rest) - 1 ELSE Len(rest)) <= BudgetOf(request[r].count)
      BY <1>1 DEF RestFits
    <3> QED
      BY <1>1, <1>2, <3>1
  <2> QED
    BY <1>2, <2>1
<1>7. RestFits(q)
  BY <1>5, <1>6 DEF RestFits
<1>8. ASSUME NEW a \in q.owed
      PROVE  OwedOne(q, a)
  <2>1. OwedOne(request[r], a) /\ (request[r].stage # "send" => a # rest[1].id)
    BY <1>1 DEF Current
  <2>2. PICK i \in DOMAIN rest : rest[i].id = a /\ rest[i].status = Seen(a) /\ (request[r].stage = "send" => i # 1)
    BY <2>1 DEF OwedOne
  <2>3. i \in Nat /\ i # 1 /\ i - 1 \in DOMAIN q.rest /\ q.rest[i - 1] = rest[i]
    <3>1. i \in 1..Len(rest) /\ i # 1
      BY <1>3, <2>1, <2>2
    <3>2. i - 1 \in 1..Len(q.rest) /\ (i - 1) + 1 = i
      BY <1>2, <3>1
    <3> QED
      BY <1>2, <1>3, <3>1, <3>2
  <2> QED
    BY <2>1, <2>2, <2>3 DEF OwedOne
<1> QED
  BY <1>7, <1>8 DEF ProbesWith, Using

\* What it keeps when it sends something through the account at hand.
LEMMA SentFits ==
  ASSUME RoutingInv, NEW r \in Requests, request[r].stage \in {"lookup", "send"}, NEW q \in Request,
         q.stage = "send", q.rest = request[r].rest, q.probe = request[r].probe, q.count = request[r].count,
         q.used + (Len(request[r].rest) - 1) <= Budget(r),
         q.owed \subseteq request[r].owed \ (IF request[r].stage = "send" THEN {} ELSE {Current(r)})
  PROVE  /\ RestFits(q) /\ (\A a \in q.owed : OwedOne(q, a))
         /\ \A a : ProbesWith(q, a) <=> ProbesWith(request[r], a)
<1>1. RestFits(request[r]) /\ \A a \in request[r].owed : OwedOne(request[r], a)
  BY RoutingTypes
<1>2. Budget(r) = BudgetOf(q.count)
  BY DEF Budget, BudgetOf
<1>3. RestFits(q)
  BY <1>1, <1>2 DEF RestFits
<1>4. ASSUME NEW a \in q.owed
      PROVE  OwedOne(q, a)
  <2>1. OwedOne(request[r], a) /\ (request[r].stage # "send" => a # request[r].rest[1].id)
    BY <1>1 DEF Current
  <2> QED
    BY <2>1 DEF OwedOne
<1> QED
  BY <1>3, <1>4 DEF ProbesWith, Using

\* Nobody has asked yet, and every account is free.
LEMMA RoutingInitInv == RoutingInit => RoutingInv
<1> SUFFICES ASSUME RoutingInit PROVE RoutingInv
  OBVIOUS
<1>1. AtRest(Idle)
  BY IdleIs
<1>2. RestFits(Idle) /\ (\A a : ~ProbesWith(Idle, a)) /\ Idle.owed = {} /\ Idle \in Request
  BY <1>1, AtRestFits DEF AtRest
<1>3. \A r \in Requests : request[r] = Idle
  BY DEF RoutingInit
<1>4. account \in [Accounts -> Account] /\ \A a \in Accounts : Status(a) = "active"
  BY DEF RoutingInit, Account, Statuses, Status
<1>5. request \in [Requests -> Request] /\ provider \in Providers /\ overstayed \in SUBSET Accounts
  BY <1>2 DEF RoutingInit
<1>6. ProbesFit /\ ClaimsFit
  BY <1>2, <1>3, <1>4 DEF ProbesFit, ClaimsFit
<1> QED
  BY <1>2, <1>3, <1>4, <1>5, <1>6 DEF RoutingInv

\* A listing that names every account of its scope once.
Complete(list, scope) ==
  /\ list \in [1..Cardinality(scope) -> scope]
  /\ \A i, j \in 1..Cardinality(scope) : list[i] = list[j] => i = j
  /\ \A a \in scope : \E i \in 1..Cardinality(scope) : list[i] = a

LEMMA ListingIsComplete ==
  ASSUME NEW scope \in SUBSET Accounts, NEW list \in Listings(scope)
  PROVE  Complete(list, scope)
<1> DEFINE n == Cardinality(scope)
<1>1. IsFiniteSet(scope) /\ n \in Nat
  BY RoutingAssumption, FS_Subset, FS_CardinalityType
<1>2. list \in [1..n -> scope] /\ \A i, j \in 1..n : i < j => list[i] # list[j]
  BY DEF Listings
<1>3. \A i, j \in 1..n : list[i] = list[j] => i = j
  BY <1>1, <1>2
<1>4. list \in Injection(1..n, scope)
  BY <1>2, <1>3 DEF Injection, IsInjective
<1>5. Cardinality(1..n) = n
  <2>1. Cardinality(1..n) = IF 1 > n THEN 0 ELSE n - 1 + 1
    BY <1>1, FS_Interval
  <2> QED
    BY <1>1, <2>1
<1>6. list \in Surjection(1..n, scope)
  BY <1>1, <1>4, <1>5, FS_Injection
<1> QED
  BY <1>2, <1>3, <1>6 DEF Complete, Surjection

\* The preferred account comes first, and none is lost.
LEMMA PreferringIsComplete ==
  ASSUME NEW scope \in SUBSET Accounts, NEW list, Complete(list, scope), NEW a \in scope
  PROVE  Complete(Preferring(list, a), scope)
<1> DEFINE n == Cardinality(scope)
           place == CHOOSE i \in DOMAIN list : list[i] = a
           f == Preferring(list, a)
<1>1. n \in Nat
  BY RoutingAssumption, FS_Subset, FS_CardinalityType
<1>2. /\ DOMAIN list = 1..n /\ \A i \in 1..n : list[i] \in scope
      /\ \A i, j \in 1..n : list[i] = list[j] => i = j
      /\ \A b \in scope : \E i \in 1..n : list[i] = b
  BY DEF Complete
<1>3. place \in 1..n /\ list[place] = a
  BY <1>2
<1>4. f = [i \in 1..n |-> IF i = 1 THEN a ELSE IF i <= place THEN list[i - 1] ELSE list[i]]
  BY <1>2 DEF Preferring
<1> HIDE DEF n, place, f
<1>5. \A i \in 1..n : f[i] = IF i = 1 THEN list[place] ELSE IF i <= place THEN list[i - 1] ELSE list[i]
  BY <1>3, <1>4
<1>6. f \in [1..n -> scope]
  <2>1. \A i \in 1..n : i # 1 => i - 1 \in 1..n
    BY <1>1
  <2> QED
    BY <1>2, <1>3, <1>4, <2>1
<1> DEFINE back(i) == IF i = 1 THEN place ELSE IF i <= place THEN i - 1 ELSE i
<1>7. \A i \in 1..n : back(i) \in 1..n /\ f[i] = list[back(i)]
  BY <1>1, <1>3, <1>5
<1>8. \A i, j \in 1..n : back(i) = back(j) => i = j
  BY <1>1, <1>3
<1>9. \A k \in 1..n : \E i \in 1..n : back(i) = k
  <2> SUFFICES ASSUME NEW k \in 1..n PROVE \E i \in 1..n : back(i) = k
    OBVIOUS
  <2>1. CASE k = place
    <3>1. 1 \in 1..n /\ back(1) = k
      BY <1>1, <2>1
    <3> QED
      BY <3>1
  <2>2. CASE k < place
    <3>1. k + 1 \in 1..n /\ back(k + 1) = k
      BY <1>1, <1>3, <2>2
    <3> QED
      BY <3>1
  <2>3. CASE k > place
    <3>1. back(k) = k
      BY <1>1, <1>3, <2>3
    <3> QED
      BY <3>1
  <2> QED
    BY <1>1, <1>3, <2>1, <2>2, <2>3
<1> HIDE DEF back
<1>10. \A i, j \in 1..n : f[i] = f[j] => i = j
  BY <1>2, <1>7, <1>8
<1>11. ASSUME NEW b \in scope
       PROVE  \E i \in 1..n : f[i] = b
  <2>1. PICK k \in 1..n : list[k] = b
    BY <1>2
  <2>2. PICK i \in 1..n : back(i) = k
    BY <1>9
  <2>3. f[i] = list[back(i)]
    BY <1>7
  <2> QED
    BY <2>1, <2>2, <2>3
<1> QED
  BY <1>6, <1>10, <1>11 DEF Complete, n, f

\* A request lists what it may use, once.
LEMMA SelectKeeps ==
  ASSUME RoutingInv, NEW r \in Requests, Select(r)
  PROVE  RoutingInv'
<1>1. request[r].stage = "idle" /\ UNCHANGED <<provider, account, overstayed>>
  BY DEF Select
<1> DEFINE record(kind, scope, order) ==
             [Idle EXCEPT !.stage = "next", !.kind = kind, !.count = Len(order),
                !.rest = [i \in 1..Len(order) |-> [id |-> order[i], status |-> Seen(order[i])]],
                !.owed = {a \in scope : Free(a)}]
<1>2. PICK kind \in Kinds(r), scope \in Scopes[r] :
        \E list \in Listings(scope) :
        \E order \in {list} \cup (IF r \in Browsers THEN {Preferring(list, a) : a \in scope} ELSE {}) :
          request' = [request EXCEPT ![r] = record(kind, scope, order)]
  BY DEF Select
<1>2a. PICK list \in Listings(scope) :
        \E order \in {list} \cup (IF r \in Browsers THEN {Preferring(list, a) : a \in scope} ELSE {}) :
          request' = [request EXCEPT ![r] = record(kind, scope, order)]
  BY <1>2
<1>3. PICK order \in {list} \cup (IF r \in Browsers THEN {Preferring(list, a) : a \in scope} ELSE {}) :
        request' = [request EXCEPT ![r] = record(kind, scope, order)]
  BY <1>2a
<1>4. scope \in SUBSET Accounts
  BY RoutingAssumption
<1>5. Complete(list, scope)
  BY <1>4, ListingIsComplete
<1>6. Complete(order, scope)
  BY <1>4, <1>5, PreferringIsComplete
<1> DEFINE n == Cardinality(scope)
           q == record(kind, scope, order)
<1>7. n \in Nat
  BY <1>4, RoutingAssumption, FS_Subset, FS_CardinalityType
<1>8. /\ order \in [1..n -> scope] /\ \A i, j \in 1..n : order[i] = order[j] => i = j
      /\ \A a \in scope : \E i \in 1..n : order[i] = a
  BY <1>6 DEF Complete
<1>9. Len(order) = n
  BY <1>7, <1>8
<1> DEFINE rest == [i \in 1..n |-> [id |-> order[i], status |-> Seen(order[i])]]
           owed == {a \in scope : Free(a)}
<1>10. q = [Idle EXCEPT !.stage = "next", !.kind = kind, !.count = n, !.rest = rest, !.owed = owed]
  BY <1>9
<1>11. kind \in {"proxy", "gemini", "models", "voice"}
  BY DEF Kinds
<1>12. \A i \in 1..n : rest[i] \in Candidate /\ rest[i].id = order[i] /\ rest[i].status = Seen(order[i])
  <2>1. \A a \in Accounts : Seen(a) \in {"active", "rate_limited", "half_open", "reauth"}
    BY RoutingTypes DEF Seen, Statuses, HalfOpen
  <2> QED
    BY <1>4, <1>8, <2>1 DEF Candidate
<1>13. rest \in Seq(Candidate) /\ Len(rest) = n /\ DOMAIN rest = 1..n
  BY <1>7, <1>12
<1> HIDE DEF rest, n
<1>14. Idle \in Request /\ Idle.used = 0
  BY IdleIs DEF AtRest
<1>15. owed \in SUBSET Accounts
  BY <1>4
<1>16. /\ q \in Request /\ q.stage = "next" /\ q.rest = rest /\ q.owed = owed /\ q.used = 0 /\ q.count = n
  <2> HIDE DEF q, owed
  <2> QED
    BY <1>7, <1>10, <1>11, <1>13, <1>14, <1>15 DEF Request
<1>17. q.used + Len(rest) <= BudgetOf(q.count)
  BY <1>7, <1>13, <1>16, RoutingAssumption DEF BudgetOf
<1>18. RestFits(q)
  BY <1>8, <1>12, <1>13, <1>16, <1>17 DEF RestFits
<1>19. ASSUME NEW a \in q.owed
       PROVE  OwedOne(q, a)
  <2>1. a \in scope /\ Free(a)
    BY <1>16
  <2>2. PICK i \in 1..n : order[i] = a
    BY <1>8, <2>1
  <2>3. i \in DOMAIN q.rest /\ q.rest[i].id = a /\ q.rest[i].status = Seen(a)
    BY <1>12, <1>13, <1>16, <2>2
  <2> QED
    BY <1>16, <2>1, <2>3 DEF OwedOne
<1>20. request' = [request EXCEPT ![r] = q]
  BY <1>3
<1> HIDE DEF q
<1>21. (\A a : ~ProbesWith(q, a)) /\ (\A a : ~ProbesWith(request[r], a))
  BY <1>1, <1>16 DEF ProbesWith, Using
<1> QED
  BY <1>1, <1>16, <1>18, <1>19, <1>20, <1>21, RequestMoves

\* The request that uses an account has it at hand.
LEMMA UsesCurrent ==
  ASSUME RoutingInv, NEW r \in Requests, request[r].stage \in {"lookup", "send"}
  PROVE  /\ request[r].rest # <<>> /\ Current(r) \in Accounts /\ Using(request[r], Current(r))
         /\ \A a : ProbesWith(request[r], a) <=> a = Current(r) /\ request[r].probe = TRUE
<1>1. request[r].rest # <<>>
  BY RoutingTypes DEF RestFits
<1> QED
  BY <1>1, CurrentIs DEF Using, ProbesWith, Current

\* A request skips its candidate, uses it as it was listed, or claims it for a probe.
LEMMA ClaimKeeps ==
  ASSUME RoutingInv, NEW r \in Requests, Claim(r)
  PROVE  RoutingInv'
<1> DEFINE candidate == request[r].rest[1]
           a == candidate.id
<1>1. request[r].stage = "next" /\ request[r].rest # <<>>
  BY DEF Claim
<1>2. /\ request[r] \in Request /\ RestFits(request[r]) /\ candidate \in Candidate /\ a \in Accounts /\ a = Current(r)
      /\ account[a] \in Account
  BY <1>1, RoutingTypes, CurrentIs
<1>3. \A b : ~ProbesWith(request[r], b)
  BY <1>1 DEF ProbesWith, Using
<1>4. ASSUME NEW probe \in BOOLEAN, probe = FALSE => candidate.status = "active"
      PROVE  /\ Looking(r, probe) \in Request /\ RestFits(Looking(r, probe))
             /\ \A b : ProbesWith(Looking(r, probe), b) <=> b = a /\ probe = TRUE
             /\ Looking(r, probe).owed = request[r].owed
             /\ \A b \in request[r].owed : OwedOne(Looking(r, probe), b)
  <2> DEFINE q == Looking(r, probe)
  <2>1. q \in Request
    BY <1>2 DEF Looking, Request
  <2>2. /\ q.stage = "lookup" /\ q.probe = probe /\ q.rest = request[r].rest /\ q.used = request[r].used
        /\ q.count = request[r].count /\ q.owed = request[r].owed
    BY <1>2 DEF Looking, Request
  <2> HIDE DEF q
  <2>3. RestFits(q)
    BY <1>1, <1>2, <1>4, <2>2 DEF RestFits
  <2>4. \A b : ProbesWith(q, b) <=> b = a /\ probe = TRUE
    BY <2>2 DEF ProbesWith, Using
  <2>5. \A b \in request[r].owed : OwedOne(q, b)
    BY <1>1, <2>2, RoutingTypes DEF OwedOne
  <2> QED
    BY <2>1, <2>2, <2>3, <2>4, <2>5 DEF q
<1>5. CASE candidate.status = "active"
  <2>1. Step(r, Looking(r, FALSE), a, account[a])
    BY <1>5 DEF Claim
  <2>2. /\ Looking(r, FALSE) \in Request /\ RestFits(Looking(r, FALSE))
        /\ \A b : ~ProbesWith(Looking(r, FALSE), b)
        /\ \A b \in Looking(r, FALSE).owed : OwedOne(Looking(r, FALSE), b)
    BY <1>4, <1>5
  <2> QED
    BY <1>1, <1>2, <1>3, <2>1, <2>2, StepKeeps
<1>6. CASE candidate.status # "active" /\ Claimable(candidate)
  <2> DEFINE row == [status |-> "probed", by |-> r]
  <2>1. Step(r, Looking(r, TRUE), a, row)
    BY <1>6 DEF Claim
  <2>2. /\ Looking(r, TRUE) \in Request /\ RestFits(Looking(r, TRUE))
        /\ \A b : ProbesWith(Looking(r, TRUE), b) <=> b = a
        /\ \A b \in Looking(r, TRUE).owed : OwedOne(Looking(r, TRUE), b)
    BY <1>4
  <2>3. Status(a) \in {"due", "half_open", "stale"}
    BY <1>6 DEF Claimable
  <2>4. row \in Account /\ row.status = "probed" /\ row.by = r
    BY DEF Account, Statuses
  <2> HIDE DEF row
  <2> QED
    BY <1>1, <1>2, <1>3, <2>1, <2>2, <2>3, <2>4, StepKeeps
<1>7. CASE candidate.status # "active" /\ ~Claimable(candidate)
  <2> DEFINE what == IF candidate.status = "reauth" THEN "reauth" ELSE "limit"
             q == Saw(Onwards(r), what)
  <2>1. Step(r, q, a, account[a])
    BY <1>7 DEF Claim
  <2>2. a \notin request[r].owed
    <3> SUFFICES ASSUME a \in request[r].owed PROVE FALSE
      OBVIOUS
    <3>1. OwedOne(request[r], a)
      BY RoutingTypes
    <3>2. Free(a) /\ candidate.status = Seen(a)
      <4>1. PICK i \in DOMAIN request[r].rest : request[r].rest[i].id = a /\ request[r].rest[i].status = Seen(a)
        BY <3>1 DEF OwedOne
      <4>2. 1 \in DOMAIN request[r].rest
        BY <1>1, CurrentIs
      <4>3. i = 1
        BY <1>2, <4>1, <4>2 DEF RestFits
      <4> QED
        BY <3>1, <4>1, <4>3 DEF OwedOne
    <3>3. Claimable(candidate) \/ candidate.status = "active"
      BY <3>2 DEF Claimable, Free, Seen, HalfOpen
    <3> QED
      BY <1>7, <3>3
  <2>3. what \in {"limit", "reauth", "pool"}
    OBVIOUS
  <2> HIDE DEF what
  <2>4. Tail(request[r].rest) \in Seq(Candidate)
    BY <1>1, RoutingTypes, HeadTailProperties
  <2>5. /\ q \in Request /\ q.stage = "next" /\ q.rest = Tail(request[r].rest) /\ q.used = request[r].used
        /\ q.count = request[r].count /\ q.owed = request[r].owed
    BY <1>2, <2>3, <2>4 DEF Saw, Onwards, Request
  <2> HIDE DEF q
  <2>6. RestFits(q) /\ (\A b : ~ProbesWith(q, b)) /\ (\A b \in q.owed : OwedOne(q, b))
    BY <1>1, <1>2, <2>2, <2>5, NextCandidateFits
  <2> QED
    BY <1>1, <1>2, <1>3, <2>1, <2>5, <2>6, StepKeeps
<1> QED
  BY <1>5, <1>6, <1>7

\* The candidates or the sends ran out, a request is answered and gone, or its client is before it has an account.
LEMMA EndsKeep ==
  ASSUME RoutingInv, NEW r \in Requests, RunOut(r) \/ Finish(r) \/ (request[r].stage = "next" /\ Drop(r))
  PROVE  RoutingInv'
<1>1. request[r].stage \in {"next", "done"} /\ UNCHANGED <<provider, account, overstayed>>
  BY DEF RunOut, Finish, Drop
<1>2. \A a : ~ProbesWith(request[r], a)
  BY <1>1 DEF ProbesWith, Using
<1>3. \E q : AtRest(q) /\ request' = [request EXCEPT ![r] = q]
  <2>1. CASE RunOut(r)
    <3>1. request[r].owed = {}
      BY <2>1, NothingIsOwed DEF RunOut
    <3> QED
      BY <2>1, <3>1, ConcludedIs DEF RunOut
  <2>2. CASE Finish(r) \/ (request[r].stage = "next" /\ Drop(r))
    BY <2>2, IdleIs DEF Finish, Drop
  <2> QED
    BY <2>1, <2>2
<1>4. PICK q : AtRest(q) /\ request' = [request EXCEPT ![r] = q]
  BY <1>3
<1>5. q \in Request /\ RestFits(q) /\ (\A a : ~ProbesWith(q, a)) /\ (\A a \in q.owed : OwedOne(q, a))
  BY <1>4, AtRestFits DEF AtRest
<1> QED
  BY <1>1, <1>2, <1>4, <1>5, RequestMoves

\* The request is through with the account at hand, which it releases, marks or leaves behind.
LEMMA UseEnds ==
  ASSUME RoutingInv, NEW r \in Requests, request[r].stage \in {"lookup", "send"},
         NEW row, NEW q \in Request, Step(r, q, Current(r), row),
         \/ /\ q.stage = "next" /\ q.rest = Tail(request[r].rest) /\ q.used = request[r].used
            /\ q.count = request[r].count
            /\ q.owed \subseteq request[r].owed \ (IF request[r].stage = "send" THEN {} ELSE {Current(r)})
         \/ AtRest(q),
         row \in {Released(r, Current(r)), Limited(Current(r)), Restored(Current(r)), Reauth(Current(r)),
                  Deserted(r, Current(r), "left"), Deserted(r, Current(r), "unreadable")}
  PROVE  RoutingInv'
<1> DEFINE a == Current(r)
<1>1. request[r].rest # <<>> /\ a \in Accounts /\ Using(request[r], a) /\ account[a] \in Account /\ Status(a) \in Statuses
      /\ request[r].probe \in BOOLEAN
  BY UsesCurrent, RoutingTypes
<1>2. RestFits(q) /\ (\A b : ~ProbesWith(q, b)) /\ (\A b \in q.owed : OwedOne(q, b))
  BY <1>1, NextCandidateFits, AtRestFits
<1>3. \A status \in Statuses : Row(status) \in Account /\ Row(status).status = status
  BY DEF Row, Account
<1>4. Probing(r, a) <=> ProbesWith(request[r], a)
  BY ProbingIs
<1>5. ProbesWith(request[r], a) <=> request[r].probe = TRUE
  BY UsesCurrent
<1> DEFINE Ends ==
             \/ row = account[a] /\ ~(Status(a) = "probed" /\ account[a].by = r /\ ProbesWith(request[r], a))
             \/ row.status \in {"active", "limited", "reauth"}
             \/ row.status = "half_open" /\ ProbesWith(request[r], a)
             \/ row.status = Status(a) /\ row.by \in {"left", "unreadable"}
<1>6. CASE row = Released(r, a)
  <2>1. row \in Account /\ Ends
    BY <1>1, <1>3, <1>5, <1>6 DEF Released, HalfOpen, Statuses
  <2> HIDE DEF a
  <2> QED
    BY <1>1, <1>2, <2>1, StepKeeps DEF a
<1>7. CASE row \in {Limited(a), Restored(a), Reauth(a)}
  <2>1. row \in Account /\ Ends
    BY <1>1, <1>3, <1>7 DEF Limited, Restored, Reauth, Statuses
  <2> HIDE DEF a
  <2> QED
    BY <1>1, <1>2, <2>1, StepKeeps DEF a
<1>8. ASSUME NEW how \in {"left", "unreadable"}, row = Deserted(r, a, how)
      PROVE  RoutingInv'
  <2>1. CASE account[a].by = r /\ Probing(r, a)
    <3>1. row = [account[a] EXCEPT !.by = how]
      BY <1>8, <2>1 DEF Deserted
    <3>2. row \in Account /\ row.status = Status(a) /\ row.by = how
      BY <1>1, <3>1 DEF Account, Status
    <3> HIDE DEF a
    <3> QED
      BY <1>1, <1>2, <3>2, StepKeeps DEF a
  <2>2. CASE ~(account[a].by = r /\ Probing(r, a))
    <3>1. row = account[a]
      BY <1>8, <2>2 DEF Deserted
    <3>2. row \in Account /\ Ends
      BY <1>1, <1>4, <2>2, <3>1
    <3> HIDE DEF a
    <3> QED
      BY <1>1, <1>2, <3>2, StepKeeps DEF a
  <2> QED
    BY <2>1, <2>2
<1> QED
  BY <1>6, <1>7, <1>8

\* The request sends something through the account at hand, or will: it keeps its probe.
LEMMA UseGoesOn ==
  ASSUME RoutingInv, NEW r \in Requests, request[r].stage \in {"lookup", "send"},
         NEW q \in Request, Step(r, q, Current(r), account[Current(r)]),
         q.stage = "send", q.rest = request[r].rest, q.probe = request[r].probe, q.count = request[r].count,
         q.used + (Len(request[r].rest) - 1) <= Budget(r),
         q.owed \subseteq request[r].owed \ (IF request[r].stage = "send" THEN {} ELSE {Current(r)})
  PROVE  RoutingInv'
<1> DEFINE a == Current(r)
<1>1. a \in Accounts /\ Using(request[r], a) /\ account[a] \in Account
  BY UsesCurrent, RoutingTypes
<1>2. /\ RestFits(q) /\ (\A b \in q.owed : OwedOne(q, b))
      /\ \A b : ProbesWith(q, b) <=> ProbesWith(request[r], b)
  BY SentFits
<1>3. \A b : ProbesWith(q, b) => b = a /\ ProbesWith(request[r], a)
  BY <1>2, UsesCurrent
<1> HIDE DEF a
<1> QED
  BY <1>1, <1>2, <1>3, StepKeeps DEF a

\* A request that leaves the account at hand, as it may have seen it or tried it.
LEMMA OnwardsIs ==
  ASSUME RoutingInv, NEW r \in Requests, request[r].stage \in {"lookup", "send"},
         NEW what \in {"limit", "reauth", "pool"}, NEW q,
         q \in {Onwards(r), Saw(Onwards(r), what), Tried(r, Onwards(r)), Tried(r, Saw(Onwards(r), what))}
  PROVE  /\ q \in Request /\ q.stage = "next" /\ q.rest = Tail(request[r].rest) /\ q.used = request[r].used
         /\ q.count = request[r].count /\ q.owed \subseteq request[r].owed
         /\ q \in {Tried(r, Onwards(r)), Tried(r, Saw(Onwards(r), what))} => Current(r) \notin q.owed
<1>1. request[r] \in Request /\ request[r].rest # <<>>
  BY RoutingTypes, UsesCurrent
<1>2. Tail(request[r].rest) \in Seq(Candidate)
  BY <1>1, RoutingTypes, HeadTailProperties
<1> DEFINE o == Onwards(r)
<1>3. /\ o \in Request /\ o.stage = "next" /\ o.rest = Tail(request[r].rest) /\ o.used = request[r].used
      /\ o.count = request[r].count /\ o.owed = request[r].owed
  BY <1>1, <1>2 DEF Onwards, Request
<1> HIDE DEF o
<1> DEFINE s == Saw(o, what)
<1>4. /\ s \in Request /\ s.stage = o.stage /\ s.rest = o.rest /\ s.used = o.used /\ s.count = o.count /\ s.owed = o.owed
  BY <1>3 DEF Saw, Request
<1> HIDE DEF s
<1>5. ASSUME NEW p \in Request
      PROVE  /\ Tried(r, p) \in Request /\ Tried(r, p).stage = p.stage /\ Tried(r, p).rest = p.rest
             /\ Tried(r, p).used = p.used /\ Tried(r, p).count = p.count /\ Tried(r, p).probe = p.probe
             /\ Tried(r, p).owed = p.owed \ {Current(r)}
  BY DEF Tried, Request
<1>6. q \in {o, s, Tried(r, o), Tried(r, s)}
  BY DEF o, s
<1>7. CASE q = o
  <2>1. Tried(r, o).owed = o.owed \ {Current(r)} /\ Tried(r, s).owed = s.owed \ {Current(r)}
    BY <1>3, <1>4, <1>5
  <2> QED
    BY <1>3, <1>4, <1>7, <2>1 DEF o, s
<1>8. CASE q = s
  <2>1. Tried(r, o).owed = o.owed \ {Current(r)} /\ Tried(r, s).owed = s.owed \ {Current(r)}
    BY <1>3, <1>4, <1>5
  <2> QED
    BY <1>3, <1>4, <1>8, <2>1 DEF o, s
<1>9. CASE q \in {Tried(r, o), Tried(r, s)}
  BY <1>3, <1>4, <1>5, <1>9 DEF o, s
<1> QED
  BY <1>6, <1>7, <1>8, <1>9

\* A request that sends something through the account at hand.
LEMMA SentIs ==
  ASSUME RoutingInv, NEW r \in Requests, request[r].stage \in {"lookup", "send"}, NEW q, q \in {Sent(r), Tried(r, Sent(r))}
  PROVE  /\ q \in Request /\ q.stage = "send" /\ q.rest = request[r].rest /\ q.probe = request[r].probe
         /\ q.count = request[r].count /\ q.used = request[r].used + Spends(r)
         /\ q.owed \subseteq request[r].owed
         /\ q = Tried(r, Sent(r)) => Current(r) \notin q.owed
<1>1. request[r] \in Request /\ request[r].used \in Nat /\ request[r].tries \in Nat
  BY RoutingTypes
<1>2. Spends(r) \in Nat
  BY DEF Spends
<1> DEFINE s == Sent(r)
<1>3. /\ s \in Request /\ s.stage = "send" /\ s.rest = request[r].rest /\ s.probe = request[r].probe
      /\ s.count = request[r].count /\ s.used = request[r].used + Spends(r) /\ s.owed = request[r].owed
  <2> DEFINE n == Spends(r)
             u == request[r].used + n
             t == request[r].tries + n
  <2>1. u \in Nat /\ t \in Nat
    BY <1>1, <1>2
  <2>2. s = [request[r] EXCEPT !.stage = "send", !.used = u, !.tries = t]
    BY DEF Sent
  <2>3. u = request[r].used + Spends(r)
    OBVIOUS
  <2> HIDE DEF u, t, s
  <2> QED
    BY <1>1, <2>1, <2>2, <2>3 DEF Request
<1> HIDE DEF s
<1>4. /\ Tried(r, s) \in Request /\ Tried(r, s).stage = s.stage /\ Tried(r, s).rest = s.rest
      /\ Tried(r, s).used = s.used /\ Tried(r, s).count = s.count /\ Tried(r, s).probe = s.probe
      /\ Tried(r, s).owed = s.owed \ {Current(r)}
  BY <1>3 DEF Tried, Request
<1>5. q \in {s, Tried(r, s)}
  BY DEF s
<1>6. CASE q = s
  BY <1>3, <1>4, <1>6 DEF s
<1>7. CASE q = Tried(r, s)
  BY <1>3, <1>4, <1>7 DEF s
<1> QED
  BY <1>5, <1>6, <1>7

\* The stored login of the account at hand is looked up.
LEMMA LookupKeeps ==
  ASSUME RoutingInv, NEW r \in Requests, CredentialReady(r) \/ CredentialRefused(r) \/ CredentialMissing(r)
  PROVE  RoutingInv'
<1>1. request[r].stage = "lookup"
  BY DEF CredentialReady, CredentialRefused, CredentialMissing
<1>2. CASE CredentialReady(r)
  <2> DEFINE q == Tried(r, Sent(r))
  <2>1. Step(r, q, Current(r), account[Current(r)])
    BY <1>2 DEF CredentialReady
  <2>2. /\ q \in Request /\ q.stage = "send" /\ q.rest = request[r].rest /\ q.probe = request[r].probe
        /\ q.count = request[r].count /\ q.used = request[r].used + Spends(r)
        /\ q.owed \subseteq request[r].owed /\ Current(r) \notin q.owed
    BY <1>1, SentIs
  <2> HIDE DEF q
  <2>3. q.used + (Len(request[r].rest) - 1) <= Budget(r)
    <3>1. /\ request[r].used \in Nat /\ Len(request[r].rest) \in Nat /\ Spends(r) \in {0, 1}
          /\ BudgetOf(request[r].count) = Budget(r) /\ Budget(r) \in Nat
      BY RoutingTypes DEF Spends, Budget, BudgetOf
    <3>2. request[r].used + Len(request[r].rest) <= Budget(r)
      BY <1>1, <3>1, RoutingTypes DEF RestFits
    <3> QED
      BY <2>2, <3>1, <3>2
  <2>4. q.owed \subseteq request[r].owed \ (IF request[r].stage = "send" THEN {} ELSE {Current(r)})
    BY <1>1, <2>2
  <2> QED
    BY <1>1, <2>1, <2>2, <2>3, <2>4, UseGoesOn
<1>3. CASE CredentialRefused(r)
  <2> DEFINE q == Tried(r, Saw(Onwards(r), "reauth"))
  <2>1. Step(r, q, Current(r), Reauth(Current(r)))
    BY <1>3 DEF CredentialRefused
  <2>2. /\ q \in Request /\ q.stage = "next" /\ q.rest = Tail(request[r].rest) /\ q.used = request[r].used
        /\ q.count = request[r].count /\ q.owed \subseteq request[r].owed /\ Current(r) \notin q.owed
    BY <1>1, OnwardsIs
  <2> HIDE DEF q
  <2> QED
    BY <1>1, <2>1, <2>2, UseEnds
<1>4. CASE CredentialMissing(r)
  <2> DEFINE q == Tried(r, Onwards(r))
  <2>1. Step(r, q, Current(r), Released(r, Current(r)))
    BY <1>4 DEF CredentialMissing
  <2>2. /\ q \in Request /\ q.stage = "next" /\ q.rest = Tail(request[r].rest) /\ q.used = request[r].used
        /\ q.count = request[r].count /\ q.owed \subseteq request[r].owed /\ Current(r) \notin q.owed
    BY <1>1, OnwardsIs
  <2> HIDE DEF q
  <2> QED
    BY <1>1, <2>1, <2>2, UseEnds
<1> QED
  BY <1>2, <1>3, <1>4

\* The request goes on to the next account, and releases, marks or restores the one at hand.
LEMMA LeavesKeep ==
  ASSUME RoutingInv, NEW r \in Requests, request[r].stage = "send",
         NEW what \in {"limit", "reauth", "pool"}, NEW q \in {Onwards(r), Saw(Onwards(r), what)},
         NEW row \in {Released(r, Current(r)), Limited(Current(r)), Reauth(Current(r))},
         Step(r, q, Current(r), row)
  PROVE  RoutingInv'
<1>1. /\ q \in Request /\ q.stage = "next" /\ q.rest = Tail(request[r].rest) /\ q.used = request[r].used
      /\ q.count = request[r].count /\ q.owed \subseteq request[r].owed
  BY OnwardsIs
<1> QED
  BY <1>1, UseEnds

\* The request is answered while it has an account at hand.
LEMMA AnswersKeep ==
  ASSUME RoutingInv, NEW r \in Requests, request[r].stage \in {"lookup", "send"}, NEW q, AtRest(q),
         NEW row \in {Released(r, Current(r)), Restored(Current(r)), Deserted(r, Current(r), "left"),
                      Deserted(r, Current(r), "unreadable")},
         Step(r, q, Current(r), row)
  PROVE  RoutingInv'
<1>1. q \in Request
  BY DEF AtRest
<1> QED
  BY <1>1, UseEnds

\* After a failure that says nothing about the account: there is room for another send, or none is owed.
LEMMA RetryKeeps ==
  ASSUME RoutingInv, NEW r \in Requests, request[r].stage = "send",
         NEW last \in {Concluded(r), Done(r, "upstream")}, Retry(r, last)
  PROVE  RoutingInv'
<1> DEFINE a == Current(r)
<1>1. CASE request[r].used >= Budget(r)
  <2>1. request[r].owed = {}
    BY <1>1, NothingIsOwed
  <2>2. AtRest(last)
    BY <2>1, DoneIs, ConcludedIs
  <2>3. Step(r, last, a, Released(r, a))
    BY <1>1 DEF Retry
  <2> QED
    BY <2>2, <2>3, AnswersKeep
<1>2. CASE ~(request[r].used >= Budget(r)) /\ ShouldRetrySame(r)
  <2> DEFINE q == Sent(r)
  <2>1. Step(r, q, a, account[a])
    BY <1>2 DEF Retry
  <2>2. /\ q \in Request /\ q.stage = "send" /\ q.rest = request[r].rest /\ q.probe = request[r].probe
        /\ q.count = request[r].count /\ q.used = request[r].used + Spends(r) /\ q.owed \subseteq request[r].owed
    BY SentIs
  <2> HIDE DEF q
  <2>3. q.used + (Len(request[r].rest) - 1) <= Budget(r)
    <3>1. /\ request[r].used \in Nat /\ Len(request[r].rest) \in Nat /\ Spends(r) \in {0, 1} /\ Budget(r) \in Nat
      BY RoutingTypes DEF Spends, Budget
    <3>2. /\ request[r].used < Budget(r)
          /\ Len(request[r].rest) - 1 = 0 \/ Budget(r) - request[r].used > Len(request[r].rest) - 1
      BY <1>2 DEF ShouldRetrySame
    <3> DEFINE n == Len(request[r].rest)
               used == request[r].used
               budget == Budget(r)
    <3>3. /\ used \in Nat /\ n \in Nat /\ budget \in Nat /\ used < budget
          /\ (n - 1 = 0 \/ budget - used > n - 1)
          /\ (q.used = used \/ q.used = used + 1)
      BY <2>2, <3>1, <3>2
    <3> HIDE DEF n, used, budget
    <3>4. q.used + (n - 1) <= budget
      BY <3>3
    <3> QED
      BY <3>4 DEF n, used, budget
  <2> QED
    BY <2>1, <2>2, <2>3, UseGoesOn
<1>3. CASE ~(request[r].used >= Budget(r)) /\ ~ShouldRetrySame(r)
  <2>1. Step(r, Onwards(r), a, Released(r, a))
    BY <1>3 DEF Retry
  <2> QED
    BY <2>1, LeavesKeep
<1> QED
  BY <1>1, <1>2, <1>3

\* What the provider answers to a request that was sent, whatever its path.
Answered(r) ==
  \/ Unreachable(r) \/ Transient(r) \/ RateLimited(r) \/ LoginRejected(r) \/ Refused(r)
  \/ Challenged(r) \/ Unreadable(r) \/ CallLost(r) \/ Served(r)

LEMMA AnsweredKeeps ==
  ASSUME RoutingInv, NEW r \in Requests, Answered(r)
  PROVE  RoutingInv'
<1> DEFINE a == Current(r)
<1>1. request[r].stage = "send"
  BY DEF Answered, Unreachable, Transient, RateLimited, LoginRejected, Refused, Challenged, Unreadable, CallLost, Served
<1>2. CASE Unreachable(r) \/ Transient(r)
  BY <1>1, <1>2, RetryKeeps DEF Unreachable, Transient
<1>3. CASE RateLimited(r)
  <2>1. Step(r, Saw(Onwards(r), "limit"), a, Limited(a))
    BY <1>3 DEF RateLimited
  <2> QED
    BY <1>1, <2>1, LeavesKeep
<1>4. CASE LoginRejected(r)
  <2> DEFINE q == [request[r] EXCEPT !.retried = TRUE]
  <2>1. CASE Step(r, q, a, account[a])
    <3>1. request[r] \in Request /\ RestFits(request[r])
      BY RoutingTypes
    <3>2. /\ q \in Request /\ q.stage = "send" /\ q.rest = request[r].rest /\ q.probe = request[r].probe
          /\ q.count = request[r].count /\ q.used = request[r].used /\ q.owed = request[r].owed
      BY <1>1, <3>1 DEF Request
    <3> HIDE DEF q
    <3>3. BudgetOf(request[r].count) = Budget(r)
      BY DEF Budget, BudgetOf
    <3>4. request[r].used + (Len(request[r].rest) - 1) <= Budget(r)
      BY <1>1, <3>1, <3>3 DEF RestFits
    <3> QED
      BY <1>1, <2>1, <3>2, <3>4, UseGoesOn
  <2>2. CASE Step(r, Saw(Onwards(r), "reauth"), a, Reauth(a))
    BY <1>1, <2>2, LeavesKeep
  <2>3. CASE Step(r, Onwards(r), a, Released(r, a))
    BY <1>1, <2>3, LeavesKeep
  <2> QED
    BY <1>4, <2>1, <2>2, <2>3 DEF LoginRejected
<1>5. CASE Refused(r)
  <2>1. Step(r, Saw(Onwards(r), "pool"), a, Released(r, a)) \/ Step(r, Onwards(r), a, Released(r, a))
    BY <1>5 DEF Refused
  <2> QED
    BY <1>1, <2>1, LeavesKeep
<1>6. CASE Challenged(r)
  <2>1. Step(r, Saw(Onwards(r), "reauth"), a, Reauth(a)) \/ Step(r, Onwards(r), a, Released(r, a))
    BY <1>6 DEF Challenged
  <2> QED
    BY <1>1, <2>1, LeavesKeep
<1>7. AtRest(Done(r, "error")) /\ AtRest(Done(r, "served"))
  BY DoneIs DEF TurnedAway
<1>8. CASE Unreadable(r)
  <2>1. Step(r, Done(r, "error"), a, Deserted(r, a, "unreadable"))
    BY <1>8 DEF Unreadable
  <2> QED
    BY <1>1, <1>7, <2>1, AnswersKeep
<1>9. CASE CallLost(r)
  <2>1. Step(r, Done(r, "error"), a, Released(r, a))
    BY <1>9 DEF CallLost
  <2> QED
    BY <1>1, <1>7, <2>1, AnswersKeep
<1>10. CASE Served(r)
  <2>1. Step(r, Done(r, "served"), a, Restored(a))
    BY <1>10 DEF Served
  <2> QED
    BY <1>1, <1>7, <2>1, AnswersKeep
<1> QED
  BY <1>2, <1>3, <1>4, <1>5, <1>6, <1>8, <1>9, <1>10 DEF Answered

LEMMA PathsAnswer ==
  ASSUME NEW r, Proxy(r) \/ GeminiProxy(r) \/ GeminiModels(r) \/ VoiceSession(r)
  PROVE  Answered(r)
  BY DEF Proxy, GeminiProxy, GeminiModels, VoiceSession, Answered

\* The handler is dropped with an account at hand.
LEMMA DropKeeps ==
  ASSUME RoutingInv, NEW r \in Requests, Drop(r)
  PROVE  RoutingInv'
<1>1. CASE request[r].stage = "next"
  BY <1>1, EndsKeep
<1>2. CASE request[r].stage # "next"
  <2>1. request[r].stage \in {"lookup", "send"} /\ Step(r, Idle, Current(r), Deserted(r, Current(r), "left"))
    BY <1>2 DEF Drop
  <2> QED
    BY <2>1, IdleIs, AnswersKeep
<1> QED
  BY <1>1, <1>2

\* A cooldown ends, or a claim becomes old, while probes of the account are noted to overstay.
LEMMA TimeKeeps ==
  ASSUME RoutingInv, NEW a \in Accounts, CooldownEnds(a) \/ ClaimAges(a)
  PROVE  RoutingInv'
<1>1. /\ Status(a) \in {"limited", "probed"} /\ account[a] \in Account
      /\ UNCHANGED <<provider, request>> /\ Overstay(a)
  BY RoutingTypes DEF CooldownEnds, ClaimAges
<1>2. PICK row \in Account : account' = [account EXCEPT ![a] = row] /\ row.status \in {"due", "stale"}
  <2>1. CASE CooldownEnds(a)
    <3> DEFINE row == [account[a] EXCEPT !.status = "due"]
    <3>1. account' = [account EXCEPT ![a] = row]
      BY <2>1 DEF CooldownEnds
    <3>2. row \in Account /\ row.status = "due"
      BY <1>1 DEF Account, Statuses
    <3> QED
      BY <3>1, <3>2
  <2>2. CASE ClaimAges(a)
    <3>1. Row("stale") \in Account /\ Row("stale").status = "stale"
      BY DEF Row, Account, Statuses
    <3> QED
      BY <2>2, <3>1 DEF ClaimAges
  <2> QED
    BY <2>1, <2>2
<1>3. account' \in [Accounts -> Account] /\ account'[a] = row /\ \A b \in Accounts \ {a} : account'[b] = account[b]
  BY <1>2 DEF RoutingInv
<1>4. overstayed' \in SUBSET Accounts /\ overstayed \subseteq overstayed'
  BY <1>1 DEF Overstay, RoutingInv
<1>5. a \in overstayed' \/ \A r \in Requests : ~ProbesWith(request[r], a)
  BY <1>1, ProbingIs DEF Overstay, Probers
<1>6. \A r \in Requests : RestFits(request[r])'
  BY <1>1 DEF RoutingInv, RestFits, BudgetOf
<1>7. ASSUME NEW r \in Requests, NEW b \in request[r].owed
      PROVE  OwedOne(request[r], b)'
  <2>1. b \in Accounts /\ OwedOne(request[r], b)
    BY RoutingTypes
  <2>2. b # a
    BY <1>1, <2>1 DEF OwedOne, Free
  <2> QED
    BY <1>1, <1>3, <2>1, <2>2 DEF OwedOne, Free, Seen, Status
<1>8. ProbesFit'
  <2> SUFFICES ASSUME NEW b \in Accounts \ overstayed', NEW r \in Requests, ProbesWith(request[r], b)
               PROVE  /\ account'[b].status \in {"active", "limited", "probed", "reauth"}
                      /\ \A o \in Requests : ProbesWith(request[o], b) => o = r
    BY <1>1 DEF ProbesFit, ProbesWith, Using, Status
  <2>1. b # a /\ b \notin overstayed
    BY <1>4, <1>5
  <2>2. account'[b] = account[b]
    BY <1>3, <2>1
  <2> QED
    BY <2>1, <2>2 DEF RoutingInv, ProbesFit, Status
<1>9. ClaimsFit'
  <2> SUFFICES ASSUME NEW b \in Accounts, account'[b].status = "probed"
               PROVE  \/ account'[b].by \in {"left", "unreadable"}
                      \/ account'[b].by \in Requests /\ ProbesWith(request[account'[b].by], b)
    BY <1>1 DEF ClaimsFit, ProbesWith, Using, Status
  <2>1. account'[b] = account[b]
    BY <1>2, <1>3
  <2> QED
    BY <2>1 DEF RoutingInv, ClaimsFit, Status
<1> QED
  BY <1>1, <1>3, <1>4, <1>6, <1>7, <1>8, <1>9 DEF RoutingInv

\* The owner or a sweep gives the account another status: nothing is owed of it any more.
LEMMA ElsewhereKeeps ==
  ASSUME RoutingInv, NEW a \in Accounts, Elsewhere(a)
  PROVE  RoutingInv'
<1>1. PICK status \in {"active", "reauth"} : account' = [account EXCEPT ![a] = Row(status)]
  BY DEF Elsewhere
<1>2. /\ request' = [p \in Requests |-> [request[p] EXCEPT !.owed = @ \ {a}]]
      /\ UNCHANGED <<provider, overstayed>>
  BY DEF Elsewhere
<1>3. Row(status) \in Account /\ Row(status).status = status
  BY DEF Row, Account, Statuses
<1>4. account' \in [Accounts -> Account] /\ account'[a] = Row(status) /\ \A b \in Accounts \ {a} : account'[b] = account[b]
  BY <1>1, <1>3 DEF RoutingInv
<1>5. ASSUME NEW p \in Requests
      PROVE  /\ request'[p] \in Request /\ request'[p].stage = request[p].stage /\ request'[p].rest = request[p].rest
             /\ request'[p].probe = request[p].probe /\ request'[p].used = request[p].used
             /\ request'[p].count = request[p].count /\ request'[p].owed = request[p].owed \ {a}
  <2>1. request'[p] = [request[p] EXCEPT !.owed = @ \ {a}] /\ request[p] \in Request
    BY <1>2 DEF RoutingInv
  <2> QED
    BY <2>1 DEF Request
<1>6. request' \in [Requests -> Request]
  <2>1. request' = [p \in Requests |-> request'[p]]
    BY <1>2
  <2> QED
    BY <1>5, <2>1
<1>7. ASSUME NEW p \in Requests
      PROVE  RestFits(request[p])'
  <2>1. RestFits(request'[p])
    BY <1>5, RequestsAlike DEF RoutingInv
  <2> QED
    BY <2>1 DEF RestFits, BudgetOf
<1>8. ASSUME NEW p \in Requests, NEW b \in request'[p].owed
      PROVE  OwedOne(request[p], b)'
  <2>1. b \in Accounts \ {a} /\ OwedOne(request[p], b)
    BY <1>5, <1>8, RoutingTypes
  <2>2. OwedOne(request'[p], b) /\ account'[b] = account[b]
    BY <1>4, <1>5, <2>1, RequestsAlike
  <2> QED
    BY <2>2 DEF OwedOne, Free, Seen, Status
<1>9. \A p \in Requests : \A b : ProbesWith(request'[p], b) <=> ProbesWith(request[p], b)
  BY <1>5 DEF ProbesWith, Using
<1>10. ProbesFit'
  <2> SUFFICES ASSUME NEW b \in Accounts \ overstayed, NEW p \in Requests, ProbesWith(request'[p], b)
               PROVE  /\ account'[b].status \in {"active", "limited", "probed", "reauth"}
                      /\ \A o \in Requests : ProbesWith(request'[o], b) => o = p
    BY <1>2 DEF ProbesFit, ProbesWith, Using, Status
  <2>1. account'[b].status = Status(b) \/ account'[b].status \in {"active", "reauth"}
    BY <1>3, <1>4 DEF Status
  <2> QED
    BY <1>9, <2>1 DEF RoutingInv, ProbesFit
<1>11. ClaimsFit'
  <2> SUFFICES ASSUME NEW b \in Accounts, account'[b].status = "probed"
               PROVE  \/ account'[b].by \in {"left", "unreadable"}
                      \/ account'[b].by \in Requests /\ ProbesWith(request'[account'[b].by], b)
    BY DEF ClaimsFit, ProbesWith, Using, Status
  <2>1. account'[b] = account[b]
    BY <1>3, <1>4
  <2> QED
    BY <1>9, <2>1 DEF RoutingInv, ClaimsFit, Status
<1> QED
  BY <1>2, <1>4, <1>6, <1>7, <1>8, <1>10, <1>11 DEF RoutingInv

LEMMA RoutingNextInv ==
  RoutingInv /\ [RoutingNext]_routingVars => RoutingInv'
<1> SUFFICES ASSUME RoutingInv, [RoutingNext]_routingVars PROVE RoutingInv'
  OBVIOUS
<1>1. ASSUME NEW r \in Requests,
             \/ Select(r) \/ Claim(r) \/ RunOut(r)
             \/ CredentialReady(r) \/ CredentialRefused(r) \/ CredentialMissing(r)
             \/ Proxy(r) \/ GeminiProxy(r) \/ GeminiModels(r) \/ VoiceSession(r)
             \/ Finish(r) \/ Drop(r)
      PROVE  RoutingInv'
  BY <1>1, SelectKeeps, ClaimKeeps, EndsKeep, LookupKeeps, PathsAnswer, AnsweredKeeps, DropKeeps
<1>2. ASSUME NEW a \in Accounts, CooldownEnds(a) \/ ClaimAges(a) \/ Elsewhere(a)
      PROVE  RoutingInv'
  BY <1>2, TimeKeeps, ElsewhereKeeps
<1>3. CASE UNCHANGED routingVars
  <2>1. UNCHANGED <<provider, account, request, overstayed>>
    BY <1>3 DEF routingVars
  <2> QED
    BY <2>1 DEF RoutingInv, RestFits, OwedOne, ProbesFit, ClaimsFit, ProbesWith, Using, BudgetOf, Free, Seen, Status
<1> QED
  BY <1>1, <1>2, <1>3 DEF RoutingNext
-----------------------------------------------------------------------------
\* The invariant holds in every state that is reached.
THEOREM RoutingInvariant == RoutingSpec => []RoutingInv
  BY RoutingInitInv, RoutingNextInv, PTL DEF RoutingSpec

\* Every handler and every row stays within its declared shape, and no list names an account twice.
THEOREM RoutingTypesHold == RoutingSpec => []RoutingTypeOK
<1>1. RoutingInv => RoutingTypeOK
  BY DEF RoutingInv, RoutingTypeOK, RestFits
<1> QED
  BY <1>1, RoutingInvariant, PTL

\* claim_candidate, release_probe: an account whose probes end in time is probed by one request at a time, and an
\* account that a recent claim keeps from the others is being probed by the request that claimed it.
THEOREM ProbesAlwaysHeld == RoutingSpec => []ProbesAreHeld
<1>1. RoutingInv => OneProbe
  <2> SUFFICES ASSUME RoutingInv, NEW a \in Accounts \ overstayed
               PROVE  Cardinality(Probers(a)) <= 1
    BY DEF OneProbe
  <2>1. \A p, r \in Requests : Probing(p, a) /\ Probing(r, a) => p = r
    BY ProbingIs DEF RoutingInv, ProbesFit
  <2>2. CASE Probers(a) = {}
    BY <2>2, FS_EmptySet
  <2>3. CASE Probers(a) # {}
    <3>1. PICK r \in Requests : Probing(r, a)
      BY <2>3 DEF Probers
    <3>2. Probers(a) = {r}
      BY <2>1, <3>1 DEF Probers
    <3>3. Cardinality({r}) = 1
      BY FS_Singleton
    <3> QED
      BY <3>2, <3>3
  <2> QED
    BY <2>2, <2>3
<1>2. RoutingInv => NoProbeLeftBehind
  BY ProbingIs DEF RoutingInv, ClaimsFit, NoProbeLeftBehind
<1> QED
  BY <1>1, <1>2, RoutingInvariant, PTL DEF ProbesAreHeld

\* attempt_budget, should_retry_same_candidate: a send is left for every account that is to come, and no request is
\* turned away while an account that was free when it was listed, and untouched since, was never tried.
THEOREM FailoverAlwaysReaches == RoutingSpec => []FailoverReachesAll
<1>1. RoutingInv => RoomForTheRest
  <2> SUFFICES ASSUME RoutingInv, NEW r \in Requests
               PROVE  request[r].used + (IF request[r].stage = "send" THEN Len(request[r].rest) - 1
                                         ELSE Len(request[r].rest)) <= Budget(r)
    BY DEF RoomForTheRest
  <2>1. Budget(r) = BudgetOf(request[r].count)
    BY DEF Budget, BudgetOf
  <2> QED
    BY <2>1 DEF RoutingInv, RestFits
<1>2. RoutingInv => FreeAccountIsTried
  <2> SUFFICES ASSUME RoutingInv, NEW r \in Requests, request[r].stage = "done", NEW a \in request[r].owed
               PROVE  FALSE
    BY DEF FreeAccountIsTried
  <2>1. request[r].rest = <<>> /\ OwedOne(request[r], a)
    BY DEF RoutingInv, RestFits
  <2> QED
    BY <2>1 DEF OwedOne
<1> QED
  BY <1>1, <1>2, RoutingInvariant, PTL DEF FailoverReachesAll
-----------------------------------------------------------------------------
\* A step that gives an account in its cooldown no other row than one that is marked.
LEMMA RowStaysLimited ==
  ASSUME RoutingInv, NEW r \in Requests, NEW q, NEW b \in Accounts, NEW row, Step(r, q, b, row),
         Status(b) = "limited" => row.status \in {"limited", "reauth"},
         NEW a \in Accounts, Status(a) = "limited"
  PROVE  account'[a].status \in {"limited", "reauth"}
<1>1. account' = [account EXCEPT ![b] = row] /\ account \in [Accounts -> Account]
  BY DEF Step, RoutingInv
<1>2. CASE a = b
  BY <1>1, <1>2
<1>3. CASE a # b
  BY <1>1, <1>3 DEF Status
<1> QED
  BY <1>2, <1>3

\* The rows a handler gives an account in its cooldown, but for the one that restores it.
LEMMA RowsOfLimited ==
  ASSUME RoutingInv, NEW r \in Requests, NEW b \in Accounts, Status(b) = "limited",
         NEW row \in {account[b], Released(r, b), Limited(b), Reauth(b),
                      Deserted(r, b, "left"), Deserted(r, b, "unreadable")}
  PROVE  row.status \in {"limited", "reauth"}
<1>1. account[b] \in Account /\ account[b].status = "limited"
  BY RoutingTypes DEF Status
<1> QED
  BY <1>1 DEF Released, Limited, Reauth, Deserted, Row, HalfOpen, Status, Account

\* What a request does to the account at hand.
LEMMA CurrentStaysLimited ==
  ASSUME RoutingInv, NEW r \in Requests, request[r].stage \in {"lookup", "send"}, NEW q,
         NEW row \in {account[Current(r)], Released(r, Current(r)), Limited(Current(r)), Reauth(Current(r)),
                      Deserted(r, Current(r), "left"), Deserted(r, Current(r), "unreadable")},
         Step(r, q, Current(r), row), NEW a \in Accounts, Status(a) = "limited"
  PROVE  account'[a].status \in {"limited", "reauth"}
<1>1. Current(r) \in Accounts
  BY UsesCurrent
<1>2. Status(Current(r)) = "limited" => row.status \in {"limited", "reauth"}
  BY <1>1, RowsOfLimited
<1> QED
  BY <1>1, <1>2, RowStaysLimited

\* A claim looks at the row again: it does not take an account in its cooldown.
LEMMA ClaimRespectsCooldown ==
  ASSUME RoutingInv, NEW r \in Requests, Claim(r), NEW a \in Accounts, Status(a) = "limited"
  PROVE  account'[a].status \in {"limited", "reauth"}
<1> DEFINE candidate == request[r].rest[1]
           b == candidate.id
<1>1. b \in Accounts /\ account[b] \in Account
  BY RoutingTypes, CurrentIs DEF Claim
<1>2. CASE Claimable(candidate) /\ candidate.status # "active"
  <2>1. Step(r, Looking(r, TRUE), b, [status |-> "probed", by |-> r])
    BY <1>2 DEF Claim
  <2>2. Status(b) # "limited"
    BY <1>2 DEF Claimable
  <2> HIDE DEF b
  <2> QED
    BY <1>1, <2>1, <2>2, RowStaysLimited
<1>3. CASE ~(Claimable(candidate) /\ candidate.status # "active")
  <2>1. \E q : Step(r, q, b, account[b])
    BY <1>3 DEF Claim
  <2>2. Status(b) = "limited" => account[b].status \in {"limited", "reauth"}
    BY DEF Status
  <2> HIDE DEF b
  <2> QED
    BY <1>1, <2>1, <2>2, RowStaysLimited
<1> QED
  BY <1>2, <1>3

\* No other answer than a success ends a cooldown.
LEMMA AnswersRespectCooldown ==
  ASSUME RoutingInv, NEW r \in Requests, Answered(r), ~Served(r), NEW a \in Accounts, Status(a) = "limited"
  PROVE  account'[a].status \in {"limited", "reauth"}
<1> DEFINE b == Current(r)
<1>1. request[r].stage = "send"
  BY DEF Answered, Unreachable, Transient, RateLimited, LoginRejected, Refused, Challenged, Unreadable, CallLost, Served
<1>2. \E q : \E row \in {account[b], Released(r, b), Limited(b), Reauth(b), Deserted(r, b, "left"),
                        Deserted(r, b, "unreadable")} : Step(r, q, b, row)
  <2>1. CASE Unreachable(r) \/ Transient(r)
    <3>1. PICK last : Retry(r, last)
      BY <2>1 DEF Unreachable, Transient
    <3>2. \E q : Step(r, q, b, Released(r, b)) \/ Step(r, q, b, account[b])
      BY <3>1 DEF Retry
    <3> HIDE DEF b
    <3> QED
      BY <3>2
  <2>2. CASE RateLimited(r) \/ Unreadable(r) \/ CallLost(r) \/ Refused(r)
    <3>1. \E q : Step(r, q, b, Limited(b)) \/ Step(r, q, b, Deserted(r, b, "unreadable")) \/ Step(r, q, b, Released(r, b))
      BY <2>2 DEF RateLimited, Unreadable, CallLost, Refused
    <3> HIDE DEF b
    <3> QED
      BY <3>1
  <2>3. CASE LoginRejected(r) \/ Challenged(r)
    <3>1. \E q : Step(r, q, b, account[b]) \/ Step(r, q, b, Reauth(b)) \/ Step(r, q, b, Released(r, b))
      BY <2>3 DEF LoginRejected, Challenged
    <3> HIDE DEF b
    <3> QED
      BY <3>1
  <2> QED
    BY <2>1, <2>2, <2>3 DEF Answered
<1> QED
  BY <1>1, <1>2, CurrentStaysLimited

\* A success that ends one: the request had listed the account before.
LEMMA ServedListedEarlier ==
  ASSUME RoutingInv, NEW r \in Requests, Served(r), NEW a \in Accounts, Status(a) = "limited",
         account'[a].status \notin {"limited", "due", "reauth"}
  PROVE  request'[r].stage = "done" /\ ListedEarlier(r, a)
<1> DEFINE b == Current(r)
           q == Done(r, "served")
<1>1. request[r].stage = "send" /\ Step(r, q, b, Restored(b))
  BY DEF Served
<1>2. b \in Accounts /\ account[b] \in Account /\ RestFits(request[r]) /\ request[r].probe \in BOOLEAN
  BY <1>1, UsesCurrent, RoutingTypes
<1>3. a = b
  <2>1. account' = [account EXCEPT ![b] = Restored(b)] /\ account \in [Accounts -> Account]
    BY <1>1 DEF Step, RoutingInv
  <2>2. a # b => account'[a] = account[a]
    BY <2>1
  <2> QED
    BY <2>2 DEF Status
<1>4. request[r].rest[1].status = "rate_limited" => request[r].probe
  BY <1>1, <1>2 DEF RestFits
<1>5. AtRest(q) /\ q.stage = "done"
  BY DoneIs DEF TurnedAway
<1>6. Restored(b) \in Account
  BY <1>2 DEF Restored, Row, Account, Statuses
<1>7. request'[r].stage = "done"
  <2>1. q \in Request
    BY <1>5 DEF AtRest
  <2> HIDE DEF q, b
  <2>2. request'[r] = IF Restored(b) = account[b] THEN q ELSE [q EXCEPT !.owed = @ \ {b}]
    BY <1>1 DEF Step
  <2>3. request'[r].stage = q.stage
    BY <2>1, <2>2 DEF Request
  <2> QED
    BY <1>5, <2>3
<1> QED
  BY <1>1, <1>3, <1>4, <1>7 DEF ListedEarlier

\* claim_candidate, mark_active: a cooldown ends before its time only through the owner or through an answer to a
\* request that had listed the account before the limit was set.
THEOREM CooldownsHold == RoutingSpec => CooldownHolds
<1> DEFINE Kept(a) ==
      Status(a) = "limited" /\ account'[a].status \notin {"limited", "due", "reauth"} =>
         \/ \A r \in Requests : request'[r].stage = request[r].stage
         \/ \E r \in Requests : request'[r].stage = "done" /\ ListedEarlier(r, a)
<1>1. RoutingInv /\ [RoutingNext]_routingVars => [\A a \in Accounts : Kept(a)]_routingVars
  <2> SUFFICES ASSUME RoutingInv, RoutingNext, NEW a \in Accounts, Status(a) = "limited",
                      account'[a].status \notin {"limited", "due", "reauth"}
               PROVE  \/ \A r \in Requests : request'[r].stage = request[r].stage
                      \/ \E r \in Requests : request'[r].stage = "done" /\ ListedEarlier(r, a)
    OBVIOUS
  <2>1. ASSUME NEW r \in Requests, Select(r) \/ RunOut(r) \/ Finish(r) \/ (request[r].stage = "next" /\ Drop(r))
        PROVE  FALSE
    <3>1. account' = account
      BY <2>1 DEF Select, RunOut, Finish, Drop
    <3> QED
      BY <3>1 DEF Status
  <2>2. ASSUME NEW r \in Requests, Claim(r)
        PROVE  FALSE
    BY <2>2, ClaimRespectsCooldown
  <2>3. ASSUME NEW r \in Requests, CredentialReady(r) \/ CredentialRefused(r) \/ CredentialMissing(r)
                                   \/ (request[r].stage # "next" /\ Drop(r))
        PROVE  FALSE
    <3>1. request[r].stage \in {"lookup", "send"}
      BY <2>3 DEF CredentialReady, CredentialRefused, CredentialMissing, Drop
    <3>2. \E q : \E row \in {account[Current(r)], Released(r, Current(r)), Reauth(Current(r)),
                            Deserted(r, Current(r), "left")} : Step(r, q, Current(r), row)
      BY <2>3 DEF CredentialReady, CredentialRefused, CredentialMissing, Drop
    <3> QED
      BY <3>1, <3>2, CurrentStaysLimited
  <2>4. ASSUME NEW r \in Requests, Answered(r)
        PROVE  request'[r].stage = "done" /\ ListedEarlier(r, a)
    BY <2>4, AnswersRespectCooldown, ServedListedEarlier
  <2>5. ASSUME NEW b \in Accounts, CooldownEnds(b) \/ ClaimAges(b) \/ Elsewhere(b)
        PROVE  \A r \in Requests : request'[r].stage = request[r].stage
    <3>1. CASE CooldownEnds(b) \/ ClaimAges(b)
      BY <3>1 DEF CooldownEnds, ClaimAges
    <3>2. CASE Elsewhere(b)
      <4> SUFFICES ASSUME NEW r \in Requests PROVE request'[r].stage = request[r].stage
        OBVIOUS
      <4>1. request'[r] = [request[r] EXCEPT !.owed = @ \ {b}] /\ request[r] \in Request
        BY <3>2, RoutingTypes DEF Elsewhere
      <4> QED
        BY <4>1 DEF Request
    <3> QED
      BY <2>5, <3>1, <3>2
  <2> QED
    BY <2>1, <2>2, <2>3, <2>4, <2>5, PathsAnswer DEF RoutingNext
<1> QED
  BY <1>1, RoutingInvariant, PTL DEF CooldownHolds, RoutingSpec
=============================================================================

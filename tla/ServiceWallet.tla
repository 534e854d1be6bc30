---------------------------- MODULE ServiceWallet ----------------------------
(***************************************************************************)
(* The wallet of the Service product: api/service/wallet.rs, the Stripe    *)
(* top-ups of stripe.rs that pay it in, and the charge of billing.rs that  *)
(* a finished gateway request makes.                                       *)
(*                                                                         *)
(* Every movement is one database transaction.  A transaction is modelled  *)
(* by the steps at which others can interleave with it: the SELECT ... FOR *)
(* UPDATE that takes a row and reads it, and the commit that applies what  *)
(* the transaction wrote.  A transaction that is refused, whose statement  *)
(* fails, or whose process dies applies nothing (Refuse, Fail).  Stripe is *)
(* the environment: it reports a payment any number of times, in any order.*)
(***************************************************************************)
EXTENDS Naturals, Sequences, WalletConstants

CONSTANTS
  TopUps, Events, Listings,  \* ids of the rows
  Workers,      \* the tasks that run transactions at the same time
  Amounts,      \* amounts a top-up, a price or a cost may have
  NoRef         \* the absent reference

Refs == TopUps \cup Events \cup Listings

ASSUME WalletAssumption ==
  /\ Amounts \subseteq Nat \ {0}
  /\ MinBalance \in Nat
  /\ MaxWallet \in Nat
  /\ NoUser \notin Users
  /\ NoRef \notin Refs

VARIABLES
  wallet,       \* service_wallets.wallet_micro; a user with no row holds 0
  ledger,       \* service_ledger: the rows of each user, in commit order
  topUps,       \* service_top_ups
  requests,     \* the requests of service keys, by the usage event they become
  txn,          \* what each worker's open transaction holds
  sessions,     \* the top-ups Stripe opened a Checkout Session for
  payments,     \* what Stripe reports as paid
  cardPayments  \* whether this deployment has a Stripe key

vars == <<wallet, ledger, topUps, requests, txn, sessions, payments, cardPayments>>

Kinds == {"top_up", "purchase", "usage"}

Row == [kind : Kinds, ref : Refs \cup {NoRef}, amount : Nat, after : 0..MaxWallet]

TopUpRow == [status : {"none", "pending", "paid", "expired"},
             user : Users \cup {NoUser}, amount : Nat]

Request == [stage : {"none", "running", "recorded"}, user : Users \cup {NoUser}]

\* Held locks are read off the open transactions.  seen is the balance the
\* transaction read when it took the wallet row.
Txn == [stage : {"idle", "top_up_row", "wallet_row"}, kind : Kinds,
        user : Users \cup {NoUser}, ref : Refs \cup {NoRef},
        amount : Nat, seen : 0..MaxWallet]

Idle == [stage |-> "idle", kind |-> "top_up", user |-> NoUser,
         ref |-> NoRef, amount |-> 0, seen |-> 0]

Payment == [topUp : TopUps, user : Users \cup {NoUser}, paid : Amounts]

Init ==
  /\ wallet = [u \in Users |-> 0]
  /\ ledger = [u \in Users |-> <<>>]
  /\ topUps = [t \in TopUps |-> [status |-> "none", user |-> NoUser, amount |-> 0]]
  /\ requests = [e \in Events |-> [stage |-> "none", user |-> NoUser]]
  /\ txn = [w \in Workers |-> Idle]
  /\ sessions = {}
  /\ payments = {}
  /\ cardPayments \in BOOLEAN

-----------------------------------------------------------------------------
\* Row locks and unique indexes

WalletRowFree_unlocked(u) == TRUE

\* Nobody else is between SELECT ... FOR UPDATE and the end of its transaction.
WalletRowFree(u) ==
  \A w \in Workers : ~(txn[w].stage = "wallet_row" /\ txn[w].user = u)

TopUpRowFree(t) ==
  \A w \in Workers :
    ~(txn[w].stage # "idle" /\ txn[w].kind = "top_up" /\ txn[w].ref = t)

Posted_notUnique(kind, ref) == FALSE

\* The unique indexes on top_up_id, usage_event_id and listing_id: a committed
\* ledger row of this kind already points at ref.
Posted(kind, ref) ==
  /\ ref # NoRef
  /\ \E u \in Users : \E i \in 1..Len(ledger[u]) :
       ledger[u][i].kind = kind /\ ledger[u][i].ref = ref

\* wallet::lock in a transaction for user u: take the row, read the balance.
LockWallet(w, kind, u, ref, amount) ==
  /\ WalletRowFree(u)
  /\ txn' = [txn EXCEPT ![w] = [stage |-> "wallet_row", kind |-> kind, user |-> u,
                                ref |-> ref, amount |-> amount, seen |-> wallet[u]]]

\* The commit of a movement: the ledger row and wallet::set_wallet together.
Post(w, amount, after) ==
  LET t == txn[w] IN
  /\ wallet' = [wallet EXCEPT ![t.user] = after]
  /\ ledger' = [ledger EXCEPT ![t.user] =
       Append(@, [kind |-> t.kind, ref |-> t.ref, amount |-> amount, after |-> after])]
  /\ txn' = [txn EXCEPT ![w] = Idle]

\* Why a transaction that holds the wallet row returns without a commit: its
\* movement is in the ledger already, a credit does not fit (checked_add), the
\* balance is below the price (InsufficientBalance), or nothing is left to take.
Refused(w) ==
  LET t == txn[w] IN
  \/ Posted(t.kind, t.ref)
  \/ t.kind = "top_up" /\ t.seen + t.amount > MaxWallet
  \/ t.kind = "purchase" /\ t.seen < t.amount
  \/ t.kind = "usage" /\ t.seen = 0

EndUncommitted(w) ==
  /\ txn' = [txn EXCEPT ![w] = Idle]
  /\ UNCHANGED <<wallet, ledger, topUps, requests, sessions, payments, cardPayments>>

Refuse(w) == txn[w].stage = "wallet_row" /\ Refused(w) /\ EndUncommitted(w)

\* A statement fails, the connection is lost, or the process dies: PostgreSQL
\* rolls the open transaction back.
Fail(w) == txn[w].stage # "idle" /\ EndUncommitted(w)

-----------------------------------------------------------------------------
\* Paying in

\* A customer asks for a top-up by card: the pending row is committed before
\* Stripe hears of it.
BeginTopUp(t, u, amount) ==
  /\ cardPayments
  /\ topUps[t].status = "none"
  /\ topUps' = [topUps EXCEPT ![t] = [status |-> "pending", user |-> u, amount |-> amount]]
  /\ UNCHANGED <<wallet, ledger, requests, txn, sessions, payments, cardPayments>>

\* Stripe opens the session of a top-up.  Its answer may be lost: start_checkout
\* then expires the row of a session that exists.
StripeOpensSession(t) ==
  /\ topUps[t].status # "none"
  /\ sessions' = sessions \cup {t}
  /\ UNCHANGED <<wallet, ledger, topUps, requests, txn, payments, cardPayments>>

ExpireTopUp_anyStatus(t) ==
  /\ topUps[t].status # "none"
  /\ TopUpRowFree(t)
  /\ topUps' = [topUps EXCEPT ![t].status = "expired"]
  /\ UNCHANGED <<wallet, ledger, requests, txn, sessions, payments, cardPayments>>

\* One UPDATE, from start_checkout when no session was opened and from the
\* webhook of an expired session.
ExpireTopUp(t) ==
  /\ topUps[t].status = "pending"
  /\ TopUpRowFree(t)
  /\ topUps' = [topUps EXCEPT ![t].status = "expired"]
  /\ UNCHANGED <<wallet, ledger, requests, txn, sessions, payments, cardPayments>>

\* Stripe takes the money.  What its reports say is Stripe's: the total may differ
\* from what was asked, the customer may be absent or another one.
StripeTakesPayment(p) ==
  /\ p.topUp \in sessions
  /\ \A q \in payments : q.topUp # p.topUp
  /\ payments' = payments \cup {p}
  /\ UNCHANGED <<wallet, ledger, topUps, requests, txn, sessions, cardPayments>>

PaymentMatches_anyAmount(p) ==
  p.user \in {NoUser, topUps[p.topUp].user}

PaymentMatches(p) ==
  /\ p.paid = topUps[p.topUp].amount
  /\ p.user \in {NoUser, topUps[p.topUp].user}

WebhookLocksTopUp_pendingOnly(w, p) ==
  /\ p \in payments
  /\ txn[w].stage = "idle"
  /\ TopUpRowFree(p.topUp)
  /\ topUps[p.topUp].status = "pending"
  /\ PaymentMatches(p)
  /\ txn' = [txn EXCEPT ![w] =
       [stage |-> "top_up_row", kind |-> "top_up", user |-> topUps[p.topUp].user,
        ref |-> p.topUp, amount |-> topUps[p.topUp].amount, seen |-> 0]]
  /\ UNCHANGED <<wallet, ledger, topUps, requests, sessions, payments, cardPayments>>

\* complete_top_up, first half: the row is locked and judged.  No row (Unknown), a
\* paid one (AlreadyCredited) and a payment for something else (Mismatch) change
\* nothing and are answered 200; an expired top-up is still credited.
WebhookLocksTopUp(w, p) ==
  /\ p \in payments
  /\ txn[w].stage = "idle"
  /\ TopUpRowFree(p.topUp)
  /\ topUps[p.topUp].status \in {"pending", "expired"}
  /\ PaymentMatches(p)
  /\ txn' = [txn EXCEPT ![w] =
       [stage |-> "top_up_row", kind |-> "top_up", user |-> topUps[p.topUp].user,
        ref |-> p.topUp, amount |-> topUps[p.topUp].amount, seen |-> 0]]
  /\ UNCHANGED <<wallet, ledger, topUps, requests, sessions, payments, cardPayments>>

\* complete_top_up, second half: the wallet row, under the top-up's row.
WebhookLocksWallet(w) ==
  /\ txn[w].stage = "top_up_row"
  /\ LockWallet(w, "top_up", txn[w].user, txn[w].ref, txn[w].amount)
  /\ UNCHANGED <<wallet, ledger, topUps, requests, sessions, payments, cardPayments>>

\* wallet::top_up, where there is no Stripe key and test top-ups are on.
TestTopUp(w, u, amount) ==
  /\ ~cardPayments
  /\ txn[w].stage = "idle"
  /\ LockWallet(w, "top_up", u, NoRef, amount)
  /\ UNCHANGED <<wallet, ledger, topUps, requests, sessions, payments, cardPayments>>

\* status = 'paid' in the same transaction; a test top-up has no row.
MarkPaid(w) ==
  topUps' = IF txn[w].ref \in TopUps
              THEN [topUps EXCEPT ![txn[w].ref].status = "paid"]
              ELSE topUps

CommitTopUp(w) ==
  /\ txn[w].stage = "wallet_row"
  /\ txn[w].kind = "top_up"
  /\ ~Refused(w)
  /\ Post(w, txn[w].amount, txn[w].seen + txn[w].amount)
  /\ MarkPaid(w)
  /\ UNCHANGED <<requests, sessions, payments, cardPayments>>

-----------------------------------------------------------------------------
\* Spending: a ticket

\* wallet::purchase in the transaction that sells the listing (TicketSale).
BeginPurchase(w, u, listing, price) ==
  /\ txn[w].stage = "idle"
  /\ LockWallet(w, "purchase", u, listing, price)
  /\ UNCHANGED <<wallet, ledger, topUps, requests, sessions, payments, cardPayments>>

CommitPurchase(w) ==
  /\ txn[w].stage = "wallet_row"
  /\ txn[w].kind = "purchase"
  /\ ~Refused(w)
  /\ Post(w, txn[w].amount, txn[w].seen - txn[w].amount)
  /\ UNCHANGED <<topUps, requests, sessions, payments, cardPayments>>

-----------------------------------------------------------------------------
\* Spending: a gateway request

\* authorize_request reads the balance without a lock, so requests that start
\* together can all pass on the same money.
AuthorizeRequest(e, u) ==
  /\ requests[e].stage = "none"
  /\ wallet[u] >= MinBalance
  /\ requests' = [requests EXCEPT ![e] = [stage |-> "running", user |-> u]]
  /\ UNCHANGED <<wallet, ledger, topUps, txn, sessions, payments, cardPayments>>

\* The request ended and its usage event is inserted, before it is charged and
\* outside any transaction.
RecordUsageEvent(e) ==
  /\ requests[e].stage = "running"
  /\ requests' = [requests EXCEPT ![e].stage = "recorded"]
  /\ UNCHANGED <<wallet, ledger, topUps, txn, sessions, payments, cardPayments>>

\* wallet::charge for a recorded event.  UsageEvent::record calls it once; the
\* function promises more, that a second call for the event takes nothing, so the
\* model lets it be called again.  A cost of 0 opens no transaction.
BeginCharge(w, e, cost) ==
  /\ requests[e].stage = "recorded"
  /\ txn[w].stage = "idle"
  /\ LockWallet(w, "usage", requests[e].user, e, cost)
  /\ UNCHANGED <<wallet, ledger, topUps, requests, sessions, payments, cardPayments>>

Charged_uncapped(cost, held) == cost

Charged(cost, held) == IF cost <= held THEN cost ELSE held

CommitCharge(w) ==
  LET charged == Charged(txn[w].amount, txn[w].seen) IN
  /\ txn[w].stage = "wallet_row"
  /\ txn[w].kind = "usage"
  /\ ~Refused(w)
  /\ Post(w, charged, txn[w].seen - charged)
  /\ UNCHANGED <<topUps, requests, sessions, payments, cardPayments>>

-----------------------------------------------------------------------------
PayIn ==
  \/ \E t \in TopUps, u \in Users, amount \in Amounts : BeginTopUp(t, u, amount)
  \/ \E t \in TopUps : StripeOpensSession(t)
  \/ \E t \in TopUps : ExpireTopUp(t)
  \/ \E p \in Payment : StripeTakesPayment(p)
  \/ \E w \in Workers, p \in Payment : WebhookLocksTopUp(w, p)
  \/ \E w \in Workers : WebhookLocksWallet(w)
  \/ \E w \in Workers, u \in Users, amount \in Amounts : TestTopUp(w, u, amount)
  \/ \E w \in Workers : CommitTopUp(w)

Spend ==
  \/ \E w \in Workers, u \in Users, l \in Listings, price \in Amounts :
       BeginPurchase(w, u, l, price)
  \/ \E w \in Workers : CommitPurchase(w)
  \/ \E e \in Events, u \in Users : AuthorizeRequest(e, u)
  \/ \E e \in Events : RecordUsageEvent(e)
  \/ \E w \in Workers, e \in Events, cost \in Amounts : BeginCharge(w, e, cost)
  \/ \E w \in Workers : CommitCharge(w)

Next == PayIn \/ Spend \/ \E w \in Workers : Refuse(w) \/ Fail(w)

Spec == Init /\ [][Next]_vars

\* A transaction that has its rows comes to its end; PostgreSQL grants a row lock
\* its waiters queue for; Stripe repeats a report until it is answered 200, and the
\* database does not fail for ever.  Nothing makes a customer or a request act.
Fairness ==
  /\ \A p \in Payment : SF_vars(\E w \in Workers : WebhookLocksTopUp(w, p))
  /\ \A w \in Workers : SF_vars(WebhookLocksWallet(w))
  /\ \A w \in Workers :
       WF_vars(CommitTopUp(w) \/ CommitPurchase(w) \/ CommitCharge(w) \/ Refuse(w))
  /\ <>[][\A w \in Workers : ~Fail(w)]_vars

FairSpec == Spec /\ Fairness

-----------------------------------------------------------------------------
\* Properties

\* The types of the tables, and every balance is one the column can hold.
TypeOK ==
  /\ wallet \in [Users -> 0..MaxWallet]
  /\ ledger \in [Users -> Seq(Row)]
  /\ topUps \in [TopUps -> TopUpRow]
  /\ requests \in [Events -> Request]
  /\ txn \in [Workers -> Txn]
  /\ sessions \subseteq TopUps
  /\ payments \subseteq Payment
  /\ cardPayments \in BOOLEAN

\* Two-phase locking does its work: the balance a transaction read under the row
\* lock is still the balance until that transaction ends, and no two open
\* transactions hold one wallet row.
ReadsStayCurrent ==
  /\ \A w \in Workers : txn[w].stage = "wallet_row" => txn[w].seen = wallet[txn[w].user]
  /\ \A v, w \in Workers :
       v # w /\ txn[v].stage = "wallet_row" /\ txn[w].stage = "wallet_row"
         => txn[v].user # txn[w].user

\* The balance right before row i of a ledger (after its last row for i = Len + 1).
Before(rows, i) == IF i = 1 THEN 0 ELSE rows[i - 1].after

\* What one row did to the balance before it.
Moves(row, before) ==
  IF row.kind = "top_up" THEN row.after = before + row.amount
                         ELSE row.after + row.amount = before

Explains(rows, held) ==
  /\ held = Before(rows, Len(rows) + 1)
  /\ \A i \in 1..Len(rows) : Moves(rows[i], Before(rows, i))

\* The ledger explains the wallet: each row starts from the balance the one before
\* it left, moves it by its amount in the direction of its kind, and the last one
\* leaves what the wallet holds.  No movement is lost however two transactions of
\* one user interleave, and no debit takes more than was there.
LedgerExplainsWallet == \A u \in Users : Explains(ledger[u], wallet[u])

\* A card payment, a ticket and a usage event each move money at most once, in the
\* whole ledger: redelivered and simultaneous webhooks, a second charge of one
\* event, two buyers of one listing.
MovedOnce ==
  \A u, v \in Users : \A i \in 1..Len(ledger[u]), j \in 1..Len(ledger[v]) :
    /\ ledger[u][i].ref # NoRef
    /\ ledger[u][i].ref = ledger[v][j].ref
    /\ ledger[u][i].kind = ledger[v][j].kind
    => u = v /\ i = j

\* Every card credit is backed by a payment Stripe took for that very top-up and
\* amount, and is in the wallet of the customer who asked for it.
CreditsAreBacked ==
  \A u \in Users : \A i \in 1..Len(ledger[u]) :
    LET row == ledger[u][i] IN
    row.kind = "top_up" /\ row.ref # NoRef =>
      /\ topUps[row.ref].user = u
      /\ topUps[row.ref].amount = row.amount
      /\ \E p \in payments : p.topUp = row.ref /\ p.paid = row.amount

\* A top-up reads paid exactly when the ledger holds its credit, whatever expiry,
\* crash or redelivery came in between.
PaidIffCredited ==
  \A t \in TopUps : topUps[t].status = "paid" <=> Posted("top_up", t)

\* complete_top_up, expire_top_up and the ledger's unique indexes, together: what Stripe took is
\* credited once, to the one who paid it, and the top-up says so.
TopUpsAreSound == MovedOnce /\ CreditsAreBacked /\ PaidIffCredited

Abstract ==
  INSTANCE AbstractWallet WITH
    Movements <- Kinds \X Refs,
    balance <- wallet,
    settled <- {m \in Kinds \X Refs : Posted(m[1], m[2])}

\* The wallet implements its promise: every commit is one credit or debit of the
\* abstract wallet, every other step changes nothing a customer can see.
ImplementsAbstractWallet == Abstract!Spec

\* A payment Stripe took for what the top-up asked is credited in the end, also
\* when the row expired before the report came.
HonestPaymentsAreCredited ==
  \A t \in TopUps :
    (\E p \in payments : p.topUp = t /\ PaymentMatches(p))
      ~> topUps[t].status = "paid"
=============================================================================

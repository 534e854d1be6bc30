# Hub William in TLA+

Specifications of the parts of Hub William (`src/`) where being wrong costs money, an
account or a customer's order, with the TLC runs that check them on small instances and the
proofs TLAPS checks for every instance. Every definition is translated from the Rust code,
the SQL migrations and, for the browser's session, the TypeScript client; `PROJECT.json`
names, for each one, the lines it stands for.

    tlc -workers 2 -config tickets.cfg MCTicketSale.tla     # one run
    tlapm MoneyProofs.tla                                   # one module of proofs

## 1. Inventory

Hub William lets people share AI accounts: an owner connects provider accounts (ChatGPT,
Claude, Gemini, Grok, DeepSeek, Groq), and clients use them through one gateway. A staff-run
business sits on top: a prepaid wallet, tickets that sell an account for some days, and a
Telegram shop. One API process (axum, tokio) over one PostgreSQL at READ COMMITTED does the
work; during a deployment two processes overlap. Next to nothing durable is cached in memory
(the model list is), so the difficulty is in the database transactions that interleave, in the
seconds-long calls to providers between a read and a write, and in handlers that are dropped
when their client goes away.

| Component (under `src/apps`) | State it keeps | Operations | Talks to | What makes it hard | What makes it correct |
|---|---|---|---|---|---|
| Service wallet, Stripe (`api/src/api/service/{wallet,stripe,billing,money}.rs`) | `service_wallets`, `service_ledger`, `service_top_ups` | begin / complete / expire a top-up, buy, charge | Stripe webhooks; tickets and metering debit it | redelivered, reordered and simultaneous webhooks; a session opened whose answer is lost; requests admitted on the same money | the ledger explains the balance; nothing moves twice; credits are backed by payments |
| Tickets (`service/listings.rs`, `dashboard/service_listings.rs`, ticket keys in `gateway/keys.rs`) | `service_listings`, ticket rows of `gateway_keys` | list, edit, delete, buy, reissue | wallet, provider probe | a probe lasting seconds between the reads and the writes | a sale is paid, keyed once, and on one pair of terms |
| Usage metering (`gateway/usage.rs`, ends of `proxy.rs`, `providers/gemini.rs`) | `gateway_usage_events`, `organization_usage_events` | observe a body, finish, drop, record, charge | wallet, organizations | the end of a body races the client's leaving; writes fail one by one | one event per answer, the right tokens, one charge |
| Credentials (`agent/connections/{refresh,sweeps,credentials}.rs`) | `agent_connection_credentials`, `_authorizations`, the mark on `agent_connections` | refresh (seven modes), sweeps, nightly, mark, reconnect, expire | providers' token endpoints; the gateway | one-time refresh tokens; lost answers; kills; rows locked in two orders | the stored token is the live one; marks rest on current evidence |
| Connecting (`agent/connections/{authorize,manage}.rs`) | `agent_connections` | start and finish a sign-in, merge, transfer, disconnect | providers' sign-in pages; pools, organizations | owner and identity are read before the lock; two sign-ins to one account | one connected row per account, which changes hands only by a sign-in |
| Agent pools (`agent/pools`) | `agent_pool_join_requests` | join, invite, decide, remove | connections; the gateway | decisions of an owner who has just lost the account | a member is its owner's choice |
| Gateway routing (`gateway/{selection,proxy}.rs`, `providers/gemini.rs`, `voice.rs`) | availability columns of `agent_connections` | list, claim, send, mark, release, retry | connections, pools, keys | half-open probes, cooldowns, late results, clients that leave | one probe at a time; a limit ends early only by its owner or by the answer to a request that listed before it; failover reaches every account |
| Telegram shop (`telegram/*.rs`, `dashboard/{orders,stock}.rs`) | `telegram_products`, `_orders`, `_payments` | order, cancel, settle, pay by hand, restock, edit, delete | SePay, the adapter, staff | bank reports repeated and racing staff; orders that expire while paid | an order is settled once by one covering transfer and takes its stock once |
| Telegram adapter (`telegram/src`) | chat sessions in memory; contacts | webhook, taps and messages, stock room, broadcast, paid notice | API, Telegram | updates delivered again; a message that means what was asked before; broadcasts that overlap a restart | only what an owner sent is written; nobody hears of stock that was not added |
| Organizations (`organizations/mod.rs`) | organizations, memberships, the default, shared accounts | create, invite, accept, leave, remove, delete, share, choose | connections (foreign keys, transfer trigger) | check-then-write between transactions; two unique indexes | every link is backed by its owner's membership; one owner, one default |
| Login sessions (`auth/mod.rs`, `web/.../auth-service.ts`) | `sessions`, two cookies | sign in, refresh, renew, sign out | every other handler | tabs that share cookies; answers lost or out of order | nobody is thrown out; a sign-out ends the session |
| Gateway access (`gateway/keys.rs`, `service/keys.rs`, `core/rate_limit.rs`, `limits.rs`) | `gateway_keys`, token buckets in memory | make, present, revoke a key; take, peek, sweep | routing | buckets are dropped and refilled lazily; keys are counted before the insert | a client gets what it has earned, no more and no less |
| Dashboard staff (`dashboard/{staff,access}.rs`) | `dashboard_staff` | authorize, add, change, remove | the dashboard's handlers | two owners acting on each other | two owners who act on each other's rows leave one |
| Model list (`gateway/{models,catalogue}.rs`, `playground`) | a cache of the providers' documentation | list, fetch | documentation pages | slow and failing fetches | what is shown is current within an hour |
| Dashboard reports, images, push; reset credits; reel; tts; front ends | little or none | | | | not modelled (section 5) |

The hazards, each at its line and with the properties that would catch it, are listed in
`PROJECT.json`.

## 2. Modules

A component has a module; an `MC...` module gives it the finite values of an instance; a `.cfg`
is a run; a `...Proofs` module holds its theorems. How handlers are cut into steps is the same
everywhere: a step ends where another handler can interleave, that is at an await with no lock
held, at a lock that is waited for, and at a commit. What a handler read stays in its record
(`task`, `caller`, `txn`, `worker`, `desk`, ...) and may be stale. Row locks are read off the
stages of the handlers that hold them. What a transaction wrote is seen by others when it
commits. Histories (`lost`, `spent`, `switched`, ...) are marked as such: no guard reads them.

**AbstractWallet** is what the wallet promises: balances between zero and `MaxWallet`,
whole credits and debits, each identified movement at most once. `ServiceWallet` implements
it. `TicketSale` and `UsageMetering` use it as their wallet, so they compose with the detailed
one without carrying its locks.

**ServiceWallet.** A transaction is the steps at which others interleave: taking the top-up's
row, taking and reading the wallet's row (`lock`), and the commit. `txn[w]` is what worker
`w`'s open transaction holds; the unique indexes of the ledger are `Posted`. Stripe is the
environment: it opens sessions, takes money and reports it any number of times (`payments`
only grows). `Fail` is a statement, commit or process that dies. `AuthorizeRequest`,
`RecordUsageEvent`, `BeginCharge`, `CommitCharge` are the pay-as-you-go path; a cost is capped
by what is left (`Charged`). The locks cannot deadlock because a webhook takes its two rows in
one order, which the deadlock check confirms.

**TicketSale.** Listing and buying read, ask the provider for seconds (stage `listing` /
`buying`), begin a transaction (`NOW()` is fixed there), lock the listing's row and commit.
Accounts change state under it (`Surroundings`). The evaluation of a locked row's condition
after a wait is atomic here.

**UsageMetering.** One request per path (`sse`, `json`, `gemini_sse`, `gemini_json`) with its
observer, the guard's `pending` flag and the recordings under way as `jobs`, each of up to
three writes that fail one by one. A body is abstracted to reports of usage and a marker.

**CredentialRefresh.** One connected OAuth account. `cred` is its credential (tokens are
numbers; `due`, `expiring`, `idleDay` say which clocks have run out), `conn` its availability
and message, `prompt` its reconnect prompt. `caller[c]` is anything that works on them. A
refresh is: list, lock the credential and judge again, ask, write the credential, write the
connection, delete the prompt, commit. The provider (`issued`, `honoured`) may rotate the
refresh token or keep it, refuse, fail, or have its answer lost. The two transactions that lock
connection and prompt in opposite orders can meet, and PostgreSQL ends either
(`RefreshAborted`, `SettlerAborted`).

**AgentConnections.** The rows that CredentialRefresh takes for granted: several accounts of
one provider, with their owners and pools. `finish_connection` is taken statement by statement:
the identity check and the owner are read first, then the advisory lock on the account's
identity is taken, then rows are merged, transferred or connected. `joinRequests[r]` is the pool of
row `r`; a pool handler is two steps with the lock it keeps in between, if it takes one.

**GatewayRouting.** `request[r]` lists its candidates once and walks them; `Scopes[r]` are the
sets of accounts a caller of `r` may reach (its own, its pools', its organization's, the one
account of a ticket). Time enters through its effects: `limited` becomes `due`, a claim becomes
`stale`. `overstayed` remembers a probe older than its claim's five minutes, after which a
second one is allowed.

**TelegramShop.** `worker[w]` is a request inside its transaction: the payment row is inserted,
the order was matched under `FOR UPDATE SKIP LOCKED`, staff hold the order, a product is being
deleted, an answer is on its way. `placed` is the order of the orders, because settlement takes
the oldest match.

**TelegramChat.** `pending[p]` is what the next plain message of a person means, and `owners`
whom `Owners::includes` would let in now. An update is sent first (`Sends`) and delivered then, once
or again after a failed or unanswered webhook. It carries its sender's name, so what
`Owners::includes` says of it (`owner`) is settled when it is sent, however late it is delivered:
the check before a write, of which a comment says that losing owner status stops it, stops a message
sent after that, not an older one that is delivered again. A handler reads the sessions, calls the API, and
then changes the sessions. `asks` remembers what the buttons that owners tapped asked for. Broadcasts run on
beside them and end with the process.

**Organizations.** Handlers whose every read is under a lock they keep are one action, enabled
while their rows are free; sharing an account and the three callers of
`make_default_organization` are taken statement by statement. Foreign keys and the trigger on
transfers are part of the actions that set them off.

**Sessions.** `row` is the table, `jar` the browser's cookies, `tab[t]` a request carrying the
cookies of the moment it was sent, or its answer. Answers change the jar in any order, or never
arrive.

**Staff.** `desk[d]` is a handler of an owner. The statement that locks the owners has its
snapshot, its wait, and its second look at the rows it waited for, but not at others. `saw` names
rows of that snapshot by their persons for as long as the rows are there: when a row is deleted every
other handler forgets it (`Forgets`), so that one inserted again for the same person is neither
locked nor returned.

**GatewayAccess.** A bucket is refilled when it is touched and dropped when a sweep finds it
full. `spent` is a table that forgets nothing and is refilled every tick, which the buckets must
agree with. A call passes the limiter, the handler that reads the key, and the limiter again
with the answer. All the limiter learns from it is whether the key was refused: a handler that
answers before it authorizes, or whose database fails, says nothing (`AnswersUnjudged`), and the
limiter takes that for the first use of a key (`FirstUse`). `unrefused` remembers the strings that
came with such requests or with ones that worked.

**ModelCatalogue.** `docs` is the published copy, `docsCache` the shared one, `reader[r]` a
request, which serves from the cache, or fetches and stores. The voice-call models that the Playground
adds after the lists are intersected are constants and left out.

**Access** puts together five components that share no state (organizations, sessions, staff,
gateway access, the model list): `part`, chosen in the initial state, says which one moves, so
each is explored as fully as by itself. `MCAccess` is its instance. `MCLive` (wallet, metering, chat),
`MCWalletAndConnections` and `MCRoutingAndChat` do the same for other components, which they extend with
a `part` of their own; one that rests stays in an initial state.

## 3. Runs

| Run | Asks | Properties | Result |
|---|---|---|---|
| `wallet_connections` | Do two workers over every movement of two wallets keep the books, and implement `AbstractWallet`? Is a provider account one connected row that its owner keeps, with the members its owner chose? | `TypeOK`, `ReadsStayCurrent`, `LedgerExplainsWallet`, `TopUpsAreSound`, `ImplementsAbstractWallet`; `ConnTypeOK`, `OneConnectionPerIdentity`, `AccountIsKept`, `MembersAreOwnersChoice` | holds |
| `live` | Is an honest payment credited in the end, an abandoned request recorded, and everyone tried that a broadcast is for? One event per answer, exact when completed, charged from the event? | `MeteringTypeOK`, `EventsAreSound`, `HonestPaymentsAreCredited`, `AbandonedIsRecorded`, `EveryoneIsTried` | holds |
| `tickets` | Is every sale paid, keyed, once, final, on one pair of terms, whatever the seller does meanwhile? | `TypeOK`, `SalesAreSound`, `SaleStands` | holds |
| `tickets_relist` | Is an account held by one customer at a time, as a comment says? | `OneCustomerPerAccount` | violated |
| `shop` | One covering transfer per order, stock taken once, nothing lost for a human, told once, final? | `TypeOK`, `SettlementIsSound`, `OrderIsFinal` | holds |
| `shop_oversell` | Does the reservation stop two buyers taking the last unit, as a migration says? | `TwoBuyersOneUnit` | violated |
| `refresh` | Is the stored token the live one, a dead login never served, an overdue account asked for once, a mark always on current evidence, a return always with a new token? | `TypeOK`, `CredentialIsSound`, `MarkedOnEvidence`, `ReturnsWithANewToken` | holds |
| `refresh_rotation` | Is a rotated token never rolled back, as a comment says? | `RotationIsKept` | violated by a deadlock |
| `routing_chat` | One probe of an account at a time and none left behind, failover to every account within the budget, cooldowns that last? Is only written to the stock room what an owner sent and was asked for, and does nobody hear of stock that was not added? | `RoutingTypeOK`, `ProbesAreHeld`, `FailoverReachesAll`, `CooldownHolds`; `ChatTypeOK`, `OwnersOnly`, `AnnouncedWasAdded` | holds |
| `access` | Organizations: backed links, one owner, one default that is kept. Sessions: nobody thrown out, a sign-out that works. Staff: no owner is taken from a row that was seen, nor while another one is held. Limits: neither more nor less than earned. Model list: current. | `AllTypesOK`, `OneOwnerOneDefault`, `EveryLinkCounts`, `DefaultIsKept`, `PersonCanGoOn`, `SignOutEndsTheSession`, `OwnerKept`, `LimitsHold`, `ShownIsCurrent` | holds |
| `staff_owner` | Does the shop always have an active owner, as the docs say? | `ShopHasAnOwner` | violated |
| `limits_guesses` | Do only keys that have worked get a bucket, as a comment says? | `RandomStringsAreNotCounted` | violated |

`SalesAreSound`, `EventsAreSound`, `SettlementIsSound`, `TopUpsAreSound`, `CredentialIsSound`,
`LimitsHold` and the like are conjunctions of named invariants, each with a comment of its own
in its module.

What the five violations show is told under `findings` in `PROJECT.json`, each with the sentence
of the repository it contradicts. In short: `tickets_relist` needs two listing requests and a
sale inside one probe; `shop_oversell` uses that `create_order` reads and inserts without a lock;
`refresh_rotation` needs an expired prompt settled during a forced refresh, which has no savepoint;
`staff_owner` needs somebody who becomes an owner between the snapshot of a statement that locks the owners
and the end of its wait for one who is demoted: it then returns nobody, and "nobody" is not refused;
`limits_guesses` needs one answer that was given before the key was read.

**Bounds.** Two workers, callers, handlers, tabs or desks are what every hazard listed needs: each
is a race of two, and a third party (Stripe, SePay, a provider, time, staff) is an action of its
own.

- `wallet_connections`, the wallet: 2 users, 2 top-ups, 1 metered event, 1 listing; amounts {1, 2},
  `MinBalance` 1 and `MaxWallet` 3 make a wallet run out and overflow. `live` keeps one of each, and
  `MaxWallet` 2; its metered request makes up to two reports of usage. Requests share nothing but
  the wallet.
- `tickets`: a seller and two customers, one account, two listings of it, two keys. Two terms, one
  cheap and one dear, let price and days come from different edits; one tick lets a key end. The
  constraint `StaffStayPoor` drops behaviours in which staff put money into wallets of their own,
  which nothing reads. `tickets_relist` needs one customer and no tick.
- `shop`: two orders and two transfers let a note name both and a transfer find its order taken; one
  product, since orders of different products share nothing. Stock 1 makes it run out.
- `refresh`: two issued tokens give a request its first rejection, a rotation and a second
  rejection, or a rotation under a newer sign-in. The account is Gemini's (probed and challenged) or
  Grok's (prompts declined while open), which covers what ChatGPT's and Claude's can do.
- `routing_chat`, the routing: two accounts, and two requests, from a browser that reaches both and
  with a ticket key that reaches the first, so that the budget of two sends is used up on the way to
  the second; ChatGPT's and Gemini's paths differ, and every other provider's is one of them.
- `wallet_connections`, the connections: three users who sign in, one of whom also asks to join; two
  provider accounts and two rows, so that rows meet on one account, and one account meets on two
  rows. A row's id is taken again once nothing refers to it.
- `routing_chat`, the chat: an owner and a buyer, one product, two handlers, two broadcasts, three
  updates of up to two deliveries: one more than a prompt and its answer, each of which may be
  repeated, with the name changing hands at any point. The shop is new, or has both a product and
  people who know it.
- `live`, the chat: one handler and one broadcast at a time, which liveness, with no symmetry, needs
  to be small. Broadcasts do not hinder one another, and nothing but a restart ends one early.
- `staff_owner` and `limits_guesses` need two handlers and, for the first, two people.
- `access`: two users, organizations, connections and workers; two tabs, two logins of three tokens;
  three people, one an owner who is switched off, and two desks; one key, one guess and two calls
  from one address against buckets of one token, half of which a tick refills, swept every second
  take, over three ticks, which see a bucket emptied, refilled and swept; three copies of the
  documentation over four ticks, with a lifetime of two and fetches of at most one.

Symmetry is used only in runs without liveness; where two components of a run have interchangeable
values, they are given the same ones, so that a swap is applied to both. `tickets`,
`tickets_relist`, `live` and `access` stop when their ids, updates, ticks or tokens are used up, so
their cfgs turn the deadlock check off, as do those of `staff_owner` and `limits_guesses`; it is on
everywhere else.

**Fairness.** Only `live` assumes any. A transaction that holds its rows ends (tokio runs
it), a lock waiter is served (PostgreSQL queues them), Stripe repeats a report until it is answered
200, and the database does not fail for ever (`Fairness`); a spawned recording runs on, and hyper
drops the body of a closed connection (`MeteringFairness`). Nobody has to start anything, and no
provider has to finish an answer. `AbandonedIsRecorded` excepts a failed insert and a crash, which
nothing in the code repairs. A broadcast's task, once spawned, runs on (`ChatFairness`, weak
fairness of each one's next send); it may still end with the process, and a send may fail, so
`EveryoneIsTried` says that every contact is tried or the process ended.

## 4. Proofs

Each module's theorems hold for any values of its constants that satisfy its assumption: any
numbers of users, rows, handlers and ids. None of the invariants the runs check is inductive as it
stands; each proof has a stronger one that ties what a handler has read to the rows it goes by.

**MoneyProofs, the wallet**: type correctness, the wallet's safety invariants, and that it implements
`AbstractWallet`. `WalletInv` adds `TxnIsSound` (an open transaction's record fits its kind),
`RowsHaveOwners` (a top-up or request that exists has its user) and `OpenTopUpIsOwed` (no two
transactions hold one top-up, and the one held is unpaid, for the amount and user of its row, and
backed by a payment). With these, a commit (`CommitPosts`, `PostKeepsLedger`) appends one row that
moves the balance from what was read under the lock, which `ReadsStayCurrent` says is still the
balance; `PostEffect` and `ExplainsAppend` reduce the ledger invariants to that one row. Steps that
touch neither ledger nor wallet are dismissed by `QuietLedger` and `QuietCredits`. In the refinement
each commit is a credit or debit of `AbstractWallet` and every other step stutters.

**MoneyProofs, metering**: an answer has at most one event, with the tokens it reported, and one charge,
borne out by the event. `MeteringInv` follows an answer from its observer to its rows: `AnswerFits` (while
the body is open or the guard is armed, nothing of it is recorded), `EventFits`, `JobFits` (a recording that
is about to charge has written its event), `ChargeFits`, and `OneEvent` and `OneJob`, which say that of all
events written or still to be written there is one for an answer. `MeteringImplementsWallet` shows that
its charges are `AbstractWallet`'s, as `SalesUseTheWallet` does for tickets.

**TicketSaleProofs**: a sale is whole, on one published pair of terms, and stands; a wallet pays only for
a sale. `SaleInv` adds to `SalesAreSound` what the stale readings are still good for (`TasksFit`): the
terms a buyer read were offered on that listing, a listing that was read cannot be made anew, and one
whose row is locked is unsold and locked once. `SalesUseTheWallet` shows that this module's wallet is
`AbstractWallet`, so with `ServiceWallet`'s refinement the two compose.

**TelegramShopProofs**: an order is settled by one transfer that covers it or by staff, no payment is
lost, paid and cancelled are final. `ShopInv` has `WorkersFit`: the order a request settles still awaits
payment and is covered by the transfer the request carries, that transfer is not recorded, and no two
requests are `Rivals` for an order, a transfer or an answer. `LinksFit` ties payments and orders both
ways and says that a transfer which settled nothing passed over only orders that were held. The general
steps `WorkerMoves`, `OrdersMove`, `StockMoves` and `Settlement` are proved once and every action is an
instance of one of them.
`ShelfInv` is about the units: `UnitsAccountedFor` and, for a product that is gone, an empty shelf
(`GoneIsEmpty`). Its sum over the paid orders is a fold over a set, a recursive function picked by `CHOOSE`:
that there is one (`FoldExists`), what it adds up to (`FoldAddsUp`) and that it does not depend on the set it
was defined over (`FoldsAgree`) are proved by induction on the number of elements. The library's induction
theorems take an operator, which no prover here can instantiate; `Induction` gets the same for a set of
numbers from `<` being well founded on `Nat`.

**CredentialRefreshProofs**: the stored credential is sound, marks rest on evidence, returns bring a new
token. `RefreshInv` has `CallersFit` (only one caller holds the credential; what it has from the provider is
the last token issued, newer than the stored one, and honoured; the tokens that requests carry are the
stored one or older, and a request refused twice was refused with two) and `AsksFit` (an account that was
asked for and is still due is being refreshed by somebody who recorded the ask). That access tokens only
grow is what lets a stale reading be compared with the row under the lock.

**AgentConnectionsProofs**: one connected row per provider account, accounts that are kept, members
that their owner chose. `ConnInv` has `TaskFits`, what each handler has read that still holds under
the locks it has; `TargetIsIt`, the row a merge goes to is the connected row of that identity;
`IdentityLasts`, which excepts the rows in `switched`; and the distinctness of identities, which
the advisory lock protects between the search and the commit.

**GatewayRoutingProofs**: probes are held by one request and left behind by none, failover reaches every
account, cooldowns last. In `RoutingInv`, `RestFits` keeps one send in the budget for every candidate that
is to come; `OwedOne` says that an account a request still owes a try is as it was listed and among the
candidates to come; `ProbesFit` and `ClaimsFit` tie a half-open account to the request that claimed it,
except where the probe has outlived its claim. The rule that moves a preferred candidate to the front
(`Preferring`) is a permutation of the list, and is proved to be one.

**TelegramChatProofs**: only what an owner sent, and was asked for, is written, and nobody hears of stock
that was not added. `ChatInv` follows what a button asked for through the session (`AwaitedWasAsked`) to the
handler that writes it (`WasAsked`), whose update was an owner's when it was sent (`HandlerFits`). It counts
news (`NewsIsBacked`): for every person and product, what was heard, what broadcasts still owe and what handlers
are about to announce add up to no more than the units added, whatever restarts or is delivered again.

**AccessProofs** has the five components of `Access`, one part each, and the composition.

*Organizations*: links count, the unique indexes are never run into, a default goes only with
its membership. `OrgInv` has `DefaultsFit`, `OwnersFit`, `TaskFits` and `Apart` (no two handlers are
in the locked part of one user's default or of one account).

*Sessions*: nobody is thrown out, and a sign-out ends its session. `SessionsInv` has `AnswersFit` (a new
refresh token on its way to the jar is the one its session has now, and nobody else has it yet), `JarFits`
(the jar has its session's token, or the one before while that one is on its way), `RowsAreLockedOnce` and
`RefreshFits` (a refresh under way holds an open row, whose token is the one it came with).

*Staff*: the last owner is taken in one way only, whatever the owners do to each other. `StaffInv` adds
`TasksAreSound`, `RowsAreThere` (what a handler has seen are rows that are still there, by way of
`ForgetsOne`), `LocksAreExclusive` and `AnotherOwnerIsHeld`: a handler that is about to take the
role of an owner it has seen holds the row of another one, which nobody else can change until it
commits. What `OwnerKept` leaves open, a locking statement that returns nobody, is what `staff_owner` finds.

*Gateway access*: the limits hold and the keys of a user stay capped. `AccessInv` compares
each bucket, as it would be if it were refilled now, with `spent`, the table that forgets nothing;
that dropping a full bucket changes nothing is the heart of it, and a string has a bucket of its own only
if it is in `unrefused`. `KeysInv` bounds the active keys of a
user by the limit plus the creations under way, the real bound of a check that is made before the
insert.

*Model list*: what is shown is current. `CatalogueInv` dates every copy: the one in the cache was still
published a fetch before it was kept (`CacheWasCurrent`), and a fetch under way reads one that was published
since it began (`FetchFits`).

*Composition*: `ComponentsKeepApart` shows that each part of `Access` behaves as its own specification says,
so that every theorem above holds of the whole; `AllTypesHold` is one consequence.

**Assumptions.** The theorems rest on the assumptions their modules name. Most are that bounds are positive
and that the value standing for "nobody" is not somebody (`"none" \notin Logins`, `NoOrder \notin Orders`).
Those of finiteness (`TelegramChat`'s handlers and broadcasts, `TelegramShop`'s orders) are what a running
process has at any time, and are there because the proofs count.

**What is only model-checked.** Every invariant and action property of the passing runs is a theorem.
Liveness (`HonestPaymentsAreCredited`, `AbandonedIsRecorded`, `EveryoneIsTried`) needs `ENABLED` and fairness,
which this prover cannot reason about, and stays with TLC. The five violations are TLC's by nature.

## 5. Not modelled, simplifications, and what does not hold

Left out of all modules: signatures, prices of models, provider formats, how requests are rewritten,
wording, images, names and avatars, passwords and Turnstile: data no property tells apart.

- Dashboard revenue, images and push, reel, text to speech and the front ends have no durable state
  with more than one writer. The use of a reset credit (`agent/usage.rs`) stores nothing here; a
  retry after a lost answer can spend a second one, and nothing could tell.
- Registering makes a session as logging in does. Usage tables of organizations are UsageMetering's.
  Playground chats are stored by single statements.
- The voice gateway's recording and the quota snapshot are outside UsageMetering.

Known behaviours that are no property, because nothing in the repository promises otherwise or the
promise is about something else:

- Metering: a JSON answer read to its end but not completed is recorded with no tokens, though
  `gateway.md:356` says it keeps its usage (`StreamsKeepUsage` is about streams). A Gemini JSON answer
  whose handler is dropped between insert and charge is recorded and not charged.
- Wallet: two requests may both be admitted on one balance; the charge is capped.
- Shop: an order can be placed while its product is deleted; it is settled by hand. A SePay answer that
  is lost after the API settled leaves the buyer untold.
- Refresh: a prompt opened on a refusal that a newer sign-in has overtaken, or a `fail_connection`
  dropped between its statements, leaves a good account waiting for its owner.
- Connections: two completions of one prompt with different provider accounts race past the identity
  check (`switched`). An owner can keep a join request on what is now its own pool. A stale owner read
  can give an account back to a former owner, whose sign-in it was. A former owner's removal of a member
  is not locked.
- Routing: Gemini paths that return early with `?` do not release a probe, though `gateway.md:147` says a
  probe that ends without success or 429 is released; the claim goes stale after five minutes.
- Chat: a taken slug is answered 409, which the adapter takes for a failure, so the message about it is
  never sent; every failure of Telegram is 503, so a chat that blocked the bot is not told apart. A
  message delivered again after a lost answer orders or restocks twice. Clearing an expectation may
  clear a newer one.
- Chat: an owner's message that is delivered again after the name changed hands still writes, as it would
  have the first time.
- Limits: requests that pass the peek together all fail before the budget is spent; the counts are per
  process. The limit on keys is checked before the insert.
- Staff: authorization is read before the change; `change_role` and `add_staff` answer 404 if the member
  is removed before they read it back.
- Sessions: a late answer of an earlier login can overwrite newer cookies; a rotation whose answer is lost
  ends the browser's session after the grace period; a sign-out overtaken by two refreshes leaves the row;
  `logout` ignores a failing DELETE.
- Organizations: choosing a default whose membership ends meanwhile can lose the old one.
- Model list: a slow fetch can overwrite a newer copy, for at most the lifetime of a copy and the time of a
  fetch, which is what `ShownIsCurrent` says.

## 6. What would come next

1. `GatewayRouting` over `CredentialRefresh`: the availability of several accounts, whose marks and
   returns are now an environment of routing.
2. Voice recordings and the quota snapshot in `UsageMetering`.

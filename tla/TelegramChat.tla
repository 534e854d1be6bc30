----------------------------- MODULE TelegramChat -----------------------------
(***************************************************************************)
(* The Telegram adapter (apps/telegram): what the next message of a person *)
(* means, the stock room its owners work in from a chat, and the messages  *)
(* it sends to everyone.                                                   *)
(*                                                                         *)
(* Telegram delivers an update until the webhook answers it.  An update    *)
(* carries the id and the username its sender had when it was sent, and it *)
(* is these that the owner lists are asked about, however late it is       *)
(* delivered.  A handler reads the sessions first, calls the API, which    *)
(* owns all that lasts, and then changes the sessions.  Orders, payments   *)
(* and the size of the stock are in TelegramShop.                          *)
(***************************************************************************)
EXTENDS Naturals, FiniteSets

CONSTANTS
  People,         \* who may write to the bot; a person is a chat
  Owners,         \* whom Owners::includes may let in: a username changes hands
  Products,
  Handlers,       \* updates under way at the same time, handled or waiting to be delivered again
  Casts,          \* broadcasts running at the same time
  MaxUpdates,     \* bound: updates that are sent
  MaxDeliveries,  \* bound: deliveries after which Telegram gives an update up
  NoOne, NoProduct

ASSUME TelegramChatAssumption ==
  /\ Owners \subseteq People /\ {MaxUpdates, MaxDeliveries} \subseteq Nat \ {0}
  /\ NoOne \notin People /\ NoProduct \notin Products
  /\ IsFiniteSet(Handlers) /\ IsFiniteSet(Casts)

VARIABLES
  pending,   \* Sessions: what the next plain message of a person means
  owners,    \* the people the owner lists name now
  product,   \* telegram_products: whether there is one with this slug
  sent,      \* updates that were sent to the bot
  worker,    \* the updates under way
  contacts,  \* telegram_contacts: who has written
  cast,      \* the broadcasts under way
  added,     \* history: how often units of a product were put on the shelf from a chat
  heard,     \* history: how often a person was told of that
  asks       \* history: what the buttons that owners tapped have asked them to write

chatVars == <<pending, owners, product, sent, worker, contacts, cast, added, heard, asks>>

Taps == {"catalog", "restock", "price", "new", "open", "toggle", "admin", "cancel"}
Acts == {"none", "expect", "clear", "order", "restock", "adjust", "create", "createEmpty"}
StockWrites == {"restock", "adjust", "create", "createEmpty"}
Pending == [kind : {"none", "quantity", "restock", "price", "new"}, product : Products \cup {NoProduct}]
Nothing == [kind |-> "none", product |-> NoProduct]

\* owner: whether Owners::includes what the update says of its sender.
Update ==
  [by : People \cup {NoOne}, op : Taps \cup {"text"}, about : Products \cup {NoProduct}, owner : BOOLEAN]

\* waiting: to be delivered, for the first time or again.  act: what the handler does, to product; result: what
\* call_api returned.
Worker ==
  [stage : {"idle", "waiting", "calling", "called"}, update : Update, deliveries : 0..MaxDeliveries,
   act : Acts, product : Products \cup {NoProduct}, result : {"done", "missing", "taken", "failed"}]
NoUpdate == [by |-> NoOne, op |-> "text", about |-> NoProduct, owner |-> FALSE]
IdleHandler ==
  [stage |-> "idle", update |-> NoUpdate, deliveries |-> 0, act |-> "none", product |-> NoProduct,
   result |-> "done"]

\* of: the product it is about, or NoProduct for a message of the dashboard; owed: not sent to yet.
Cast ==
  [stage : {"none", "spawned", "sending"}, of : Products \cup {NoProduct}, owed : SUBSET People]
NoCast == [stage |-> "none", of |-> NoProduct, owed |-> {}]

ChatInit ==
  /\ pending = [x \in People |-> Nothing]
  /\ owners = Owners
  /\ product \in [Products -> BOOLEAN]
  /\ sent = 0
  /\ worker = [w \in Handlers |-> IdleHandler]
  /\ contacts \in {{}, People}
  /\ cast = [b \in Casts |-> NoCast]
  /\ added = [p \in Products |-> 0]
  /\ heard = [x \in People |-> [p \in Products |-> 0]]
  /\ asks = {}

-----------------------------------------------------------------------------
\* Telegram

\* Buttons name a product, or an order or nothing; a template names the product it describes.
About(op) == IF op \in {"new", "admin", "cancel"} THEN {NoProduct} ELSE Products

\* A person taps a button, which may be an old one, or writes.
Messages == {m \in Update : m.by # NoOne /\ m.about \in About(m.op)}

\* The update says who its sender is now.
Sends(w, m) ==
  /\ worker[w].stage = "idle" /\ sent < MaxUpdates
  /\ m.owner = (m.by \in owners)
  /\ sent' = sent + 1
  /\ worker' = [worker EXCEPT ![w] = [IdleHandler EXCEPT !.stage = "waiting", !.update = m]]
  /\ UNCHANGED <<pending, owners, product, contacts, cast, added, heard, asks>>

\* A username is released, or taken.
OwnershipChanges(x) ==
  /\ x \in Owners
  /\ owners' = IF x \in owners THEN owners \ {x} ELSE owners \cup {x}
  /\ UNCHANGED <<pending, product, sent, worker, contacts, cast, added, heard, asks>>

\* The webhook did not answer: the update is delivered again.
Unanswered(w) ==
  IF worker[w].deliveries < MaxDeliveries
  THEN [IdleHandler EXCEPT !.stage = "waiting", !.update = worker[w].update, !.deliveries = worker[w].deliveries]
  ELSE IdleHandler

-----------------------------------------------------------------------------
\* The webhook, as far as the first call that matters

\* admin_outcome: a button that outlives its owner's status does nothing.
MayTap(m) == m.op \in {"catalog", "cancel"} \/ m.owner

MayWrite_asTapped(m, kind) == kind # "none"
\* pending_reply checks again who writes.
MayWrite(m, kind) == kind = "quantity" \/ (kind # "none" /\ m.owner)

ActsOfTap(op) ==
  CASE op \in {"catalog", "restock", "price", "new"} -> {"expect"}
    [] op = "toggle" -> {"adjust"}
    [] op \in {"open", "cancel"} -> {"clear"}
    [] op = "admin" -> {"none"}
ActsOfText(kind) ==
  CASE kind = "quantity" -> {"order"}
    [] kind = "restock" -> {"restock"}
    [] kind = "price" -> {"adjust"}
    [] kind = "new" -> {"create", "createEmpty"}

\* What may be delivered to w, again if it was not answered.
Deliverable(w) == IF worker[w].stage = "waiting" THEN {worker[w].update} ELSE {}

\* observe_contact, which comes first.
Deliver(w, m) ==
  /\ m \in Deliverable(w)
  /\ contacts' = contacts \cup {m.by}
  /\ UNCHANGED sent

Calls(w, m, acts, p) ==
  \E act \in acts :
    worker' = [worker EXCEPT ![w] = [stage |-> "calling", update |-> m, deliveries |-> @.deliveries + 1,
                                     act |-> act, product |-> p, result |-> "done"]]

\* What the tap of m asks its sender for, if it is to be written to the stock room.
AsksFor(m) == IF m.op \in {"restock", "price", "new"} THEN {<<m.by, [kind |-> m.op, product |-> m.about]>>} ELSE {}

\* callback_reply, as far as the first call that matters.
Tap(w, m) ==
  /\ Deliver(w, m)
  /\ m.op \in Taps /\ MayTap(m)
  /\ Calls(w, m, ActsOfTap(m.op), m.about)
  /\ pending' = IF m.op = "admin" THEN [pending EXCEPT ![m.by] = Nothing] ELSE pending
  /\ asks' = asks \cup AsksFor(m)
  /\ UNCHANGED <<owners, product, cast, added, heard>>

\* pending_reply
Text(w, m) ==
  LET awaited == pending[m.by]
  IN  /\ Deliver(w, m)
      /\ m.op = "text" /\ MayWrite(m, awaited.kind)
      /\ Calls(w, m, ActsOfText(awaited.kind), IF awaited.kind = "new" THEN m.about ELSE awaited.product)
      /\ UNCHANGED <<pending, owners, product, cast, added, heard, asks>>

\* Nothing is asked for, or the text is not what was awaited: 204, or a reply that changes nothing.
Ignore(w, m) ==
  /\ Deliver(w, m)
  /\ m.op = "text" \/ ~MayTap(m)
  /\ worker' = [worker EXCEPT ![w] = IdleHandler]
  /\ UNCHANGED <<pending, owners, product, cast, added, heard, asks>>

-----------------------------------------------------------------------------
\* call_api: None for 404, an error for every other failure

Result(w, result) == worker' = [worker EXCEPT ![w].stage = "called", ![w].result = result]
Creates(w) == worker[w].act \in {"create", "createEmpty"}
Exists(w) == worker[w].product # NoProduct /\ product[worker[w].product]

\* The API does it, though its answer may be lost.
ApiDoes(w) ==
  LET p == worker[w].product
  IN  /\ worker[w].stage = "calling"
      /\ p = NoProduct \/ Creates(w) # Exists(w)
      /\ Result(w, "done") \/ Result(w, "failed")
      /\ product' = IF Creates(w) THEN [product EXCEPT ![p] = TRUE] ELSE product
      /\ added' = IF worker[w].act \in {"restock", "create"} THEN [added EXCEPT ![p] = @ + 1] ELSE added
      /\ UNCHANGED <<pending, owners, sent, contacts, cast, heard, asks>>

\* It does not: no such product or order, the slug is taken (409), or it fails.
ApiDoesNot(w) ==
  /\ worker[w].stage = "calling"
  /\ \/ ~Creates(w) /\ ~Exists(w) /\ worker[w].update.op \notin {"new", "admin"} /\ Result(w, "missing")
     \/ Creates(w) /\ Exists(w) /\ Result(w, "taken")
     \/ Result(w, "failed")
  /\ UNCHANGED <<pending, owners, product, sent, contacts, cast, added, heard, asks>>

-----------------------------------------------------------------------------
\* The webhook, after the call

Expected_asTapped(w) == [kind |-> worker[w].update.op, product |-> worker[w].product]
Expected(w) ==
  LET op == worker[w].update.op
  IN  [kind |-> IF op = "catalog" THEN "quantity" ELSE op, product |-> worker[w].product]

\* The sessions once the handler is done.  What was tapped meanwhile is overwritten.
PendingAfter(w) ==
  LET x == worker[w].update.by
      then == CASE worker[w].result # "done" -> pending[x]
                [] worker[w].act = "expect" -> Expected(w)
                [] worker[w].act = "clear" \/ Creates(w) -> Nothing
                [] OTHER -> pending[x]
  IN  [pending EXCEPT ![x] = then]

Announces_anyway(w) == worker[w].act \in {"restock", "create"}
\* announce_restock
Announces(w) == worker[w].act \in {"restock", "create"} /\ worker[w].result = "done"

\* The errors of call_api are errors of the webhook.
Answers(w) == worker[w].result \in {"done", "missing"}

Reply(w) ==
  /\ worker[w].stage = "called"
  /\ pending' = PendingAfter(w)
  /\ IF Announces(w)
     THEN \E b \in Casts :
            /\ cast[b] = NoCast
            /\ cast' = [cast EXCEPT ![b] = [stage |-> "spawned", of |-> worker[w].product, owed |-> {}]]
     ELSE UNCHANGED cast
  /\ worker' = [worker EXCEPT ![w] = IF Answers(w) THEN IdleHandler ELSE Unanswered(w)]
  /\ UNCHANGED <<owners, product, sent, contacts, added, heard, asks>>

\* SELECTION_LIFETIME_MINUTES
PendingExpires(x) ==
  /\ pending[x] # Nothing
  /\ pending' = [pending EXCEPT ![x] = Nothing]
  /\ UNCHANGED <<owners, product, sent, worker, contacts, cast, added, heard, asks>>

-----------------------------------------------------------------------------
\* Broadcasts

\* announce: the audience is read before anything is sent.
AnnounceToAll(b) ==
  /\ cast[b] = NoCast /\ contacts # {}
  /\ cast' = [cast EXCEPT ![b] = [stage |-> "sending", of |-> NoProduct, owed |-> contacts]]
  /\ UNCHANGED <<pending, owners, product, sent, worker, contacts, added, heard, asks>>

\* broadcast_restock: without an audience nobody is told.
FetchAudience(b) ==
  /\ cast[b].stage = "spawned"
  /\ \E audience \in {contacts, {}} :
       cast' = [cast EXCEPT ![b] = IF audience = {} THEN NoCast
                                   ELSE [@ EXCEPT !.stage = "sending", !.owed = audience]]
  /\ UNCHANGED <<pending, owners, product, sent, worker, contacts, added, heard, asks>>

Rest_stops(b, x, reached) == IF reached THEN [cast[b] EXCEPT !.owed = @ \ {x}] ELSE [cast[b] EXCEPT !.stage = "none"]
\* broadcast goes on whether the send succeeded or not.
Rest(b, x, reached) == IF cast[b].owed = {x} THEN NoCast ELSE [cast[b] EXCEPT !.owed = @ \ {x}]

SendNext(b, x) ==
  /\ cast[b].stage = "sending" /\ x \in cast[b].owed
  /\ \E reached \in BOOLEAN :
       /\ cast' = [cast EXCEPT ![b] = Rest(b, x, reached)]
       /\ heard' = IF reached /\ cast[b].of # NoProduct THEN [heard EXCEPT ![x][cast[b].of] = @ + 1] ELSE heard
  /\ UNCHANGED <<pending, owners, product, sent, worker, contacts, added, asks>>

\* The adapter is deployed again: the sessions, the handlers and the broadcasts are gone.
Restart ==
  /\ pending' = [x \in People |-> Nothing]
  /\ worker' = [w \in Handlers |-> IF worker[w].stage \in {"calling", "called"} THEN Unanswered(w) ELSE worker[w]]
  /\ cast' = [b \in Casts |-> NoCast]
  /\ UNCHANGED <<owners, product, sent, contacts, added, heard, asks>>

ChatNext ==
  \/ \E x \in People : OwnershipChanges(x) \/ PendingExpires(x)
  \/ \E w \in Handlers, m \in Messages : Sends(w, m)
  \/ \E w \in Handlers : \E m \in Deliverable(w) : Tap(w, m) \/ Text(w, m) \/ Ignore(w, m)
  \/ \E w \in Handlers : ApiDoes(w) \/ ApiDoesNot(w) \/ Reply(w)
  \/ \E b \in Casts : AnnounceToAll(b) \/ FetchAudience(b) \/ \E x \in People : SendNext(b, x)
  \/ Restart

Broadcasting(b) == FetchAudience(b) \/ \E x \in People : SendNext(b, x)
\* A broadcast is a task of the adapter: it goes on as long as the adapter runs.
ChatFairness == \A b \in Casts : WF_chatVars(Broadcasting(b))

ChatSpec == ChatInit /\ [][ChatNext]_chatVars /\ ChatFairness

-----------------------------------------------------------------------------
\* Properties

\* Every variable has its type.
ChatTypeOK ==
  /\ pending \in [People -> Pending]
  /\ owners \subseteq Owners
  /\ product \in [Products -> BOOLEAN]
  /\ sent \in 0..MaxUpdates
  /\ worker \in [Handlers -> Worker]
  /\ contacts \subseteq People
  /\ cast \in [Casts -> Cast]
  /\ added \in [Products -> Nat] /\ heard \in [People -> [Products -> Nat]]
  /\ asks \subseteq People \X Pending

\* What the button that led to this write had asked for.
WasAskedFor(w) ==
  CASE worker[w].act = "restock" -> [kind |-> "restock", product |-> worker[w].product]
    [] worker[w].act = "adjust" -> [kind |-> "price", product |-> worker[w].product]
    [] Creates(w) -> [kind |-> "new", product |-> NoProduct]

\* The stock room is written to by updates alone whose sender owned the shop when they were sent, and a plain
\* message only writes what an owner's button had asked that person for: whatever was tapped, expired, restarted
\* or delivered again in between.  ("losing owner status between the two stops the write": it does when the
\* message is sent after that; one that was sent before is still the owner's when it is delivered again.)
OwnersOnly ==
  \A w \in Handlers : worker[w].act \in StockWrites =>
    /\ worker[w].update.owner
    /\ worker[w].update.op = "text" => <<worker[w].update.by, WasAskedFor(w)>> \in asks

\* Nobody hears of stock that was not put on the shelf, or hears of it twice: not when the call fails, when
\* the message that added it is delivered again, or when two broadcasts overlap.
AnnouncedWasAdded == \A x \in People, p \in Products : heard[x][p] <= added[p]

\* Whoever a broadcast is for is sent to, whether the chats before could be written to or not, unless
\* the adapter restarts.
EveryoneIsTried == \A b \in Casts, x \in People : x \in cast[b].owed ~> x \notin cast[b].owed
=============================================================================

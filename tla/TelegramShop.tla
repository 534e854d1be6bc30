---------------------------- MODULE TelegramShop ----------------------------
(***************************************************************************)
(* The shop behind the Telegram bot: stock, orders and bank transfers.     *)
(* Buyers order through api/telegram/mod.rs; SePay reports each transfer,  *)
(* as often as it likes, to the adapter (apps/telegram), which hands it on *)
(* and tells the buyer; staff settle by hand, cancel, restock and delete   *)
(* from api/dashboard/orders.rs and stock.rs.                              *)
(*                                                                         *)
(* Every handler works on PostgreSQL at READ COMMITTED.  An order is       *)
(* written after its product was read, with nothing locked in between.  A  *)
(* settlement holds its order's row until it commits or is rolled back,    *)
(* and what it wrote is seen by nobody before that.                        *)
(***************************************************************************)
EXTENDS Naturals, Sequences, FiniteSets, FiniteSetsExt

CONSTANTS
  Products,
  Orders, Transfers,   \* orders not placed and transfers not sent yet
  Workers,             \* requests handled at the same time
  MaxQuantity,         \* the largest order
  MaxPrice,            \* the largest price of a unit
  MaxStock,            \* bound on the units on hand
  Kinds,               \* what a transfer may be: in or out, and how much
  NoProduct, NoOrder, NoTransfer

ASSUME ShopAssumption ==
  /\ {MaxQuantity, MaxPrice, MaxStock} \subseteq Nat \ {0}
  /\ Kinds \subseteq [incoming : BOOLEAN, amount : Nat \ {0}]
  /\ IsFiniteSet(Orders)
  /\ NoProduct \notin Products
  /\ NoOrder \notin Orders
  /\ NoTransfer \notin Transfers

VARIABLES
  product,    \* telegram_products
  order,      \* telegram_orders, and the ones being placed
  placed,     \* the orders in the table, oldest first
  transfer,   \* the transfers in the bank, and their rows in telegram_payments
  worker,     \* the request each worker is handling
  told,       \* how often each order's buyer was told it is paid
  supplied,   \* history: units put on the shelf less those taken off by staff
  passedOver  \* history: the orders a transfer that settled none found locked

vars == <<product, order, placed, transfer, worker, told, supplied, passedOver>>

Product == [exists : BOOLEAN, listed : BOOLEAN, price : 1..MaxPrice, onHand : 0..MaxStock]

NoRow == [exists |-> FALSE, listed |-> FALSE, price |-> 1, onHand |-> 0]

\* status "read": create_order has read the product.  lapsed: it is
\* awaiting payment and expires_at has passed.
Order ==
  [status : {"none", "read", "awaiting", "paid", "cancelled"},
   product : Products \cup {NoProduct}, quantity : 0..MaxQuantity,
   total : 0..(MaxQuantity * MaxPrice), lapsed : BOOLEAN,
   method : {"none", "bank_transfer", "by_hand"}]

NoKind == [incoming |-> FALSE, amount |-> 0]

\* names: the orders whose reference is in its note.  order: the one its payment row is
\* linked to.
Transfer ==
  [sent : BOOLEAN, kind : Kinds \cup {NoKind}, names : SUBSET Orders,
   recorded : BOOLEAN, order : Orders \cup {NoOrder}]

\* stage: the payment row is inserted; settle_order has run, and holds order unless it
\* matched none; pay_order holds order; delete_product holds product and found no open
\* order; the answer about order is on its way to the buyer.
Worker ==
  [stage : {"idle", "inserted", "matched", "paying", "deleting", "telling"},
   transfer : Transfers \cup {NoTransfer}, order : Orders \cup {NoOrder},
   product : Products \cup {NoProduct}]

Idle == [stage |-> "idle", transfer |-> NoTransfer, order |-> NoOrder, product |-> NoProduct]
Telling(o) == [Idle EXCEPT !.stage = IF o = NoOrder THEN "idle" ELSE "telling", !.order = o]

Init ==
  /\ product \in [Products -> {p \in Product : p.exists /\ p.listed /\ p.price = 1}]
  /\ order = [o \in Orders |->
       [status |-> "none", product |-> NoProduct, quantity |-> 0, total |-> 0,
        lapsed |-> FALSE, method |-> "none"]]
  /\ placed = <<>>
  /\ transfer = [t \in Transfers |->
       [sent |-> FALSE, kind |-> NoKind, names |-> {}, recorded |-> FALSE,
        order |-> NoOrder]]
  /\ worker = [w \in Workers |-> Idle]
  /\ told = [o \in Orders |-> 0]
  /\ supplied = [p \in Products |-> product[p].onHand]
  /\ passedOver = [t \in Transfers |-> {}]

-----------------------------------------------------------------------------
Placed == {placed[i] : i \in DOMAIN placed}
Older(o, o2) == \E i, j \in DOMAIN placed : i < j /\ placed[i] = o /\ placed[j] = o2

\* RESERVED_JOIN: what orders awaiting payment hold, until they expire.
Open(o) == order[o].status = "awaiting" /\ ~order[o].lapsed
Units(orders) == MapThenSumSet(LAMBDA o : order[o].quantity, orders)
Reserved(p) == Units({o \in Orders : Open(o) /\ order[o].product = p})

OrderFree(o) ==
  \A w \in Workers : ~(worker[w].stage \in {"matched", "paying"} /\ worker[w].order = o)
ProductFree(p) == \A w \in Workers : ~(worker[w].stage = "deleting" /\ worker[w].product = p)

-----------------------------------------------------------------------------
\* The buyer

\* create_order reads the product: on sale, and with enough not held by others.  The
\* price is copied here.
ReadProduct(o, p, quantity) ==
  /\ order[o].status = "none"
  /\ product[p].exists /\ product[p].listed
  /\ quantity + Reserved(p) <= product[p].onHand
  /\ order' = [order EXCEPT ![o] = [@ EXCEPT
       !.status = "read", !.product = p, !.quantity = quantity,
       !.total = quantity * product[p].price]]
  /\ UNCHANGED <<product, placed, transfer, worker, told, supplied, passedOver>>

\* create_order inserts the order.
PlaceOrder(o) ==
  /\ order[o].status = "read"
  /\ order' = [order EXCEPT ![o].status = "awaiting"]
  /\ placed' = Append(placed, o)
  /\ UNCHANGED <<product, transfer, worker, told, supplied, passedOver>>

Cancellable_anyUnlocked(o) == order[o].status \in {"awaiting", "paid"} /\ OrderFree(o)

\* The row is waited for, and its status judged once it is free.
Cancellable(o) == order[o].status = "awaiting" /\ OrderFree(o)

\* cancel_order, the buyer's and the staff's.
CancelOrder(o) ==
  /\ Cancellable(o)
  /\ order' = [order EXCEPT ![o].status = "cancelled", ![o].lapsed = FALSE]
  /\ UNCHANGED <<product, placed, transfer, worker, told, supplied, passedOver>>

\* expires_at passes: the order stops holding stock and nothing else.
Lapse(o) ==
  /\ Open(o)
  /\ order' = [order EXCEPT ![o].lapsed = TRUE]
  /\ UNCHANGED <<product, placed, transfer, worker, told, supplied, passedOver>>

\* A transfer is made, in or out, with the references of some orders in its note.
SendTransfer(t, kind, names) ==
  /\ ~transfer[t].sent
  /\ transfer' = [transfer EXCEPT ![t] = [@ EXCEPT
       !.sent = TRUE, !.kind = kind, !.names = names]]
  /\ UNCHANGED <<product, order, placed, worker, told, supplied, passedOver>>

-----------------------------------------------------------------------------
\* SePay and the adapter

\* The unique transaction id: a second insert waits for the first one's transaction.
PaymentFree(t) ==
  \A w \in Workers : ~(worker[w].stage \in {"inserted", "matched"} /\ worker[w].transfer = t)

AnswerDuplicate_withOrder(t) == Telling(transfer[t].order)

\* What a transfer that is already recorded answers: no order.
AnswerDuplicate(t) == Telling(NoOrder)

RecordedBefore_never(t) == FALSE

RecordedBefore(t) == transfer[t].recorded

\* SePay delivers a transfer, again or for the first time, and record_sepay_payment
\* inserts its row.
RecordPayment(w, t) ==
  /\ worker[w].stage = "idle"
  /\ transfer[t].sent
  /\ PaymentFree(t)
  /\ worker' = [worker EXCEPT ![w] =
       IF RecordedBefore(t) THEN AnswerDuplicate(t)
       ELSE [Idle EXCEPT !.stage = "inserted", !.transfer = t]]
  /\ UNCHANGED <<product, order, placed, transfer, told, supplied, passedOver>>

Matches_unexpired(t, o) ==
  /\ transfer[t].kind.incoming
  /\ Open(o)
  /\ o \in transfer[t].names
  /\ order[o].total <= transfer[t].kind.amount

Matches_anyAmount(t, o) ==
  /\ transfer[t].kind.incoming
  /\ order[o].status = "awaiting"
  /\ o \in transfer[t].names

\* An order a transfer pays for: awaiting, expired or not, named and covered.
Matches(t, o) ==
  /\ transfer[t].kind.incoming
  /\ order[o].status = "awaiting"
  /\ o \in transfer[t].names
  /\ order[o].total <= transfer[t].kind.amount

\* settle_order: the oldest match whose row nobody holds (FOR UPDATE SKIP LOCKED).
SettleOrder(w) ==
  LET t == worker[w].transfer
      matched == {o \in Orders : Matches(t, o) /\ OrderFree(o)}
      oldest == {o \in matched : \A o2 \in matched : ~Older(o2, o)} IN
  /\ worker[w].stage = "inserted"
  /\ \/ /\ matched = {}
        /\ worker' = [worker EXCEPT ![w].stage = "matched"]
        /\ passedOver' = [passedOver EXCEPT ![t] = {o \in Orders : Matches(t, o)}]
     \/ \E o \in oldest :
          /\ worker' = [worker EXCEPT ![w].stage = "matched", ![w].order = o]
          /\ passedOver' = [passedOver EXCEPT ![t] = {}]
  /\ UNCHANGED <<product, order, placed, transfer, told, supplied>>

\* The stock a paid order uses up, GREATEST(available - quantity, 0) of the product as
\* it is by then; a deleted product has no row to take it from.
Consumed(o) ==
  LET p == order[o].product IN
  [product EXCEPT ![p].onHand = IF @ > order[o].quantity THEN @ - order[o].quantity ELSE 0]

Paid(o, method) ==
  [order EXCEPT ![o].status = "paid", ![o].method = method, ![o].lapsed = FALSE]

\* The transaction of a transfer commits: the payment, its link, the order, the stock.
CommitPayment(w) ==
  LET t == worker[w].transfer
      o == worker[w].order IN
  /\ worker[w].stage = "matched"
  /\ transfer' = [transfer EXCEPT ![t].recorded = TRUE, ![t].order = o]
  /\ IF o = NoOrder THEN UNCHANGED <<product, order>>
     ELSE /\ ProductFree(order[o].product)
          /\ order' = Paid(o, "bank_transfer")
          /\ product' = Consumed(o)
  /\ worker' = [worker EXCEPT ![w] = Telling(o)]
  /\ UNCHANGED <<placed, told, supplied, passedOver>>

\* notify_paid reaches the buyer.
TellBuyer(w) ==
  /\ worker[w].stage = "telling"
  /\ told' = [told EXCEPT ![worker[w].order] = @ + 1]
  /\ worker' = [worker EXCEPT ![w] = Idle]
  /\ UNCHANGED <<product, order, placed, transfer, supplied, passedOver>>

\* A transaction is rolled back, or an answer or a notice is lost; nothing retries a
\* notice, and SePay may deliver the transfer again.
Fail(w) ==
  /\ worker[w].stage # "idle"
  /\ worker' = [worker EXCEPT ![w] = Idle]
  /\ UNCHANGED <<product, order, placed, transfer, told, supplied, passedOver>>

-----------------------------------------------------------------------------
\* Staff

Payable_settled(o) == order[o].status \in {"awaiting", "paid"} /\ OrderFree(o)

\* The condition of pay_order's UPDATE, once the row is free.
Payable(o) == order[o].status = "awaiting" /\ OrderFree(o)

\* pay_order: somebody in the shop says the order is paid.
PayOrder(w, o) ==
  /\ worker[w].stage = "idle"
  /\ Payable(o)
  /\ worker' = [worker EXCEPT ![w] = [Idle EXCEPT !.stage = "paying", !.order = o]]
  /\ UNCHANGED <<product, order, placed, transfer, told, supplied, passedOver>>

\* Its transaction commits, and the adapter is asked to tell the buyer.
CommitPayOrder(w) ==
  LET o == worker[w].order IN
  /\ worker[w].stage = "paying"
  /\ ProductFree(order[o].product)
  /\ order' = Paid(o, "by_hand")
  /\ product' = Consumed(o)
  /\ worker' = [worker EXCEPT ![w] = Telling(o)]
  /\ UNCHANGED <<placed, transfer, told, supplied, passedOver>>

\* restock_product, and change_stock with units put in.
AddStock(p, units) ==
  /\ product[p].exists
  /\ ProductFree(p)
  /\ product[p].onHand + units <= MaxStock
  /\ product' = [product EXCEPT ![p].onHand = @ + units]
  /\ supplied' = [supplied EXCEPT ![p] = @ + units]
  /\ UNCHANGED <<order, placed, transfer, worker, told, passedOver>>

Removable_any(p, units) == TRUE

\* available + delta >= 0, judged in the UPDATE itself.
Removable(p, units) == units <= product[p].onHand

\* change_stock with units taken out, whatever orders hold.
RemoveStock(p, units) ==
  /\ product[p].exists
  /\ ProductFree(p)
  /\ Removable(p, units)
  /\ product' = [product EXCEPT ![p].onHand = @ - units]
  /\ supplied' = [supplied EXCEPT ![p] = @ - units]
  /\ UNCHANGED <<order, placed, transfer, worker, told, passedOver>>

\* adjust_product and update_product: a new price, shown or hidden.
AdjustProduct(p, price, listed) ==
  /\ product[p].exists
  /\ ProductFree(p)
  /\ product' = [product EXCEPT ![p].price = price, ![p].listed = listed]
  /\ UNCHANGED <<order, placed, transfer, worker, told, supplied, passedOver>>

\* insert_product, for a slug nobody has.
InsertProduct(p, price, units) ==
  /\ ~product[p].exists
  /\ product' = [product EXCEPT ![p] =
       [exists |-> TRUE, listed |-> TRUE, price |-> price, onHand |-> units]]
  /\ supplied' = [supplied EXCEPT ![p] = @ + units]
  /\ UNCHANGED <<order, placed, transfer, worker, told, passedOver>>

\* delete_product locks the product and looks for open orders.
CheckDelete(w, p) ==
  /\ worker[w].stage = "idle"
  /\ product[p].exists
  /\ ProductFree(p)
  /\ \A o \in Orders : ~(Open(o) /\ order[o].product = p)
  /\ worker' = [worker EXCEPT ![w] = [Idle EXCEPT !.stage = "deleting", !.product = p]]
  /\ UNCHANGED <<product, order, placed, transfer, told, supplied, passedOver>>

\* It deletes the product and commits.
DeleteProduct(w) ==
  LET p == worker[w].product IN
  /\ worker[w].stage = "deleting"
  /\ product' = [product EXCEPT ![p] = NoRow]
  /\ supplied' = [supplied EXCEPT ![p] = @ - product[p].onHand]
  /\ worker' = [worker EXCEPT ![w] = Idle]
  /\ UNCHANGED <<order, placed, transfer, told, passedOver>>

-----------------------------------------------------------------------------
Buyer ==
  \/ \E o \in Orders, p \in Products, quantity \in 1..MaxQuantity : ReadProduct(o, p, quantity)
  \/ \E o \in Orders : PlaceOrder(o)
  \/ \E o \in Orders : CancelOrder(o)
  \/ \E o \in Orders : Lapse(o)
  \/ \E t \in Transfers, kind \in Kinds, names \in SUBSET Placed : SendTransfer(t, kind, names)

SePay ==
  \/ \E w \in Workers, t \in Transfers : RecordPayment(w, t)
  \/ \E w \in Workers : SettleOrder(w)
  \/ \E w \in Workers : CommitPayment(w)
  \/ \E w \in Workers : TellBuyer(w)

StaffWork ==
  \/ \E w \in Workers, o \in Orders : PayOrder(w, o)
  \/ \E w \in Workers : CommitPayOrder(w)
  \/ \E p \in Products, units \in 1..MaxStock : AddStock(p, units)
  \/ \E p \in Products, units \in 1..MaxStock : RemoveStock(p, units)
  \/ \E p \in Products, price \in 1..MaxPrice, listed \in BOOLEAN : AdjustProduct(p, price, listed)
  \/ \E p \in Products, price \in 1..MaxPrice, units \in 0..MaxStock : InsertProduct(p, price, units)
  \/ \E w \in Workers, p \in Products : CheckDelete(w, p)
  \/ \E w \in Workers : DeleteProduct(w)

Next == Buyer \/ SePay \/ StaffWork \/ \E w \in Workers : Fail(w)

Spec == Init /\ [][Next]_vars

-----------------------------------------------------------------------------
\* Properties

\* The types of the tables; no stock or total leaves its bounds.
TypeOK ==
  /\ product \in [Products -> Product]
  /\ order \in [Orders -> Order]
  /\ placed \in Seq(Orders)
  /\ transfer \in [Transfers -> Transfer]
  /\ worker \in [Workers -> Worker]
  /\ told \in [Orders -> Nat]
  /\ supplied \in [Products -> Nat]
  /\ passedOver \in [Transfers -> SUBSET Orders]

\* An order SePay settled has exactly one payment linked to it, of money that came in,
\* that named it and covers its total; no other order has any, however often transfers
\* are delivered and whoever settles or cancels at the same time.
PaidByOneTransfer ==
  \A o \in Orders :
    LET links == {t \in Transfers : transfer[t].order = o} IN
    /\ links # {} <=> order[o].method = "bank_transfer"
    /\ Cardinality(links) <= 1
    /\ \A t \in links :
         /\ transfer[t].recorded /\ transfer[t].kind.incoming
         /\ o \in transfer[t].names
         /\ order[o].total <= transfer[t].kind.amount

\* Stock comes down once for each order that is paid: what is missing from the shelf,
\* of what staff put there, is never more than what paid orders took, and no unit
\* appears that nobody put there.
UnitsAccountedFor ==
  \A p \in Products :
    /\ product[p].onHand <= supplied[p]
    /\ supplied[p] <= product[p].onHand
         + Units({o \in Orders : order[o].status = "paid" /\ order[o].product = p})

\* A recorded transfer that settled nothing is left for a human.  An order it names and
\* covers can then be awaiting payment only if another request held it when the
\* transfer came: expired orders, retries and restarts never lose a payment.
LeftForAHuman ==
  \A t \in Transfers, o \in Orders :
    /\ transfer[t].recorded /\ transfer[t].order = NoOrder /\ transfer[t].kind.incoming
    /\ o \in transfer[t].names /\ order[o].total <= transfer[t].kind.amount
    /\ order[o].status = "awaiting"
    => o \in passedOver[t]

\* A buyer is told at most once that an order is paid, and only once it is.
ToldOnce ==
  \A o \in Orders : told[o] <= 1 /\ (told[o] = 1 => order[o].status = "paid")

\* "Selling against this rather than against the raw count is what stops two buyers from each taking the
\* last unit" (migration 12): two orders never both hold units of which there is one.  They can: the
\* product is read before the order is inserted, without a lock.
TwoBuyersOneUnit ==
  \A o, o2 \in Orders :
    o # o2 /\ Open(o) /\ Open(o2) /\ order[o].product = order[o2].product
      => Units({o, o2}) <= product[order[o].product].onHand

\* Paid and cancelled are final, and what an order costs is never changed, whatever
\* becomes of the price of its product.
OrderIsFinal ==
  [][\A o \in Orders :
       /\ order[o].status \in {"paid", "cancelled"} =>
            order'[o].status = order[o].status /\ order'[o].method = order[o].method
       /\ order[o].status # "none" => order'[o].total = order[o].total]_vars

\* record_sepay_payment, settle_order and the staff's handlers, together: an order is settled
\* once, by a transfer that covers it or by staff, for its units once, and is told of once.
SettlementIsSound ==
  /\ PaidByOneTransfer
  /\ UnitsAccountedFor
  /\ LeftForAHuman
  /\ ToldOnce
=============================================================================

-------------------------- MODULE TelegramShopProofs --------------------------
(***************************************************************************)
(* Proofs about TelegramShop, for any products, orders, transfers and      *)
(* requests: an order is settled by one transfer that covers it or by      *)
(* staff, no payment is lost, and paid and cancelled are final.            *)
(*                                                                         *)
(* ShopInv adds what a request inside its transaction knows: the order it  *)
(* holds is still awaiting payment and covered, the transfer it carries is *)
(* not recorded, and no other request holds or carries the same.           *)
(*                                                                         *)
(* ShelfInv accounts for the units: what a product was supplied with is on *)
(* its shelf or in its paid orders. Their sum is a fold over a set, whose  *)
(* recursion equation is proved here by induction on the set's size, from  *)
(* the well-foundedness of < on Nat.                                       *)
(***************************************************************************)
EXTENDS TelegramShop, FiniteSetTheorems, TLAPS

Sent(t) == transfer[t].sent = TRUE
Recorded(t) == transfer[t].recorded = TRUE

\* Transfer t, of those in tr, names and covers order o, of those in ord; it settles it if it waits.
CoversIn(ord, tr, t, o) ==
  /\ tr[t].kind.incoming
  /\ o \in tr[t].names
  /\ ord[o].total <= tr[t].kind.amount
MatchesIn(ord, tr, t, o) == ord[o].status = "awaiting" /\ CoversIn(ord, tr, t, o)

\* A request with record r, when the orders, the transfers, the buyers told and the orders passed over are these.
WorkerFits(r, ord, tr, tl, po) ==
  /\ r \in Worker
  /\ r.stage \in {"inserted", "matched"} =>
       r.transfer \in Transfers /\ tr[r.transfer].sent = TRUE /\ tr[r.transfer].recorded # TRUE
  /\ r.stage = "inserted" => r.order = NoOrder
  /\ r.stage = "matched" /\ r.order = NoOrder =>
       \A o \in Orders : MatchesIn(ord, tr, r.transfer, o) => o \in po[r.transfer]
  /\ r.stage = "matched" /\ r.order # NoOrder => r.order \in Orders /\ MatchesIn(ord, tr, r.transfer, r.order)
  /\ r.stage = "paying" => r.order \in Orders /\ ord[r.order].status = "awaiting"
  /\ r.stage = "telling" => r.order \in Orders /\ ord[r.order].status = "paid" /\ tl[r.order] = 0
  /\ r.stage = "deleting" => r.product \in Products

\* What two requests never do at the same time.
Carries(r) == r.stage \in {"inserted", "matched"}
Settles(r) == r.stage \in {"matched", "paying"} /\ r.order # NoOrder
Tells(r) == r.stage = "telling"
Rivals(r, s) ==
  \/ Carries(r) /\ Carries(s) /\ r.transfer = s.transfer
  \/ Settles(r) /\ Settles(s) /\ r.order = s.order
  \/ Tells(r) /\ Tells(s) /\ r.order = s.order

WorkersFit ==
  /\ \A w \in Workers : WorkerFits(worker[w], order, transfer, told, passedOver)
  /\ \A v, w \in Workers : v # w => ~Rivals(worker[v], worker[w])

OrdersFit ==
  \A o \in Orders :
    /\ o \in Placed => order[o].status \notin {"none", "read"}
    /\ order[o].status = "paid" <=> order[o].method # "none"
    /\ order[o].status # "none" => order[o].product \in Products

\* Payments and orders are linked both ways; a transfer that settled nothing passed over what it could have.
LinksFit ==
  /\ \A t \in Transfers :
       /\ transfer[t].names \subseteq Placed
       /\ Recorded(t) => Sent(t)
       /\ transfer[t].order # NoOrder =>
            /\ Recorded(t) /\ order[transfer[t].order].method = "bank_transfer"
            /\ CoversIn(order, transfer, t, transfer[t].order)
       /\ Recorded(t) /\ transfer[t].order = NoOrder =>
            \A o \in Orders : MatchesIn(order, transfer, t, o) => o \in passedOver[t]
  /\ \A t, t2 \in Transfers : transfer[t].order # NoOrder /\ transfer[t].order = transfer[t2].order => t = t2
  /\ \A o \in Orders : order[o].method = "bank_transfer" => \E t \in Transfers : transfer[t].order = o

ToldFit == \A o \in Orders : told[o] \in {0, 1} /\ (told[o] = 1 => order[o].status = "paid")

StockFit == \A p \in Products : product[p].onHand <= supplied[p]

ShopInv == TypeOK /\ WorkersFit /\ OrdersFit /\ LinksFit /\ ToldFit /\ StockFit

-----------------------------------------------------------------------------
\* Steps in general

\* What the type invariant says, row by row.
LEMMA Types ==
  ASSUME ShopInv
  PROVE  /\ product \in [Products -> Product] /\ order \in [Orders -> Order] /\ placed \in Seq(Orders)
         /\ transfer \in [Transfers -> Transfer] /\ worker \in [Workers -> Worker]
         /\ told \in [Orders -> Nat] /\ supplied \in [Products -> Nat]
         /\ passedOver \in [Transfers -> SUBSET Orders]
  BY DEF ShopInv, TypeOK

LEMMA MatchesAlike ==
  ASSUME NEW t, NEW o
  PROVE  Matches(t, o) <=> MatchesIn(order, transfer, t, o)
  BY DEF Matches, MatchesIn, CoversIn

LEMMA IdleFits ==
  ASSUME NEW ord, NEW tr, NEW tl, NEW po
  PROVE  WorkerFits(Idle, ord, tr, tl, po) /\ \A s : ~Rivals(Idle, s)
  BY DEF WorkerFits, Idle, Worker, Rivals, Carries, Settles, Tells

\* Request w goes on to r; nothing changes but stock and what w's transfer passed over.
LEMMA WorkerMoves ==
  ASSUME ShopInv, NEW w \in Workers, NEW r, worker' = [worker EXCEPT ![w] = r],
         WorkerFits(r, order, transfer, told, passedOver'),
         \A v \in Workers \ {w} : ~Rivals(r, worker[v]) /\ ~Rivals(worker[v], r),
         UNCHANGED <<order, placed, transfer, told>>,
         passedOver' \in [Transfers -> SUBSET Orders],
         \A t \in Transfers : \/ passedOver'[t] = passedOver[t]
                              \/ Carries(worker[w]) /\ worker[w].transfer = t,
         product' \in [Products -> Product], supplied' \in [Products -> Nat],
         \A p \in Products : product'[p].onHand <= supplied'[p]
  PROVE  ShopInv'
<1>1. /\ worker' \in [Workers -> Worker]
      /\ \A v \in Workers : worker'[v] = IF v = w THEN r ELSE worker[v]
  BY Types DEF WorkerFits
<1>2. \A v \in Workers : WorkerFits(worker'[v], order', transfer', told', passedOver')
  <2>1. ASSUME NEW v \in Workers, v # w
        PROVE  WorkerFits(worker[v], order, transfer, told, passedOver')
    <3>1. WorkerFits(worker[v], order, transfer, told, passedOver)
      BY DEF ShopInv, WorkersFit
    <3>2. Carries(worker[v]) => worker[v].transfer \in Transfers /\ passedOver'[worker[v].transfer] = passedOver[worker[v].transfer]
      BY <2>1, <3>1 DEF ShopInv, WorkersFit, Rivals, WorkerFits, Carries
    <3> QED
      BY <3>1, <3>2 DEF WorkerFits, Carries
  <2> QED
    BY <1>1, <2>1
<1>3. \A v, u \in Workers : v # u => ~Rivals(worker'[v], worker'[u])
  BY <1>1 DEF ShopInv, WorkersFit
<1>4. WorkersFit'
  BY <1>2, <1>3 DEF WorkersFit
<1>5. OrdersFit' /\ ToldFit' /\ StockFit'
  BY DEF ShopInv, OrdersFit, ToldFit, StockFit, Placed
<1>6. LinksFit'
  <2>1. Carries(worker[w]) => worker[w].transfer \in Transfers /\ ~Recorded(worker[w].transfer)
    BY DEF ShopInv, WorkersFit, WorkerFits, Carries, Recorded
  <2>2. \A t \in Transfers : Recorded(t) => passedOver'[t] = passedOver[t]
    BY <2>1
  <2>3. transfer' = transfer /\ order' = order /\ Placed' = Placed
    BY DEF Placed
  <2> QED
    BY <2>2, <2>3 DEF ShopInv, LinksFit, Recorded, Sent, CoversIn, MatchesIn
<1>7. TypeOK'
  BY <1>1, Types DEF TypeOK
<1> QED
  BY <1>4, <1>5, <1>6, <1>7 DEF ShopInv

\* Only stock changes.
LEMMA StockMoves ==
  ASSUME ShopInv, UNCHANGED <<order, placed, transfer, worker, told, passedOver>>,
         product' \in [Products -> Product], supplied' \in [Products -> Nat],
         \A p \in Products : product'[p].onHand <= supplied'[p]
  PROVE  ShopInv'
<1>1. WorkersFit'
  BY DEF ShopInv, WorkersFit, WorkerFits, MatchesIn, CoversIn, Rivals, Carries, Settles, Tells
<1>2. OrdersFit' /\ ToldFit' /\ StockFit'
  BY DEF ShopInv, OrdersFit, ToldFit, StockFit, Placed
<1>3. LinksFit'
  BY DEF ShopInv, LinksFit, Recorded, Sent, CoversIn, MatchesIn, Placed
<1>4. TypeOK'
  BY Types DEF TypeOK
<1> QED
  BY <1>1, <1>2, <1>3, <1>4 DEF ShopInv

\* Only orders change, and only in ways that leave what requests hold alone.
LEMMA OrdersMove ==
  ASSUME ShopInv, UNCHANGED <<product, transfer, worker, told, supplied, passedOver>>,
         order' \in [Orders -> Order], placed' \in Seq(Orders), Placed \subseteq Placed',
         \A o \in Orders :
           /\ order'[o].method = order[o].method
           /\ order[o].status # "none" => order'[o].total = order[o].total
           /\ \/ order'[o].status = order[o].status
              \/ order[o].status \in {"none", "read"} /\ order'[o].status \in {"read", "awaiting"}
              \/ order[o].status = "awaiting" /\ OrderFree(o) /\ order'[o].status = "cancelled"
           /\ order'[o].status # "none" => order'[o].product \in Products
           /\ o \in Placed' => order'[o].status \notin {"none", "read"}
  PROVE  ShopInv'
<1>1. \A t \in Transfers, o \in Orders :
        /\ MatchesIn(order', transfer, t, o) => MatchesIn(order, transfer, t, o)
        /\ CoversIn(order, transfer, t, o) => CoversIn(order', transfer, t, o)
  <2> TAKE t \in Transfers, o \in Orders
  <2>1. o \in transfer[t].names => order[o].status \notin {"none", "read"}
    BY DEF ShopInv, LinksFit, OrdersFit
  <2> QED
    BY <2>1 DEF MatchesIn, CoversIn
<1>2. \A w \in Workers : WorkerFits(worker[w], order', transfer, told, passedOver)
  <2> TAKE w \in Workers
  <2>1. WorkerFits(worker[w], order, transfer, told, passedOver)
    BY DEF ShopInv, WorkersFit
  <2>2. Settles(worker[w]) => /\ worker[w].order \in Orders /\ order[worker[w].order].status = "awaiting"
                              /\ order'[worker[w].order].status = "awaiting"
    <3>1. Settles(worker[w]) => worker[w].order \in Orders /\ order[worker[w].order].status = "awaiting"
      BY <2>1 DEF Settles, WorkerFits, MatchesIn
    <3>2. Settles(worker[w]) => ~OrderFree(worker[w].order)
      BY DEF Settles, OrderFree
    <3> QED
      BY <3>1, <3>2
  <2>3. worker[w].stage = "paying" => worker[w].order # NoOrder
    BY <2>1, ShopAssumption DEF WorkerFits
  <2>4. worker[w].stage = "telling" => order'[worker[w].order].status = "paid"
    BY <2>1 DEF WorkerFits
  <2> QED
    BY <1>1, <2>1, <2>2, <2>3, <2>4 DEF WorkerFits, Settles, MatchesIn
<1>3. WorkersFit'
  BY <1>2 DEF ShopInv, WorkersFit, Rivals, Carries, Settles, Tells
<1>4. OrdersFit'
  BY DEF ShopInv, OrdersFit
<1>5. ToldFit' /\ StockFit'
  BY DEF ShopInv, ToldFit, StockFit
<1>6. LinksFit'
  <2>1. \A t \in Transfers : transfer[t].order # NoOrder => transfer[t].order \in Orders
    BY Types DEF Transfer
  <2>2. transfer' = transfer /\ passedOver' = passedOver
    OBVIOUS
  <2> QED
    BY <1>1, <2>1, <2>2 DEF ShopInv, LinksFit, Recorded, Sent
<1>7. TypeOK'
  BY Types DEF TypeOK
<1> QED
  BY <1>3, <1>4, <1>5, <1>6, <1>7 DEF ShopInv

-----------------------------------------------------------------------------
\* The buyer

\* The largest total is that of the largest order at the largest price.
LEMMA TotalsFit ==
  ASSUME NEW quantity \in 1..MaxQuantity, NEW price \in 1..MaxPrice
  PROVE  quantity * price \in 0..(MaxQuantity * MaxPrice)
<1>1. MaxQuantity \in Nat /\ MaxPrice \in Nat
  BY ShopAssumption
<1>2. quantity \in Nat /\ price \in Nat /\ quantity <= MaxQuantity /\ price <= MaxPrice
  BY <1>1
<1>3. quantity * price <= quantity * MaxPrice
  BY <1>1, <1>2, SMTT(30)
<1>4. quantity * MaxPrice <= MaxQuantity * MaxPrice
  BY <1>1, <1>2, SMTT(30)
<1>5. quantity * price \in Nat /\ MaxQuantity * MaxPrice \in Nat /\ quantity * MaxPrice \in Nat
  BY <1>1, <1>2
<1> QED
  BY <1>3, <1>4, <1>5

LEMMA ReadProductKeeps ==
  ASSUME ShopInv, NEW o \in Orders, NEW p \in Products, NEW quantity \in 1..MaxQuantity, ReadProduct(o, p, quantity)
  PROVE  ShopInv'
<1> DEFINE total == quantity * product[p].price
           r == [order[o] EXCEPT !.status = "read", !.product = p, !.quantity = quantity, !.total = total]
<1>1. /\ order[o].status = "none" /\ order' = [order EXCEPT ![o] = r]
      /\ UNCHANGED <<product, placed, transfer, worker, told, supplied, passedOver>>
  BY DEF ReadProduct
<1>2. product[p].price \in 1..MaxPrice
  BY Types DEF Product
<1>3. total \in 0..(MaxQuantity * MaxPrice)
  BY <1>2, TotalsFit
<1> HIDE DEF total
<1>4. quantity \in 0..MaxQuantity
  BY ShopAssumption
<1>5. r \in Order /\ r.status = "read" /\ r.product = p /\ r.method = order[o].method
  BY <1>3, <1>4, Types DEF Order
<1> HIDE DEF r
<1>6. /\ order' \in [Orders -> Order]
      /\ \A o2 \in Orders : order'[o2] = IF o2 = o THEN r ELSE order[o2]
  BY <1>1, <1>5, Types
<1>7. Placed' = Placed /\ o \notin Placed
  BY <1>1 DEF Placed, ShopInv, OrdersFit
<1>8. placed' \in Seq(Orders)
  BY <1>1, Types
<1>9. \A o2 \in Orders : /\ o2 \in Placed => order[o2].status \notin {"none", "read"}
                         /\ order[o2].status # "none" => order[o2].product \in Products
  BY DEF ShopInv, OrdersFit
<1> QED
  BY <1>1, <1>5, <1>6, <1>7, <1>8, <1>9, OrdersMove

\* An order whose status changes, and nothing else that OrdersMove looks at.
LEMMA StatusMoves ==
  ASSUME ShopInv, NEW o \in Orders, order' \in [Orders -> Order], \A o2 \in Orders \ {o} : order'[o2] = order[o2],
         order'[o].method = order[o].method, order'[o].total = order[o].total,
         order'[o].product = order[o].product, order[o].status # "none",
         \/ order'[o].status = order[o].status /\ placed' = placed
         \/ order[o].status = "read" /\ order'[o].status = "awaiting" /\ placed' = Append(placed, o)
         \/ order[o].status = "awaiting" /\ OrderFree(o) /\ order'[o].status = "cancelled" /\ placed' = placed,
         UNCHANGED <<product, transfer, worker, told, supplied, passedOver>>
  PROVE  ShopInv'
<1>2. /\ placed' \in Seq(Orders) /\ Placed \subseteq Placed'
      /\ \/ Placed' = Placed
         \/ Placed' \subseteq Placed \cup {o} /\ order'[o].status = "awaiting"
  <2>1. placed \in Seq(Orders)
    BY Types
  <2>2. CASE placed' = placed
    <3>1. Placed' = Placed
      BY <2>2 DEF Placed
    <3> QED
      BY <2>1, <2>2, <3>1
  <2>3. CASE placed' = Append(placed, o) /\ order'[o].status = "awaiting"
    <3>1. placed' \in Seq(Orders) /\ Len(placed') = Len(placed) + 1 /\ Len(placed) \in Nat
      BY <2>1, <2>3
    <3>2. DOMAIN placed = 1..Len(placed) /\ DOMAIN placed' = 1..(Len(placed) + 1)
      BY <2>1, <3>1
    <3>3. placed'[Len(placed) + 1] = o /\ \A i \in 1..Len(placed) : placed'[i] = placed[i]
      BY <2>1, <2>3
    <3>4. Placed \subseteq Placed'
      BY <3>1, <3>2, <3>3 DEF Placed
    <3>5. \A i \in 1..(Len(placed) + 1) : i \in 1..Len(placed) \/ i = Len(placed) + 1
      BY <3>1
    <3>6. Placed' \subseteq Placed \cup {o}
      BY <3>2, <3>3, <3>5 DEF Placed
    <3> QED
      BY <2>3, <3>1, <3>4, <3>6
  <2> QED
    BY <2>2, <2>3
<1>4. \A o2 \in Orders : /\ o2 \in Placed => order[o2].status \notin {"none", "read"}
                         /\ order[o2].status # "none" => order[o2].product \in Products
  BY DEF ShopInv, OrdersFit
<1>5. ASSUME NEW o2 \in Orders
      PROVE  /\ order'[o2].method = order[o2].method
             /\ order[o2].status # "none" => order'[o2].total = order[o2].total
             /\ \/ order'[o2].status = order[o2].status
                \/ order[o2].status \in {"none", "read"} /\ order'[o2].status \in {"read", "awaiting"}
                \/ order[o2].status = "awaiting" /\ OrderFree(o2) /\ order'[o2].status = "cancelled"
             /\ order'[o2].status # "none" => order'[o2].product \in Products
             /\ o2 \in Placed' => order'[o2].status \notin {"none", "read"}
  <2>1. CASE o2 = o
    BY <1>2, <1>4, <2>1
  <2>2. CASE o2 # o
    BY <1>2, <1>4, <2>2
  <2> QED
    BY <2>1, <2>2
<1> QED
  BY <1>2, <1>5, OrdersMove

LEMMA BuyerKeeps ==
  ASSUME ShopInv, NEW o \in Orders, PlaceOrder(o) \/ CancelOrder(o) \/ Lapse(o)
  PROVE  ShopInv'
<1>1. order \in [Orders -> Order] /\ order[o] \in Order
  BY Types
<1>4. UNCHANGED <<product, transfer, worker, told, supplied, passedOver>>
  BY DEF PlaceOrder, CancelOrder, Lapse
<1>2. CASE PlaceOrder(o)
  <2> DEFINE r == [order[o] EXCEPT !.status = "awaiting"]
  <2>1. /\ order[o].status = "read" /\ placed' = Append(placed, o)
        /\ order' = [order EXCEPT ![o] = r]
    BY <1>1, <1>2 DEF PlaceOrder
  <2>2. /\ r \in Order /\ r.status = "awaiting" /\ r.method = order[o].method /\ r.total = order[o].total
        /\ r.product = order[o].product
    BY <1>1 DEF Order
  <2> HIDE DEF r
  <2>3. order' \in [Orders -> Order] /\ order'[o] = r /\ \A o2 \in Orders \ {o} : order'[o2] = order[o2]
    BY <1>1, <2>1, <2>2
  <2> QED
    BY <1>4, <2>1, <2>2, <2>3, StatusMoves
<1>3. CASE CancelOrder(o)
  <2> DEFINE r == [order[o] EXCEPT !.status = "cancelled", !.lapsed = FALSE]
  <2>1. /\ order[o].status = "awaiting" /\ OrderFree(o) /\ placed' = placed
        /\ order' = [order EXCEPT ![o] = r]
    BY <1>1, <1>3 DEF CancelOrder, Cancellable
  <2>2. /\ r \in Order /\ r.status = "cancelled" /\ r.method = order[o].method /\ r.total = order[o].total
        /\ r.product = order[o].product
    BY <1>1 DEF Order
  <2> HIDE DEF r
  <2>3. order' \in [Orders -> Order] /\ order'[o] = r /\ \A o2 \in Orders \ {o} : order'[o2] = order[o2]
    BY <1>1, <2>1, <2>2
  <2> QED
    BY <1>4, <2>1, <2>2, <2>3, StatusMoves
<1>5. CASE Lapse(o)
  <2> DEFINE r == [order[o] EXCEPT !.lapsed = TRUE]
  <2>1. /\ order[o].status = "awaiting" /\ placed' = placed
        /\ order' = [order EXCEPT ![o] = r]
    BY <1>1, <1>5 DEF Lapse, Open
  <2>2. /\ r \in Order /\ r.status = order[o].status /\ r.method = order[o].method /\ r.total = order[o].total
        /\ r.product = order[o].product
    BY <1>1 DEF Order
  <2> HIDE DEF r
  <2>3. order' \in [Orders -> Order] /\ order'[o] = r /\ \A o2 \in Orders \ {o} : order'[o2] = order[o2]
    BY <1>1, <2>1, <2>2
  <2> QED
    BY <1>4, <2>1, <2>2, <2>3, StatusMoves
<1> QED
  BY <1>2, <1>3, <1>5

\* A transfer that is made is not one that anybody works on.
LEMMA SendTransferKeeps ==
  ASSUME ShopInv, NEW t \in Transfers, NEW kind \in Kinds, NEW names \in SUBSET Placed, SendTransfer(t, kind, names)
  PROVE  ShopInv'
<1> DEFINE r == [transfer[t] EXCEPT !.sent = TRUE, !.kind = kind, !.names = names]
<1>1. /\ ~transfer[t].sent /\ transfer' = [transfer EXCEPT ![t] = r]
      /\ UNCHANGED <<product, order, placed, worker, told, supplied, passedOver>>
  BY DEF SendTransfer
<1>2. Placed \subseteq Orders
  BY Types DEF Placed
<1>3. r \in Transfer
  BY <1>2, Types DEF Transfer
<1>4. r.sent = TRUE /\ r.names = names /\ r.recorded = transfer[t].recorded /\ r.order = transfer[t].order
  BY Types DEF Transfer
<1>5. ~Sent(t) /\ ~Recorded(t) /\ transfer[t].order = NoOrder
  BY <1>1 DEF ShopInv, LinksFit, Sent
<1> HIDE DEF r
<1>6. transfer' \in [Transfers -> Transfer] /\ \A t2 \in Transfers : transfer'[t2] = IF t2 = t THEN r ELSE transfer[t2]
  BY <1>1, <1>3, Types
<1>7. ASSUME NEW w \in Workers
      PROVE  WorkerFits(worker[w], order, transfer', told, passedOver)
  <2>1. WorkerFits(worker[w], order, transfer, told, passedOver)
    BY DEF ShopInv, WorkersFit
  <2>2. Carries(worker[w]) => worker[w].transfer \in Transfers /\ worker[w].transfer # t
    BY <1>5, <2>1 DEF WorkerFits, Carries, Sent
  <2>3. Carries(worker[w]) => transfer'[worker[w].transfer] = transfer[worker[w].transfer]
    BY <1>6, <2>2
  <2> QED
    BY <2>1, <2>3 DEF WorkerFits, MatchesIn, CoversIn, Carries
<1>8. WorkersFit'
  BY <1>1, <1>7 DEF ShopInv, WorkersFit, Rivals, Carries, Settles, Tells
<1>9. OrdersFit' /\ ToldFit' /\ StockFit'
  BY <1>1 DEF ShopInv, OrdersFit, ToldFit, StockFit, Placed
<1>10. LinksFit'
  <2>1. Placed' = Placed
    BY <1>1 DEF Placed
  <2>2. ~Recorded(t)' /\ transfer'[t].order = NoOrder /\ transfer'[t].names \subseteq Placed
    BY <1>4, <1>5, <1>6 DEF Recorded
  <2>3. \A t2 \in Transfers \ {t} : transfer'[t2] = transfer[t2]
    BY <1>6
  <2>4. ASSUME NEW t2 \in Transfers
        PROVE  /\ transfer'[t2].names \subseteq Placed
               /\ transfer'[t2].recorded = TRUE => transfer'[t2].sent = TRUE
               /\ transfer'[t2].order # NoOrder =>
                    /\ transfer'[t2].recorded = TRUE /\ order[transfer'[t2].order].method = "bank_transfer"
                    /\ CoversIn(order, transfer', t2, transfer'[t2].order)
               /\ transfer'[t2].recorded = TRUE /\ transfer'[t2].order = NoOrder =>
                    \A o \in Orders : MatchesIn(order, transfer', t2, o) => o \in passedOver[t2]
    BY <2>2, <2>3 DEF ShopInv, LinksFit, Recorded, Sent, CoversIn, MatchesIn
  <2>5. \A t2 \in Transfers : transfer'[t2].order = transfer[t2].order
    BY <1>5, <2>2, <2>3
  <2>6. \A t2, t3 \in Transfers : transfer'[t2].order # NoOrder /\ transfer'[t2].order = transfer'[t3].order => t2 = t3
    BY <2>5 DEF ShopInv, LinksFit
  <2>7. \A o \in Orders : order[o].method = "bank_transfer" => \E t2 \in Transfers : transfer'[t2].order = o
    BY <2>5 DEF ShopInv, LinksFit
  <2>8. order' = order /\ passedOver' = passedOver
    BY <1>1
  <2> QED
    BY <2>1, <2>4, <2>6, <2>7, <2>8 DEF LinksFit, Recorded, Sent
<1>11. TypeOK'
  BY <1>1, <1>6, Types DEF TypeOK
<1> QED
  BY <1>8, <1>9, <1>10, <1>11 DEF ShopInv

-----------------------------------------------------------------------------
\* Requests that change no order

\* The answer about an order, or about none.
LEMMA TellingIs ==
  /\ Telling(NoOrder) = Idle
  /\ \A o \in Orders : Telling(o) \in Worker /\ Telling(o).stage = "telling" /\ Telling(o).order = o
<1>1. Idle \in Worker /\ Idle.stage = "idle" /\ Idle.order = NoOrder
  BY DEF Idle, Worker
<1>2. Telling(NoOrder) = Idle
  <2>1. Telling(NoOrder) = [Idle EXCEPT !.stage = "idle", !.order = NoOrder]
    BY DEF Telling
  <2>2. [Idle EXCEPT !.stage = "idle", !.order = NoOrder] = Idle
    BY <1>1 DEF Worker
  <2> QED
    BY <2>1, <2>2
<1>3. ASSUME NEW o \in Orders
      PROVE  Telling(o) \in Worker /\ Telling(o).stage = "telling" /\ Telling(o).order = o
  <2>1. o # NoOrder
    BY ShopAssumption
  <2>2. Telling(o) = [Idle EXCEPT !.stage = "telling", !.order = o]
    BY <2>1 DEF Telling
  <2> QED
    BY <1>1, <2>2 DEF Worker
<1> QED
  BY <1>2, <1>3

\* A request is over, and may have changed stock.
LEMMA GoesIdle ==
  ASSUME ShopInv, NEW w \in Workers, worker' = [worker EXCEPT ![w] = Idle],
         UNCHANGED <<order, placed, transfer, told, passedOver>>,
         product' \in [Products -> Product], supplied' \in [Products -> Nat],
         \A p \in Products : product'[p].onHand <= supplied'[p]
  PROVE  ShopInv'
<1>1. WorkerFits(Idle, order, transfer, told, passedOver')
  BY IdleFits
<1>2. \A v \in Workers \ {w} : ~Rivals(Idle, worker[v]) /\ ~Rivals(worker[v], Idle)
  BY DEF Rivals, Carries, Settles, Tells, Idle
<1>3. /\ UNCHANGED <<order, placed, transfer, told>>
      /\ passedOver' \in [Transfers -> SUBSET Orders] /\ passedOver' = passedOver
  BY Types
<1>4. \A t \in Transfers : passedOver'[t] = passedOver[t] \/ (Carries(worker[w]) /\ worker[w].transfer = t)
  BY <1>3
<1> QED
  BY <1>1, <1>2, <1>3, <1>4, WorkerMoves

\* What WorkerMoves asks of stock, when it is unchanged.
LEMMA StockStays ==
  ASSUME ShopInv, UNCHANGED <<product, supplied>>
  PROVE  /\ product' \in [Products -> Product] /\ supplied' \in [Products -> Nat]
         /\ \A p \in Products : product'[p].onHand <= supplied'[p]
  BY Types DEF ShopInv, StockFit

LEMMA FailKeeps ==
  ASSUME ShopInv, NEW w \in Workers, Fail(w)
  PROVE  ShopInv'
<1>1. /\ worker' = [worker EXCEPT ![w] = Idle]
      /\ UNCHANGED <<product, supplied>> /\ UNCHANGED <<order, placed, transfer, told, passedOver>>
  BY DEF Fail
<1> QED
  BY <1>1, StockStays, GoesIdle

\* A request takes something up that no other holds, and leaves the rest alone.
LEMMA TakesUp ==
  ASSUME ShopInv, NEW w \in Workers, NEW r, worker' = [worker EXCEPT ![w] = r],
         WorkerFits(r, order, transfer, told, passedOver),
         \A v \in Workers \ {w} : ~Rivals(r, worker[v]) /\ ~Rivals(worker[v], r),
         UNCHANGED <<product, order, placed, transfer, told, supplied, passedOver>>
  PROVE  ShopInv'
<1>1. /\ UNCHANGED <<order, placed, transfer, told>> /\ UNCHANGED <<product, supplied>>
      /\ passedOver' \in [Transfers -> SUBSET Orders] /\ passedOver' = passedOver
  BY Types
<1>2. \A t \in Transfers : passedOver'[t] = passedOver[t] \/ (Carries(worker[w]) /\ worker[w].transfer = t)
  BY <1>1
<1>3. WorkerFits(r, order, transfer, told, passedOver')
  BY <1>1
<1> QED
  BY <1>1, <1>2, <1>3, StockStays, WorkerMoves

LEMMA RecordPaymentKeeps ==
  ASSUME ShopInv, NEW w \in Workers, NEW t \in Transfers, RecordPayment(w, t)
  PROVE  ShopInv'
<1>1. Telling(NoOrder) = Idle
  BY TellingIs
<1>2. /\ UNCHANGED <<product, supplied>> /\ UNCHANGED <<order, placed, transfer, told, passedOver>>
      /\ UNCHANGED <<product, order, placed, transfer, told, supplied, passedOver>>
  BY DEF RecordPayment
<1>3. CASE transfer[t].recorded
  <2>1. worker' = [worker EXCEPT ![w] = Idle]
    BY <1>1, <1>3 DEF RecordPayment, RecordedBefore, AnswerDuplicate
  <2> QED
    BY <1>2, <2>1, StockStays, GoesIdle
<1>4. CASE ~transfer[t].recorded
  <2> DEFINE r == [Idle EXCEPT !.stage = "inserted", !.transfer = t]
  <2>1. worker' = [worker EXCEPT ![w] = r]
    BY <1>4 DEF RecordPayment, RecordedBefore
  <2>2. r.stage = "inserted" /\ r.transfer = t /\ r.order = NoOrder /\ r \in Worker
    BY DEF Idle, Worker
  <2>3. PaymentFree(t)
    BY DEF RecordPayment
  <2>4. transfer[t].sent = TRUE /\ transfer[t].recorded # TRUE
    <3>1. transfer[t].sent
      BY DEF RecordPayment
    <3>2. transfer[t].sent \in BOOLEAN /\ transfer[t].recorded \in BOOLEAN
      BY Types DEF Transfer
    <3> QED
      BY <1>4, <3>1, <3>2
  <2> HIDE DEF r
  <2>5. WorkerFits(r, order, transfer, told, passedOver)
    BY <2>2, <2>4 DEF WorkerFits
  <2>6. \A v \in Workers \ {w} : ~Rivals(r, worker[v]) /\ ~Rivals(worker[v], r)
    BY <2>2, <2>3 DEF Rivals, Carries, Settles, Tells, PaymentFree
  <2> QED
    BY <1>2, <2>1, <2>5, <2>6, TakesUp
<1> QED
  BY <1>3, <1>4

LEMMA PayOrderKeeps ==
  ASSUME ShopInv, NEW w \in Workers, NEW o \in Orders, PayOrder(w, o)
  PROVE  ShopInv'
<1> DEFINE r == [Idle EXCEPT !.stage = "paying", !.order = o]
<1>1. /\ worker' = [worker EXCEPT ![w] = r] /\ order[o].status = "awaiting" /\ OrderFree(o)
      /\ UNCHANGED <<product, order, placed, transfer, told, supplied, passedOver>>
  BY DEF PayOrder, Payable
<1>2. r.stage = "paying" /\ r.order = o /\ r \in Worker
  BY DEF Idle, Worker
<1> HIDE DEF r
<1>3. WorkerFits(r, order, transfer, told, passedOver)
  BY <1>1, <1>2 DEF WorkerFits
<1>4. \A v \in Workers \ {w} : ~Rivals(r, worker[v]) /\ ~Rivals(worker[v], r)
  BY <1>1, <1>2 DEF Rivals, Carries, Settles, Tells, OrderFree
<1> QED
  BY <1>1, <1>3, <1>4, TakesUp

LEMMA CheckDeleteKeeps ==
  ASSUME ShopInv, NEW w \in Workers, NEW p \in Products, CheckDelete(w, p)
  PROVE  ShopInv'
<1> DEFINE r == [Idle EXCEPT !.stage = "deleting", !.product = p]
<1>1. /\ worker' = [worker EXCEPT ![w] = r]
      /\ UNCHANGED <<product, order, placed, transfer, told, supplied, passedOver>>
  BY DEF CheckDelete
<1>2. r.stage = "deleting" /\ r.product = p /\ r \in Worker
  BY DEF Idle, Worker
<1> HIDE DEF r
<1>3. WorkerFits(r, order, transfer, told, passedOver)
  BY <1>2 DEF WorkerFits
<1>4. \A v \in Workers \ {w} : ~Rivals(r, worker[v]) /\ ~Rivals(worker[v], r)
  BY <1>2 DEF Rivals, Carries, Settles, Tells
<1> QED
  BY <1>1, <1>3, <1>4, TakesUp

\* A settlement takes the oldest order nobody holds, or passes over those that are held.
LEMMA SettleOrderKeeps ==
  ASSUME ShopInv, NEW w \in Workers, SettleOrder(w)
  PROVE  ShopInv'
<1> DEFINE t == worker[w].transfer
           found == {o \in Orders : Matches(t, o)}
<1>1. /\ worker[w].stage = "inserted"
      /\ UNCHANGED <<order, placed, transfer, told>> /\ UNCHANGED <<product, supplied>>
  BY DEF SettleOrder
<1>2. /\ worker[w] \in Worker /\ worker[w].order = NoOrder
      /\ t \in Transfers /\ transfer[t].sent = TRUE /\ transfer[t].recorded # TRUE
  BY <1>1 DEF ShopInv, WorkersFit, WorkerFits
<1>3. Carries(worker[w]) /\ ~Settles(worker[w]) /\ ~Tells(worker[w])
  BY <1>1 DEF Carries, Settles, Tells
<1>4. \A v \in Workers \ {w} : /\ ~(Carries(worker[v]) /\ worker[v].transfer = t)
                               /\ ~Rivals(worker[w], worker[v]) /\ ~Rivals(worker[v], worker[w])
  BY <1>3 DEF ShopInv, WorkersFit, Rivals
<1>5. CASE /\ worker' = [worker EXCEPT ![w].stage = "matched"]
           /\ passedOver' = [passedOver EXCEPT ![t] = found]
  <2> DEFINE r == [worker[w] EXCEPT !.stage = "matched"]
  <2>1. worker' = [worker EXCEPT ![w] = r]
    BY <1>5, Types
  <2>2. r \in Worker /\ r.stage = "matched" /\ r.order = NoOrder /\ r.transfer = t
    BY <1>2 DEF Worker
  <2>3. /\ passedOver' \in [Transfers -> SUBSET Orders] /\ passedOver'[t] = found
        /\ \A t2 \in Transfers : t2 # t => passedOver'[t2] = passedOver[t2]
    BY <1>2, <1>5, Types
  <2> HIDE DEF r
  <2>4. WorkerFits(r, order, transfer, told, passedOver')
    <3>1. \A o \in Orders : MatchesIn(order, transfer, t, o) => o \in passedOver'[t]
      BY <2>3, MatchesAlike
    <3> HIDE DEF t
    <3> QED
      BY <1>2, <2>2, <3>1 DEF WorkerFits
  <2>5. \A v \in Workers \ {w} : ~Rivals(r, worker[v]) /\ ~Rivals(worker[v], r)
    BY <1>4, <2>2 DEF Rivals, Carries, Settles, Tells
  <2>6. \A t2 \in Transfers : passedOver'[t2] = passedOver[t2] \/ (Carries(worker[w]) /\ worker[w].transfer = t2)
    BY <1>3, <2>3
  <2> QED
    BY <1>1, <2>1, <2>3, <2>4, <2>5, <2>6, StockStays, WorkerMoves
<1>6. ASSUME NEW o \in Orders, Matches(t, o), OrderFree(o),
             worker' = [worker EXCEPT ![w].stage = "matched", ![w].order = o],
             passedOver' = [passedOver EXCEPT ![t] = {}]
      PROVE  ShopInv'
  <2> DEFINE r == [worker[w] EXCEPT !.stage = "matched", !.order = o]
  <2>1. worker' = [worker EXCEPT ![w] = r]
    BY <1>6, Types
  <2>2. r \in Worker /\ r.stage = "matched" /\ r.order = o /\ r.transfer = t
    BY <1>2 DEF Worker
  <2>3. /\ passedOver' \in [Transfers -> SUBSET Orders]
        /\ \A t2 \in Transfers : t2 # t => passedOver'[t2] = passedOver[t2]
    BY <1>2, <1>6, Types
  <2> HIDE DEF r
  <2>4. WorkerFits(r, order, transfer, told, passedOver')
    <3>1. MatchesIn(order, transfer, t, o) /\ o # NoOrder
      BY <1>6, MatchesAlike, ShopAssumption
    <3> HIDE DEF t
    <3> QED
      BY <1>2, <2>2, <3>1 DEF WorkerFits
  <2>5. \A v \in Workers \ {w} : ~Rivals(r, worker[v]) /\ ~Rivals(worker[v], r)
    <3>1. \A v \in Workers : ~(Settles(worker[v]) /\ worker[v].order = o)
      BY <1>6 DEF OrderFree, Settles
    <3> QED
      BY <1>4, <2>2, <3>1 DEF Rivals, Carries, Tells
  <2>6. \A t2 \in Transfers : passedOver'[t2] = passedOver[t2] \/ (Carries(worker[w]) /\ worker[w].transfer = t2)
    BY <1>3, <2>3
  <2> QED
    BY <1>1, <2>1, <2>3, <2>4, <2>5, <2>6, StockStays, WorkerMoves
<1> QED
  BY <1>5, <1>6 DEF SettleOrder

\* The buyer of a paid order is told, by the only request that has its answer.
LEMMA TellBuyerKeeps ==
  ASSUME ShopInv, NEW w \in Workers, TellBuyer(w)
  PROVE  ShopInv'
<1> DEFINE o == worker[w].order
<1>1. /\ worker[w].stage = "telling" /\ told' = [told EXCEPT ![o] = @ + 1] /\ worker' = [worker EXCEPT ![w] = Idle]
      /\ UNCHANGED <<product, order, placed, transfer, supplied, passedOver>>
  BY DEF TellBuyer
<1>2. o \in Orders /\ order[o].status = "paid" /\ told[o] = 0
  BY <1>1 DEF ShopInv, WorkersFit, WorkerFits
<1>3. /\ told' \in [Orders -> Nat] /\ told'[o] = 1
      /\ \A o2 \in Orders : o2 # o => told'[o2] = told[o2]
  BY <1>1, <1>2, Types
<1>4. /\ worker' \in [Workers -> Worker]
      /\ \A v \in Workers : worker'[v] = IF v = w THEN Idle ELSE worker[v]
  BY <1>1, Types DEF Idle, Worker
<1>5. ASSUME NEW v \in Workers
      PROVE  WorkerFits(worker'[v], order, transfer, told', passedOver)
  <2>1. CASE v = w
    BY <1>4, <2>1, IdleFits
  <2>2. CASE v # w
    <3>1. WorkerFits(worker[v], order, transfer, told, passedOver)
      BY DEF ShopInv, WorkersFit
    <3>2. Tells(worker[w]) /\ ~Rivals(worker[v], worker[w])
      BY <1>1, <2>2 DEF ShopInv, WorkersFit, Tells
    <3>3. worker[v].stage = "telling" => worker[v].order # o
      BY <3>2 DEF Rivals, Tells
    <3>4. worker[v].stage = "telling" => worker[v].order \in Orders /\ told'[worker[v].order] = 0
      BY <1>3, <3>1, <3>3 DEF WorkerFits
    <3>5. worker'[v] = worker[v]
      BY <1>4, <2>2
    <3>6. WorkerFits(worker[v], order, transfer, told', passedOver)
      BY <3>1, <3>4 DEF WorkerFits
    <3> QED
      BY <3>5, <3>6
  <2> QED
    BY <2>1, <2>2
<1>6. \A v, u \in Workers : v # u => ~Rivals(worker'[v], worker'[u])
  BY <1>4, IdleFits DEF ShopInv, WorkersFit, Rivals
<1>7. WorkersFit'
  BY <1>1, <1>5, <1>6 DEF WorkersFit
<1>8. ToldFit'
  BY <1>1, <1>2, <1>3 DEF ShopInv, ToldFit
<1>9. Placed' = Placed
  BY <1>1 DEF Placed
<1>10. OrdersFit' /\ StockFit'
  BY <1>1, <1>9 DEF ShopInv, OrdersFit, StockFit
<1>11. LinksFit'
  BY <1>1, <1>9 DEF ShopInv, LinksFit, Recorded, Sent, CoversIn, MatchesIn
<1>12. TypeOK'
  BY <1>1, <1>3, <1>4, Types DEF TypeOK
<1> QED
  BY <1>7, <1>8, <1>10, <1>11, <1>12 DEF ShopInv

-----------------------------------------------------------------------------
\* Stock

LEMMA AddStockKeeps ==
  ASSUME ShopInv, NEW p \in Products, NEW units \in 1..MaxStock, AddStock(p, units)
  PROVE  ShopInv'
<1> DEFINE r == [product[p] EXCEPT !.onHand = @ + units]
<1>1. /\ product' = [product EXCEPT ![p] = r] /\ product[p].onHand + units <= MaxStock
      /\ supplied' = [supplied EXCEPT ![p] = @ + units]
      /\ UNCHANGED <<order, placed, transfer, worker, told, passedOver>>
  BY Types DEF AddStock
<1>2. /\ product[p].onHand \in Nat /\ units \in Nat /\ supplied[p] \in Nat /\ MaxStock \in Nat
      /\ product[p].onHand <= supplied[p]
  BY Types, ShopAssumption DEF Product, ShopInv, StockFit
<1>3. product[p].onHand + units \in 0..MaxStock
  BY <1>1, <1>2
<1>4. r \in Product /\ r.onHand = product[p].onHand + units
  BY <1>3, Types DEF Product
<1> HIDE DEF r
<1>5. /\ product' \in [Products -> Product]
      /\ \A p2 \in Products : product'[p2] = IF p2 = p THEN r ELSE product[p2]
  BY <1>1, <1>4, Types
<1>6. /\ supplied' \in [Products -> Nat]
      /\ \A p2 \in Products : supplied'[p2] = IF p2 = p THEN supplied[p] + units ELSE supplied[p2]
  BY <1>1, <1>2, Types
<1>7. \A p2 \in Products : product'[p2].onHand <= supplied'[p2]
  BY <1>2, <1>4, <1>5, <1>6 DEF ShopInv, StockFit
<1> QED
  BY <1>1, <1>5, <1>6, <1>7, StockMoves

LEMMA RemoveStockKeeps ==
  ASSUME ShopInv, NEW p \in Products, NEW units \in 1..MaxStock, RemoveStock(p, units)
  PROVE  ShopInv'
<1> DEFINE r == [product[p] EXCEPT !.onHand = @ - units]
<1>1. /\ product' = [product EXCEPT ![p] = r] /\ units <= product[p].onHand
      /\ supplied' = [supplied EXCEPT ![p] = @ - units]
      /\ UNCHANGED <<order, placed, transfer, worker, told, passedOver>>
  BY Types DEF RemoveStock, Removable
<1>2. /\ product[p].onHand \in 0..MaxStock /\ units \in Nat /\ supplied[p] \in Nat /\ MaxStock \in Nat
      /\ product[p].onHand <= supplied[p]
  BY Types, ShopAssumption DEF Product, ShopInv, StockFit
<1>3. product[p].onHand - units \in 0..MaxStock /\ supplied[p] - units \in Nat
  BY <1>1, <1>2
<1>4. r \in Product /\ r.onHand = product[p].onHand - units
  BY <1>3, Types DEF Product
<1> HIDE DEF r
<1>5. /\ product' \in [Products -> Product]
      /\ \A p2 \in Products : product'[p2] = IF p2 = p THEN r ELSE product[p2]
  BY <1>1, <1>4, Types
<1>6. /\ supplied' \in [Products -> Nat]
      /\ \A p2 \in Products : supplied'[p2] = IF p2 = p THEN supplied[p] - units ELSE supplied[p2]
  BY <1>1, <1>3, Types
<1>7. \A p2 \in Products : product'[p2].onHand <= supplied'[p2]
  BY <1>2, <1>3, <1>4, <1>5, <1>6 DEF ShopInv, StockFit
<1> QED
  BY <1>1, <1>5, <1>6, <1>7, StockMoves

LEMMA AdjustProductKeeps ==
  ASSUME ShopInv, NEW p \in Products, NEW price \in 1..MaxPrice, NEW listed \in BOOLEAN,
         AdjustProduct(p, price, listed)
  PROVE  ShopInv'
<1> DEFINE r == [product[p] EXCEPT !.price = price, !.listed = listed]
<1>1. /\ product' = [product EXCEPT ![p] = r]
      /\ UNCHANGED <<order, placed, transfer, worker, told, passedOver>> /\ supplied' = supplied
  BY Types DEF AdjustProduct
<1>2. r \in Product /\ r.onHand = product[p].onHand
  BY Types DEF Product
<1> HIDE DEF r
<1>3. /\ product' \in [Products -> Product] /\ supplied' \in [Products -> Nat]
      /\ \A p2 \in Products : product'[p2] = IF p2 = p THEN r ELSE product[p2]
  BY <1>1, <1>2, Types
<1>4. \A p2 \in Products : product'[p2].onHand <= supplied'[p2]
  BY <1>1, <1>2, <1>3 DEF ShopInv, StockFit
<1> QED
  BY <1>1, <1>3, <1>4, StockMoves

LEMMA InsertProductKeeps ==
  ASSUME ShopInv, NEW p \in Products, NEW price \in 1..MaxPrice, NEW units \in 0..MaxStock,
         InsertProduct(p, price, units)
  PROVE  ShopInv'
<1> DEFINE r == [exists |-> TRUE, listed |-> TRUE, price |-> price, onHand |-> units]
<1>1. /\ product' = [product EXCEPT ![p] = r] /\ supplied' = [supplied EXCEPT ![p] = @ + units]
      /\ UNCHANGED <<order, placed, transfer, worker, told, passedOver>>
  BY DEF InsertProduct
<1>2. r \in Product /\ r.onHand = units
  BY DEF Product
<1> HIDE DEF r
<1>3. units \in Nat /\ supplied[p] \in Nat
  BY Types, ShopAssumption
<1>4. /\ product' \in [Products -> Product]
      /\ \A p2 \in Products : product'[p2] = IF p2 = p THEN r ELSE product[p2]
  BY <1>1, <1>2, Types
<1>5. /\ supplied' \in [Products -> Nat]
      /\ \A p2 \in Products : supplied'[p2] = IF p2 = p THEN supplied[p] + units ELSE supplied[p2]
  BY <1>1, <1>3, Types
<1>6. \A p2 \in Products : product'[p2].onHand <= supplied'[p2]
  BY <1>2, <1>3, <1>4, <1>5 DEF ShopInv, StockFit
<1> QED
  BY <1>1, <1>4, <1>5, <1>6, StockMoves

LEMMA DeleteProductKeeps ==
  ASSUME ShopInv, NEW w \in Workers, DeleteProduct(w)
  PROVE  ShopInv'
<1> DEFINE p == worker[w].product
<1>1. /\ worker[w].stage = "deleting" /\ worker' = [worker EXCEPT ![w] = Idle]
      /\ product' = [product EXCEPT ![p] = NoRow] /\ supplied' = [supplied EXCEPT ![p] = @ - product[p].onHand]
      /\ UNCHANGED <<order, placed, transfer, told, passedOver>>
  BY DEF DeleteProduct
<1>2. p \in Products
  BY <1>1 DEF ShopInv, WorkersFit, WorkerFits
<1>3. NoRow \in Product /\ NoRow.onHand = 0
  BY ShopAssumption DEF NoRow, Product
<1> HIDE DEF p
<1>4. product[p].onHand \in Nat /\ supplied[p] \in Nat /\ product[p].onHand <= supplied[p]
  BY <1>2, Types, ShopAssumption DEF Product, ShopInv, StockFit
<1>5. supplied[p] - product[p].onHand \in Nat
  BY <1>4
<1>6. /\ product' \in [Products -> Product]
      /\ \A p2 \in Products : product'[p2] = IF p2 = p THEN NoRow ELSE product[p2]
  BY <1>1, <1>2, <1>3, Types
<1>7. /\ supplied' \in [Products -> Nat] /\ supplied'[p] \in Nat
      /\ \A p2 \in Products : p2 # p => supplied'[p2] = supplied[p2]
  BY <1>1, <1>2, <1>5, Types
<1>8. ASSUME NEW p2 \in Products
      PROVE  product'[p2].onHand <= supplied'[p2]
  <2>1. CASE p2 = p
    BY <1>3, <1>6, <1>7, <2>1
  <2>2. CASE p2 # p
    BY <1>6, <1>7, <2>2 DEF ShopInv, StockFit
  <2> QED
    BY <2>1, <2>2
<1> QED
  BY <1>1, <1>6, <1>7, <1>8, GoesIdle

-----------------------------------------------------------------------------
\* Settlement

LEMMA PaidOrder ==
  ASSUME ShopInv, NEW o \in Orders, order[o].status = "awaiting", NEW m \in {"bank_transfer", "by_hand"},
         order' = Paid(o, m)
  PROVE  /\ order' \in [Orders -> Order]
         /\ order'[o].status = "paid" /\ order'[o].method = m
         /\ order'[o].total = order[o].total /\ order'[o].product = order[o].product
         /\ \A o2 \in Orders : o2 # o => order'[o2] = order[o2]
<1> DEFINE r == [order[o] EXCEPT !.status = "paid", !.method = m, !.lapsed = FALSE]
<1>1. order' = [order EXCEPT ![o] = r]
  BY Types DEF Paid
<1>2. /\ r \in Order /\ r.status = "paid" /\ r.method = m
      /\ r.total = order[o].total /\ r.product = order[o].product
  BY Types DEF Order
<1> HIDE DEF r
<1> QED
  BY <1>1, <1>2, Types

LEMMA ConsumedStock ==
  ASSUME ShopInv, NEW o \in Orders, order[o].status = "awaiting", product' = Consumed(o), supplied' = supplied
  PROVE  StockFit' /\ product' \in [Products -> Product]
<1> DEFINE p == order[o].product
           left == IF product[p].onHand > order[o].quantity THEN product[p].onHand - order[o].quantity ELSE 0
           r == [product[p] EXCEPT !.onHand = left]
<1>1. p \in Products
  BY DEF ShopInv, OrdersFit
<1>2. product' = [product EXCEPT ![p] = r]
  BY <1>1, Types DEF Consumed
<1>3. product[p].onHand \in 0..MaxStock /\ order[o].quantity \in 0..MaxQuantity /\ product[p] \in Product
  BY <1>1, Types DEF Product, Order
<1>4. left \in 0..MaxStock /\ left <= product[p].onHand
  BY <1>3, ShopAssumption
<1> HIDE DEF p, left
<1>5. r \in Product /\ r.onHand = left
  BY <1>3, <1>4 DEF Product
<1> HIDE DEF r
<1>6. /\ product' \in [Products -> Product]
      /\ \A p2 \in Products : product'[p2] = IF p2 = p THEN r ELSE product[p2]
  BY <1>1, <1>2, <1>5, Types
<1>7. product[p].onHand <= supplied[p] /\ supplied[p] \in Nat /\ product[p].onHand \in Nat /\ left \in Nat
  BY <1>1, <1>3, <1>4, Types, ShopAssumption DEF ShopInv, StockFit
<1>8. ASSUME NEW p2 \in Products
      PROVE  product'[p2].onHand <= supplied[p2]
  <2>1. CASE p2 = p
    BY <1>4, <1>5, <1>6, <1>7, <2>1
  <2>2. CASE p2 # p
    BY <1>6, <2>2 DEF ShopInv, StockFit
  <2> QED
    BY <2>1, <2>2
<1> QED
  BY <1>6, <1>8 DEF StockFit

\* Request w settles order o; of the transfers only its own may change.
LEMMA Settlement ==
  ASSUME ShopInv, NEW w \in Workers, NEW o \in Orders, order[o].status = "awaiting", worker[w].order = o,
         worker[w].stage \in {"matched", "paying"},
         NEW m \in {"bank_transfer", "by_hand"}, order' = Paid(o, m), product' = Consumed(o),
         worker' = [worker EXCEPT ![w] = Telling(o)],
         \A t \in Transfers : \/ transfer'[t] = transfer[t]
                              \/ worker[w].stage = "matched" /\ worker[w].transfer = t,
         transfer' \in [Transfers -> Transfer],
         UNCHANGED <<placed, told, supplied, passedOver>>
  PROVE  TypeOK' /\ WorkersFit' /\ OrdersFit' /\ ToldFit' /\ StockFit'
<1>1. /\ order' \in [Orders -> Order]
      /\ order'[o].status = "paid" /\ order'[o].method = m
      /\ order'[o].total = order[o].total /\ order'[o].product = order[o].product
      /\ \A o2 \in Orders : o2 # o => order'[o2] = order[o2]
  BY PaidOrder
<1>2. StockFit' /\ product' \in [Products -> Product]
  BY ConsumedStock
<1>3. Telling(o) \in Worker /\ Telling(o).stage = "telling" /\ Telling(o).order = o
  BY TellingIs
<1>4. /\ worker' \in [Workers -> Worker]
      /\ \A v \in Workers : worker'[v] = IF v = w THEN Telling(o) ELSE worker[v]
  BY <1>3, Types
<1>5. told[o] = 0
  BY DEF ShopInv, ToldFit
<1>6. Settles(worker[w]) /\ (worker[w].stage = "matched" => Carries(worker[w]))
  BY ShopAssumption DEF Settles, Carries
<1>7. ASSUME NEW v \in Workers, v # w
      PROVE  WorkerFits(worker[v], order', transfer', told, passedOver)
  <2>1. WorkerFits(worker[v], order, transfer, told, passedOver) /\ ~Rivals(worker[v], worker[w])
    BY <1>7 DEF ShopInv, WorkersFit
  <2>2. Carries(worker[v]) => /\ worker[v].transfer \in Transfers
                              /\ transfer'[worker[v].transfer] = transfer[worker[v].transfer]
    <3>1. Carries(worker[v]) => worker[v].transfer \in Transfers
      BY <2>1 DEF WorkerFits, Carries
    <3>2. Carries(worker[v]) /\ worker[w].stage = "matched" => worker[v].transfer # worker[w].transfer
      BY <1>6, <2>1 DEF Rivals
    <3> QED
      BY <3>1, <3>2
  <2>3. Settles(worker[v]) => worker[v].order # o
    BY <1>6, <2>1 DEF Rivals
  <2>4. worker[v].stage = "telling" => worker[v].order # o
    BY <2>1 DEF WorkerFits
  <2>5. \A o2 \in Orders : CoversIn(order', transfer', worker[v].transfer, o2) /\ Carries(worker[v])
          => CoversIn(order, transfer, worker[v].transfer, o2)
    BY <1>1, <2>2 DEF CoversIn
  <2>6. \A o2 \in Orders : MatchesIn(order', transfer', worker[v].transfer, o2) /\ Carries(worker[v])
          => MatchesIn(order, transfer, worker[v].transfer, o2)
    BY <1>1, <2>5 DEF MatchesIn
  <2>7. Settles(worker[v]) /\ Carries(worker[v]) => MatchesIn(order', transfer', worker[v].transfer, worker[v].order)
    <3>1. Settles(worker[v]) /\ Carries(worker[v]) =>
            worker[v].order \in Orders /\ MatchesIn(order, transfer, worker[v].transfer, worker[v].order)
      BY <2>1 DEF WorkerFits, Settles, Carries
    <3>2. Settles(worker[v]) /\ Carries(worker[v]) => order'[worker[v].order] = order[worker[v].order]
      BY <1>1, <2>3, <3>1
    <3> QED
      BY <2>2, <3>1, <3>2 DEF MatchesIn, CoversIn
  <2>8. worker[v].stage = "paying" => /\ worker[v].order \in Orders
                                      /\ order'[worker[v].order].status = "awaiting"
    <3>1. worker[v].stage = "paying" => worker[v].order \in Orders /\ order[worker[v].order].status = "awaiting"
      BY <2>1 DEF WorkerFits
    <3>2. worker[v].stage = "paying" => worker[v].order # o
      BY <2>3, <3>1, ShopAssumption DEF Settles
    <3> QED
      BY <1>1, <3>1, <3>2
  <2>9. worker[v].stage = "telling" => /\ worker[v].order \in Orders
                                       /\ order'[worker[v].order].status = "paid" /\ told[worker[v].order] = 0
    BY <1>1, <2>1, <2>4 DEF WorkerFits
  <2> QED
    BY <2>1, <2>2, <2>6, <2>7, <2>8, <2>9 DEF WorkerFits, Carries, Settles
<1>8. WorkerFits(Telling(o), order', transfer', told, passedOver)
  BY <1>1, <1>3, <1>5 DEF WorkerFits
<1>9. ASSUME NEW v \in Workers, v # w
      PROVE  ~Rivals(worker[v], Telling(o)) /\ ~Rivals(Telling(o), worker[v])
  <2>1. WorkerFits(worker[v], order, transfer, told, passedOver)
    BY DEF ShopInv, WorkersFit
  <2>2. worker[v].stage = "telling" => worker[v].order # o
    BY <2>1 DEF WorkerFits
  <2> QED
    BY <1>3, <2>2 DEF Rivals, Carries, Settles, Tells
<1>10. WorkersFit'
  <2>1. \A v \in Workers : WorkerFits(worker'[v], order', transfer', told', passedOver')
    BY <1>4, <1>7, <1>8
  <2>2. \A v, u \in Workers : v # u => ~Rivals(worker'[v], worker'[u])
    BY <1>4, <1>9 DEF ShopInv, WorkersFit
  <2> QED
    BY <2>1, <2>2 DEF WorkersFit
<1>11. Placed' = Placed
  BY DEF Placed
<1>12. OrdersFit'
  BY <1>1, <1>11 DEF ShopInv, OrdersFit
<1>13. ToldFit'
  BY <1>1 DEF ShopInv, ToldFit
<1>14. TypeOK'
  BY <1>1, <1>2, <1>4, Types DEF TypeOK
<1> QED
  BY <1>2, <1>10, <1>12, <1>13, <1>14

LEMMA CommitPayOrderKeeps ==
  ASSUME ShopInv, NEW w \in Workers, CommitPayOrder(w)
  PROVE  ShopInv'
<1> DEFINE o == worker[w].order
<1>1. /\ worker[w].stage = "paying" /\ order' = Paid(o, "by_hand") /\ product' = Consumed(o)
      /\ worker' = [worker EXCEPT ![w] = Telling(o)] /\ transfer' = transfer
      /\ UNCHANGED <<placed, told, supplied, passedOver>>
  BY DEF CommitPayOrder
<1>2. o \in Orders /\ order[o].status = "awaiting"
  BY <1>1 DEF ShopInv, WorkersFit, WorkerFits
<1>3. transfer' \in [Transfers -> Transfer] /\ \A t \in Transfers : transfer'[t] = transfer[t]
  BY <1>1, Types
<1>4. TypeOK' /\ WorkersFit' /\ OrdersFit' /\ ToldFit' /\ StockFit'
  BY <1>1, <1>2, <1>3, Settlement
<1>5. LinksFit'
  <2>1. /\ order'[o].status = "paid" /\ order'[o].method = "by_hand" /\ order'[o].total = order[o].total
        /\ \A o2 \in Orders : o2 # o => order'[o2] = order[o2]
    BY <1>1, <1>2, PaidOrder
  <2>2. Placed' = Placed
    BY <1>1 DEF Placed
  <2>3. \A t \in Transfers : transfer[t].order # NoOrder => transfer[t].order \in Orders \ {o}
    <3>1. \A t \in Transfers : transfer[t].order # NoOrder => transfer[t].order \in Orders
      BY Types DEF Transfer
    <3>2. order[o].method # "bank_transfer"
      BY <1>2 DEF ShopInv, OrdersFit
    <3> QED
      BY <3>1, <3>2 DEF ShopInv, LinksFit
  <2>4. \A t \in Transfers, o2 \in Orders : /\ MatchesIn(order', transfer, t, o2) => MatchesIn(order, transfer, t, o2)
                                            /\ CoversIn(order, transfer, t, o2) => CoversIn(order', transfer, t, o2)
    BY <2>1 DEF MatchesIn, CoversIn
  <2>5. \A o2 \in Orders : order'[o2].method = "bank_transfer" => order[o2].method = "bank_transfer"
    BY <2>1
  <2>6. ASSUME NEW t \in Transfers, transfer[t].order # NoOrder
        PROVE  /\ Recorded(t) /\ order'[transfer[t].order].method = "bank_transfer"
               /\ CoversIn(order', transfer, t, transfer[t].order)
    BY <2>1, <2>3, <2>4, <2>6 DEF ShopInv, LinksFit
  <2> HIDE DEF o
  <2> QED
    BY <1>1, <2>2, <2>4, <2>5, <2>6 DEF ShopInv, LinksFit, Recorded, Sent
<1> QED
  BY <1>4, <1>5 DEF ShopInv

\* A transfer that settles nothing is recorded, and left for a human.
LEMMA CommitUnmatched ==
  ASSUME ShopInv, NEW w \in Workers, CommitPayment(w), worker[w].order = NoOrder
  PROVE  ShopInv'
<1> DEFINE t == worker[w].transfer
           r == [transfer[t] EXCEPT !.recorded = TRUE, !.order = NoOrder]
<1>1. Telling(NoOrder) = Idle
  BY TellingIs
<1>2. worker[w].stage = "matched" /\ UNCHANGED <<product, order, placed, told, supplied, passedOver>>
  BY DEF CommitPayment
<1>3. worker' = [worker EXCEPT ![w] = Idle] /\ transfer' = [transfer EXCEPT ![t] = r]
  BY <1>1, Types DEF CommitPayment
<1>4. /\ t \in Transfers /\ transfer[t].sent = TRUE /\ transfer[t].recorded # TRUE
      /\ \A o \in Orders : MatchesIn(order, transfer, t, o) => o \in passedOver[t]
  BY <1>2 DEF ShopInv, WorkersFit, WorkerFits
<1>5. /\ r \in Transfer /\ r.sent = TRUE /\ r.recorded = TRUE /\ r.order = NoOrder
      /\ r.kind = transfer[t].kind /\ r.names = transfer[t].names
  BY <1>4, Types DEF Transfer
<1>6. Carries(worker[w])
  BY <1>2 DEF Carries
<1> HIDE DEF r, t
<1>7. /\ transfer' \in [Transfers -> Transfer] /\ transfer'[t] = r
      /\ \A t2 \in Transfers : t2 # t => transfer'[t2] = transfer[t2]
  BY <1>3, <1>4, <1>5, Types
<1>8. /\ worker' \in [Workers -> Worker]
      /\ \A v \in Workers : worker'[v] = IF v = w THEN Idle ELSE worker[v]
  BY <1>3, Types DEF Idle, Worker
<1>9. \A t2 \in Transfers, o \in Orders :
        /\ CoversIn(order, transfer', t2, o) <=> CoversIn(order, transfer, t2, o)
        /\ MatchesIn(order, transfer', t2, o) <=> MatchesIn(order, transfer, t2, o)
  <2> TAKE t2 \in Transfers, o \in Orders
  <2>1. transfer'[t2].kind = transfer[t2].kind /\ transfer'[t2].names = transfer[t2].names
    BY <1>5, <1>7
  <2> QED
    BY <2>1 DEF MatchesIn, CoversIn
<1>10. ASSUME NEW v \in Workers, v # w
       PROVE  WorkerFits(worker[v], order, transfer', told, passedOver)
  <2>1. WorkerFits(worker[v], order, transfer, told, passedOver) /\ ~Rivals(worker[v], worker[w])
    BY <1>10 DEF ShopInv, WorkersFit
  <2>2. Carries(worker[v]) => worker[v].transfer \in Transfers /\ worker[v].transfer # t
    BY <1>6, <2>1 DEF WorkerFits, Rivals, Carries, t
  <2>3. Carries(worker[v]) => transfer'[worker[v].transfer] = transfer[worker[v].transfer]
    BY <1>7, <2>2
  <2> QED
    BY <1>9, <2>1, <2>2, <2>3 DEF WorkerFits, Carries
<1>11. WorkersFit'
  <2>1. \A v \in Workers : WorkerFits(worker'[v], order, transfer', told, passedOver)
    BY <1>8, <1>10, IdleFits
  <2>2. \A v, u \in Workers : v # u => ~Rivals(worker'[v], worker'[u])
    <3>1. \A s : ~Rivals(Idle, s) /\ ~Rivals(s, Idle)
      BY DEF Rivals, Carries, Settles, Tells, Idle
    <3> QED
      BY <1>8, <3>1 DEF ShopInv, WorkersFit
  <2> QED
    BY <1>2, <2>1, <2>2 DEF WorkersFit
<1>12. Placed' = Placed
  BY <1>2 DEF Placed
<1>13. OrdersFit' /\ ToldFit' /\ StockFit'
  BY <1>2, <1>12 DEF ShopInv, OrdersFit, ToldFit, StockFit
<1>14. LinksFit'
  <2>1. transfer[t].order = NoOrder
    BY <1>4 DEF ShopInv, LinksFit, Recorded
  <2>2. \A t2 \in Transfers : transfer'[t2].order = transfer[t2].order /\ transfer'[t2].names = transfer[t2].names
    BY <1>5, <1>7, <2>1
  <2>3. ASSUME NEW t2 \in Transfers
        PROVE  /\ transfer'[t2].names \subseteq Placed
               /\ transfer'[t2].recorded = TRUE => transfer'[t2].sent = TRUE
               /\ transfer'[t2].order # NoOrder =>
                    /\ transfer'[t2].recorded = TRUE /\ order[transfer'[t2].order].method = "bank_transfer"
                    /\ CoversIn(order, transfer', t2, transfer'[t2].order)
               /\ transfer'[t2].recorded = TRUE /\ transfer'[t2].order = NoOrder =>
                    \A o \in Orders : MatchesIn(order, transfer', t2, o) => o \in passedOver[t2]
    <3>1. CASE t2 = t
      BY <1>4, <1>5, <1>7, <1>9, <2>2, <3>1 DEF ShopInv, LinksFit
    <3>2. CASE t2 # t
      <4>1. transfer'[t2] = transfer[t2]
        BY <1>7, <3>2
      <4>2. transfer[t2].order # NoOrder => transfer[t2].order \in Orders
        BY Types DEF Transfer
      <4> QED
        BY <1>9, <4>1, <4>2 DEF ShopInv, LinksFit, Recorded, Sent
    <3> QED
      BY <3>1, <3>2
  <2>4. \A t2, t3 \in Transfers : transfer'[t2].order # NoOrder /\ transfer'[t2].order = transfer'[t3].order => t2 = t3
    BY <2>2 DEF ShopInv, LinksFit
  <2>5. \A o \in Orders : order[o].method = "bank_transfer" => \E t2 \in Transfers : transfer'[t2].order = o
    BY <2>2 DEF ShopInv, LinksFit
  <2>6. order' = order /\ passedOver' = passedOver
    BY <1>2
  <2> QED
    BY <1>12, <2>3, <2>4, <2>5, <2>6 DEF LinksFit, Recorded, Sent
<1>15. TypeOK'
  BY <1>2, <1>7, <1>8, Types DEF TypeOK
<1> QED
  BY <1>11, <1>13, <1>14, <1>15 DEF ShopInv

\* A transfer settles the order it names and covers, which no transfer had settled.
LEMMA CommitMatched ==
  ASSUME ShopInv, NEW w \in Workers, CommitPayment(w), worker[w].order # NoOrder
  PROVE  ShopInv'
<1> DEFINE t == worker[w].transfer
           o == worker[w].order
           r == [transfer[t] EXCEPT !.recorded = TRUE, !.order = o]
<1>1. /\ worker[w].stage = "matched" /\ order' = Paid(o, "bank_transfer") /\ product' = Consumed(o)
      /\ worker' = [worker EXCEPT ![w] = Telling(o)] /\ UNCHANGED <<placed, told, supplied, passedOver>>
  BY DEF CommitPayment
<1>2. transfer' = [transfer EXCEPT ![t] = r]
  BY Types DEF CommitPayment
<1>3. /\ t \in Transfers /\ transfer[t].sent = TRUE /\ transfer[t].recorded # TRUE
      /\ o \in Orders /\ MatchesIn(order, transfer, t, o)
  BY <1>1 DEF ShopInv, WorkersFit, WorkerFits
<1>4. order[o].status = "awaiting" /\ CoversIn(order, transfer, t, o) /\ o # NoOrder
  BY <1>3, ShopAssumption DEF MatchesIn
<1>5. /\ r \in Transfer /\ r.sent = TRUE /\ r.recorded = TRUE /\ r.order = o
      /\ r.kind = transfer[t].kind /\ r.names = transfer[t].names
  BY <1>3, Types DEF Transfer
<1> HIDE DEF r
<1>6. /\ transfer' \in [Transfers -> Transfer] /\ transfer'[t] = r
      /\ \A t2 \in Transfers : t2 # t => transfer'[t2] = transfer[t2]
  BY <1>2, <1>3, <1>5, Types
<1>7. \A t2 \in Transfers : transfer'[t2] = transfer[t2] \/ (worker[w].stage = "matched" /\ worker[w].transfer = t2)
  BY <1>1, <1>6
<1>8. TypeOK' /\ WorkersFit' /\ OrdersFit' /\ ToldFit' /\ StockFit'
  BY <1>1, <1>3, <1>4, <1>6, <1>7, Settlement
<1>9. /\ order'[o].status = "paid" /\ order'[o].method = "bank_transfer" /\ order'[o].total = order[o].total
      /\ \A o2 \in Orders : o2 # o => order'[o2] = order[o2]
  BY <1>1, <1>3, <1>4, PaidOrder
<1>10. Placed' = Placed
  BY <1>1 DEF Placed
<1> HIDE DEF t, o
<1>11. \A t2 \in Transfers : transfer[t2].order # NoOrder => transfer[t2].order \in Orders \ {o} /\ t2 # t
  <2>1. \A t2 \in Transfers : transfer[t2].order # NoOrder => transfer[t2].order \in Orders
    BY Types DEF Transfer
  <2>2. order[o].method # "bank_transfer"
    BY <1>3, <1>4 DEF ShopInv, OrdersFit
  <2>3. ~Recorded(t)
    BY <1>3 DEF Recorded
  <2> QED
    BY <2>1, <2>2, <2>3 DEF ShopInv, LinksFit
<1>12. \A t2 \in Transfers, o2 \in Orders :
         /\ CoversIn(order', transfer', t2, o2) <=> CoversIn(order, transfer, t2, o2)
         /\ MatchesIn(order', transfer', t2, o2) => MatchesIn(order, transfer, t2, o2)
  <2> TAKE t2 \in Transfers, o2 \in Orders
  <2>1. transfer'[t2].kind = transfer[t2].kind /\ transfer'[t2].names = transfer[t2].names
    BY <1>5, <1>6
  <2>2. order'[o2].total = order[o2].total /\ (order'[o2].status = "awaiting" => order[o2].status = "awaiting")
    BY <1>9
  <2> QED
    BY <2>1, <2>2 DEF MatchesIn, CoversIn
<1>13. ASSUME NEW t2 \in Transfers
       PROVE  /\ transfer'[t2].names \subseteq Placed
              /\ transfer'[t2].recorded = TRUE => transfer'[t2].sent = TRUE
              /\ transfer'[t2].order # NoOrder =>
                   /\ transfer'[t2].recorded = TRUE /\ order'[transfer'[t2].order].method = "bank_transfer"
                   /\ CoversIn(order', transfer', t2, transfer'[t2].order)
              /\ transfer'[t2].recorded = TRUE /\ transfer'[t2].order = NoOrder =>
                   \A o2 \in Orders : MatchesIn(order', transfer', t2, o2) => o2 \in passedOver[t2]
  <2>1. CASE t2 = t
    BY <1>3, <1>4, <1>5, <1>6, <1>9, <1>12, <2>1 DEF ShopInv, LinksFit
  <2>2. CASE t2 # t
    <3>1. transfer'[t2] = transfer[t2]
      BY <1>6, <2>2
    <3>2. /\ transfer[t2].names \subseteq Placed
          /\ transfer[t2].recorded = TRUE => transfer[t2].sent = TRUE
          /\ transfer[t2].recorded = TRUE /\ transfer[t2].order = NoOrder =>
               \A o2 \in Orders : MatchesIn(order, transfer, t2, o2) => o2 \in passedOver[t2]
      BY DEF ShopInv, LinksFit, Recorded, Sent
    <3>3. transfer[t2].order # NoOrder =>
            /\ transfer[t2].recorded = TRUE /\ order'[transfer[t2].order].method = "bank_transfer"
            /\ CoversIn(order', transfer', t2, transfer[t2].order)
      BY <1>9, <1>11, <1>12 DEF ShopInv, LinksFit, Recorded
    <3> QED
      BY <1>12, <3>1, <3>2, <3>3
  <2> QED
    BY <2>1, <2>2
<1>14. \A t2, t3 \in Transfers : transfer'[t2].order # NoOrder /\ transfer'[t2].order = transfer'[t3].order => t2 = t3
  <2>1. \A t2 \in Transfers : t2 # t => transfer'[t2].order = transfer[t2].order /\ transfer'[t2].order # o
    BY <1>4, <1>6, <1>11
  <2>2. \A t2, t3 \in Transfers : transfer[t2].order # NoOrder /\ transfer[t2].order = transfer[t3].order => t2 = t3
    BY DEF ShopInv, LinksFit
  <2> QED
    BY <1>5, <1>6, <2>1, <2>2
<1>15. \A o2 \in Orders : order'[o2].method = "bank_transfer" => \E t2 \in Transfers : transfer'[t2].order = o2
  <2> TAKE o2 \in Orders
  <2>1. CASE o2 = o
    BY <1>3, <1>5, <1>6, <2>1
  <2>2. CASE o2 # o
    <3>1. order'[o2].method = "bank_transfer" => \E t2 \in Transfers : transfer[t2].order = o2
      BY <1>9, <2>2 DEF ShopInv, LinksFit
    <3>2. o2 # NoOrder
      BY ShopAssumption
    <3> QED
      BY <1>6, <1>11, <3>1, <3>2
  <2> QED
    BY <2>1, <2>2
<1>16. LinksFit'
  <2>1. passedOver' = passedOver
    BY <1>1
  <2> QED
    BY <1>10, <1>13, <1>14, <1>15, <2>1 DEF LinksFit, Recorded, Sent
<1> QED
  BY <1>8, <1>16 DEF ShopInv

-----------------------------------------------------------------------------
\* The invariant

LEMMA ShopInitInv == Init => ShopInv
<1> SUFFICES ASSUME Init
             PROVE  ShopInv
  OBVIOUS
<1> DEFINE newOrder == [status |-> "none", product |-> NoProduct, quantity |-> 0, total |-> 0,
                        lapsed |-> FALSE, method |-> "none"]
           newTransfer == [sent |-> FALSE, kind |-> NoKind, names |-> {}, recorded |-> FALSE, order |-> NoOrder]
<1>1. 0 \in 0..MaxQuantity /\ 0 \in 0..(MaxQuantity * MaxPrice)
  <2>1. MaxQuantity \in Nat \ {0} /\ MaxPrice \in Nat \ {0}
    BY ShopAssumption
  <2>2. 1 \in 1..MaxQuantity /\ 1 \in 1..MaxPrice
    BY <2>1
  <2>3. 1 * 1 \in 0..(MaxQuantity * MaxPrice)
    BY <2>2, TotalsFit
  <2> QED
    BY <2>1, <2>3
<1>2. newOrder \in Order /\ newOrder.status = "none" /\ newOrder.method = "none"
  BY <1>1 DEF Order
<1>3. newTransfer \in Transfer /\ newTransfer.recorded = FALSE /\ newTransfer.order = NoOrder /\ newTransfer.names = {}
  BY DEF Transfer, NoKind
<1> HIDE DEF newOrder, newTransfer
<1>4. order \in [Orders -> Order] /\ \A o \in Orders : order[o] = newOrder
  BY <1>2 DEF Init, newOrder
<1>5. transfer \in [Transfers -> Transfer] /\ \A t \in Transfers : transfer[t] = newTransfer
  BY <1>3 DEF Init, newTransfer
<1>6. worker \in [Workers -> Worker] /\ \A w \in Workers : worker[w] = Idle
  BY DEF Init, Idle, Worker
<1>7. /\ product \in [Products -> Product] /\ supplied = [p \in Products |-> product[p].onHand]
      /\ told = [o \in Orders |-> 0] /\ passedOver = [t \in Transfers |-> {}] /\ placed = <<>>
  BY DEF Init
<1>8. \A p \in Products : product[p].onHand \in Nat
  BY <1>7, ShopAssumption DEF Product
<1>9. supplied \in [Products -> Nat] /\ \A p \in Products : supplied[p] = product[p].onHand
  BY <1>7, <1>8
<1>10. told \in [Orders -> Nat] /\ passedOver \in [Transfers -> SUBSET Orders] /\ placed \in Seq(Orders)
  BY <1>7
<1>11. TypeOK
  BY <1>4, <1>5, <1>6, <1>7, <1>9, <1>10 DEF TypeOK
<1>12. WorkersFit
  <2>1. \A s : ~Rivals(Idle, s)
    BY DEF Rivals, Carries, Settles, Tells, Idle
  <2> QED
    BY <1>6, <2>1, IdleFits DEF WorkersFit
<1>13. Placed = {}
  BY <1>7 DEF Placed
<1>14. OrdersFit
  BY <1>2, <1>4, <1>13 DEF OrdersFit
<1>15. LinksFit
  BY <1>2, <1>3, <1>4, <1>5 DEF LinksFit, Recorded
<1>16. ToldFit
  BY <1>7 DEF ToldFit
<1>17. StockFit
  BY <1>8, <1>9 DEF StockFit
<1> QED
  BY <1>11, <1>12, <1>14, <1>15, <1>16, <1>17 DEF ShopInv

\* Every step keeps the invariant: the buyers', SePay's and the staff's.
LEMMA ShopNextInv == ShopInv /\ [Next]_vars => ShopInv'
<1> SUFFICES ASSUME ShopInv, [Next]_vars
             PROVE  ShopInv'
  OBVIOUS
<1>1. CASE UNCHANGED vars
  <2>1. UNCHANGED <<order, placed, transfer, worker, told, passedOver>> /\ UNCHANGED <<product, supplied>>
    BY <1>1 DEF vars
  <2> QED
    BY <2>1, StockStays, StockMoves
<1>2. CASE Buyer
  BY <1>2, ReadProductKeeps, BuyerKeeps, SendTransferKeeps DEF Buyer
<1>3. CASE SePay
  BY <1>3, RecordPaymentKeeps, SettleOrderKeeps, CommitUnmatched, CommitMatched, TellBuyerKeeps DEF SePay
<1>4. CASE StaffWork
  BY <1>4, PayOrderKeeps, CommitPayOrderKeeps, AddStockKeeps, RemoveStockKeeps, AdjustProductKeeps,
     InsertProductKeeps, CheckDeleteKeeps, DeleteProductKeeps DEF StaffWork
<1>5. CASE \E w \in Workers : Fail(w)
  BY <1>5, FailKeeps
<1> QED
  BY <1>1, <1>2, <1>3, <1>4, <1>5 DEF Next

-----------------------------------------------------------------------------
\* Theorems

\* The inductive invariant holds of the shop, for any buyers, transfers and requests.
THEOREM ShopInvariant == Spec => []ShopInv
<1>1. Init => ShopInv
  BY ShopInitInv
<1>2. ShopInv /\ [Next]_vars => ShopInv'
  BY ShopNextInv
<1> QED
  BY <1>1, <1>2, PTL DEF Spec

\* The tables keep their types, and stock and totals their bounds.
THEOREM ShopTyped == Spec => []TypeOK
<1>1. ShopInv => TypeOK
  BY DEF ShopInv
<1> QED
  BY <1>1, ShopInvariant, PTL

\* Any number of deliveries, retries, settlements and cancellations of the same orders leave
\* each with at most one transfer that pays for it, in full, and every other payment it
\* might have had for a human; its buyer is told at most once (record_sepay_payment,
\* settle_order, pay_order, cancel_order).
THEOREM SettledByOneTransfer == Spec => [](PaidByOneTransfer /\ LeftForAHuman /\ ToldOnce)
<1>1. ASSUME ShopInv
      PROVE  PaidByOneTransfer
  <2>1. ASSUME NEW o \in Orders
        PROVE  LET links == {t \in Transfers : transfer[t].order = o} IN
               /\ links # {} <=> order[o].method = "bank_transfer"
               /\ Cardinality(links) <= 1
               /\ \A t \in links :
                    /\ transfer[t].recorded /\ transfer[t].kind.incoming
                    /\ o \in transfer[t].names
                    /\ order[o].total <= transfer[t].kind.amount
    <3> DEFINE links == {t \in Transfers : transfer[t].order = o}
    <3>1. o # NoOrder
      BY ShopAssumption
    <3>2. links # {} <=> order[o].method = "bank_transfer"
      BY <1>1, <3>1 DEF ShopInv, LinksFit
    <3>3. Cardinality(links) <= 1
      <4>1. CASE links = {}
        BY <4>1, FS_EmptySet
      <4>2. CASE links # {}
        <5>1. PICK t \in links : TRUE
          BY <4>2
        <5>2. links = {t}
          BY <1>1, <3>1, <5>1 DEF ShopInv, LinksFit
        <5>3. Cardinality({t}) = 1
          BY FS_Singleton
        <5> HIDE DEF links
        <5> QED
          BY <5>2, <5>3
      <4> QED
        BY <4>1, <4>2
    <3>4. ASSUME NEW t \in links
          PROVE  /\ transfer[t].recorded /\ transfer[t].kind.incoming
                 /\ o \in transfer[t].names
                 /\ order[o].total <= transfer[t].kind.amount
      <4>1. Recorded(t) /\ CoversIn(order, transfer, t, o)
        BY <1>1, <3>1, <3>4 DEF ShopInv, LinksFit
      <4> QED
        BY <4>1 DEF Recorded, CoversIn
    <3> QED
      BY <3>2, <3>3, <3>4
  <2> QED
    BY <2>1 DEF PaidByOneTransfer
<1>2. ASSUME ShopInv
      PROVE  LeftForAHuman
  <2>1. \A t \in Transfers : transfer[t].recorded => Recorded(t)
    BY <1>2, Types DEF Transfer, Recorded
  <2> QED
    BY <1>2, <2>1 DEF ShopInv, LinksFit, LeftForAHuman, MatchesIn, CoversIn
<1>3. ShopInv => ToldOnce
  BY DEF ShopInv, ToldFit, ToldOnce
<1> QED
  BY <1>1, <1>2, <1>3, ShopInvariant, PTL

\* Once paid or cancelled an order stays so, and its total is never rewritten.
THEOREM OrdersAreFinal == Spec => OrderIsFinal
<1> DEFINE Final == \A o \in Orders :
       /\ order[o].status \in {"paid", "cancelled"} =>
            order'[o].status = order[o].status /\ order'[o].method = order[o].method
       /\ order[o].status # "none" => order'[o].total = order[o].total
<1>1. ShopInv /\ [Next]_vars => [Final]_vars
  <2> SUFFICES ASSUME ShopInv, Next
               PROVE  Final
    BY DEF vars
  <2>1. CASE order' = order
    BY <2>1
  <2>2. ASSUME NEW o \in Orders, NEW p \in Products, NEW quantity \in 1..MaxQuantity, ReadProduct(o, p, quantity)
        PROVE  Final
    <3>1. order[o].status = "none" /\ \A o2 \in Orders : o2 # o => order'[o2] = order[o2]
      BY <2>2, Types DEF ReadProduct
    <3> QED
      BY <3>1
  <2>3. ASSUME NEW o \in Orders, PlaceOrder(o) \/ CancelOrder(o) \/ Lapse(o)
        PROVE  Final
    <3>1. /\ order[o].status \notin {"none", "paid", "cancelled"}
          /\ \A o2 \in Orders : o2 # o => order'[o2] = order[o2]
      BY <2>3, Types DEF PlaceOrder, CancelOrder, Cancellable, Lapse, Open
    <3>2. order'[o].total = order[o].total
      BY <2>3, Types DEF PlaceOrder, CancelOrder, Lapse, Order
    <3> QED
      BY <3>1, <3>2
  <2>4. ASSUME NEW w \in Workers, CommitPayment(w), worker[w].order # NoOrder
        PROVE  Final
    <3>1. /\ worker[w].order \in Orders /\ order[worker[w].order].status = "awaiting"
          /\ order' = Paid(worker[w].order, "bank_transfer")
      BY <2>4 DEF ShopInv, WorkersFit, WorkerFits, MatchesIn, CommitPayment
    <3> QED
      BY <3>1, PaidOrder
  <2>5. ASSUME NEW w \in Workers, CommitPayOrder(w)
        PROVE  Final
    <3>1. /\ worker[w].order \in Orders /\ order[worker[w].order].status = "awaiting"
          /\ order' = Paid(worker[w].order, "by_hand")
      BY <2>5 DEF ShopInv, WorkersFit, WorkerFits, CommitPayOrder
    <3> QED
      BY <3>1, PaidOrder
  <2>6. CASE Buyer
    BY <2>1, <2>2, <2>3, <2>6 DEF Buyer, SendTransfer
  <2>7. CASE SePay
    BY <2>1, <2>4, <2>7 DEF SePay, RecordPayment, SettleOrder, CommitPayment, TellBuyer
  <2>8. CASE StaffWork
    BY <2>1, <2>5, <2>8 DEF StaffWork, PayOrder, AddStock, RemoveStock, AdjustProduct, InsertProduct,
       CheckDelete, DeleteProduct
  <2>9. CASE \E w \in Workers : Fail(w)
    BY <2>1, <2>9 DEF Fail
  <2> QED
    BY <2>6, <2>7, <2>8, <2>9 DEF Next
<1>2. Spec => [][Final]_vars
  BY <1>1, ShopInvariant, PTL DEF Spec
<1> QED
  BY <1>2 DEF OrderIsFinal
-----------------------------------------------------------------------------
\* Sums over sets of orders.  MapThenSumSet is a function on the subsets of a set, defined by
\* recursion: what it adds up to needs induction on the number of elements, which the natural
\* numbers' being well founded gives.

\* Induction, over a set of numbers.
LEMMA Induction ==
  ASSUME NEW K \in SUBSET Nat, 0 \in K, \A k \in K : k + 1 \in K
  PROVE  K = Nat
<1> SUFFICES ASSUME K # Nat PROVE FALSE
  OBVIOUS
<1> DEFINE T == Nat \ K
           R == OpToRel(<, Nat)
<1>1. T \subseteq Nat /\ T # {}
  OBVIOUS
<1>2. IsWellFoundedOn(R, Nat)
  BY NatLessThanWellFounded
<1> HIDE DEF R
<1>3. \E x \in T : \A y \in T : ~ (<<y, x>> \in R)
  <2> HIDE DEF T
  <2> QED
  BY <1>1, <1>2, WFMin
<1>4. PICK x \in T : \A y \in T : ~(<<y, x>> \in R)
  BY <1>3
<1>5. \A y \in Nat : y < x => <<y, x>> \in R
  BY <1>4 DEF R, OpToRel
<1>6. x # 0 /\ x \in Nat
  BY <1>4
<1>7. x - 1 \in Nat /\ x - 1 < x
  BY <1>6
<1>8. x - 1 \in K
  BY <1>4, <1>5, <1>7
<1>9. (x - 1) + 1 = x
  BY <1>6
<1> QED
  BY <1>4, <1>8, <1>9

\* The element the sum over a set takes next.
Taken(s) == CHOOSE x \in s : TRUE

\* The function that MapThenSumSet applies to a set, for quantities q.
Adds(f, q, S) ==
  f = [s \in SUBSET S |-> IF s = {} THEN 0 ELSE q[Taken(s)] + f[s \ {Taken(s)}]]

LEMMA TakenIs == ASSUME NEW s, s # {} PROVE Taken(s) \in s
  BY DEF Taken

\* A set without the element that is taken next.
LEMMA Rest ==
  ASSUME NEW s, IsFiniteSet(s), s # {}
  PROVE  /\ Taken(s) \in s /\ IsFiniteSet(s \ {Taken(s)}) /\ Cardinality(s) \in Nat
         /\ Cardinality(s \ {Taken(s)}) = Cardinality(s) - 1 /\ Cardinality(s) # 0
  BY TakenIs, FS_RemoveElement, FS_CardinalityType, FS_EmptySet

\* There is such a function, as one can be found for sets of up to k elements, for every k.
LEMMA FoldExists ==
  ASSUME NEW S, IsFiniteSet(S), NEW q \in [S -> Nat]
  PROVE  \E f \in [SUBSET S -> Nat] : Adds(f, q, S)
<1> DEFINE Level(k) == {s \in SUBSET S : Cardinality(s) <= k}
           Following(f, s) == IF s = {} THEN 0 ELSE q[Taken(s)] + f[s \ {Taken(s)}]
           Upto(f, k) == f \in [Level(k) -> Nat] /\ \A s \in Level(k) : f[s] = Following(f, s)
           K == {k \in Nat : \E f : Upto(f, k)}
<1>1. \A s \in SUBSET S : IsFiniteSet(s) /\ Cardinality(s) \in Nat /\ Cardinality(s) <= Cardinality(S)
  BY FS_Subset, FS_CardinalityType
<1>2. \A s \in SUBSET S : s # {} =>
        /\ Taken(s) \in s /\ Taken(s) \in S /\ s \ {Taken(s)} \in SUBSET S
        /\ Cardinality(s \ {Taken(s)}) = Cardinality(s) - 1 /\ Cardinality(s) # 0
  BY <1>1, Rest
<1>3. 0 \in K
  <2> DEFINE f == [s \in Level(0) |-> 0]
  <2>1. ASSUME NEW s \in Level(0)
        PROVE  s = {}
    <3>1. s \in SUBSET S /\ Cardinality(s) \in Nat /\ Cardinality(s) <= 0
      BY <1>1
    <3>2. Cardinality(s) = 0
      BY <3>1
    <3> QED
      BY <1>2, <3>1, <3>2
  <2>2. f \in [Level(0) -> Nat] /\ \A s \in Level(0) : f[s] = 0
    OBVIOUS
  <2>3. Upto(f, 0)
    BY <2>1, <2>2
  <2> QED
    BY <2>3
<1>4. ASSUME NEW k \in K
      PROVE  k + 1 \in K
  <2>1. PICK f : Upto(f, k)
    BY <1>4
  <2> DEFINE g == [s \in Level(k + 1) |-> Following(f, s)]
  <2>2. \A s \in Level(k + 1) : s # {} => s \ {Taken(s)} \in Level(k)
    BY <1>1, <1>2
  <2>3. \A s \in Level(k) : s \in Level(k + 1) /\ f[s] \in Nat
    BY <1>1, <2>1
  <2>4. \A s \in Level(k + 1) : Following(f, s) \in Nat
    BY <1>2, <2>2, <2>3
  <2>5. g \in [Level(k + 1) -> Nat] /\ \A s \in Level(k + 1) : g[s] = Following(f, s)
    <3> HIDE DEF Following, Level
    <3> QED
      BY <2>4
  <2> HIDE DEF g
  <2>6. \A s \in Level(k) : g[s] = f[s]
    BY <2>1, <2>3, <2>5
  <2>7. \A s \in Level(k + 1) : Following(f, s) = Following(g, s)
    BY <2>2, <2>6
  <2>8. Upto(g, k + 1)
    BY <2>5, <2>7
  <2>9. k + 1 \in Nat
    OBVIOUS
  <2> QED
    BY <2>8, <2>9
<1>5. K = Nat
  <2> HIDE DEF K
  <2>1. K \in SUBSET Nat
    BY DEF K
  <2> QED
    BY <1>3, <1>4, <2>1, Induction
<1>6. PICK f : Upto(f, Cardinality(S))
  <2>1. Cardinality(S) \in K
    BY <1>5, FS_CardinalityType
  <2> QED
    BY <2>1
<1>7. Level(Cardinality(S)) = SUBSET S
  BY <1>1
<1>8. f \in [SUBSET S -> Nat] /\ \A s \in SUBSET S : f[s] = Following(f, s)
  BY <1>6, <1>7
<1>9. f = [s \in SUBSET S |-> Following(f, s)]
  <2> HIDE DEF Following
  <2> QED
    BY <1>8
<1> QED
  BY <1>8, <1>9 DEF Adds

\* Such a function adds up: whichever element is taken, a set has the sum of its parts.
AddsUp(f, q, S) == \A s \in SUBSET S : \A x \in S \ s : f[s \cup {x}] = f[s] + q[x]

LEMMA FoldAddsUp ==
  ASSUME NEW S, IsFiniteSet(S), NEW q \in [S -> Nat], NEW f \in [SUBSET S -> Nat], Adds(f, q, S)
  PROVE  AddsUp(f, q, S)
<1> DEFINE K == {k \in Nat : \A s \in SUBSET S : \A x \in S \ s : Cardinality(s) = k => f[s \cup {x}] = f[s] + q[x]}
<1>1. \A s \in SUBSET S : IsFiniteSet(s) /\ Cardinality(s) \in Nat
  BY FS_Subset, FS_CardinalityType
<1>2. \A s \in SUBSET S : s # {} =>
        /\ Taken(s) \in s /\ s \ {Taken(s)} \in SUBSET S /\ f[s] = q[Taken(s)] + f[s \ {Taken(s)}]
        /\ Cardinality(s \ {Taken(s)}) = Cardinality(s) - 1 /\ Cardinality(s) # 0
  BY <1>1, Rest DEF Adds
<1>3. f[{}] = 0
  BY DEF Adds
<1>4. 0 \in K
  <2> SUFFICES ASSUME NEW s \in SUBSET S, NEW x \in S \ s, Cardinality(s) = 0
               PROVE  f[s \cup {x}] = f[s] + q[x]
    OBVIOUS
  <2>1. s = {}
    BY <1>2
  <2>2. {x} \in SUBSET S /\ Taken({x}) = x
    BY <1>2
  <2>3. f[{x}] = q[x] + f[{x} \ {x}]
    BY <1>2, <2>2
  <2>4. {x} \ {x} = {} /\ s \cup {x} = {x} /\ q[x] \in Nat
    BY <2>1
  <2>5. f[s \cup {x}] = q[x] + f[{}] /\ f[s] = 0
    BY <1>3, <2>1, <2>3, <2>4
  <2> QED
    BY <1>3, <2>4, <2>5
<1>5. ASSUME NEW k \in K
      PROVE  k + 1 \in K
  <2> SUFFICES ASSUME NEW s \in SUBSET S, NEW x \in S \ s, Cardinality(s) = k + 1
               PROVE  f[s \cup {x}] = f[s] + q[x]
    OBVIOUS
  <2> DEFINE u == s \cup {x}
             c == Taken(u)
             t == s \ {c}
  <2>1. u \in SUBSET S /\ c \in u /\ f[u] = q[c] + f[u \ {c}] /\ c \in S
    <3>1. u \in SUBSET S /\ u # {}
      OBVIOUS
    <3> HIDE DEF u
    <3> QED
      BY <1>2, <3>1
  <2>2. CASE c = x
    <3>1. u \ {c} = s
      BY <2>2
    <3>2. q[x] \in Nat /\ f[s] \in Nat
      OBVIOUS
    <3> HIDE DEF u, c
    <3>3. f[u] = q[x] + f[s]
      BY <2>1, <2>2, <3>1
    <3>4. f[u] = f[s] + q[x]
      BY <3>2, <3>3
    <3> QED
      BY <3>4 DEF u
  <2>3. CASE c # x
    <3>1. c \in s /\ x \in S \ t /\ c \in S \ t /\ t \in SUBSET S /\ u \ {c} = t \cup {x} /\ t \cup {c} = s
      BY <2>1, <2>3
    <3>2. Cardinality(t) = k
      <4>1. Cardinality(s \ {c}) = Cardinality(s) - 1
        <5> HIDE DEF c
        <5>1. c \in s /\ IsFiniteSet(s)
          BY <1>1, <3>1
        <5> QED
          BY <5>1, FS_RemoveElement
      <4> QED
        BY <4>1
    <3>3. f[t \cup {x}] = f[t] + q[x] /\ f[t \cup {c}] = f[t] + q[c]
      BY <1>5, <3>1, <3>2
    <3>4. f[t] \in Nat /\ q[x] \in Nat /\ q[c] \in Nat
      BY <2>1, <3>1
    <3> HIDE DEF u, c, t
    <3>5. f[u] = q[c] + (f[t] + q[x]) /\ f[s] = f[t] + q[c]
      BY <2>1, <3>1, <3>3
    <3>6. f[u] = f[s] + q[x]
      BY <3>4, <3>5
    <3> QED
      BY <3>6 DEF u
  <2> QED
    BY <2>2, <2>3
<1>6. K = Nat
  <2> HIDE DEF K
  <2>1. K \in SUBSET Nat
    BY DEF K
  <2> QED
    BY <1>4, <1>5, <2>1, Induction
<1> QED
  BY <1>1, <1>6 DEF AddsUp

\* Two of them agree on a set of elements whose quantities agree.
LEMMA FoldsAgree ==
  ASSUME NEW S, NEW q, NEW f, Adds(f, q, S), NEW T, NEW q2, NEW f2, Adds(f2, q2, T),
         NEW U \in SUBSET (S \cap T), IsFiniteSet(U), \A x \in U : q[x] = q2[x]
  PROVE  f[U] = f2[U]
<1> DEFINE K == {k \in Nat : \A s \in SUBSET U : Cardinality(s) = k => f[s] = f2[s]}
<1>1. IsFiniteSet(U) /\ \A s \in SUBSET U : IsFiniteSet(s) /\ Cardinality(s) \in Nat
  BY FS_Subset, FS_CardinalityType
<1>2. \A s \in SUBSET U : s # {} =>
        /\ Taken(s) \in U /\ s \ {Taken(s)} \in SUBSET U
        /\ f[s] = q[Taken(s)] + f[s \ {Taken(s)}] /\ f2[s] = q2[Taken(s)] + f2[s \ {Taken(s)}]
        /\ Cardinality(s \ {Taken(s)}) = Cardinality(s) - 1 /\ Cardinality(s) # 0
  BY <1>1, Rest DEF Adds
<1>3. f[{}] = 0 /\ f2[{}] = 0
  BY DEF Adds
<1>4. 0 \in K
  <2>1. \A s \in SUBSET U : Cardinality(s) = 0 => s = {}
    BY <1>2
  <2> QED
    BY <1>3, <2>1
<1>5. ASSUME NEW k \in K
      PROVE  k + 1 \in K
  <2> SUFFICES ASSUME NEW s \in SUBSET U, Cardinality(s) = k + 1
               PROVE  f[s] = f2[s]
    OBVIOUS
  <2>1. s # {}
    <3>1. k + 1 # 0 /\ Cardinality({}) = 0
      BY FS_EmptySet
    <3> QED
      BY <3>1
  <2> DEFINE t == s \ {Taken(s)}
  <2>2. t \in SUBSET U /\ Cardinality(t) = k
    <3>1. t \in SUBSET U /\ Cardinality(t) = Cardinality(s) - 1
      BY <1>2, <2>1
    <3>2. (k + 1) - 1 = k
      OBVIOUS
    <3> HIDE DEF t, K
    <3> QED
      BY <3>1, <3>2
  <2>3. f[t] = f2[t]
    BY <1>5, <2>2
  <2> QED
    BY <1>2, <2>1, <2>3
<1>6. K = Nat
  <2> HIDE DEF K
  <2>1. K \in SUBSET Nat
    BY DEF K
  <2> QED
    BY <1>4, <1>5, <2>1, Induction
<1> QED
  BY <1>1, <1>6

\* What the orders hold, and the sums of it over sets of orders: units are theirs.
Quantities == [o \in Orders |-> order[o].quantity]

Sums(f) ==
  /\ f \in [SUBSET Orders -> Nat] /\ Adds(f, Quantities, Orders)
  /\ \A S \in SUBSET Orders : Units(S) = f[S]

LEMMA UnitsHaveSums ==
  (order \in [Orders -> Order]) => \E f : Sums(f)
<1> SUFFICES ASSUME order \in [Orders -> Order] PROVE \E f : Sums(f)
  OBVIOUS
<1>1. IsFiniteSet(Orders) /\ MaxQuantity \in Nat
  BY ShopAssumption
<1>2. Quantities \in [Orders -> Nat]
  BY <1>1 DEF Quantities, Order
<1>3. PICK f \in [SUBSET Orders -> Nat] : Adds(f, Quantities, Orders)
  BY <1>1, <1>2, FoldExists
<1>4. ASSUME NEW S \in SUBSET Orders
      PROVE  Units(S) = f[S]
  <2> DEFINE r == [o \in S |-> order[o].quantity]
  <2>1. IsFiniteSet(S) /\ r \in [S -> Nat] /\ \A o \in S : r[o] = Quantities[o]
    BY <1>1, <1>2, FS_Subset DEF Quantities
  <2>2. PICK h \in [SUBSET S -> Nat] : Adds(h, r, S)
    BY <2>1, FoldExists
  <2> DEFINE Rec(g) == g = [s \in SUBSET S |-> IF s = {} THEN 0
                       ELSE order[CHOOSE x \in s : TRUE].quantity + g[s \ {CHOOSE x \in s : TRUE}]]
             iter == CHOOSE g : Rec(g)
  <2>3. Units(S) = iter[S]
    BY DEF Units, MapThenSumSet, MapThenFoldSet
  <2>4. \A g : Adds(g, r, S) <=> Rec(g)
    <3>1. \A s \in SUBSET S : s # {} => r[Taken(s)] = order[Taken(s)].quantity
      BY TakenIs
    <3> HIDE DEF r
    <3> QED
      BY <3>1 DEF Adds, Taken
  <2> HIDE DEF Rec
  <2>5. Rec(iter)
    BY <2>2, <2>4
  <2> HIDE DEF iter, r
  <2>6. Adds(iter, r, S)
    BY <2>4, <2>5
  <2>7. f[S] = iter[S]
    BY <1>3, <2>1, <2>6, FoldsAgree
  <2> QED
    BY <2>3, <2>7
<1> QED
  BY <1>3, <1>4 DEF Sums

LEMMA UnitsHaveSumsNext ==
  (order' \in [Orders -> Order]) => \E f : Sums(f)'
<1>1. (order \in [Orders -> Order] => \E f : Sums(f))'
  BY UnitsHaveSums, PTL
<1> QED
  BY <1>1

-----------------------------------------------------------------------------
\* Units on the shelf

PaidFor(p) == {o \in Orders : order[o].status = "paid" /\ order[o].product = p}

\* Orders hold the same units after a step that leaves their quantities alone.
LEMMA UnitsStay ==
  ASSUME ShopInv, ShopInv', NEW S \in SUBSET Orders, \A o \in S : order'[o].quantity = order[o].quantity
  PROVE  Units(S)' = Units(S) /\ Units(S) \in Nat /\ Units(S)' \in Nat
<1>1. PICK f : Sums(f)
  BY UnitsHaveSums, Types
<1>2. order' \in [Orders -> Order]
  BY DEF ShopInv, TypeOK
<1>3. PICK g : Sums(g)'
  BY <1>2, UnitsHaveSumsNext
<1>4. \A o \in S : Quantities[o] = Quantities'[o]
  BY DEF Quantities
<1>5. Adds(f, Quantities, Orders) /\ Adds(g, Quantities', Orders)
  BY <1>1, <1>3 DEF Sums, Adds
<1>6. IsFiniteSet(S)
  BY ShopAssumption, FS_Subset
<1>7. f[S] = g[S]
  BY <1>4, <1>5, <1>6, FoldsAgree
<1> QED
  BY <1>1, <1>3, <1>7 DEF Sums

\* One more order adds its quantity.
LEMMA UnitsAdd ==
  ASSUME ShopInv, NEW S \in SUBSET Orders, NEW o \in Orders \ S
  PROVE  Units(S \cup {o}) = Units(S) + order[o].quantity
<1>1. PICK f : Sums(f)
  BY UnitsHaveSums, Types
<1>2. Quantities \in [Orders -> Nat]
  BY Types, ShopAssumption DEF Quantities, Order
<1>3. PICK q \in [Orders -> Nat] : q = Quantities
  BY <1>2
<1>4. f \in [SUBSET Orders -> Nat] /\ Adds(f, q, Orders) /\ IsFiniteSet(Orders)
  BY <1>1, <1>3, ShopAssumption DEF Sums
<1>5. AddsUp(f, q, Orders)
  BY <1>4, FoldAddsUp
<1>6. f[S \cup {o}] = f[S] + Quantities[o]
  BY <1>3, <1>5 DEF AddsUp
<1> QED
  BY <1>1, <1>6 DEF Sums, Quantities

\* A step that pays no order, and moves the shelf as staff do.
LEMMA ShelfMoves ==
  ASSUME ShopInv, ShopInv', UnitsAccountedFor,
         \A o \in Orders : order[o].status = "paid" \/ order'[o].status = "paid" => order'[o] = order[o],
         \A p \in Products : supplied'[p] + product[p].onHand = supplied[p] + product'[p].onHand
  PROVE  UnitsAccountedFor'
<1> SUFFICES ASSUME NEW p \in Products
             PROVE  /\ product'[p].onHand <= supplied'[p]
                    /\ supplied'[p] <= product'[p].onHand + Units(PaidFor(p))'
  BY DEF UnitsAccountedFor, PaidFor
<1> DEFINE S == PaidFor(p)
<1>1. S \in SUBSET Orders /\ PaidFor(p)' = S /\ \A o \in S : order'[o].quantity = order[o].quantity
  BY DEF PaidFor
<1>2. Units(PaidFor(p))' = Units(S) /\ Units(S) \in Nat
  BY <1>1, UnitsStay
<1> HIDE DEF S
<1>3. supplied[p] <= product[p].onHand + Units(S)
  BY DEF UnitsAccountedFor, PaidFor, S
<1>4. product'[p].onHand <= supplied'[p]
  BY DEF ShopInv, StockFit
<1>5. {product[p].onHand, product'[p].onHand, supplied[p], supplied'[p]} \subseteq Nat
  <2>1. MaxStock \in Nat
    BY ShopAssumption
  <2> QED
    BY <2>1 DEF ShopInv, TypeOK, Product
<1>6. supplied'[p] + product[p].onHand = supplied[p] + product'[p].onHand
  OBVIOUS
<1> QED
  BY <1>2, <1>3, <1>4, <1>5, <1>6

\* An order is paid: what is taken from the shelf is no more than its units, once.
LEMMA SaleMovesShelf ==
  ASSUME ShopInv, ShopInv', UnitsAccountedFor, NEW o \in Orders, order[o].status = "awaiting",
         NEW m \in {"bank_transfer", "by_hand"}, order' = Paid(o, m), product' = Consumed(o), supplied' = supplied
  PROVE  UnitsAccountedFor'
<1> SUFFICES ASSUME NEW p \in Products
             PROVE  /\ product'[p].onHand <= supplied'[p]
                    /\ supplied'[p] <= product'[p].onHand + Units(PaidFor(p))'
  BY DEF UnitsAccountedFor, PaidFor
<1> DEFINE quantity == order[o].quantity
<1>0. PICK S \in SUBSET Orders : S = PaidFor(p)
  BY DEF PaidFor
<1>1. product'[p].onHand <= supplied'[p]
  BY DEF ShopInv, StockFit
<1>2. /\ order'[o].status = "paid" /\ order'[o].product = order[o].product
      /\ \A o2 \in Orders : o2 # o => order'[o2] = order[o2]
  BY PaidOrder
<1>3. order'[o].quantity = order[o].quantity /\ order[o].quantity \in Nat
  <2>1. order' = [order EXCEPT ![o] = [order[o] EXCEPT !.status = "paid", !.method = m, !.lapsed = FALSE]]
        /\ order[o] \in Order
    BY Types DEF Paid
  <2> QED
    BY <2>1, ShopAssumption, Types DEF Order
<1>4. S \in SUBSET Orders /\ o \notin S /\ \A o2 \in S : order'[o2].quantity = order[o2].quantity
  BY <1>0, <1>2 DEF PaidFor
<1>5. PaidFor(p)' = IF order[o].product = p THEN S \cup {o} ELSE S
  BY <1>0, <1>2 DEF PaidFor
<1>6. {product[p].onHand, product'[p].onHand, supplied[p]} \subseteq Nat
  <2>1. MaxStock \in Nat
    BY ShopAssumption
  <2> QED
    BY <2>1 DEF ShopInv, TypeOK, Product
<1>7. \/ product'[p].onHand = product[p].onHand
      \/ order[o].product = p /\ product[p].onHand <= product'[p].onHand + quantity
  <2>1. order[o].product \in Products
    BY DEF ShopInv, OrdersFit
  <2>2. CASE order[o].product = p
    <3> DEFINE left == IF product[p].onHand > order[o].quantity THEN product[p].onHand - order[o].quantity ELSE 0
    <3>1. product' = [product EXCEPT ![p] = [product[p] EXCEPT !.onHand = left]] /\ product[p] \in Product
      BY <2>2, Types DEF Consumed
    <3>2. product[p].onHand <= left + quantity
      BY <1>3, <1>6
    <3> HIDE DEF left
    <3>3. product'[p].onHand = left
      BY <3>1, Types DEF Product
    <3> QED
      BY <2>2, <3>2, <3>3
  <2>3. CASE order[o].product # p
    <3> DEFINE r == [product[order[o].product] EXCEPT
                       !.onHand = IF @ > order[o].quantity THEN @ - order[o].quantity ELSE 0]
    <3>1. product' = [product EXCEPT ![order[o].product] = r]
      BY <2>1, Types DEF Consumed
    <3> HIDE DEF r
    <3>2. PICK p2 \in Products : p2 = order[o].product
      BY <2>1
    <3>3. product' = [product EXCEPT ![p2] = r] /\ p # p2
      BY <2>3, <3>1, <3>2
    <3>4. product'[p] = product[p]
      BY <3>3, Types
    <3> QED
      BY <3>4
  <2> QED
    BY <2>2, <2>3
<1>8. Units(S)' = Units(S) /\ Units(S) \in Nat
  BY <1>4, UnitsStay
<1>9. CASE order[o].product = p
  <2>1. Units(S \cup {o}) = Units(S) + quantity
    BY <1>4, UnitsAdd
  <2>2. \A o2 \in S \cup {o} : order'[o2].quantity = order[o2].quantity
    BY <1>3, <1>4
  <2>3. Units(S \cup {o})' = Units(S \cup {o})
    BY <1>4, <2>2, UnitsStay
  <2>4. Units(PaidFor(p))' = Units(S) + quantity
    BY <1>5, <1>9, <2>1, <2>3
  <2>5. supplied[p] <= product[p].onHand + Units(S)
    BY <1>0 DEF UnitsAccountedFor, PaidFor
  <2> HIDE DEF quantity
  <2>6. quantity \in Nat
    BY <1>3 DEF quantity
  <2>7. product[p].onHand <= product'[p].onHand + quantity
    BY <1>6, <1>7, <2>6
  <2>8. supplied[p] <= product'[p].onHand + (Units(S) + quantity)
    BY <1>6, <1>8, <2>5, <2>6, <2>7
  <2> QED
    BY <1>1, <2>4, <2>8
<1>10. CASE order[o].product # p
  <2>1. supplied[p] <= product[p].onHand + Units(S)
    BY <1>0 DEF UnitsAccountedFor, PaidFor
  <2>2. Units(PaidFor(p))' = Units(S)
    BY <1>5, <1>8, <1>10
  <2>3. product'[p].onHand = product[p].onHand
    BY <1>7, <1>10
  <2> HIDE DEF quantity
  <2> QED
    BY <1>1, <2>1, <2>2, <2>3
<1> QED
  BY <1>9, <1>10

\* A deleted product has nothing on the shelf.
GoneIsEmpty == \A p \in Products : product[p].exists = TRUE \/ product[p].onHand = 0

ShelfKept ==
  \A p \in Products : supplied'[p] + product[p].onHand = supplied[p] + product'[p].onHand

\* Product p's row becomes r, and n units were supplied of it.
LEMMA RowMoves ==
  ASSUME ShopInv, GoneIsEmpty, NEW p \in Products, NEW r, NEW n,
         product' = [product EXCEPT ![p] = r], supplied' = [supplied EXCEPT ![p] = n],
         n + product[p].onHand = supplied[p] + r.onHand, r.exists = TRUE \/ r.onHand = 0
  PROVE  GoneIsEmpty' /\ ShelfKept
<1>1. \A p2 \in Products : product'[p2] = (IF p2 = p THEN r ELSE product[p2])
                           /\ supplied'[p2] = (IF p2 = p THEN n ELSE supplied[p2])
  BY Types
<1>2. GoneIsEmpty'
  BY <1>1 DEF GoneIsEmpty
<1> QED
  BY <1>1, <1>2 DEF ShelfKept

LEMMA StockNumbers ==
  ASSUME ShopInv, NEW p \in Products
  PROVE  /\ product[p] \in Product /\ product[p].onHand \in Nat /\ supplied[p] \in Nat
         /\ product[p].onHand <= supplied[p] /\ product[p].exists \in BOOLEAN
<1>1. MaxStock \in Nat
  BY ShopAssumption
<1> QED
  BY <1>1, Types DEF Product, ShopInv, StockFit

\* What staff do to the shelf of a product.
LEMMA StaffMovesShelf ==
  ASSUME ShopInv, GoneIsEmpty, NEW p \in Products,
         \/ \E units \in 1..MaxStock : AddStock(p, units) \/ RemoveStock(p, units)
         \/ \E price \in 1..MaxPrice, units \in 0..MaxStock : InsertProduct(p, price, units)
         \/ \E price \in 1..MaxPrice, listed \in BOOLEAN : AdjustProduct(p, price, listed)
  PROVE  GoneIsEmpty' /\ ShelfKept /\ order' = order
<1> DEFINE onHand == product[p].onHand
<1>1. /\ product[p] \in Product /\ onHand \in Nat /\ supplied[p] \in Nat /\ onHand <= supplied[p]
      /\ product[p].exists \in BOOLEAN
  BY StockNumbers
<1>2. ASSUME NEW units \in 1..MaxStock, AddStock(p, units)
      PROVE  GoneIsEmpty' /\ ShelfKept /\ order' = order
  <2> DEFINE r == [product[p] EXCEPT !.onHand = @ + units]
  <2>1. /\ product' = [product EXCEPT ![p] = r] /\ supplied' = [supplied EXCEPT ![p] = supplied[p] + units]
        /\ product[p].exists /\ order' = order
    BY <1>2, Types DEF AddStock
  <2>2. r.onHand = onHand + units /\ r.exists = TRUE
    BY <1>1, <2>1 DEF Product
  <2>3. (supplied[p] + units) + product[p].onHand = supplied[p] + r.onHand
    BY <1>1, <2>2
  <2> HIDE DEF r
  <2> QED
    BY <2>1, <2>2, <2>3, RowMoves
<1>3. ASSUME NEW units \in 1..MaxStock, RemoveStock(p, units)
      PROVE  GoneIsEmpty' /\ ShelfKept /\ order' = order
  <2> DEFINE r == [product[p] EXCEPT !.onHand = @ - units]
  <2>1. /\ product' = [product EXCEPT ![p] = r] /\ supplied' = [supplied EXCEPT ![p] = supplied[p] - units]
        /\ product[p].exists /\ order' = order
    BY <1>3, Types DEF RemoveStock
  <2>2. r.onHand = onHand - units /\ r.exists = TRUE
    BY <1>1, <2>1 DEF Product
  <2>3. (supplied[p] - units) + product[p].onHand = supplied[p] + r.onHand
    BY <1>1, <2>2
  <2> HIDE DEF r
  <2> QED
    BY <2>1, <2>2, <2>3, RowMoves
<1>4. ASSUME NEW price \in 1..MaxPrice, NEW units \in 0..MaxStock, InsertProduct(p, price, units)
      PROVE  GoneIsEmpty' /\ ShelfKept /\ order' = order
  <2> DEFINE r == [exists |-> TRUE, listed |-> TRUE, price |-> price, onHand |-> units]
  <2>1. /\ product' = [product EXCEPT ![p] = r] /\ supplied' = [supplied EXCEPT ![p] = supplied[p] + units]
        /\ ~product[p].exists /\ order' = order
    BY <1>4, Types DEF InsertProduct
  <2>2. r.onHand = units /\ r.exists = TRUE /\ onHand = 0
    BY <2>1 DEF GoneIsEmpty
  <2>3. (supplied[p] + units) + product[p].onHand = supplied[p] + r.onHand
    BY <1>1, <2>2
  <2> HIDE DEF r
  <2> QED
    BY <2>1, <2>2, <2>3, RowMoves
<1>5. ASSUME NEW price \in 1..MaxPrice, NEW listed \in BOOLEAN, AdjustProduct(p, price, listed)
      PROVE  GoneIsEmpty' /\ ShelfKept /\ order' = order
  <2> DEFINE r == [product[p] EXCEPT !.price = price, !.listed = listed]
  <2>1. /\ product' = [product EXCEPT ![p] = r] /\ supplied' = supplied /\ product[p].exists /\ order' = order
    BY <1>5, Types DEF AdjustProduct
  <2>2. r.onHand = onHand /\ r.exists = TRUE
    BY <1>1, <2>1 DEF Product
  <2> HIDE DEF r
  <2>3. supplied' = [supplied EXCEPT ![p] = supplied[p]]
    BY <2>1, Types
  <2>4. supplied[p] + product[p].onHand = supplied[p] + r.onHand
    BY <2>2
  <2> QED
    BY <2>1, <2>2, <2>3, <2>4, RowMoves
<1> QED
  BY <1>2, <1>3, <1>4, <1>5

LEMMA DeletionMovesShelf ==
  ASSUME ShopInv, GoneIsEmpty, NEW w \in Workers, DeleteProduct(w)
  PROVE  GoneIsEmpty' /\ ShelfKept /\ order' = order
<1> DEFINE p == worker[w].product
           n == supplied[p] - product[p].onHand
<1>1. p \in Products
  BY DEF ShopInv, WorkersFit, WorkerFits, DeleteProduct
<1>2. product' = [product EXCEPT ![p] = NoRow] /\ supplied' = [supplied EXCEPT ![p] = n] /\ order' = order
  BY <1>1, Types DEF DeleteProduct
<1> HIDE DEF p
<1>3. n + product[p].onHand = supplied[p] + NoRow.onHand /\ NoRow.onHand = 0
  BY <1>1, StockNumbers DEF NoRow
<1> HIDE DEF n
<1> QED
  BY <1>1, <1>2, <1>3, RowMoves

\* Selling from the shelf of a deleted product leaves it empty.
LEMMA SaleKeepsGoneEmpty ==
  ASSUME ShopInv, GoneIsEmpty, NEW o \in Orders, order[o].status = "awaiting", product' = Consumed(o)
  PROVE  GoneIsEmpty'
<1> DEFINE p == order[o].product
           left == IF product[p].onHand > order[o].quantity THEN product[p].onHand - order[o].quantity ELSE 0
           r == [product[p] EXCEPT !.onHand = left]
<1>1. p \in Products
  BY DEF ShopInv, OrdersFit
<1>2. product' = [product EXCEPT ![p] = r]
  BY <1>1, Types DEF Consumed
<1>3. product[p] \in Product /\ product[p].onHand \in Nat /\ order[o].quantity \in Nat
  BY <1>1, StockNumbers, Types, ShopAssumption DEF Order
<1>4. product[p].onHand = 0 => left = 0
  BY <1>3
<1> HIDE DEF left, p
<1>5. r.exists = product[p].exists /\ r.onHand = left
  BY <1>3 DEF Product
<1>6. r.exists = TRUE \/ r.onHand = 0
  BY <1>1, <1>4, <1>5 DEF GoneIsEmpty
<1> HIDE DEF r
<1> QED
  BY <1>1, <1>2, <1>6, Types DEF GoneIsEmpty

\* Every step accounts for the units it moves.
ShelfInv == UnitsAccountedFor /\ GoneIsEmpty

LEMMA ShelfNextInv == ShopInv /\ ShopInv' /\ ShelfInv /\ [Next]_vars => ShelfInv'
<1> SUFFICES ASSUME ShopInv, ShopInv', ShelfInv, [Next]_vars
             PROVE  ShelfInv'
  OBVIOUS
<1>1. ASSUME UNCHANGED product, UNCHANGED supplied,
             \A o \in Orders : order[o].status = "paid" \/ order'[o].status = "paid" => order'[o] = order[o]
      PROVE  ShelfInv'
  <2>1. ShelfKept /\ GoneIsEmpty'
    BY <1>1 DEF ShelfKept, ShelfInv, GoneIsEmpty
  <2> QED
    BY <1>1, <2>1, ShelfMoves DEF ShelfInv, ShelfKept
<1>2. ASSUME GoneIsEmpty', ShelfKept, order' = order
      PROVE  ShelfInv'
  BY <1>2, ShelfMoves DEF ShelfInv, ShelfKept
<1>3. ASSUME NEW o \in Orders, order[o].status = "awaiting", NEW m \in {"bank_transfer", "by_hand"},
             order' = Paid(o, m), product' = Consumed(o), supplied' = supplied
      PROVE  ShelfInv'
  BY <1>3, SaleMovesShelf, SaleKeepsGoneEmpty DEF ShelfInv
<1>4. CASE UNCHANGED vars
  BY <1>1, <1>4 DEF vars
<1>5. CASE Buyer
  <2>1. ASSUME NEW o \in Orders, NEW p \in Products, NEW quantity \in 1..MaxQuantity, ReadProduct(o, p, quantity)
        PROVE  ShelfInv'
    <3>1. /\ UNCHANGED product /\ UNCHANGED supplied /\ order[o].status = "none" /\ order'[o].status = "read"
          /\ \A o2 \in Orders : o2 # o => order'[o2] = order[o2]
      BY <2>1, Types DEF ReadProduct, Order
    <3> QED
      BY <1>1, <3>1
  <2>2. ASSUME NEW o \in Orders, PlaceOrder(o) \/ CancelOrder(o) \/ Lapse(o)
        PROVE  ShelfInv'
    <3>1. /\ UNCHANGED product /\ UNCHANGED supplied /\ order[o].status # "paid" /\ order'[o].status # "paid"
          /\ \A o2 \in Orders : o2 # o => order'[o2] = order[o2]
      BY <2>2, Types DEF PlaceOrder, CancelOrder, Cancellable, Lapse, Open, Order
    <3> QED
      BY <1>1, <3>1
  <2>3. ASSUME NEW t \in Transfers, NEW kind \in Kinds, NEW names \in SUBSET Placed, SendTransfer(t, kind, names)
        PROVE  ShelfInv'
    BY <1>1, <2>3 DEF SendTransfer
  <2> QED
    BY <1>5, <2>1, <2>2, <2>3 DEF Buyer
<1>6. CASE SePay
  <2>1. ASSUME NEW w \in Workers, CommitPayment(w)
        PROVE  ShelfInv'
    <3>1. CASE worker[w].order = NoOrder
      BY <1>1, <2>1, <3>1 DEF CommitPayment
    <3>2. CASE worker[w].order # NoOrder
      <4>1. /\ worker[w].order \in Orders /\ order[worker[w].order].status = "awaiting"
            /\ order' = Paid(worker[w].order, "bank_transfer") /\ product' = Consumed(worker[w].order)
            /\ supplied' = supplied
        BY <2>1, <3>2 DEF ShopInv, WorkersFit, WorkerFits, MatchesIn, CommitPayment
      <4> QED
        BY <1>3, <4>1
    <3> QED
      BY <3>1, <3>2
  <2> QED
    BY <1>1, <1>6, <2>1 DEF SePay, RecordPayment, SettleOrder, TellBuyer
<1>7. CASE StaffWork
  <2>1. ASSUME NEW w \in Workers, CommitPayOrder(w)
        PROVE  ShelfInv'
    <3>1. /\ worker[w].order \in Orders /\ order[worker[w].order].status = "awaiting"
          /\ order' = Paid(worker[w].order, "by_hand") /\ product' = Consumed(worker[w].order)
          /\ supplied' = supplied
      BY <2>1 DEF ShopInv, WorkersFit, WorkerFits, CommitPayOrder
    <3> QED
      BY <1>3, <3>1
  <2>2. ASSUME \/ \E p \in Products, units \in 1..MaxStock : AddStock(p, units) \/ RemoveStock(p, units)
               \/ \E p \in Products, price \in 1..MaxPrice, units \in 0..MaxStock : InsertProduct(p, price, units)
               \/ \E p \in Products, price \in 1..MaxPrice, listed \in BOOLEAN : AdjustProduct(p, price, listed)
        PROVE  ShelfInv'
    BY <1>2, <2>2, StaffMovesShelf DEF ShelfInv
  <2>3. ASSUME NEW w \in Workers, DeleteProduct(w)
        PROVE  ShelfInv'
    BY <1>2, <2>3, DeletionMovesShelf DEF ShelfInv
  <2>4. CASE \E w \in Workers : (\E o \in Orders : PayOrder(w, o)) \/ (\E p \in Products : CheckDelete(w, p))
    BY <1>1, <2>4 DEF PayOrder, CheckDelete
  <2> QED
    BY <1>7, <2>1, <2>2, <2>3, <2>4 DEF StaffWork
<1>8. CASE \E w \in Workers : Fail(w)
  BY <1>1, <1>8 DEF Fail
<1> QED
  BY <1>4, <1>5, <1>6, <1>7, <1>8 DEF Next

\* At first all that was supplied is on the shelf.
LEMMA ShelfInitInv == Init => ShelfInv
<1> SUFFICES ASSUME Init PROVE ShelfInv
  OBVIOUS
<1>1. ShopInv
  BY ShopInitInv
<1>2. ASSUME NEW p \in Products
      PROVE  /\ product[p].onHand <= supplied[p] /\ product[p].exists = TRUE
             /\ supplied[p] <= product[p].onHand + Units(PaidFor(p))
  <2>1. supplied[p] = product[p].onHand /\ product[p].exists = TRUE
    BY DEF Init, Product
  <2>2. product[p].onHand \in Nat
    BY <1>1, StockNumbers
  <2>3. Units(PaidFor(p)) \in Nat
    <3>1. PICK f : Sums(f)
      BY <1>1, UnitsHaveSums, Types
    <3>2. PaidFor(p) \in SUBSET Orders
      BY DEF PaidFor
    <3> QED
      BY <3>1, <3>2 DEF Sums
  <2> QED
    BY <2>1, <2>2, <2>3
<1> QED
  BY <1>2 DEF ShelfInv, UnitsAccountedFor, GoneIsEmpty, PaidFor

\* record_sepay_payment, settle_order and the staff's handlers: an order is settled once, by a transfer that covers
\* it or by staff, for its units once, and is told of once.
THEOREM SettlementsAreSound == Spec => []SettlementIsSound
<1>1. Spec => []ShelfInv
  BY ShelfInitInv, ShelfNextInv, ShopInvariant, PTL DEF Spec
<1>2. ShelfInv => UnitsAccountedFor
  BY DEF ShelfInv
<1> QED
  BY <1>1, <1>2, SettledByOneTransfer, PTL DEF SettlementIsSound
=============================================================================

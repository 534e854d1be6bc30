--------------------------- MODULE TicketSaleProofs ---------------------------
(***************************************************************************)
(* Proofs about TicketSale, for any users, accounts, listings, keys and    *)
(* requests: a sale is whole or not at all, on one published pair of       *)
(* terms; it stands as it was made; money leaves a wallet only for it.     *)
(*                                                                         *)
(* SaleInv adds what a request knows while it goes by a stale reading: the *)
(* terms it read were published, its listing was made before and cannot be *)
(* made again, and a listing whose row it locked is unsold and locked by   *)
(* nobody else.                                                            *)
(***************************************************************************)
EXTENDS TicketSale, TLAPS

\* Stages of a request that buys: it carries a listing and the terms it read of it.
Buys(r) == r.stage \in {"buying", "begun", "locked"}
Locks(r) == r.stage = "locked"

\* A request with record r, at time t, among listings rows with terms offered of them.
TaskFits(r, rows, terms, t) ==
  /\ r \in Task
  /\ r.stage = "listing" => r.user \in Users /\ r.account \in Accounts /\ r.terms \in Terms
  /\ Buys(r) =>
       /\ r.user \in Users /\ r.listing \in Listings
       /\ r.terms \in Terms /\ r.terms \in terms[r.listing]
       /\ rows[r.listing].state # "none"
       /\ r.since <= t
  /\ Locks(r) => rows[r.listing].state = "open"

TasksFit ==
  /\ \A w \in Workers : TaskFits(task[w], listing, offered, now)
  /\ \A v, w \in Workers : v # w /\ Locks(task[v]) /\ Locks(task[w]) => task[v].listing # task[w].listing

\* A listing that is out has the last terms it was offered on, and a key belongs to somebody's listing.
RowsFit ==
  /\ \A l \in Listings : listing[l].state # "none" => listing[l].terms \in offered[l] \cap Terms
  /\ \A k \in Keys : key[k].state # "none" => key[k].listing \in Listings /\ key[k].user \in Users

\* LiveKeys and Ends among keys rows.
LiveIn(rows, l) == {k \in Keys : rows[k].state = "live" /\ rows[k].listing = l}
EndsIn(rows, l) == {rows[k].expires : k \in LiveIn(rows, l)}

SaleInv == TypeOK /\ TasksFit /\ RowsFit /\ SalesAreSound


-----------------------------------------------------------------------------
\* Steps in general

\* What the type invariant says, table by table.
LEMMA Types ==
  ASSUME SaleInv
  PROVE  /\ now \in 0..MaxNow /\ account \in [Accounts -> AccountState] /\ listing \in [Listings -> Listing]
         /\ key \in [Keys -> Key] /\ task \in [Workers -> Task] /\ balance \in [Users -> 0..MaxWallet]
         /\ settled \subseteq {"purchase"} \X Listings /\ offered \in [Listings -> SUBSET Terms]
  BY DEF SaleInv, TypeOK

LEMMA Times ==
  ASSUME SaleInv
  PROVE  /\ now \in Nat /\ MaxNow \in Nat /\ MaxWallet \in Nat
         /\ \A terms \in Terms : terms.days \in Nat \ {0} /\ terms.price \in Nat \ {0} /\ terms.price \in Prices
  BY Types, TicketAssumption DEF Prices

LEMMA KeysAlike ==
  ASSUME NEW l
  PROVE  /\ LiveKeys(l) = LiveIn(key, l) /\ LiveKeys(l)' = LiveIn(key', l)
         /\ Ends(l) = EndsIn(key, l) /\ Ends(l)' = EndsIn(key', l)
  BY DEF LiveKeys, Ends, LiveIn, EndsIn

LEMMA IdleIs == Idle \in Task /\ Idle.stage = "idle" /\ ~Buys(Idle) /\ ~Locks(Idle)
<1>1. 0 \in 0..MaxNow
  BY TicketAssumption
<1> QED
  BY <1>1 DEF Idle, Task, Buys, Locks

LEMMA IdleFits ==
  ASSUME NEW rows, NEW terms, NEW t
  PROVE  TaskFits(Idle, rows, terms, t)
  BY IdleIs DEF TaskFits

\* Request w goes on to r; nothing else changes.
LEMMA TaskMoves ==
  ASSUME SaleInv, NEW w \in Workers, NEW r, task' = [task EXCEPT ![w] = r],
         TaskFits(r, listing, offered, now),
         Locks(r) => RowFree(r.listing),
         UNCHANGED <<now, account, listing, key, balance, settled, offered>>
  PROVE  SaleInv'
<1>1. /\ task' \in [Workers -> Task]
      /\ \A v \in Workers : task'[v] = IF v = w THEN r ELSE task[v]
  BY Types DEF TaskFits
<1>2. TypeOK'
  BY <1>1, Types DEF TypeOK
<1>3. \A v \in Workers : TaskFits(task'[v], listing, offered, now)
  BY <1>1 DEF SaleInv, TasksFit
<1>4. \A v, u \in Workers : v # u /\ Locks(task'[v]) /\ Locks(task'[u]) => task'[v].listing # task'[u].listing
  BY <1>1 DEF SaleInv, TasksFit, RowFree, Locks
<1>5. TasksFit'
  BY <1>3, <1>4 DEF TasksFit
<1>6. RowsFit'
  BY DEF SaleInv, RowsFit
<1>7. SalesAreSound'
  BY DEF SaleInv, SalesAreSound, SoldPaidAndKeyed, OnePairOfTerms, OnSaleOnce, LiveKeys, Ends
<1> QED
  BY <1>2, <1>5, <1>6, <1>7 DEF SaleInv

\* Time passes, an account changes, or money comes in.
LEMMA WorldMoves ==
  ASSUME SaleInv, UNCHANGED <<listing, key, task, settled, offered>>,
         now' \in 0..MaxNow, now <= now',
         account' \in [Accounts -> AccountState], balance' \in [Users -> 0..MaxWallet]
  PROVE  SaleInv'
<1>1. TypeOK'
  BY Types DEF TypeOK
<1>2. now \in Nat /\ now' \in Nat
  BY Times
<1>3. TasksFit'
  <2>1. ASSUME NEW w \in Workers
        PROVE  TaskFits(task[w], listing, offered, now')
    <3>1. TaskFits(task[w], listing, offered, now) /\ (Buys(task[w]) => task[w].since \in Nat)
      BY Types, Times DEF SaleInv, TasksFit, Task
    <3> QED
      BY <1>2, <3>1 DEF TaskFits
  <2> QED
    BY <2>1 DEF SaleInv, TasksFit
<1>4. RowsFit'
  BY DEF SaleInv, RowsFit
<1>5. SoldPaidAndKeyed' /\ OnSaleOnce'
  BY DEF SaleInv, SalesAreSound, SoldPaidAndKeyed, OnSaleOnce, LiveKeys
<1>6. OnePairOfTerms'
  <2>1. \A l \in Listings : Ends(l)' = Ends(l)
    BY DEF Ends, LiveKeys
  <2>3. ASSUME NEW l \in Listings, listing[l].state = "sold"
        PROVE  \E terms \in offered[l] : /\ listing[l].soldPrice = terms.price
                                         /\ \A end \in Ends(l) : end - terms.days \in listing[l].soldAt..now'
    <3>1. PICK terms \in offered[l] : /\ listing[l].soldPrice = terms.price
                                      /\ \A end \in Ends(l) : end - terms.days \in listing[l].soldAt..now
      BY <2>3 DEF SaleInv, SalesAreSound, OnePairOfTerms
    <3>2. listing[l].soldAt \in Nat
      BY Types, Times DEF Listing
    <3>3. \A end \in Ends(l) : end - terms.days \in listing[l].soldAt..now'
      BY <1>2, <3>1, <3>2
    <3> QED
      BY <3>1, <3>3
  <2> QED
    BY <2>1, <2>3 DEF OnePairOfTerms
<1> QED
  BY <1>1, <1>3, <1>4, <1>5, <1>6 DEF SaleInv, SalesAreSound

\* Listings change, but none that is sold or being sold; a request may end.
LEMMA ListingsMove ==
  ASSUME SaleInv, UNCHANGED <<now, key, balance, settled>>,
         account' \in [Accounts -> AccountState], listing' \in [Listings -> Listing],
         offered' \in [Listings -> SUBSET Terms], task' \in [Workers -> Task],
         \A w \in Workers : task'[w] = task[w] \/ task'[w] = Idle,
         \A l \in Listings :
           /\ listing'[l].state = "sold" <=> listing[l].state = "sold"
           /\ listing[l].state = "sold" => /\ listing'[l].soldPrice = listing[l].soldPrice
                                           /\ listing'[l].soldAt = listing[l].soldAt
                                           /\ listing'[l].buyer = listing[l].buyer
           /\ listing[l].state # "none" => listing'[l].state # "none" /\ offered[l] \subseteq offered'[l]
           /\ ~RowFree(l) => listing'[l].state = listing[l].state
           /\ listing'[l].state # "none" => listing'[l].terms \in offered'[l],
         OnSaleOnce'
  PROVE  SaleInv'
<1>1. TypeOK'
  BY Types DEF TypeOK
<1>2. ASSUME NEW w \in Workers
      PROVE  TaskFits(task'[w], listing', offered', now)
  <2>1. CASE task'[w] = Idle
    BY <2>1, IdleFits
  <2>2. CASE task'[w] = task[w]
    <3>1. TaskFits(task[w], listing, offered, now)
      BY DEF SaleInv, TasksFit
    <3>2. Locks(task[w]) => ~RowFree(task[w].listing) /\ Buys(task[w])
      BY DEF Locks, RowFree, Buys
    <3>3. Buys(task[w]) => /\ task[w].listing \in Listings /\ listing[task[w].listing].state # "none"
                           /\ task[w].terms \in offered[task[w].listing]
      BY <3>1 DEF TaskFits
    <3>4. Buys(task[w]) => listing'[task[w].listing].state # "none" /\ task[w].terms \in offered'[task[w].listing]
      BY <3>3
    <3>5. Locks(task[w]) => listing'[task[w].listing].state = "open"
      BY <3>1, <3>2, <3>3 DEF TaskFits
    <3>6. TaskFits(task[w], listing', offered', now)
      BY <3>1, <3>4, <3>5 DEF TaskFits
    <3> QED
      BY <2>2, <3>6
  <2> QED
    BY <2>1, <2>2
<1>3. \A v, u \in Workers : v # u /\ Locks(task'[v]) /\ Locks(task'[u]) => task'[v].listing # task'[u].listing
  BY IdleIs DEF SaleInv, TasksFit
<1>4. TasksFit'
  BY <1>2, <1>3 DEF TasksFit
<1>5. RowsFit'
  <2>1. \A l \in Listings : offered'[l] \subseteq Terms
    OBVIOUS
  <2> QED
    BY <2>1 DEF SaleInv, RowsFit
<1>6. \A l \in Listings : LiveKeys(l)' = LiveKeys(l) /\ Ends(l)' = Ends(l)
  BY DEF LiveKeys, Ends
<1>7. SoldPaidAndKeyed'
  BY <1>6 DEF SaleInv, SalesAreSound, SoldPaidAndKeyed
<1>8. OnePairOfTerms'
  BY <1>6 DEF SaleInv, SalesAreSound, OnePairOfTerms
<1> QED
  BY <1>1, <1>4, <1>5, <1>7, <1>8 DEF SaleInv, SalesAreSound

-----------------------------------------------------------------------------
\* The seller

LEMMA StartListingKeeps ==
  ASSUME SaleInv, NEW w \in Workers, NEW u \in Users, NEW a \in Accounts, NEW terms \in Terms,
         StartListing(w, u, a, terms)
  PROVE  SaleInv'
<1> DEFINE r == [Idle EXCEPT !.stage = "listing", !.user = u, !.account = a, !.terms = terms]
<1>1. /\ task' = [task EXCEPT ![w] = r]
      /\ UNCHANGED <<now, account, listing, key, balance, settled, offered>>
  BY DEF StartListing
<1>2. r \in Task /\ r.stage = "listing" /\ r.user = u /\ r.account = a /\ r.terms = terms
  BY IdleIs DEF Task
<1> HIDE DEF r
<1>3. TaskFits(r, listing, offered, now) /\ ~Locks(r)
  BY <1>2 DEF TaskFits, Buys, Locks
<1> QED
  BY <1>1, <1>3, TaskMoves

\* A listing is made of an account that no open one has.
LEMMA InsertListingKeeps ==
  ASSUME SaleInv, NEW w \in Workers, NEW l \in Listings, InsertListing(w, l)
  PROVE  SaleInv'
<1> DEFINE a == task[w].account
           r == [listing[l] EXCEPT !.state = "open", !.account = a, !.seller = task[w].user,
                                   !.listed = TRUE, !.terms = task[w].terms]
<1>1. /\ task[w].stage = "listing" /\ listing[l].state = "none" /\ NotOnSale(a)
      /\ listing' = [listing EXCEPT ![l] = r] /\ task' = [task EXCEPT ![w] = Idle]
      /\ offered' = [offered EXCEPT ![l] = {task[w].terms}]
      /\ UNCHANGED <<now, account, key, balance, settled>>
  BY Types DEF InsertListing
<1>2. a \in Accounts /\ task[w].user \in Users /\ task[w].terms \in Terms
  BY <1>1 DEF SaleInv, TasksFit, TaskFits
<1>3. r \in Listing /\ r.state = "open" /\ r.account = a /\ r.terms = task[w].terms
  BY <1>2, Types DEF Listing
<1> HIDE DEF r, a
<1>4. /\ listing' \in [Listings -> Listing]
      /\ \A m \in Listings : listing'[m] = IF m = l THEN r ELSE listing[m]
  BY <1>1, <1>3, Types
<1>5. /\ offered' \in [Listings -> SUBSET Terms]
      /\ \A m \in Listings : offered'[m] = IF m = l THEN {task[w].terms} ELSE offered[m]
  BY <1>1, <1>2, Types
<1>6. task' \in [Workers -> Task] /\ \A v \in Workers : task'[v] = task[v] \/ task'[v] = Idle
  BY <1>1, IdleIs, Types
<1>7. RowFree(l)
  BY <1>1 DEF SaleInv, TasksFit, TaskFits, RowFree, Locks
<1>8. OnSaleOnce'
  BY <1>1, <1>3, <1>4 DEF NotOnSale, SaleInv, SalesAreSound, OnSaleOnce
<1>9. \A m \in Listings : listing[m].state # "none" => listing[m].terms \in offered[m]
  BY DEF SaleInv, RowsFit
<1>10. account' \in [Accounts -> AccountState]
  BY <1>1, Types
<1>11. \A m \in Listings :
         /\ listing'[m].state = "sold" <=> listing[m].state = "sold"
         /\ listing[m].state = "sold" => /\ listing'[m].soldPrice = listing[m].soldPrice
                                         /\ listing'[m].soldAt = listing[m].soldAt
                                         /\ listing'[m].buyer = listing[m].buyer
         /\ listing[m].state # "none" => listing'[m].state # "none" /\ offered[m] \subseteq offered'[m]
         /\ ~RowFree(m) => listing'[m].state = listing[m].state
         /\ listing'[m].state # "none" => listing'[m].terms \in offered'[m]
  <2> TAKE m \in Listings
  <2>1. CASE m = l
    BY <1>1, <1>3, <1>4, <1>5, <1>7, <2>1
  <2>2. CASE m # l
    BY <1>4, <1>5, <1>9, <2>2
  <2> QED
    BY <2>1, <2>2
<1>12. UNCHANGED <<now, key, balance, settled>>
  BY <1>1
<1> QED
  BY <1>4, <1>5, <1>6, <1>8, <1>10, <1>11, <1>12, ListingsMove

LEMMA UpdateListingKeeps ==
  ASSUME SaleInv, NEW l \in Listings, NEW terms \in Terms, NEW listed \in BOOLEAN, UpdateListing(l, terms, listed)
  PROVE  SaleInv'
<1> DEFINE r == [listing[l] EXCEPT !.terms = terms, !.listed = listed]
<1>1. /\ listing[l].state = "open" /\ RowFree(l) /\ listing' = [listing EXCEPT ![l] = r]
      /\ offered' = [offered EXCEPT ![l] = @ \cup {terms}]
      /\ UNCHANGED <<now, account, key, task, balance, settled>>
  BY Types DEF UpdateListing
<1>2. r \in Listing /\ r.state = "open" /\ r.account = listing[l].account /\ r.terms = terms
  BY <1>1, Types DEF Listing
<1> HIDE DEF r
<1>3. /\ listing' \in [Listings -> Listing]
      /\ \A m \in Listings : listing'[m] = IF m = l THEN r ELSE listing[m]
  BY <1>1, <1>2, Types
<1>4. /\ offered' \in [Listings -> SUBSET Terms]
      /\ \A m \in Listings : offered'[m] = IF m = l THEN offered[l] \cup {terms} ELSE offered[m]
  BY <1>1, Types
<1>5. OnSaleOnce'
  BY <1>1, <1>2, <1>3 DEF SaleInv, SalesAreSound, OnSaleOnce
<1>6. \A m \in Listings : listing[m].state # "none" => listing[m].terms \in offered[m]
  BY DEF SaleInv, RowsFit
<1>7. /\ account' \in [Accounts -> AccountState] /\ task' \in [Workers -> Task]
      /\ \A w \in Workers : task'[w] = task[w] \/ task'[w] = Idle
  BY <1>1, Types
<1>8. \A m \in Listings :
        /\ listing'[m].state = "sold" <=> listing[m].state = "sold"
        /\ listing[m].state = "sold" => /\ listing'[m].soldPrice = listing[m].soldPrice
                                        /\ listing'[m].soldAt = listing[m].soldAt
                                        /\ listing'[m].buyer = listing[m].buyer
        /\ listing[m].state # "none" => listing'[m].state # "none" /\ offered[m] \subseteq offered'[m]
        /\ ~RowFree(m) => listing'[m].state = listing[m].state
        /\ listing'[m].state # "none" => listing'[m].terms \in offered'[m]
  <2> TAKE m \in Listings
  <2>1. CASE m = l
    BY <1>1, <1>2, <1>3, <1>4, <2>1
  <2>2. CASE m # l
    BY <1>3, <1>4, <1>6, <2>2
  <2> QED
    BY <2>1, <2>2
<1>9. UNCHANGED <<now, key, balance, settled>>
  BY <1>1
<1> QED
  BY <1>3, <1>4, <1>5, <1>7, <1>8, <1>9, ListingsMove

LEMMA DeleteListingKeeps ==
  ASSUME SaleInv, NEW l \in Listings, DeleteListing(l)
  PROVE  SaleInv'
<1> DEFINE r == [listing[l] EXCEPT !.state = "deleted"]
<1>1. /\ listing[l].state = "open" /\ RowFree(l) /\ listing' = [listing EXCEPT ![l] = r]
      /\ UNCHANGED <<now, account, key, task, balance, settled, offered>>
  BY Types DEF DeleteListing
<1>2. r \in Listing /\ r.state = "deleted" /\ r.terms = listing[l].terms
  BY Types DEF Listing
<1> HIDE DEF r
<1>3. /\ listing' \in [Listings -> Listing]
      /\ \A m \in Listings : listing'[m] = IF m = l THEN r ELSE listing[m]
  BY <1>1, <1>2, Types
<1>4. OnSaleOnce'
  BY <1>2, <1>3 DEF SaleInv, SalesAreSound, OnSaleOnce
<1>5. \A m \in Listings : listing[m].state # "none" => listing[m].terms \in offered[m]
  BY DEF SaleInv, RowsFit
<1>6. /\ account' \in [Accounts -> AccountState] /\ task' \in [Workers -> Task]
      /\ offered' \in [Listings -> SUBSET Terms] /\ offered' = offered
      /\ \A w \in Workers : task'[w] = task[w] \/ task'[w] = Idle
  BY <1>1, Types
<1>7. \A m \in Listings :
        /\ listing'[m].state = "sold" <=> listing[m].state = "sold"
        /\ listing[m].state = "sold" => /\ listing'[m].soldPrice = listing[m].soldPrice
                                        /\ listing'[m].soldAt = listing[m].soldAt
                                        /\ listing'[m].buyer = listing[m].buyer
        /\ listing[m].state # "none" => listing'[m].state # "none" /\ offered[m] \subseteq offered'[m]
        /\ ~RowFree(m) => listing'[m].state = listing[m].state
        /\ listing'[m].state # "none" => listing'[m].terms \in offered'[m]
  <2> TAKE m \in Listings
  <2>1. CASE m = l
    BY <1>1, <1>2, <1>3, <1>5, <1>6, <2>1
  <2>2. CASE m # l
    BY <1>3, <1>5, <1>6, <2>2
  <2> QED
    BY <2>1, <2>2
<1>8. UNCHANGED <<now, key, balance, settled>>
  BY <1>1
<1> QED
  BY <1>3, <1>4, <1>6, <1>7, <1>8, ListingsMove

\* A deleted account leaves its listings, sold ones too, and nothing else of them.
LEMMA DisconnectKeeps ==
  ASSUME SaleInv, NEW a \in Accounts, Disconnect(a)
  PROVE  SaleInv'
<1>1. /\ account' = [account EXCEPT ![a] = "gone"]
      /\ listing' = [l \in Listings |-> IF listing[l].account = a THEN [listing[l] EXCEPT !.account = NoAccount]
                                                                  ELSE listing[l]]
      /\ UNCHANGED <<now, key, task, balance, settled, offered>>
  BY DEF Disconnect
<1>2. ASSUME NEW l \in Listings
      PROVE  /\ listing'[l] \in Listing
             /\ listing'[l].state = listing[l].state /\ listing'[l].terms = listing[l].terms
             /\ listing'[l].soldPrice = listing[l].soldPrice /\ listing'[l].soldAt = listing[l].soldAt
             /\ listing'[l].buyer = listing[l].buyer
             /\ listing'[l].account # NoAccount => listing'[l].account = listing[l].account
  <2> DEFINE r == [listing[l] EXCEPT !.account = NoAccount]
  <2>1. /\ r \in Listing /\ r.state = listing[l].state /\ r.terms = listing[l].terms
        /\ r.soldPrice = listing[l].soldPrice /\ r.soldAt = listing[l].soldAt /\ r.buyer = listing[l].buyer
        /\ r.account = NoAccount
    BY Types DEF Listing
  <2>2. listing'[l] = r \/ listing'[l] = listing[l]
    BY <1>1
  <2>3. listing[l] \in Listing
    BY Types
  <2> HIDE DEF r
  <2> QED
    BY <2>1, <2>2, <2>3
<1>3. listing' \in [Listings -> Listing]
  <2>1. \A l \in Listings : listing'[l] \in Listing
    BY <1>2
  <2> QED
    BY <1>1, <2>1
<1>4. OnSaleOnce'
  BY <1>2 DEF SaleInv, SalesAreSound, OnSaleOnce
<1>5. /\ account' \in [Accounts -> AccountState] /\ task' \in [Workers -> Task]
      /\ offered' \in [Listings -> SUBSET Terms] /\ offered' = offered
      /\ \A w \in Workers : task'[w] = task[w] \/ task'[w] = Idle
  BY <1>1, Types DEF AccountState
<1>6. \A m \in Listings : listing[m].state # "none" => listing[m].terms \in offered[m]
  BY DEF SaleInv, RowsFit
<1>7. UNCHANGED <<now, key, balance, settled>>
  BY <1>1
<1> QED
  BY <1>2, <1>3, <1>4, <1>5, <1>6, <1>7, ListingsMove

-----------------------------------------------------------------------------
\* The customer, up to the sale

LEMMA ReadListingKeeps ==
  ASSUME SaleInv, NEW w \in Workers, NEW u \in Users, NEW l \in Listings, ReadListing(w, u, l)
  PROVE  SaleInv'
<1> DEFINE terms == listing[l].terms
           r == [Idle EXCEPT !.stage = "buying", !.user = u, !.listing = l, !.terms = terms]
<1>1. /\ task' = [task EXCEPT ![w] = r] /\ listing[l].state = "open"
      /\ UNCHANGED <<now, account, listing, key, balance, settled, offered>>
  BY DEF ReadListing, ForSale
<1>2. terms \in offered[l] /\ terms \in Terms
  BY <1>1 DEF SaleInv, RowsFit
<1> HIDE DEF terms
<1>3. r \in Task /\ r.stage = "buying" /\ r.user = u /\ r.listing = l /\ r.terms = terms /\ r.since = Idle.since
  BY <1>2, IdleIs DEF Task
<1>4. Idle.since <= now
  BY Times DEF Idle
<1> HIDE DEF r
<1>5. TaskFits(r, listing, offered, now) /\ ~Locks(r)
  BY <1>1, <1>2, <1>3, <1>4 DEF TaskFits, Locks
<1> QED
  BY <1>1, <1>5, TaskMoves

LEMMA BeginSaleKeeps ==
  ASSUME SaleInv, NEW w \in Workers, BeginSale(w)
  PROVE  SaleInv'
<1> DEFINE r == [task[w] EXCEPT !.stage = "begun", !.since = now]
<1>1. /\ task' = [task EXCEPT ![w] = r] /\ task[w].stage = "buying"
      /\ UNCHANGED <<now, account, listing, key, balance, settled, offered>>
  BY Types DEF BeginSale
<1>2. /\ r \in Task /\ r.stage = "begun" /\ r.since = now /\ r.user = task[w].user
      /\ r.listing = task[w].listing /\ r.terms = task[w].terms
  BY Types DEF Task
<1> HIDE DEF r
<1>3. Buys(task[w]) /\ TaskFits(task[w], listing, offered, now)
  BY <1>1 DEF Buys, SaleInv, TasksFit
<1>4. now <= now
  BY Times
<1>5. TaskFits(r, listing, offered, now) /\ ~Locks(r)
  BY <1>2, <1>3, <1>4 DEF TaskFits, Locks
<1> QED
  BY <1>1, <1>5, TaskMoves

LEMMA LockListingKeeps ==
  ASSUME SaleInv, NEW w \in Workers, LockListing(w)
  PROVE  SaleInv'
<1> DEFINE r == [task[w] EXCEPT !.stage = "locked"]
<1>1. /\ task' = [task EXCEPT ![w] = r] /\ task[w].stage = "begun"
      /\ RowFree(task[w].listing) /\ listing[task[w].listing].state = "open"
      /\ UNCHANGED <<now, account, listing, key, balance, settled, offered>>
  BY Types DEF LockListing, ForSale
<1>2. /\ r \in Task /\ r.stage = "locked" /\ r.since = task[w].since /\ r.user = task[w].user
      /\ r.listing = task[w].listing /\ r.terms = task[w].terms
  BY Types DEF Task
<1> HIDE DEF r
<1>3. Buys(task[w]) /\ TaskFits(task[w], listing, offered, now)
  BY <1>1 DEF Buys, SaleInv, TasksFit
<1>4. TaskFits(r, listing, offered, now) /\ RowFree(r.listing)
  BY <1>1, <1>2, <1>3 DEF TaskFits
<1> QED
  BY <1>1, <1>4, TaskMoves

LEMMA AbandonKeeps ==
  ASSUME SaleInv, NEW w \in Workers, Abandon(w)
  PROVE  SaleInv'
<1>1. /\ task' = [task EXCEPT ![w] = Idle]
      /\ UNCHANGED <<now, account, listing, key, balance, settled, offered>>
  BY DEF Abandon
<1> QED
  BY <1>1, IdleIs, IdleFits, TaskMoves

\* An account needs its owner or has him back, a wallet is topped up, a day passes.
LEMMA WorldKeeps ==
  ASSUME SaleInv,
         \/ \E a \in Accounts : NeedsReconnect(a) \/ Reconnect(a)
         \/ \E u \in Users, amount \in Prices : TopUp(u, amount)
         \/ Tick
  PROVE  SaleInv'
<1>1. now \in Nat /\ MaxNow \in Nat /\ MaxWallet \in Nat /\ now <= MaxNow
  BY Types, Times
<1>2. CASE \E a \in Accounts : NeedsReconnect(a) \/ Reconnect(a)
  <2>1. account' \in [Accounts -> AccountState]
    BY <1>2, Types DEF NeedsReconnect, Reconnect, AccountState
  <2>2. now' = now /\ balance' = balance /\ UNCHANGED <<listing, key, task, settled, offered>>
    BY <1>2 DEF NeedsReconnect, Reconnect
  <2>3. now' \in 0..MaxNow /\ now <= now' /\ balance' \in [Users -> 0..MaxWallet]
    BY <1>1, <2>2, Types
  <2> QED
    BY <2>1, <2>2, <2>3, WorldMoves
<1>3. ASSUME NEW u \in Users, NEW amount \in Prices, TopUp(u, amount)
      PROVE  SaleInv'
  <2>1. /\ balance[u] + amount <= MaxWallet /\ balance' = [balance EXCEPT ![u] = @ + amount]
        /\ now' = now /\ account' = account /\ UNCHANGED <<listing, key, task, offered>>
    BY <1>3 DEF TopUp, Wallet!Credit
  <2>2. settled' = settled
    BY <1>3 DEF TopUp, Wallet!Credit, Wallet!Settle
  <2>3. amount \in Nat /\ balance[u] \in Nat
    BY <1>1, Types, Times DEF Prices
  <2>4. balance[u] + amount \in 0..MaxWallet
    BY <1>1, <2>1, <2>3
  <2>5. balance' \in [Users -> 0..MaxWallet]
    BY <2>1, <2>4, Types
  <2>6. now' \in 0..MaxNow /\ now <= now' /\ account' \in [Accounts -> AccountState]
    BY <1>1, <2>1, Types
  <2> QED
    BY <2>1, <2>2, <2>5, <2>6, WorldMoves
<1>4. CASE Tick
  <2>1. now' \in 0..MaxNow /\ now <= now'
    BY <1>1, <1>4 DEF Tick
  <2>2. account' = account /\ balance' = balance /\ UNCHANGED <<listing, key, task, settled, offered>>
    BY <1>4 DEF Tick
  <2>3. account' \in [Accounts -> AccountState] /\ balance' \in [Users -> 0..MaxWallet]
    BY <2>2, Types
  <2> QED
    BY <2>1, <2>2, <2>3, WorldMoves
<1> QED
  BY <1>2, <1>3, <1>4

-----------------------------------------------------------------------------
\* Sales and keys

\* What a sale writes: the wallet pays, the key is made, the listing is sold.
LEMMA SaleEffect ==
  ASSUME SaleInv, NEW w \in Workers, NEW k \in Keys, CommitSale(w, k)
  PROVE  LET u == task[w].user
             l == task[w].listing
             terms == task[w].terms IN
         /\ Locks(task[w]) /\ u \in Users /\ l \in Listings /\ terms \in offered[l] /\ terms \in Terms
         /\ task[w].since <= now /\ task[w].since \in 0..MaxNow
         /\ listing[l].state = "open" /\ key[k].state = "none"
         /\ terms.price <= balance[u] /\ balance' = [balance EXCEPT ![u] = @ - terms.price]
         /\ settled' = settled \cup {<<"purchase", l>>}
         /\ key' \in [Keys -> Key] /\ listing' \in [Listings -> Listing]
         /\ key'[k].state = "live" /\ key'[k].listing = l /\ key'[k].user = u /\ key'[k].expires = now + terms.days
         /\ \A k2 \in Keys : k2 # k => key'[k2] = key[k2]
         /\ listing'[l].state = "sold" /\ listing'[l].buyer = u /\ listing'[l].soldAt = task[w].since
         /\ listing'[l].soldPrice = terms.price
         /\ listing'[l].terms = listing[l].terms /\ listing'[l].account = listing[l].account
         /\ \A m \in Listings : m # l => listing'[m] = listing[m]
         /\ task' = [task EXCEPT ![w] = Idle] /\ UNCHANGED <<now, account, offered>>
<1> DEFINE u == task[w].user
           l == task[w].listing
           terms == task[w].terms
           newKey == [state |-> "live", listing |-> l, user |-> u, expires |-> now + terms.days]
           r == [listing[l] EXCEPT !.state = "sold", !.buyer = u, !.soldAt = task[w].since, !.soldPrice = terms.price]
<1>1. /\ task[w].stage = "locked" /\ key[k].state = "none"
      /\ key' = [key EXCEPT ![k] = newKey]
      /\ task' = [task EXCEPT ![w] = Idle] /\ UNCHANGED <<now, account, offered>>
  BY DEF CommitSale, SaleTerms
<1>2. listing' = [listing EXCEPT ![l] = r]
  BY Types DEF CommitSale, RecordedPrice, SaleTerms
<1>3. /\ terms.price <= balance[u] /\ balance' = [balance EXCEPT ![u] = @ - terms.price]
      /\ settled' = settled \cup {<<"purchase", l>>}
  BY DEF CommitSale, SaleTerms, Wallet!Debit, Wallet!Settle
<1>4. Buys(task[w]) /\ Locks(task[w]) /\ TaskFits(task[w], listing, offered, now)
  BY <1>1 DEF Buys, Locks, SaleInv, TasksFit
<1>5. /\ u \in Users /\ l \in Listings /\ terms \in offered[l] /\ terms \in Terms
      /\ task[w].since <= now /\ listing[l].state = "open"
  BY <1>4 DEF TaskFits
<1>6. task[w].since \in 0..MaxNow
  BY Types DEF Task
<1>7. terms.price \in Prices /\ now + terms.days \in {t + tt.days : t \in 0..MaxNow, tt \in Terms}
  BY <1>5, Times, Types
<1> HIDE DEF u, l, terms
<1>8. newKey \in Key
  BY <1>5, <1>7 DEF Key
<1>9. /\ newKey.state = "live" /\ newKey.listing = l /\ newKey.user = u /\ newKey.expires = now + terms.days
  OBVIOUS
<1>10. /\ r \in Listing /\ r.state = "sold" /\ r.buyer = u /\ r.soldAt = task[w].since /\ r.soldPrice = terms.price
       /\ r.terms = listing[l].terms /\ r.account = listing[l].account
  <2>1. listing[l] \in Listing
    BY <1>5, Types
  <2>2. r.state = "sold" /\ r.buyer = u /\ r.soldAt = task[w].since /\ r.soldPrice = terms.price
    BY <2>1 DEF Listing
  <2>3. r.terms = listing[l].terms /\ r.account = listing[l].account
    BY <2>1 DEF Listing
  <2>4. r \in Listing
    <3> DEFINE Since == 0..MaxNow
               Paid == Prices \cup {0}
    <3>1. task[w].since \in Since /\ terms.price \in Paid /\ u \in Users \cup {NoUser}
      BY <1>5, <1>6, <1>7
    <3>2. Listing = [state : {"none", "open", "sold", "deleted"}, account : Accounts \cup {NoAccount},
                     seller : Users \cup {NoUser}, listed : BOOLEAN, terms : Terms \cup {NoTerms},
                     buyer : Users \cup {NoUser}, soldAt : Since, soldPrice : Paid]
      BY DEF Listing
    <3> HIDE DEF Since, Paid
    <3> QED
      BY <2>1, <3>1, <3>2
  <2> QED
    BY <2>2, <2>3, <2>4
<1> HIDE DEF newKey, r
<1>11. /\ key' \in [Keys -> Key] /\ key'[k] = newKey /\ \A k2 \in Keys : k2 # k => key'[k2] = key[k2]
  BY <1>1, <1>8, Types
<1>12. /\ listing' \in [Listings -> Listing] /\ listing'[l] = r
       /\ \A m \in Listings : m # l => listing'[m] = listing[m]
  BY <1>2, <1>5, <1>10, Types
<1> QED
  BY <1>1, <1>3, <1>4, <1>5, <1>6, <1>9, <1>10, <1>11, <1>12 DEF u, l, terms

LEMMA CommitSaleKeeps ==
  ASSUME SaleInv, NEW w \in Workers, NEW k \in Keys, CommitSale(w, k)
  PROVE  SaleInv'
<1> DEFINE u == task[w].user
           l == task[w].listing
           terms == task[w].terms
<1>1. /\ Locks(task[w]) /\ u \in Users /\ l \in Listings /\ terms \in offered[l] /\ terms \in Terms
      /\ task[w].since <= now /\ task[w].since \in 0..MaxNow
      /\ listing[l].state = "open" /\ key[k].state = "none"
      /\ terms.price <= balance[u] /\ balance' = [balance EXCEPT ![u] = @ - terms.price]
      /\ settled' = settled \cup {<<"purchase", l>>}
      /\ key' \in [Keys -> Key] /\ listing' \in [Listings -> Listing]
      /\ key'[k].state = "live" /\ key'[k].listing = l /\ key'[k].user = u /\ key'[k].expires = now + terms.days
      /\ \A k2 \in Keys : k2 # k => key'[k2] = key[k2]
      /\ listing'[l].state = "sold" /\ listing'[l].buyer = u /\ listing'[l].soldAt = task[w].since
      /\ listing'[l].soldPrice = terms.price
      /\ listing'[l].terms = listing[l].terms /\ listing'[l].account = listing[l].account
      /\ \A m \in Listings : m # l => listing'[m] = listing[m]
      /\ task' = [task EXCEPT ![w] = Idle] /\ UNCHANGED <<now, account, offered>>
  BY SaleEffect
<1>2. \A v \in Workers : v # w /\ Locks(task[v]) => task[v].listing # l
  BY <1>1 DEF SaleInv, TasksFit
<1> HIDE DEF u, l, terms
<1>3. task' \in [Workers -> Task] /\ \A v \in Workers : task'[v] = IF v = w THEN Idle ELSE task[v]
  BY <1>1, IdleIs, Types
<1>4. TypeOK'
  <2>1. terms.price \in Nat /\ balance[u] \in 0..MaxWallet /\ MaxWallet \in Nat
    BY <1>1, Types, Times
  <2>2. balance[u] - terms.price \in 0..MaxWallet
    BY <1>1, <2>1
  <2>3. balance' \in [Users -> 0..MaxWallet]
    BY <1>1, <2>2, Types
  <2>4. settled' \subseteq {"purchase"} \X Listings
    BY <1>1, Types
  <2> QED
    BY <1>1, <1>3, <2>3, <2>4, Types DEF TypeOK
<1>5. TasksFit'
  <2>1. ASSUME NEW v \in Workers, v # w
        PROVE  TaskFits(task[v], listing', offered, now)
    <3>1. TaskFits(task[v], listing, offered, now)
      BY DEF SaleInv, TasksFit
    <3>2. Buys(task[v]) => task[v].listing \in Listings /\ listing'[task[v].listing].state # "none"
      BY <1>1, <3>1 DEF TaskFits
    <3>3. Locks(task[v]) => listing'[task[v].listing].state = "open"
      BY <1>1, <1>2, <2>1, <3>1, <3>2 DEF TaskFits, Locks, Buys
    <3> QED
      BY <3>1, <3>2, <3>3 DEF TaskFits
  <2>2. \A v \in Workers : TaskFits(task'[v], listing', offered, now)
    BY <1>3, <2>1, IdleFits
  <2>3. \A v, v2 \in Workers : v # v2 /\ Locks(task'[v]) /\ Locks(task'[v2]) => task'[v].listing # task'[v2].listing
    BY <1>3, IdleIs DEF SaleInv, TasksFit
  <2> QED
    BY <1>1, <2>2, <2>3 DEF TasksFit
<1>6. RowsFit'
  <2>1. \A m \in Listings : listing'[m].state # "none" => listing'[m].terms \in offered[m] \cap Terms
    BY <1>1 DEF SaleInv, RowsFit
  <2>2. \A k2 \in Keys : key'[k2].state # "none" => key'[k2].listing \in Listings /\ key'[k2].user \in Users
    BY <1>1 DEF SaleInv, RowsFit
  <2> QED
    BY <1>1, <2>1, <2>2 DEF RowsFit
<1>7. LiveIn(key, l) = {}
  BY <1>1, KeysAlike DEF SaleInv, SalesAreSound, SoldPaidAndKeyed
<1>8. LiveIn(key', l) = {k}
  <2>1. \A k2 \in Keys : key'[k2].state = "live" /\ key'[k2].listing = l => k2 = k
    BY <1>1, <1>7 DEF LiveIn
  <2> QED
    BY <1>1, <2>1 DEF LiveIn
<1>9. \A m \in Listings : m # l => /\ LiveIn(key', m) = LiveIn(key, m)
                                   /\ \A k2 \in LiveIn(key, m) : key'[k2] = key[k2]
  BY <1>1 DEF LiveIn
<1>10. SoldPaidAndKeyed'
  <2>1. ASSUME NEW m \in Listings
        PROVE  /\ listing'[m].state = "sold" <=> <<"purchase", m>> \in settled'
               /\ listing'[m].state = "sold" =>
                    \E k2 \in LiveIn(key', m) : LiveIn(key', m) = {k2} /\ key'[k2].user = listing'[m].buyer
               /\ listing'[m].state # "sold" => LiveIn(key', m) = {}
    <3>1. CASE m = l
      <4>1. listing'[m].state = "sold" /\ <<"purchase", m>> \in settled'
        BY <1>1, <3>1
      <4>2. LiveIn(key', m) = {k} /\ key'[k].user = listing'[m].buyer
        BY <1>1, <1>8, <3>1
      <4> QED
        BY <4>1, <4>2
    <3>2. CASE m # l
      <4>1. /\ listing[m].state = "sold" <=> <<"purchase", m>> \in settled
            /\ listing[m].state = "sold" =>
                 \E k2 \in LiveIn(key, m) : LiveIn(key, m) = {k2} /\ key[k2].user = listing[m].buyer
            /\ listing[m].state # "sold" => LiveIn(key, m) = {}
        BY KeysAlike DEF SaleInv, SalesAreSound, SoldPaidAndKeyed
      <4>2. /\ listing'[m] = listing[m]
            /\ <<"purchase", m>> \in settled' <=> <<"purchase", m>> \in settled
        BY <1>1, <3>2
      <4> QED
        BY <1>9, <3>2, <4>1, <4>2
    <3> QED
      BY <3>1, <3>2
  <2> QED
    BY <2>1, KeysAlike DEF SoldPaidAndKeyed
<1>11. OnePairOfTerms'
  <2>1. ASSUME NEW m \in Listings, listing'[m].state = "sold"
        PROVE  \E t \in offered[m] : /\ listing'[m].soldPrice = t.price
                                     /\ \A end \in EndsIn(key', m) : end - t.days \in listing'[m].soldAt..now
    <3>1. CASE m = l
      <4>1. EndsIn(key', l) = {now + terms.days}
        BY <1>1, <1>8 DEF EndsIn
      <4>2. now \in Nat /\ terms.days \in Nat /\ task[w].since \in Nat
        BY <1>1, Times
      <4>3. (now + terms.days) - terms.days \in task[w].since..now
        BY <1>1, <4>2
      <4>4. listing'[l].soldPrice = terms.price /\ listing'[l].soldAt = task[w].since /\ terms \in offered[l]
        BY <1>1
      <4>5. \A end \in EndsIn(key', l) : end - terms.days \in listing'[l].soldAt..now
        BY <4>1, <4>3, <4>4
      <4> QED
        BY <3>1, <4>4, <4>5
    <3>2. CASE m # l
      <4>1. listing'[m] = listing[m]
        BY <1>1, <3>2
      <4>2. EndsIn(key', m) = EndsIn(key, m)
        BY <1>9, <3>2 DEF EndsIn
      <4>3. \E t \in offered[m] : /\ listing[m].soldPrice = t.price
                                  /\ \A end \in EndsIn(key, m) : end - t.days \in listing[m].soldAt..now
        BY <2>1, <4>1, KeysAlike DEF SaleInv, SalesAreSound, OnePairOfTerms
      <4> QED
        BY <4>1, <4>2, <4>3
    <3> QED
      BY <3>1, <3>2
  <2> QED
    BY <1>1, <2>1, KeysAlike DEF OnePairOfTerms
<1>12. OnSaleOnce'
  BY <1>1 DEF SaleInv, SalesAreSound, OnSaleOnce
<1> QED
  BY <1>4, <1>5, <1>6, <1>10, <1>11, <1>12 DEF SaleInv, SalesAreSound

\* What a reissue writes: the old key is revoked, and the new one is it in all but its id.
LEMMA ReissueEffect ==
  ASSUME SaleInv, NEW u \in Users, NEW k \in Keys, NEW fresh \in Keys, ReissueKey(u, k, fresh)
  PROVE  /\ key[k].state = "live" /\ key[fresh].state = "none" /\ key' \in [Keys -> Key]
         /\ key'[k].state = "revoked" /\ key'[k].listing = key[k].listing /\ key'[k].user = key[k].user
         /\ key'[fresh].state = "live" /\ key'[fresh].listing = key[k].listing /\ key'[fresh].user = key[k].user
         /\ key'[fresh].expires = key[k].expires
         /\ \A k2 \in Keys : k2 \notin {k, fresh} => key'[k2] = key[k2]
         /\ UNCHANGED <<now, account, listing, task, balance, settled, offered>>
<1> DEFINE old == [key[k] EXCEPT !.state = "revoked"]
           new == [key[k] EXCEPT !.state = "live", !.expires = key[k].expires]
<1>1. /\ key[k].state = "live" /\ key[fresh].state = "none"
      /\ UNCHANGED <<now, account, listing, task, balance, settled, offered>>
  BY DEF ReissueKey, CanReissue, Works
<1>2. k # fresh
  BY <1>1
<1>3. key' = [key EXCEPT ![k] = old, ![fresh] = new]
  BY <1>2, Types DEF ReissueKey, ReissuedEnd
<1>4. key[k] \in Key
  BY Types
<1>5. old \in Key /\ old.state = "revoked" /\ old.listing = key[k].listing /\ old.user = key[k].user
  BY <1>4 DEF Key
<1>6. /\ new \in Key /\ new.state = "live" /\ new.listing = key[k].listing /\ new.user = key[k].user
      /\ new.expires = key[k].expires
  <2> DEFINE EndOfKey == {0} \cup {t + terms.days : t \in 0..MaxNow, terms \in Terms}
  <2>1. Key = [state : {"none", "live", "revoked"}, listing : Listings \cup {NoListing},
               user : Users \cup {NoUser}, expires : EndOfKey]
    BY DEF Key
  <2> HIDE DEF EndOfKey
  <2> QED
    BY <1>4, <2>1
<1> HIDE DEF old, new
<1>7. /\ key' \in [Keys -> Key] /\ key'[k] = old /\ key'[fresh] = new
      /\ \A k2 \in Keys : k2 \notin {k, fresh} => key'[k2] = key[k2]
  BY <1>2, <1>3, <1>5, <1>6, Types
<1> QED
  BY <1>1, <1>5, <1>6, <1>7

\* The live keys of a listing before and after: one is exchanged for another with the same end.
LEMMA ReissueExchanges ==
  ASSUME SaleInv, NEW u \in Users, NEW k \in Keys, NEW fresh \in Keys, ReissueKey(u, k, fresh),
         NEW m \in Listings
  PROVE  /\ EndsIn(key', m) = EndsIn(key, m)
         /\ \/ LiveIn(key', m) = LiveIn(key, m) /\ \A k2 \in LiveIn(key, m) : key'[k2] = key[k2]
            \/ LiveIn(key, m) = {k} /\ LiveIn(key', m) = {fresh} /\ key'[fresh].user = key[k].user
<1>1. /\ key[k].state = "live" /\ key[fresh].state = "none"
      /\ key'[k].state = "revoked"
      /\ key'[fresh].state = "live" /\ key'[fresh].listing = key[k].listing /\ key'[fresh].user = key[k].user
      /\ key'[fresh].expires = key[k].expires
      /\ \A k2 \in Keys : k2 \notin {k, fresh} => key'[k2] = key[k2]
  BY ReissueEffect
<1>2. CASE key[k].listing = m
  <2>1. k \in LiveIn(key, m)
    BY <1>1, <1>2 DEF LiveIn
  <2>2. LiveIn(key, m) = {k}
    BY <2>1, KeysAlike DEF SaleInv, SalesAreSound, SoldPaidAndKeyed
  <2>3. LiveIn(key', m) = {fresh}
    <3>1. \A k2 \in Keys : key'[k2].state = "live" /\ key'[k2].listing = m => k2 = fresh
      BY <1>1, <2>2 DEF LiveIn
    <3> QED
      BY <1>1, <1>2, <3>1 DEF LiveIn
  <2>4. EndsIn(key', m) = EndsIn(key, m)
    BY <1>1, <2>2, <2>3 DEF EndsIn
  <2> QED
    BY <1>1, <2>2, <2>3, <2>4
<1>3. CASE key[k].listing # m
  <2>1. LiveIn(key', m) = LiveIn(key, m)
    BY <1>1, <1>3 DEF LiveIn
  <2>2. \A k2 \in LiveIn(key, m) : key'[k2] = key[k2]
    BY <1>1, <1>3 DEF LiveIn
  <2>3. EndsIn(key', m) = EndsIn(key, m)
    BY <2>1, <2>2 DEF EndsIn
  <2> QED
    BY <2>1, <2>2, <2>3
<1> QED
  BY <1>2, <1>3

LEMMA ReissueKeyKeeps ==
  ASSUME SaleInv, NEW u \in Users, NEW k \in Keys, NEW fresh \in Keys, ReissueKey(u, k, fresh)
  PROVE  SaleInv'
<1>1. /\ key' \in [Keys -> Key] /\ key[k].state = "live"
      /\ UNCHANGED <<now, account, listing, task, balance, settled, offered>>
  BY ReissueEffect
<1>2. TypeOK'
  BY <1>1, Types DEF TypeOK
<1>3. TasksFit'
  BY <1>1 DEF SaleInv, TasksFit
<1>4. \A k2 \in Keys : key'[k2].state # "none" => key'[k2].listing \in Listings /\ key'[k2].user \in Users
  BY ReissueEffect DEF SaleInv, RowsFit
<1>5. RowsFit'
  BY <1>1, <1>4 DEF SaleInv, RowsFit
<1>6. \A m \in Listings :
        /\ EndsIn(key', m) = EndsIn(key, m)
        /\ \/ LiveIn(key', m) = LiveIn(key, m) /\ \A k2 \in LiveIn(key, m) : key'[k2] = key[k2]
           \/ LiveIn(key, m) = {k} /\ LiveIn(key', m) = {fresh} /\ key'[fresh].user = key[k].user
  BY ReissueExchanges
<1>7. SoldPaidAndKeyed'
  <2>1. ASSUME NEW m \in Listings
        PROVE  /\ listing[m].state = "sold" <=> <<"purchase", m>> \in settled
               /\ listing[m].state = "sold" =>
                    \E k2 \in LiveIn(key', m) : LiveIn(key', m) = {k2} /\ key'[k2].user = listing[m].buyer
               /\ listing[m].state # "sold" => LiveIn(key', m) = {}
    <3>1. /\ listing[m].state = "sold" <=> <<"purchase", m>> \in settled
          /\ listing[m].state = "sold" =>
               \E k2 \in LiveIn(key, m) : LiveIn(key, m) = {k2} /\ key[k2].user = listing[m].buyer
          /\ listing[m].state # "sold" => LiveIn(key, m) = {}
      BY KeysAlike DEF SaleInv, SalesAreSound, SoldPaidAndKeyed
    <3> QED
      BY <1>6, <3>1
  <2> QED
    BY <1>1, <2>1, KeysAlike DEF SoldPaidAndKeyed
<1>8. OnePairOfTerms'
  <2>1. \A m \in Listings : Ends(m)' = Ends(m)
    BY <1>6, KeysAlike
  <2> QED
    BY <1>1, <2>1 DEF SaleInv, SalesAreSound, OnePairOfTerms
<1>9. OnSaleOnce'
  BY <1>1 DEF SaleInv, SalesAreSound, OnSaleOnce
<1> QED
  BY <1>2, <1>3, <1>5, <1>7, <1>8, <1>9 DEF SaleInv, SalesAreSound

-----------------------------------------------------------------------------
\* The invariant

LEMMA SaleInitInv == Init => SaleInv
<1> SUFFICES ASSUME Init
             PROVE  SaleInv
  OBVIOUS
<1> DEFINE row == [state |-> "none", account |-> NoAccount, seller |-> NoUser, listed |-> FALSE,
                   terms |-> NoTerms, buyer |-> NoUser, soldAt |-> 0, soldPrice |-> 0]
           none == [state |-> "none", listing |-> NoListing, user |-> NoUser, expires |-> 0]
<1>1. 0 \in 0..MaxNow /\ 0 \in 0..MaxWallet
  BY TicketAssumption
<1>2. row \in Listing /\ row.state = "none"
  BY <1>1 DEF Listing
<1>3. none \in Key /\ none.state = "none"
  BY DEF Key
<1> HIDE DEF row, none
<1>4. listing \in [Listings -> Listing] /\ \A l \in Listings : listing[l] = row
  BY <1>2 DEF Init, row
<1>5. key \in [Keys -> Key] /\ \A k \in Keys : key[k] = none
  BY <1>3 DEF Init, none
<1>6. task \in [Workers -> Task] /\ \A w \in Workers : task[w] = Idle
  BY IdleIs DEF Init
<1>7. balance \in [Users -> 0..MaxWallet] /\ settled = {}
  BY <1>1 DEF Init, Wallet!Init
<1>8. now \in 0..MaxNow /\ account \in [Accounts -> AccountState] /\ offered \in [Listings -> SUBSET Terms]
  BY <1>1 DEF Init, AccountState
<1>9. TypeOK
  BY <1>4, <1>5, <1>6, <1>7, <1>8 DEF TypeOK
<1>10. TasksFit
  BY <1>6, IdleIs, IdleFits DEF TasksFit
<1>11. RowsFit
  BY <1>2, <1>3, <1>4, <1>5 DEF RowsFit
<1>12. \A l \in Listings : LiveKeys(l) = {}
  BY <1>3, <1>5 DEF LiveKeys
<1>13. SalesAreSound
  BY <1>2, <1>4, <1>7, <1>12 DEF SalesAreSound, SoldPaidAndKeyed, OnePairOfTerms, OnSaleOnce
<1> QED
  BY <1>9, <1>10, <1>11, <1>13 DEF SaleInv

\* Every step keeps the invariant: the sellers', the customers', the provider's and time.
LEMMA SaleNextInv == SaleInv /\ [Next]_vars => SaleInv'
<1> SUFFICES ASSUME SaleInv, [Next]_vars
             PROVE  SaleInv'
  OBVIOUS
<1>1. CASE UNCHANGED vars
  <2>1. /\ UNCHANGED <<listing, key, task, settled, offered>>
        /\ now' = now /\ account' = account /\ balance' = balance
    BY <1>1 DEF vars
  <2>2. /\ now' \in 0..MaxNow /\ now <= now' /\ account' \in [Accounts -> AccountState]
        /\ balance' \in [Users -> 0..MaxWallet]
    BY <2>1, Types, Times
  <2> QED
    BY <2>1, <2>2, WorldMoves
<1>2. CASE Sell
  <2>1. Staff \subseteq Users
    BY TicketAssumption
  <2> QED
    BY <1>2, <2>1, StartListingKeeps, InsertListingKeeps, UpdateListingKeeps, DeleteListingKeeps DEF Sell
<1>3. CASE Buy
  BY <1>3, ReadListingKeeps, BeginSaleKeeps, LockListingKeeps, CommitSaleKeeps, ReissueKeyKeeps DEF Buy
<1>4. CASE Surroundings
  BY <1>4, WorldKeeps, DisconnectKeeps DEF Surroundings
<1>5. CASE \E w \in Workers : Abandon(w)
  BY <1>5, AbandonKeeps
<1> QED
  BY <1>1, <1>2, <1>3, <1>4, <1>5 DEF Next

-----------------------------------------------------------------------------
\* Theorems

\* The inductive invariant holds of selling, for any sellers, customers and requests.
THEOREM SaleInvariant == Spec => []SaleInv
<1>1. Init => SaleInv
  BY SaleInitInv
<1>2. SaleInv /\ [Next]_vars => SaleInv'
  BY SaleNextInv
<1> QED
  BY <1>1, <1>2, PTL DEF Spec

\* The tables keep their types; no balance leaves its bounds, no key ends but at a start and some days.
THEOREM SaleTyped == Spec => []TypeOK
<1>1. SaleInv => TypeOK
  BY DEF SaleInv
<1> QED
  BY <1>1, SaleInvariant, PTL

\* Whatever edits, deletions, reissues and second buyers come between the reading of a listing and
\* its sale, a listing is sold exactly when it was paid for, then has one key, its buyer's, on one
\* pair of terms its seller published; and no account is twice on sale (purchase_ticket,
\* reissue_ticket_key, create_service_listing).
THEOREM SalesAlwaysSound == Spec => []SalesAreSound
<1>1. SaleInv => SalesAreSound
  BY DEF SaleInv
<1> QED
  BY <1>1, SaleInvariant, PTL

\* What a step may do to a sold listing, and to the ends of its keys.
LEMMA StepKeepsSales ==
  ASSUME SaleInv, Next, NEW l \in Listings, listing[l].state = "sold"
  PROVE  /\ listing'[l] \in {listing[l], [listing[l] EXCEPT !.account = NoAccount]}
         /\ Ends(l)' = Ends(l)
<1>1. ASSUME key' = key
      PROVE  Ends(l)' = Ends(l)
  BY <1>1, KeysAlike
<1>2. CASE Sell
  <2>1. key' = key
    BY <1>2 DEF Sell, StartListing, InsertListing, UpdateListing, DeleteListing
  <2>2. listing'[l] = listing[l]
    <3>1. CASE \E w \in Workers, u \in Staff, a \in Accounts, terms \in Terms : StartListing(w, u, a, terms)
      BY <3>1 DEF StartListing
    <3>2. CASE \E w \in Workers, m \in Listings : InsertListing(w, m)
      BY <3>2, Types DEF InsertListing
    <3>3. CASE \E m \in Listings, terms \in Terms, listed \in BOOLEAN : UpdateListing(m, terms, listed)
      BY <3>3, Types DEF UpdateListing
    <3>4. CASE \E m \in Listings : DeleteListing(m)
      BY <3>4, Types DEF DeleteListing
    <3> QED
      BY <1>2, <3>1, <3>2, <3>3, <3>4 DEF Sell
  <2> QED
    BY <1>1, <2>1, <2>2
<1>3. ASSUME NEW w \in Workers, NEW k \in Keys, CommitSale(w, k)
      PROVE  listing'[l] = listing[l] /\ Ends(l)' = Ends(l)
  <2>1. /\ listing[task[w].listing].state = "open" /\ key[k].state = "none"
        /\ key'[k].listing = task[w].listing
        /\ \A k2 \in Keys : k2 # k => key'[k2] = key[k2]
        /\ \A m \in Listings : m # task[w].listing => listing'[m] = listing[m]
    BY <1>3, SaleEffect
  <2>2. l # task[w].listing
    BY <2>1
  <2>3. LiveIn(key', l) = LiveIn(key, l) /\ \A k2 \in LiveIn(key, l) : key'[k2] = key[k2]
    BY <2>1, <2>2 DEF LiveIn
  <2>4. EndsIn(key', l) = EndsIn(key, l)
    BY <2>3 DEF EndsIn
  <2> QED
    BY <2>1, <2>2, <2>4, KeysAlike
<1>4. ASSUME NEW u \in Users, NEW k \in Keys, NEW fresh \in Keys, ReissueKey(u, k, fresh)
      PROVE  listing'[l] = listing[l] /\ Ends(l)' = Ends(l)
  <2>1. EndsIn(key', l) = EndsIn(key, l)
    BY <1>4, ReissueExchanges
  <2>2. listing' = listing
    BY <1>4, ReissueEffect
  <2> QED
    BY <2>1, <2>2, KeysAlike
<1>5. CASE Buy
  <2>1. CASE key' = key /\ listing' = listing
    BY <1>1, <2>1
  <2> QED
    BY <1>3, <1>4, <1>5, <2>1 DEF Buy, ReadListing, BeginSale, LockListing
<1>6. CASE Surroundings
  <2>1. key' = key
    BY <1>6 DEF Surroundings, NeedsReconnect, Reconnect, Disconnect, TopUp, Tick
  <2>2. listing'[l] \in {listing[l], [listing[l] EXCEPT !.account = NoAccount]}
    BY <1>6 DEF Surroundings, NeedsReconnect, Reconnect, Disconnect, TopUp, Tick
  <2> QED
    BY <1>1, <2>1, <2>2
<1>7. CASE \E w \in Workers : Abandon(w)
  BY <1>1, <1>7 DEF Abandon
<1> QED
  BY <1>2, <1>5, <1>6, <1>7 DEF Next

\* What a step may take from a wallet.
LEMMA StepChargesForATicket ==
  ASSUME SaleInv, Next, NEW u \in Users, balance'[u] < balance[u]
  PROVE  \E l \in Listings : /\ listing[l].state = "open" /\ listing'[l].state = "sold"
                             /\ listing'[l].buyer = u
                             /\ balance[u] - balance'[u] = listing'[l].soldPrice
<1>1. balance[u] \in Nat
  BY Types, Times
<1>2. balance' # balance
  BY <1>1
<1>3. ASSUME NEW v \in Users, NEW amount \in Prices, TopUp(v, amount)
      PROVE  FALSE
  <2>1. balance' = [balance EXCEPT ![v] = @ + amount]
    BY <1>3 DEF TopUp, Wallet!Credit
  <2>2. amount \in Nat /\ balance[v] \in Nat
    BY Types, Times DEF Prices
  <2>3. balance'[u] = balance[u] \/ balance'[u] = balance[u] + amount
    BY <2>1, Types
  <2> QED
    BY <1>1, <2>2, <2>3
<1>4. ASSUME NEW w \in Workers, NEW k \in Keys, CommitSale(w, k)
      PROVE  \E l \in Listings : /\ listing[l].state = "open" /\ listing'[l].state = "sold"
                                 /\ listing'[l].buyer = u
                                 /\ balance[u] - balance'[u] = listing'[l].soldPrice
  <2>1. /\ task[w].listing \in Listings /\ task[w].terms \in Terms /\ task[w].user \in Users
        /\ listing[task[w].listing].state = "open" /\ listing'[task[w].listing].state = "sold"
        /\ listing'[task[w].listing].buyer = task[w].user
        /\ listing'[task[w].listing].soldPrice = task[w].terms.price
        /\ balance' = [balance EXCEPT ![task[w].user] = @ - task[w].terms.price]
    BY <1>4, SaleEffect
  <2>2. u = task[w].user
    BY <1>1, <2>1, Types
  <2>3. balance'[u] = balance[u] - task[w].terms.price
    BY <2>1, <2>2, Types
  <2>4. balance[u] - balance'[u] = task[w].terms.price
    BY <1>1, <2>1, <2>3, Times
  <2> QED
    BY <2>1, <2>2, <2>4
<1>5. CASE Sell
  BY <1>2, <1>5 DEF Sell, StartListing, InsertListing, UpdateListing, DeleteListing
<1>6. CASE Buy
  BY <1>2, <1>4, <1>6 DEF Buy, ReadListing, BeginSale, LockListing, ReissueKey
<1>7. CASE Surroundings
  BY <1>2, <1>3, <1>7 DEF Surroundings, NeedsReconnect, Reconnect, Disconnect, Tick
<1>8. CASE \E w \in Workers : Abandon(w)
  BY <1>2, <1>8 DEF Abandon
<1> QED
  BY <1>5, <1>6, <1>7, <1>8 DEF Next

\* A sale stands as it was made, its key ending when the first one would have, and a wallet is charged
\* only in the step that sells its owner a listing, with the price the listing then records.
THEOREM SalesStand == Spec => SaleStands
<1> DEFINE Final == \A l \in Listings : listing[l].state = "sold" =>
                      /\ listing'[l] \in {listing[l], [listing[l] EXCEPT !.account = NoAccount]}
                      /\ Ends(l)' = Ends(l)
           Charged == \A u \in Users : balance'[u] < balance[u] =>
                        \E l \in Listings :
                          /\ listing[l].state = "open" /\ listing'[l].state = "sold"
                          /\ listing'[l].buyer = u
                          /\ balance[u] - balance'[u] = listing'[l].soldPrice
<1>1. SaleInv /\ [Next]_vars => [Final]_vars
  BY StepKeepsSales
<1>2. SaleInv /\ [Next]_vars => [Charged]_vars
  BY StepChargesForATicket
<1>3. Spec => [][Final]_vars /\ [][Charged]_vars
  BY <1>1, <1>2, SaleInvariant, PTL DEF Spec
<1> QED
  BY <1>3 DEF SaleStands, SaleIsFinal, ChargedForATicket

\* Tickets are paid for as AbstractWallet, which ServiceWallet implements, allows: a purchase is a whole
\* debit that happens once, a top-up a whole credit, and nothing else touches a wallet.
THEOREM SalesUseTheWallet == Spec => Wallet!Spec
<1>1. Init => Wallet!Init
  BY DEF Init
<1>2. ASSUME SaleInv, [Next]_vars
      PROVE  [Wallet!Next]_(Wallet!vars)
  <2>1. ASSUME NEW u \in Users, NEW amount \in Prices, TopUp(u, amount)
        PROVE  Wallet!Next
    <3>1. Wallet!Credit(u, amount, {}) /\ balance[u] + amount <= MaxWallet
      BY <2>1 DEF TopUp, Wallet!Credit
    <3>2. amount \in Nat \ {0} /\ balance[u] \in Nat /\ MaxWallet \in Nat
      BY <1>2, Types, Times DEF Prices
    <3>3. amount \in 1..MaxWallet
      BY <3>1, <3>2
    <3>4. {} \in Wallet!Reasons
      BY DEF Wallet!Reasons
    <3> QED
      BY <3>1, <3>3, <3>4 DEF Wallet!Next
  <2>2. ASSUME NEW w \in Workers, NEW k \in Keys, CommitSale(w, k)
        PROVE  Wallet!Next
    <3> DEFINE u == task[w].user
               l == task[w].listing
               price == task[w].terms.price
    <3>1. Wallet!Debit(u, price, {<<"purchase", l>>})
      BY <2>2 DEF CommitSale, SaleTerms
    <3>2. u \in Users /\ l \in Listings /\ task[w].terms \in Terms /\ price <= balance[u]
      BY <1>2, <2>2, SaleEffect
    <3>3. price \in Nat \ {0} /\ balance[u] \in 0..MaxWallet /\ MaxWallet \in Nat
      BY <1>2, <3>2, Types, Times
    <3>4. price \in 1..MaxWallet
      BY <3>2, <3>3
    <3>5. {<<"purchase", l>>} \in Wallet!Reasons
      BY <3>2 DEF Wallet!Reasons
    <3> HIDE DEF u, l, price
    <3> QED
      BY <3>1, <3>2, <3>4, <3>5 DEF Wallet!Next
  <2>3. CASE UNCHANGED <<balance, settled>>
    BY <2>3 DEF Wallet!vars
  <2>4. CASE Sell
    BY <2>3, <2>4 DEF Sell, StartListing, InsertListing, UpdateListing, DeleteListing
  <2>5. CASE Buy
    BY <2>2, <2>3, <2>5 DEF Buy, ReadListing, BeginSale, LockListing, ReissueKey
  <2>6. CASE Surroundings
    BY <2>1, <2>3, <2>6 DEF Surroundings, NeedsReconnect, Reconnect, Disconnect, Tick
  <2>7. CASE \E w \in Workers : Abandon(w)
    BY <2>3, <2>7 DEF Abandon
  <2>8. CASE UNCHANGED vars
    BY <2>3, <2>8 DEF vars
  <2> QED
    BY <1>2, <2>4, <2>5, <2>6, <2>7, <2>8 DEF Next
<1> QED
  BY <1>1, <1>2, SaleInvariant, PTL DEF Spec, Wallet!Spec
=============================================================================

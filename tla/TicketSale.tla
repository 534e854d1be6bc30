----------------------------- MODULE TicketSale -----------------------------
(***************************************************************************)
(* Tickets: a staff member's agent account is put on sale for a number of  *)
(* days (api/dashboard/service_listings.rs), a customer buys it from the   *)
(* wallet and gets a key (api/service/listings.rs, the ticket keys of      *)
(* api/gateway/keys.rs).                                                   *)
(*                                                                         *)
(* Putting on sale and buying both read the database, then try the account *)
(* at its provider for seconds, then write: what they read may be stale by *)
(* then.  The wallet is AbstractWallet, which ServiceWallet implements:    *)
(* the price is taken in the commit of the sale.  The account belongs to   *)
(* its connection, which may need to be connected again or be deleted at   *)
(* any time.                                                               *)
(***************************************************************************)
EXTENDS Naturals, FiniteSets

CONSTANTS
  Users, Staff,      \* everybody, and those who may put accounts on sale
  Accounts,          \* agent_connections rows
  Listings, Keys,    \* ids of rows not made yet
  Workers,           \* requests handled at the same time
  Terms,             \* the terms a listing may have: days and price
  MaxWallet,         \* the largest balance
  MaxNow,            \* bound on the clock
  NoUser, NoAccount, NoListing

ASSUME TicketAssumption ==
  /\ Staff \subseteq Users
  /\ Terms \subseteq [days : Nat \ {0}, price : Nat \ {0}]
  /\ MaxWallet \in Nat
  /\ MaxNow \in Nat
  /\ NoUser \notin Users
  /\ NoAccount \notin Accounts
  /\ NoListing \notin Listings

VARIABLES
  now,          \* the clock, in days
  account,      \* whether each account can be used
  listing,      \* service_listings
  key,          \* the gateway_keys of kind 'ticket'
  task,         \* the request each worker is handling
  balance,      \* the wallets
  settled,      \* the movements in their ledger
  offered       \* history: every pair of terms a listing has had

vars == <<now, account, listing, key, task, balance, settled, offered>>

Wallet == INSTANCE AbstractWallet WITH Movements <- {"purchase"} \X Listings

NoTerms == [days |-> 0, price |-> 0]
Prices == {terms.price : terms \in Terms}

\* "reauth" is a connected account whose availability is reauth_required, "gone" one
\* whose row was deleted.
AccountState == {"connected", "reauth", "gone"}

Listing ==
  [state : {"none", "open", "sold", "deleted"}, account : Accounts \cup {NoAccount},
   seller : Users \cup {NoUser}, listed : BOOLEAN, terms : Terms \cup {NoTerms},
   buyer : Users \cup {NoUser}, soldAt : 0..MaxNow, soldPrice : Prices \cup {0}]

Key == [state : {"none", "live", "revoked"}, listing : Listings \cup {NoListing},
        user : Users \cup {NoUser},
        expires : {0} \cup {t + terms.days : t \in 0..MaxNow, terms \in Terms}]

\* stage: the provider is being asked (probing), the sale's transaction has begun
\* (begun), it holds the listing's row (locked).  since: the transaction's NOW().
Task == [stage : {"idle", "listing", "buying", "begun", "locked"},
         user : Users \cup {NoUser}, account : Accounts \cup {NoAccount},
         listing : Listings \cup {NoListing}, terms : Terms \cup {NoTerms},
         since : 0..MaxNow]

Idle == [stage |-> "idle", user |-> NoUser, account |-> NoAccount,
         listing |-> NoListing, terms |-> NoTerms, since |-> 0]

Init ==
  /\ now = 0
  /\ account = [a \in Accounts |-> "connected"]
  /\ listing = [l \in Listings |->
       [state |-> "none", account |-> NoAccount, seller |-> NoUser, listed |-> FALSE,
        terms |-> NoTerms, buyer |-> NoUser, soldAt |-> 0, soldPrice |-> 0]]
  /\ key = [k \in Keys |->
       [state |-> "none", listing |-> NoListing, user |-> NoUser, expires |-> 0]]
  /\ task = [w \in Workers |-> Idle]
  /\ Wallet!Init
  /\ offered = [l \in Listings |-> {}]

-----------------------------------------------------------------------------
Works(k) == key[k].state = "live" /\ key[k].expires > now

\* The live keys of a listing, and the ends they have.
LiveKeys(l) == {k \in Keys : key[k].state = "live" /\ key[k].listing = l}
Ends(l) == {key[k].expires : k \in LiveKeys(l)}

\* FOR_SALE.
ForSale(l) ==
  /\ listing[l].state = "open"
  /\ listing[l].listed
  /\ listing[l].account \in Accounts
  /\ account[listing[l].account] = "connected"

\* The row of a listing is locked from SELECT ... FOR UPDATE to the end of the sale.
RowFree(l) == \A w \in Workers : ~(task[w].stage = "locked" /\ task[w].listing = l)

\* What create_service_listing refuses: the account is in an open listing, or in a
\* sold one whose key still works.
Held(l, a) ==
  /\ listing[l].account = a
  /\ \/ listing[l].state = "open"
     \/ listing[l].state = "sold" /\ \E k \in LiveKeys(l) : Works(k)

-----------------------------------------------------------------------------
\* The seller

\* create_service_listing up to the test request: the account is not held, and it is
\* connected.  It must be the member's own too; since a connection moves to whoever
\* signs in to the account, any member may be its owner by now.
StartListing(w, u, a, terms) ==
  /\ task[w].stage = "idle"
  /\ \A l \in Listings : ~Held(l, a)
  /\ account[a] # "gone"
  /\ task' = [task EXCEPT ![w] = [Idle EXCEPT
       !.stage = "listing", !.user = u, !.account = a, !.terms = terms]]
  /\ UNCHANGED <<now, account, listing, key, balance, settled, offered>>

NotOnSale_unchecked(a) == TRUE

\* The partial unique index: one open listing of an account.
NotOnSale(a) == \A l \in Listings : ~(listing[l].state = "open" /\ listing[l].account = a)

\* The account answered: INSERT ... ON CONFLICT DO NOTHING.  The held check is not
\* made again.  An account deleted meanwhile fails the foreign key.
InsertListing(w, l) ==
  /\ task[w].stage = "listing"
  /\ listing[l].state = "none"
  /\ account[task[w].account] # "gone"
  /\ NotOnSale(task[w].account)
  /\ listing' = [listing EXCEPT ![l] = [@ EXCEPT
       !.state = "open", !.account = task[w].account, !.seller = task[w].user,
       !.listed = TRUE, !.terms = task[w].terms]]
  /\ offered' = [offered EXCEPT ![l] = {task[w].terms}]
  /\ task' = [task EXCEPT ![w] = Idle]
  /\ UNCHANGED <<now, account, key, balance, settled>>

\* update_service_listing: new terms, switched on or off, while it is not sold.
UpdateListing(l, terms, listed) ==
  /\ listing[l].state = "open"
  /\ RowFree(l)
  /\ listing' = [listing EXCEPT ![l].terms = terms, ![l].listed = listed]
  /\ offered' = [offered EXCEPT ![l] = @ \cup {terms}]
  /\ UNCHANGED <<now, account, key, task, balance, settled>>

DeleteListing_anyStatus(l) ==
  /\ listing[l].state \in {"open", "sold"}
  /\ RowFree(l)
  /\ listing' = [listing EXCEPT ![l].state = "deleted"]
  /\ UNCHANGED <<now, account, key, task, balance, settled, offered>>

\* delete_service_listing, while it is not sold.
DeleteListing(l) ==
  /\ listing[l].state = "open"
  /\ RowFree(l)
  /\ listing' = [listing EXCEPT ![l].state = "deleted"]
  /\ UNCHANGED <<now, account, key, task, balance, settled, offered>>

-----------------------------------------------------------------------------
\* The customer

\* purchase_ticket up to the test request: the listing is for sale and somebody
\* else's; its terms are read here, and never again.
ReadListing(w, u, l) ==
  /\ task[w].stage = "idle"
  /\ ForSale(l)
  /\ listing[l].seller # u
  /\ task' = [task EXCEPT ![w] = [Idle EXCEPT
       !.stage = "buying", !.user = u, !.listing = l, !.terms = listing[l].terms]]
  /\ UNCHANGED <<now, account, listing, key, balance, settled, offered>>

\* The account answered; the transaction of the sale begins.
BeginSale(w) ==
  /\ task[w].stage = "buying"
  /\ task' = [task EXCEPT ![w].stage = "begun", ![w].since = now]
  /\ UNCHANGED <<now, account, listing, key, balance, settled, offered>>

\* SELECT ... FOR UPDATE OF listings finds it still for sale.
LockListing(w) ==
  /\ task[w].stage = "begun"
  /\ RowFree(task[w].listing)
  /\ ForSale(task[w].listing)
  /\ task' = [task EXCEPT ![w].stage = "locked"]
  /\ UNCHANGED <<now, account, listing, key, balance, settled, offered>>

SaleTerms_daysReread(w) == [task[w].terms EXCEPT !.days = listing[task[w].listing].terms.days]

\* The terms the buyer is sold the ticket on: those read before the test request.
SaleTerms(w) == task[w].terms

RecordedPrice_reread(w) == listing[task[w].listing].terms.price

RecordedPrice(w) == SaleTerms(w).price

\* wallet::purchase, create_ticket_key and the UPDATE of the listing, committed
\* together.  A wallet below the price, or a purchase the ledger already holds, ends
\* the transaction instead (Abandon).
CommitSale(w, k) ==
  LET u == task[w].user
      l == task[w].listing
      terms == SaleTerms(w) IN
  /\ task[w].stage = "locked"
  /\ key[k].state = "none"
  /\ Wallet!Debit(u, terms.price, {<<"purchase", l>>})
  /\ key' = [key EXCEPT ![k] =
       [state |-> "live", listing |-> l, user |-> u, expires |-> now + terms.days]]
  /\ listing' = [listing EXCEPT ![l] = [@ EXCEPT
       !.state = "sold", !.buyer = u, !.soldAt = task[w].since,
       !.soldPrice = RecordedPrice(w)]]
  /\ task' = [task EXCEPT ![w] = Idle]
  /\ UNCHANGED <<now, account, offered>>

\* A request ends without a write: the account did not answer, the insert met a
\* conflict, the listing was gone, the wallet was short, or something failed.
Abandon(w) ==
  /\ task[w].stage # "idle"
  /\ task' = [task EXCEPT ![w] = Idle]
  /\ UNCHANGED <<now, account, listing, key, balance, settled, offered>>

\* The condition of reissue_ticket_key's UPDATE.
CanReissue(u, k) == key[k].user = u /\ Works(k)

ReissuedEnd_extends(k) == key[k].expires + listing[key[k].listing].terms.days

ReissuedEnd_restarts(k) == now + listing[key[k].listing].terms.days

ReissuedEnd(k) == key[k].expires

ReissueKey_keepsOld(u, k, fresh) ==
  /\ CanReissue(u, k)
  /\ key[fresh].state = "none"
  /\ key' = [key EXCEPT ![fresh] = [key[k] EXCEPT !.expires = ReissuedEnd(k)]]
  /\ UNCHANGED <<now, account, listing, task, balance, settled, offered>>

\* reissue_ticket_key: the UPDATE that revokes the key judges it under its row lock,
\* so two reissues of one key are one after the other.
ReissueKey(u, k, fresh) ==
  /\ CanReissue(u, k)
  /\ key[fresh].state = "none"
  /\ key' = [key EXCEPT
       ![k].state = "revoked",
       ![fresh] = [key[k] EXCEPT !.state = "live", !.expires = ReissuedEnd(k)]]
  /\ UNCHANGED <<now, account, listing, task, balance, settled, offered>>

-----------------------------------------------------------------------------
\* The surroundings

\* A refresh finds the provider wants its user to sign in again.
NeedsReconnect(a) ==
  /\ account[a] = "connected"
  /\ account' = [account EXCEPT ![a] = "reauth"]
  /\ UNCHANGED <<now, listing, key, task, balance, settled, offered>>

\* Somebody signed in to it again.
Reconnect(a) ==
  /\ account[a] = "reauth"
  /\ account' = [account EXCEPT ![a] = "connected"]
  /\ UNCHANGED <<now, listing, key, task, balance, settled, offered>>

\* disconnect deletes the row; ON DELETE SET NULL reaches every listing of it, and
\* waits for the one that is being sold.
Disconnect(a) ==
  /\ account[a] # "gone"
  /\ \A l \in Listings : listing[l].account = a => RowFree(l)
  /\ account' = [account EXCEPT ![a] = "gone"]
  /\ listing' = [l \in Listings |->
       IF listing[l].account = a THEN [listing[l] EXCEPT !.account = NoAccount]
                                 ELSE listing[l]]
  /\ UNCHANGED <<now, key, task, balance, settled, offered>>

TopUp(u, amount) ==
  /\ Wallet!Credit(u, amount, {})
  /\ UNCHANGED <<now, account, listing, key, task, offered>>

Tick ==
  /\ now < MaxNow
  /\ now' = now + 1
  /\ UNCHANGED <<account, listing, key, task, balance, settled, offered>>

-----------------------------------------------------------------------------
Sell ==
  \/ \E w \in Workers, u \in Staff, a \in Accounts, terms \in Terms :
       StartListing(w, u, a, terms)
  \/ \E w \in Workers, l \in Listings : InsertListing(w, l)
  \/ \E l \in Listings, terms \in Terms, listed \in BOOLEAN : UpdateListing(l, terms, listed)
  \/ \E l \in Listings : DeleteListing(l)

Buy ==
  \/ \E w \in Workers, u \in Users, l \in Listings : ReadListing(w, u, l)
  \/ \E w \in Workers : BeginSale(w)
  \/ \E w \in Workers : LockListing(w)
  \/ \E w \in Workers, k \in Keys : CommitSale(w, k)
  \/ \E u \in Users, k, fresh \in Keys : ReissueKey(u, k, fresh)

Surroundings ==
  \/ \E a \in Accounts : NeedsReconnect(a)
  \/ \E a \in Accounts : Reconnect(a)
  \/ \E a \in Accounts : Disconnect(a)
  \/ \E u \in Users, amount \in Prices : TopUp(u, amount)
  \/ Tick

Next == Sell \/ Buy \/ Surroundings \/ \E w \in Workers : Abandon(w)

Spec == Init /\ [][Next]_vars

-----------------------------------------------------------------------------
\* Properties

\* The types of the tables; an end of a key is a start and the days of some terms.
TypeOK ==
  /\ now \in 0..MaxNow
  /\ account \in [Accounts -> AccountState]
  /\ listing \in [Listings -> Listing]
  /\ key \in [Keys -> Key]
  /\ task \in [Workers -> Task]
  /\ balance \in [Users -> 0..MaxWallet]
  /\ settled \subseteq {"purchase"} \X Listings
  /\ offered \in [Listings -> SUBSET Terms]

\* A sale is whole or not at all: a listing reads sold exactly when its purchase is in
\* the ledger, and then exactly one key that was not revoked is out for it, the
\* buyer's, whatever reissues, edits and deletions raced it.
SoldPaidAndKeyed ==
  \A l \in Listings :
    /\ listing[l].state = "sold" <=> <<"purchase", l>> \in settled
    /\ listing[l].state = "sold" =>
         \E k \in LiveKeys(l) : LiveKeys(l) = {k} /\ key[k].user = listing[l].buyer
    /\ listing[l].state # "sold" => LiveKeys(l) = {}

\* The price paid and the days of the key are of one pair of terms the seller had
\* published, never the price of one edit and the days of another, and the days count
\* from the sale or later.
OnePairOfTerms ==
  \A l \in Listings : listing[l].state = "sold" =>
    \E terms \in offered[l] :
      /\ listing[l].soldPrice = terms.price
      /\ \A end \in Ends(l) : end - terms.days \in listing[l].soldAt..now

\* An account is in at most one listing that is on sale.
OnSaleOnce ==
  \A l, m \in Listings :
    /\ listing[l].state = "open" /\ listing[m].state = "open"
    /\ listing[l].account = listing[m].account /\ listing[l].account # NoAccount
    => l = m

\* What is sold stays as it was sold: its buyer, its price, its time and the end of
\* its key never change, so a reissued key ends when the first one would have.
SaleIsFinal ==
  [][\A l \in Listings : listing[l].state = "sold" =>
       /\ listing'[l] \in {listing[l], [listing[l] EXCEPT !.account = NoAccount]}
       /\ Ends(l)' = Ends(l)]_vars

\* Money leaves a wallet only in the step that sells its owner one listing, and what
\* leaves is the price that listing then records.
ChargedForATicket ==
  [][\A u \in Users : balance'[u] < balance[u] =>
       \E l \in Listings :
         /\ listing[l].state = "open" /\ listing'[l].state = "sold"
         /\ listing'[l].buyer = u
         /\ balance[u] - balance'[u] = listing'[l].soldPrice]_vars

\* What create_service_listing's comment promises: an account is held by one customer
\* at a time, neither on sale nor sold again while a buyer's key works.
OneCustomerPerAccount ==
  \A a \in Accounts : \A l, m \in Listings : Held(l, a) /\ Held(m, a) => l = m

\* purchase_ticket, reissue_ticket_key and the handlers of a seller's listings, together: a
\* sale is whole, on one pair of published terms, and of an account that is in one listing.
SalesAreSound == SoldPaidAndKeyed /\ OnePairOfTerms /\ OnSaleOnce

\* purchase_ticket: a sale takes its price from one buyer's wallet, in the step that
\* makes it, and stands as it was made from then on.
SaleStands == SaleIsFinal /\ ChargedForATicket
=============================================================================

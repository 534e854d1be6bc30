---------------------------- MODULE MCTicketSale ----------------------------
(* Instances of TicketSale for TLC. *)
EXTENDS TicketSale, TLC

\* A short cheap ticket and a long dear one.
MCTerms == {[days |-> 1, price |-> 1], [days |-> 2, price |-> 2]}

\* A bound: only customers put money in their wallets.
StaffStayPoor == \A u \in Staff : balance[u] = 0

\* Customers, listings, keys, accounts and workers are interchangeable.
Symmetry ==
  Permutations(Users \ Staff) \cup Permutations(Listings) \cup Permutations(Keys)
    \cup Permutations(Workers) \cup Permutations(Accounts)
=============================================================================

--------------------------- MODULE AbstractWallet ---------------------------
(***************************************************************************)
(* What the Service wallet promises, and nothing about how: every user     *)
(* holds a balance between zero and what an i64 can hold, money comes in   *)
(* and goes out in whole steps, and each payment, purchase or usage event  *)
(* moves money at most once.  ServiceWallet implements this specification; *)
(* TicketSale buys from it.                                                *)
(***************************************************************************)
EXTENDS Naturals

CONSTANTS
  Users,        \* the customers
  Movements,    \* the identified reasons money moves: <<kind, reference>>
  MaxWallet     \* the largest balance the column holds (i64::MAX)

VARIABLES
  balance,      \* what each user holds
  settled       \* the movements that have happened

vars == <<balance, settled>>

Init ==
  /\ balance = [u \in Users |-> 0]
  /\ settled = {}

\* A test top-up has no reference, so it settles nothing: more is the empty set.
Settle(more) ==
  /\ more \cap settled = {}
  /\ settled' = settled \cup more

Reasons == {{}} \cup {{m} : m \in Movements}

Credit(u, amount, more) ==
  /\ balance[u] + amount <= MaxWallet
  /\ balance' = [balance EXCEPT ![u] = @ + amount]
  /\ Settle(more)

Debit(u, amount, more) ==
  /\ amount <= balance[u]
  /\ balance' = [balance EXCEPT ![u] = @ - amount]
  /\ Settle(more)

Next ==
  \E u \in Users, more \in Reasons, amount \in 1..MaxWallet :
    \/ Credit(u, amount, more)
    \/ Debit(u, amount, more)

Spec == Init /\ [][Next]_vars
=============================================================================

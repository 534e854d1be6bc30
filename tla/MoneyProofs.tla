------------------------------ MODULE MoneyProofs ------------------------------
(***************************************************************************)
(* What TLC shows of ServiceWallet and UsageMetering on a small instance,  *)
(* proved for every set of users, top-ups, events, listings, workers and   *)
(* requests, every set of amounts and every limit.                         *)
(*                                                                         *)
(* WalletInv is the inductive invariant of the wallet: beside the safety   *)
(* properties it says what an open transaction knows.  MeteringInv is the  *)
(* one of metering: an answer that may still be recorded has left nothing, *)
(* and the observer of one that was recorded has stopped.                  *)
(***************************************************************************)
EXTENDS ServiceWallet, UsageMetering, FiniteSetTheorems, TLAPS

(***************************************************************************)
(* The wallet                                                              *)
(***************************************************************************)
\* The ids an open transaction carries exist.
TxnIsSound ==
  \A w \in Workers : txn[w].stage # "idle" =>
    /\ txn[w].user \in Users
    /\ txn[w].amount > 0
    /\ txn[w].kind = "top_up" => txn[w].ref \in TopUps \cup {NoRef}
    /\ txn[w].kind # "top_up" => txn[w].ref # NoRef
    /\ txn[w].stage = "top_up_row" => txn[w].kind = "top_up" /\ txn[w].ref \in TopUps

\* Rows that exist have an owner.
RowsHaveOwners ==
  /\ \A t \in TopUps : topUps[t].status # "none" =>
       topUps[t].user \in Users /\ topUps[t].amount > 0
  /\ \A e \in Events : requests[e].stage # "none" => requests[e].user \in Users
  /\ \A u \in Users : \A i \in 1..Len(ledger[u]) :
       ledger[u][i].kind = "top_up" => ledger[u][i].ref \in TopUps \cup {NoRef}

\* A transaction that completes a top-up holds its row alone, and what it copied
\* from the row is still there: unpaid, its customer, its amount, and a payment.
OpenTopUpIsOwed ==
  /\ \A v, w \in Workers :
       /\ v # w
       /\ txn[v].stage # "idle" /\ txn[v].kind = "top_up" /\ txn[v].ref \in TopUps
       /\ txn[w].stage # "idle" /\ txn[w].kind = "top_up"
       => txn[v].ref # txn[w].ref
  /\ \A w \in Workers :
       txn[w].stage # "idle" /\ txn[w].kind = "top_up" /\ txn[w].ref \in TopUps =>
         /\ topUps[txn[w].ref].status \in {"pending", "expired"}
         /\ topUps[txn[w].ref].user = txn[w].user
         /\ topUps[txn[w].ref].amount = txn[w].amount
         /\ \E p \in payments : p.topUp = txn[w].ref /\ p.paid = txn[w].amount

WalletInv ==
  /\ TypeOK
  /\ TxnIsSound
  /\ RowsHaveOwners
  /\ OpenTopUpIsOwed
  /\ ReadsStayCurrent
  /\ LedgerExplainsWallet
  /\ MovedOnce
  /\ CreditsAreBacked
  /\ PaidIffCredited

-----------------------------------------------------------------------------
\* What Append does to a sequence, row by row.
LEMMA AppendRow ==
  ASSUME NEW S, NEW s \in Seq(S), NEW e \in S
  PROVE  /\ Append(s, e) \in Seq(S)
         /\ Len(s) \in Nat
         /\ Len(Append(s, e)) = Len(s) + 1
         /\ \A i \in 1..Len(s) : Append(s, e)[i] = s[i] /\ s[i] \in S
         /\ Append(s, e)[Len(s) + 1] = e
OBVIOUS

\* A row that moves the balance a ledger explains extends that ledger.
LEMMA ExplainsAppend ==
  ASSUME NEW entries \in Seq(Row), NEW held, Explains(entries, held),
         NEW row \in Row, Moves(row, held)
  PROVE  Explains(Append(entries, row), row.after)
<1> DEFINE n == Len(entries)
           more == Append(entries, row)
<1>1. /\ n \in Nat
      /\ Len(more) = n + 1
      /\ \A i \in 1..n : more[i] = entries[i]
      /\ more[n + 1] = row
  BY AppendRow
<1>2. held = Before(entries, n + 1) /\ \A i \in 1..n : Moves(entries[i], Before(entries, i))
  BY DEF Explains
<1> HIDE DEF n, more
<1>3. \A i \in 1..(n + 1) : Before(more, i) = Before(entries, i)
  <2> SUFFICES ASSUME NEW i \in 1..(n + 1) PROVE Before(more, i) = Before(entries, i)
    OBVIOUS
  <2>1. CASE i = 1
    BY <2>1 DEF Before
  <2>2. CASE i # 1
    <3>1. i - 1 \in 1..n
      BY <1>1, <2>2
    <3>2. QED
      BY <1>1, <2>2, <3>1 DEF Before
  <2>3. QED
    BY <2>1, <2>2
<1>4. Before(more, n + 2) = row.after
  BY <1>1 DEF Before
<1>5. ASSUME NEW i \in 1..(n + 1) PROVE Moves(more[i], Before(more, i))
  <2>1. CASE i = n + 1
    BY <1>1, <1>2, <1>3, <2>1
  <2>2. CASE i \in 1..n
    BY <1>1, <1>2, <1>3, <2>2
  <2>3. QED
    BY <1>1, <2>1, <2>2
<1>6. Len(more) + 1 = n + 2 /\ Len(more) = n + 1
  BY <1>1
<1>7. Explains(more, row.after)
  BY <1>4, <1>5, <1>6 DEF Explains
<1>8. QED
  BY <1>7 DEF more

\* A commit adds one row at the end of one user's ledger and leaves every other
\* row, and every other user, as they were.
LEMMA PostEffect ==
  ASSUME TypeOK, TxnIsSound, NEW w \in Workers, txn[w].stage = "wallet_row",
         NEW amount \in Nat, NEW after \in 0..MaxWallet, Post(w, amount, after)
  PROVE  LET x == txn[w].user
             row == [kind |-> txn[w].kind, ref |-> txn[w].ref,
                     amount |-> amount, after |-> after]
         IN  /\ x \in Users
             /\ row \in Row
             /\ ledger' \in [Users -> Seq(Row)]
             /\ wallet' \in [Users -> 0..MaxWallet]
             /\ wallet'[x] = after
             /\ Len(ledger'[x]) = Len(ledger[x]) + 1
             /\ ledger'[x][Len(ledger[x]) + 1] = row
             /\ \A i \in 1..Len(ledger[x]) : ledger'[x][i] = ledger[x][i]
             /\ \A u \in Users : Len(ledger[u]) \in Nat
             /\ \A u \in Users \ {x} : ledger'[u] = ledger[u] /\ wallet'[u] = wallet[u]
<1> DEFINE x == txn[w].user
           row == [kind |-> txn[w].kind, ref |-> txn[w].ref,
                   amount |-> amount, after |-> after]
<1>1. x \in Users /\ row \in Row
  BY DEF TypeOK, TxnIsSound, Txn, Row
<1>2. /\ ledger' = [ledger EXCEPT ![x] = Append(ledger[x], row)]
      /\ wallet' = [wallet EXCEPT ![x] = after]
  BY DEF Post
<1>3. ledger \in [Users -> Seq(Row)] /\ wallet \in [Users -> 0..MaxWallet]
  BY DEF TypeOK
<1>4. /\ Append(ledger[x], row) \in Seq(Row)
      /\ Len(Append(ledger[x], row)) = Len(ledger[x]) + 1
      /\ \A i \in 1..Len(ledger[x]) : Append(ledger[x], row)[i] = ledger[x][i]
      /\ Append(ledger[x], row)[Len(ledger[x]) + 1] = row
  BY <1>1, <1>3, AppendRow
<1>5. \A u \in Users : Len(ledger[u]) \in Nat
  BY <1>3
<1> HIDE DEF x, row
<1>6. QED
  BY <1>1, <1>2, <1>3, <1>4, <1>5 DEF x, row

\* A commit of the balance the transaction read, moved by its amount, keeps every
\* row explained, and keeps every reference in one row.
LEMMA PostKeepsLedger ==
  ASSUME TypeOK, TxnIsSound, ReadsStayCurrent, LedgerExplainsWallet, MovedOnce,
         NEW w \in Workers, txn[w].stage = "wallet_row",
         ~Posted(txn[w].kind, txn[w].ref),
         NEW amount \in Nat, NEW after \in 0..MaxWallet, Post(w, amount, after),
         IF txn[w].kind = "top_up" THEN after = txn[w].seen + amount
                                   ELSE after + amount = txn[w].seen
  PROVE  LedgerExplainsWallet' /\ MovedOnce'
<1> DEFINE x == txn[w].user
           n == Len(ledger[x])
           row == [kind |-> txn[w].kind, ref |-> txn[w].ref,
                   amount |-> amount, after |-> after]
<1>1. /\ x \in Users /\ row \in Row
      /\ wallet'[x] = after
      /\ Len(ledger'[x]) = n + 1
      /\ ledger'[x][n + 1] = row
      /\ \A i \in 1..n : ledger'[x][i] = ledger[x][i]
      /\ \A u \in Users : Len(ledger[u]) \in Nat
      /\ \A u \in Users \ {x} : ledger'[u] = ledger[u] /\ wallet'[u] = wallet[u]
  BY PostEffect
<1>2. LedgerExplainsWallet'
  <2>1. ledger'[x] = Append(ledger[x], row)
    BY <1>1 DEF Post, TypeOK
  <2>2. Explains(ledger[x], wallet[x])
    BY <1>1 DEF LedgerExplainsWallet
  <2>3. Moves(row, wallet[x]) /\ row.after = after
    BY DEF Moves, ReadsStayCurrent
  <2>4. ledger[x] \in Seq(Row)
    BY <1>1 DEF TypeOK
  <2> HIDE DEF x, row
  <2>5. Explains(ledger'[x], wallet'[x])
    BY <1>1, <2>1, <2>2, <2>3, <2>4, ExplainsAppend
  <2>6. ASSUME NEW u \in Users, u # x PROVE Explains(ledger'[u], wallet'[u])
    BY <1>1, <2>6 DEF LedgerExplainsWallet
  <2>7. QED
    BY <2>5, <2>6 DEF LedgerExplainsWallet
<1>3. MovedOnce'
  <2>1. row.kind = txn[w].kind /\ row.ref = txn[w].ref
    OBVIOUS
  <2> HIDE DEF x, row
  <2>2. ASSUME NEW v \in Users, NEW j \in 1..Len(ledger[v]), row.ref # NoRef,
               ledger[v][j].kind = row.kind, ledger[v][j].ref = row.ref
        PROVE  FALSE
    BY <2>1, <2>2 DEF Posted
  <2>3. ASSUME NEW u \in Users, NEW i \in 1..Len(ledger'[u])
        PROVE  \/ i \in 1..Len(ledger[u]) /\ ledger'[u][i] = ledger[u][i]
               \/ u = x /\ i = n + 1 /\ ledger'[u][i] = row
    BY <1>1
  <2>4. SUFFICES ASSUME NEW u \in Users, NEW v \in Users,
                        NEW i \in 1..Len(ledger'[u]), NEW j \in 1..Len(ledger'[v]),
                        ledger'[u][i].ref # NoRef,
                        ledger'[u][i].ref = ledger'[v][j].ref,
                        ledger'[u][i].kind = ledger'[v][j].kind
                 PROVE  u = v /\ i = j
    BY DEF MovedOnce
  <2>5. CASE i \in 1..Len(ledger[u]) /\ ledger'[u][i] = ledger[u][i]
             /\ j \in 1..Len(ledger[v]) /\ ledger'[v][j] = ledger[v][j]
    BY <2>4, <2>5 DEF MovedOnce
  <2>6. QED
    BY <2>2, <2>3, <2>4, <2>5
<1>4. QED
  BY <1>2, <1>3

-----------------------------------------------------------------------------
\* The initial states: empty wallets, nothing open.
LEMMA WalletInvInit == Init => WalletInv
<1> SUFFICES ASSUME Init PROVE WalletInv
  OBVIOUS
<1> USE DEF Init
<1>1. TypeOK
  <2>1. 0 \in 0..MaxWallet
    BY WalletAssumption
  <2>2. wallet \in [Users -> 0..MaxWallet] /\ ledger \in [Users -> Seq(Row)]
    BY <2>1
  <2>3. topUps \in [TopUps -> TopUpRow] /\ requests \in [Events -> Request]
    BY DEF TopUpRow, Request
  <2>4. Idle \in Txn
    BY <2>1 DEF Txn, Idle, Kinds
  <2>5. QED
    BY <2>2, <2>3, <2>4 DEF TypeOK
<1>2. TxnIsSound /\ RowsHaveOwners /\ OpenTopUpIsOwed /\ ReadsStayCurrent
  BY DEF TxnIsSound, RowsHaveOwners, OpenTopUpIsOwed, ReadsStayCurrent, Idle
<1>3. LedgerExplainsWallet
  <2>1. Len(<<>>) = 0 /\ 1..0 = {}
    OBVIOUS
  <2>2. Explains(<<>>, 0)
    BY <2>1 DEF Explains, Before
  <2>3. QED
    BY <2>2 DEF LedgerExplainsWallet
<1>4. MovedOnce /\ CreditsAreBacked
  BY DEF MovedOnce, CreditsAreBacked
<1>5. PaidIffCredited
  BY DEF PaidIffCredited, Posted
<1>6. QED
  BY <1>1, <1>2, <1>3, <1>4, <1>5 DEF WalletInv

\* A step that moves no money keeps what only the wallets and ledgers say.
LEMMA QuietLedger ==
  ASSUME wallet' = wallet, ledger' = ledger, LedgerExplainsWallet, MovedOnce
  PROVE  /\ LedgerExplainsWallet'
         /\ MovedOnce'
         /\ \A kind, ref : Posted(kind, ref)' = Posted(kind, ref)
BY DEF LedgerExplainsWallet, MovedOnce, Posted

\* A step that keeps or grows the payments, and keeps who each top-up is for and
\* how much, keeps every credit backed.
LEMMA QuietCredits ==
  ASSUME RowsHaveOwners, PaidIffCredited, CreditsAreBacked,
         ledger' = ledger, payments \subseteq payments',
         \A t \in TopUps : topUps[t].status # "none" =>
           topUps'[t].user = topUps[t].user /\ topUps'[t].amount = topUps[t].amount
  PROVE  CreditsAreBacked'
<1> SUFFICES ASSUME NEW u \in Users, NEW i \in 1..Len(ledger[u]),
                    ledger[u][i].kind = "top_up", ledger[u][i].ref # NoRef
             PROVE  /\ topUps'[ledger[u][i].ref].user = u
                    /\ topUps'[ledger[u][i].ref].amount = ledger[u][i].amount
                    /\ \E p \in payments' : /\ p.topUp = ledger[u][i].ref
                                             /\ p.paid = ledger[u][i].amount
  BY DEF CreditsAreBacked
<1>1. ledger[u][i].ref \in TopUps
  BY DEF RowsHaveOwners
<1>2. topUps[ledger[u][i].ref].status = "paid"
  BY <1>1 DEF PaidIffCredited, Posted
<1>3. QED
  BY <1>1, <1>2 DEF CreditsAreBacked

\* A commit posts one row for what the transaction holds.
LEMMA CommitPosts ==
  ASSUME TypeOK, TxnIsSound, NEW w \in Workers,
         CommitTopUp(w) \/ CommitPurchase(w) \/ CommitCharge(w)
  PROVE  /\ txn[w].stage = "wallet_row"
         /\ ~Posted(txn[w].kind, txn[w].ref)
         /\ \E amount \in Nat, after \in 0..MaxWallet :
              /\ Post(w, amount, after)
              /\ amount > 0
              /\ txn[w].kind = "top_up" => amount = txn[w].amount
              /\ IF txn[w].kind = "top_up" THEN after = txn[w].seen + amount
                                           ELSE after + amount = txn[w].seen
<1>1. txn[w] \in Txn
  BY DEF TypeOK
<1>2. /\ txn[w].amount \in Nat /\ txn[w].seen \in Nat /\ txn[w].seen <= MaxWallet
      /\ MaxWallet \in Nat
  BY <1>1, WalletAssumption DEF Txn
<1>3. CASE CommitTopUp(w)
  BY <1>2, <1>3 DEF CommitTopUp, Refused, TxnIsSound
<1>4. CASE CommitPurchase(w)
  BY <1>2, <1>4 DEF CommitPurchase, Refused, TxnIsSound
<1>5. CASE CommitCharge(w)
  <2> DEFINE taken == Charged(txn[w].amount, txn[w].seen)
  <2>1. /\ taken \in Nat /\ taken > 0 /\ taken <= txn[w].seen
        /\ txn[w].stage = "wallet_row" /\ txn[w].kind = "usage"
    BY <1>2, <1>5 DEF CommitCharge, Refused, Charged, TxnIsSound
  <2>2. txn[w].seen - taken \in 0..MaxWallet
        /\ (txn[w].seen - taken) + taken = txn[w].seen
    BY <1>2, <2>1
  <2>3. Post(w, taken, txn[w].seen - taken)
    BY <1>5 DEF CommitCharge
  <2>4. QED
    BY <1>5, <2>1, <2>2, <2>3 DEF CommitCharge, Refused
<1>6. QED
  BY <1>3, <1>4, <1>5

\* The three commits.
LEMMA CommitKeepsWalletInv ==
  ASSUME WalletInv, NEW w \in Workers,
         CommitTopUp(w) \/ CommitPurchase(w) \/ CommitCharge(w)
  PROVE  WalletInv'
<1> USE DEF WalletInv
<1> DEFINE x == txn[w].user
           n == Len(ledger[x])
<1>1. /\ txn[w].stage = "wallet_row"
      /\ ~Posted(txn[w].kind, txn[w].ref)
  BY CommitPosts
<1>2. PICK amount \in Nat, after \in 0..MaxWallet :
        /\ Post(w, amount, after)
        /\ amount > 0
        /\ txn[w].kind = "top_up" => amount = txn[w].amount
        /\ IF txn[w].kind = "top_up" THEN after = txn[w].seen + amount
                                     ELSE after + amount = txn[w].seen
  BY CommitPosts
<1> DEFINE row == [kind |-> txn[w].kind, ref |-> txn[w].ref,
                   amount |-> amount, after |-> after]
<1>3. /\ x \in Users /\ row \in Row
      /\ ledger' \in [Users -> Seq(Row)]
      /\ wallet' \in [Users -> 0..MaxWallet]
      /\ Len(ledger'[x]) = n + 1
      /\ ledger'[x][n + 1] = row
      /\ \A i \in 1..n : ledger'[x][i] = ledger[x][i]
      /\ \A u \in Users : Len(ledger[u]) \in Nat
      /\ \A u \in Users \ {x} : ledger'[u] = ledger[u] /\ wallet'[u] = wallet[u]
  BY <1>1, <1>2, PostEffect
<1>4. LedgerExplainsWallet' /\ MovedOnce'
  BY <1>1, <1>2, PostKeepsLedger
<1>5. /\ txn' = [txn EXCEPT ![w] = Idle]
      /\ requests' = requests /\ sessions' = sessions /\ payments' = payments
      /\ cardPayments' = cardPayments
      /\ topUps' = IF txn[w].kind = "top_up" /\ txn[w].ref \in TopUps
                     THEN [topUps EXCEPT ![txn[w].ref].status = "paid"] ELSE topUps
  BY <1>2 DEF Post, CommitTopUp, CommitPurchase, CommitCharge, MarkPaid
<1>6. row.kind = txn[w].kind /\ row.ref = txn[w].ref /\ row.amount = amount
  OBVIOUS
<1> HIDE DEF x, n, row
<1>7. TypeOK'
  <2>1. Idle \in Txn
    BY WalletAssumption DEF Txn, Idle, Kinds
  <2>2. topUps' \in [TopUps -> TopUpRow]
    BY <1>5 DEF TypeOK, TopUpRow
  <2>3. QED
    BY <1>3, <1>5, <2>1, <2>2 DEF TypeOK
<1>8. TxnIsSound'
  BY <1>5 DEF TxnIsSound, TypeOK, Idle
<1>9. ReadsStayCurrent'
  <2>1. \A v \in Workers : v # w /\ txn[v].stage = "wallet_row" => txn[v].user \in Users \ {x}
    BY <1>1 DEF ReadsStayCurrent, TxnIsSound, x
  <2>2. QED
    BY <1>3, <1>5, <2>1 DEF ReadsStayCurrent, TypeOK, Idle
<1>10. ASSUME NEW u \in Users, NEW i \in 1..Len(ledger'[u])
       PROVE  \/ i \in 1..Len(ledger[u]) /\ ledger'[u][i] = ledger[u][i]
              \/ u = x /\ i = n + 1 /\ ledger'[u][i] = row
  BY <1>3 DEF n
<1>11. \A u \in Users : \A i \in 1..Len(ledger[u]) :
         i \in 1..Len(ledger'[u]) /\ ledger'[u][i] = ledger[u][i]
  BY <1>3 DEF n
<1>12. /\ n + 1 \in 1..Len(ledger'[x]) /\ ledger'[x][n + 1] = row
  BY <1>3 DEF n
<1>13. \A t \in TopUps :
         /\ topUps'[t].user = topUps[t].user
         /\ topUps'[t].amount = topUps[t].amount
         /\ topUps'[t].status = IF txn[w].kind = "top_up" /\ txn[w].ref = t
                                  THEN "paid" ELSE topUps[t].status
  BY <1>5 DEF TypeOK, TopUpRow
<1>14. RowsHaveOwners'
  <2>1. row.kind = "top_up" => row.ref \in TopUps \cup {NoRef}
    BY <1>1, <1>6 DEF TxnIsSound
  <2>2. \A u \in Users : \A i \in 1..Len(ledger'[u]) :
          ledger'[u][i].kind = "top_up" => ledger'[u][i].ref \in TopUps \cup {NoRef}
    BY <2>1, <1>10 DEF RowsHaveOwners
  <2>3. \A t \in TopUps : topUps[t].status # "none" =>
          topUps[t].user \in Users /\ topUps[t].amount > 0
    BY DEF RowsHaveOwners
  <2>4. txn[w].kind = "top_up" /\ txn[w].ref \in TopUps => topUps[txn[w].ref].status # "none"
    BY <1>1 DEF OpenTopUpIsOwed
  <2>5. \A t \in TopUps : topUps'[t].status # "none" =>
          topUps'[t].user \in Users /\ topUps'[t].amount > 0
    BY <1>13, <2>3, <2>4
  <2>6. QED
    BY <1>5, <2>2, <2>5 DEF RowsHaveOwners
<1>15. OpenTopUpIsOwed'
  <2>1. \A v \in Workers :
          v # w /\ txn[v].stage # "idle" /\ txn[v].kind = "top_up" /\ txn[v].ref \in TopUps
          /\ txn[w].kind = "top_up" => txn[v].ref # txn[w].ref
    BY <1>1 DEF OpenTopUpIsOwed
  <2>2. QED
    BY <1>5, <1>13, <2>1 DEF OpenTopUpIsOwed, TypeOK, Idle
<1>16. CreditsAreBacked'
  <2>1. ASSUME row.kind = "top_up", row.ref # NoRef
        PROVE  /\ row.ref \in TopUps
               /\ topUps[row.ref].user = x /\ topUps[row.ref].amount = row.amount
               /\ \E p \in payments : p.topUp = row.ref /\ p.paid = row.amount
    <3>1. txn[w].ref \in TopUps
      BY <1>1, <1>6, <2>1 DEF TxnIsSound
    <3>2. amount = txn[w].amount
      BY <1>2, <1>6, <2>1
    <3>3. QED
      BY <1>1, <1>6, <2>1, <3>1, <3>2 DEF OpenTopUpIsOwed, x
  <2>2. ASSUME NEW u \in Users, NEW i \in 1..Len(ledger[u]),
               ledger[u][i].kind = "top_up", ledger[u][i].ref # NoRef
        PROVE  /\ ledger[u][i].ref \in TopUps
               /\ topUps[ledger[u][i].ref].user = u
               /\ topUps[ledger[u][i].ref].amount = ledger[u][i].amount
               /\ \E p \in payments : p.topUp = ledger[u][i].ref /\ p.paid = ledger[u][i].amount
    BY <2>2 DEF CreditsAreBacked, RowsHaveOwners
  <2>3. QED
    BY <1>5, <1>10, <1>13, <2>1, <2>2 DEF CreditsAreBacked
<1>17. PaidIffCredited'
  <2>1. \A t \in TopUps : Posted("top_up", t)'
          <=> Posted("top_up", t) \/ (row.kind = "top_up" /\ row.ref = t)
    <3>1. ASSUME NEW t \in TopUps, Posted("top_up", t) PROVE Posted("top_up", t)'
      BY <3>1, <1>11 DEF Posted
    <3>2. ASSUME NEW t \in TopUps, row.kind = "top_up", row.ref = t
          PROVE  Posted("top_up", t)'
      BY <3>2, <1>3, <1>12, WalletAssumption DEF Posted, Refs
    <3>3. ASSUME NEW t \in TopUps, Posted("top_up", t)'
          PROVE  Posted("top_up", t) \/ (row.kind = "top_up" /\ row.ref = t)
      BY <3>3, <1>10 DEF Posted
    <3>4. QED
      BY <3>1, <3>2, <3>3
  <2>2. QED
    BY <1>6, <1>13, <2>1 DEF PaidIffCredited
<1>18. QED
  BY <1>4, <1>7, <1>8, <1>9, <1>14, <1>15, <1>16, <1>17

-----------------------------------------------------------------------------
\* Every step keeps WalletInv.
LEMMA WalletInvNext == WalletInv /\ [Next]_vars => WalletInv'
<1> SUFFICES ASSUME WalletInv, [Next]_vars PROVE WalletInv'
  OBVIOUS
<1> USE DEF WalletInv
<1>1. ASSUME NEW t \in TopUps, NEW u \in Users, NEW amount \in Amounts, BeginTopUp(t, u, amount)
      PROVE  WalletInv'
  <2>1. TypeOK'
    BY <1>1, WalletAssumption DEF BeginTopUp, TypeOK, TopUpRow
  <2>2. TxnIsSound' /\ ReadsStayCurrent'
    BY <1>1 DEF BeginTopUp, TxnIsSound, ReadsStayCurrent
  <2>3. RowsHaveOwners'
    BY <1>1, WalletAssumption DEF BeginTopUp, RowsHaveOwners, TypeOK, TopUpRow
  <2>4. OpenTopUpIsOwed'
    BY <1>1 DEF BeginTopUp, OpenTopUpIsOwed, TypeOK, TopUpRow, TxnIsSound
  <2>5. LedgerExplainsWallet' /\ MovedOnce'
    BY <1>1, QuietLedger DEF BeginTopUp
  <2>6. CreditsAreBacked'
    BY <1>1, QuietCredits DEF BeginTopUp, TypeOK, TopUpRow
  <2>7. PaidIffCredited'
    BY <1>1, QuietLedger DEF BeginTopUp, PaidIffCredited, TypeOK, TopUpRow
  <2>8. QED
    BY <2>1, <2>2, <2>3, <2>4, <2>5, <2>6, <2>7
<1>2. ASSUME NEW t \in TopUps, StripeOpensSession(t)
      PROVE  WalletInv'
  <2>1. TypeOK'
    BY <1>2 DEF StripeOpensSession, TypeOK, Payment
  <2>2. TxnIsSound' /\ ReadsStayCurrent'
    BY <1>2 DEF StripeOpensSession, TxnIsSound, ReadsStayCurrent
  <2>3. RowsHaveOwners'
    BY <1>2 DEF StripeOpensSession, RowsHaveOwners, TypeOK, TopUpRow, Request
  <2>4. OpenTopUpIsOwed'
    BY <1>2 DEF StripeOpensSession, OpenTopUpIsOwed, TypeOK, TopUpRow, TxnIsSound
  <2>5. LedgerExplainsWallet' /\ MovedOnce'
    BY <1>2, QuietLedger DEF StripeOpensSession
  <2>6. CreditsAreBacked'
    BY <1>2, QuietCredits DEF StripeOpensSession
  <2>7. PaidIffCredited'
    BY <1>2, QuietLedger DEF StripeOpensSession, PaidIffCredited
  <2>8. QED
    BY <2>1, <2>2, <2>3, <2>4, <2>5, <2>6, <2>7
<1>3. ASSUME NEW t \in TopUps, ExpireTopUp(t)
      PROVE  WalletInv'
  <2>1. TypeOK'
    BY <1>3 DEF ExpireTopUp, TypeOK, TopUpRow
  <2>2. TxnIsSound' /\ ReadsStayCurrent'
    BY <1>3 DEF ExpireTopUp, TxnIsSound, ReadsStayCurrent
  <2>3. RowsHaveOwners'
    BY <1>3 DEF ExpireTopUp, RowsHaveOwners, TypeOK, TopUpRow, Request
  <2>4. OpenTopUpIsOwed'
    BY <1>3 DEF ExpireTopUp, OpenTopUpIsOwed, TypeOK, TopUpRow, TxnIsSound
  <2>5. LedgerExplainsWallet' /\ MovedOnce'
    BY <1>3, QuietLedger DEF ExpireTopUp
  <2>6. CreditsAreBacked'
    BY <1>3, QuietCredits DEF ExpireTopUp, TypeOK, TopUpRow
  <2>7. PaidIffCredited'
    BY <1>3, QuietLedger DEF ExpireTopUp, PaidIffCredited, TypeOK, TopUpRow
  <2>8. QED
    BY <2>1, <2>2, <2>3, <2>4, <2>5, <2>6, <2>7
<1>4. ASSUME NEW p \in Payment, StripeTakesPayment(p)
      PROVE  WalletInv'
  <2>1. TypeOK'
    BY <1>4 DEF StripeTakesPayment, TypeOK, Payment
  <2>2. TxnIsSound' /\ ReadsStayCurrent'
    BY <1>4 DEF StripeTakesPayment, TxnIsSound, ReadsStayCurrent
  <2>3. RowsHaveOwners'
    BY <1>4 DEF StripeTakesPayment, RowsHaveOwners, TypeOK, TopUpRow, Request
  <2>4. OpenTopUpIsOwed'
    BY <1>4 DEF StripeTakesPayment, OpenTopUpIsOwed, TypeOK, TopUpRow, TxnIsSound
  <2>5. LedgerExplainsWallet' /\ MovedOnce'
    BY <1>4, QuietLedger DEF StripeTakesPayment
  <2>6. CreditsAreBacked'
    BY <1>4, QuietCredits DEF StripeTakesPayment
  <2>7. PaidIffCredited'
    BY <1>4, QuietLedger DEF StripeTakesPayment, PaidIffCredited
  <2>8. QED
    BY <2>1, <2>2, <2>3, <2>4, <2>5, <2>6, <2>7
<1>5. ASSUME NEW w \in Workers, NEW p \in Payment, WebhookLocksTopUp(w, p)
      PROVE  WalletInv'
  <2>1. TypeOK'
    <3> DEFINE held == [stage |-> "top_up_row", kind |-> "top_up",
                        user |-> topUps[p.topUp].user, ref |-> p.topUp,
                        amount |-> topUps[p.topUp].amount, seen |-> 0]
    <3>1. 0 \in 0..MaxWallet
      BY WalletAssumption
    <3>2. p.topUp \in TopUps
      BY DEF Payment
    <3>3. topUps[p.topUp].user \in Users /\ topUps[p.topUp].amount \in Nat
      BY <1>5, <3>2 DEF WebhookLocksTopUp, RowsHaveOwners, TypeOK, TopUpRow
    <3>4. held \in Txn
      BY <3>1, <3>2, <3>3 DEF Txn, Kinds, Refs
    <3>5. txn' = [txn EXCEPT ![w] = held]
      BY <1>5 DEF WebhookLocksTopUp
    <3> HIDE DEF held
    <3>6. QED
      BY <1>5, <3>4, <3>5 DEF WebhookLocksTopUp, TypeOK
  <2>2. TxnIsSound' /\ ReadsStayCurrent'
    BY <1>5 DEF WebhookLocksTopUp, TxnIsSound, ReadsStayCurrent, RowsHaveOwners, TypeOK, TopUpRow, Txn, Payment
  <2>3. RowsHaveOwners'
    BY <1>5 DEF WebhookLocksTopUp, RowsHaveOwners, TypeOK, TopUpRow, Request
  <2>4. OpenTopUpIsOwed'
    <3>1. /\ DOMAIN txn = Workers
          /\ topUps' = topUps /\ payments' = payments
          /\ \A v \in Workers \ {w} : txn'[v] = txn[v]
      BY <1>5 DEF WebhookLocksTopUp, TypeOK
    <3>2. /\ txn'[w].stage = "top_up_row" /\ txn'[w].kind = "top_up"
          /\ txn'[w].ref = p.topUp
          /\ txn'[w].user = topUps[p.topUp].user
          /\ txn'[w].amount = topUps[p.topUp].amount
      BY <1>5, <3>1 DEF WebhookLocksTopUp
    <3>3. \A v \in Workers :
            ~(txn[v].stage # "idle" /\ txn[v].kind = "top_up" /\ txn[v].ref = p.topUp)
      BY <1>5 DEF WebhookLocksTopUp, TopUpRowFree
    <3>4. /\ p \in payments /\ p.paid = topUps[p.topUp].amount
          /\ topUps[p.topUp].status \in {"pending", "expired"}
      BY <1>5 DEF WebhookLocksTopUp, PaymentMatches
    <3>5. ASSUME NEW v \in Workers, NEW v2 \in Workers, v # v2,
                 txn'[v].stage # "idle", txn'[v].kind = "top_up", txn'[v].ref \in TopUps,
                 txn'[v2].stage # "idle", txn'[v2].kind = "top_up"
          PROVE  txn'[v].ref # txn'[v2].ref
      <4>1. CASE v = w
        BY <4>1, <3>1, <3>2, <3>3, <3>5
      <4>2. CASE v2 = w
        BY <4>2, <3>1, <3>2, <3>3, <3>5
      <4>3. CASE v # w /\ v2 # w
        BY <4>3, <3>1, <3>5 DEF OpenTopUpIsOwed
      <4>4. QED
        BY <4>1, <4>2, <4>3
    <3>6. ASSUME NEW v \in Workers,
                 txn'[v].stage # "idle", txn'[v].kind = "top_up", txn'[v].ref \in TopUps
          PROVE  /\ topUps'[txn'[v].ref].status \in {"pending", "expired"}
                 /\ topUps'[txn'[v].ref].user = txn'[v].user
                 /\ topUps'[txn'[v].ref].amount = txn'[v].amount
                 /\ \E q \in payments' : q.topUp = txn'[v].ref /\ q.paid = txn'[v].amount
      <4>1. CASE v = w
        BY <4>1, <3>1, <3>2, <3>4
      <4>2. CASE v # w
        BY <4>2, <3>1, <3>6 DEF OpenTopUpIsOwed
      <4>3. QED
        BY <4>1, <4>2
    <3>7. QED
      BY <3>5, <3>6 DEF OpenTopUpIsOwed
  <2>5. LedgerExplainsWallet' /\ MovedOnce'
    BY <1>5, QuietLedger DEF WebhookLocksTopUp
  <2>6. CreditsAreBacked'
    BY <1>5, QuietCredits DEF WebhookLocksTopUp
  <2>7. PaidIffCredited'
    BY <1>5, QuietLedger DEF WebhookLocksTopUp, PaidIffCredited
  <2>8. QED
    BY <2>1, <2>2, <2>3, <2>4, <2>5, <2>6, <2>7
<1>6. ASSUME NEW w \in Workers, WebhookLocksWallet(w)
      PROVE  WalletInv'
  <2>1. TypeOK'
    BY <1>6, WalletAssumption DEF WebhookLocksWallet, LockWallet, TypeOK, Txn, TxnIsSound, RowsHaveOwners, Kinds, Refs
  <2>2. TxnIsSound' /\ ReadsStayCurrent'
    BY <1>6, WalletAssumption DEF WebhookLocksWallet, LockWallet, WalletRowFree, TxnIsSound, ReadsStayCurrent, RowsHaveOwners, TypeOK, Txn, Refs
  <2>3. RowsHaveOwners'
    BY <1>6 DEF WebhookLocksWallet, RowsHaveOwners, TypeOK, TopUpRow, Request
  <2>4. OpenTopUpIsOwed'
    BY <1>6, WalletAssumption DEF WebhookLocksWallet, LockWallet, OpenTopUpIsOwed, TypeOK, TxnIsSound, Txn, Refs
  <2>5. LedgerExplainsWallet' /\ MovedOnce'
    BY <1>6, QuietLedger DEF WebhookLocksWallet
  <2>6. CreditsAreBacked'
    BY <1>6, QuietCredits DEF WebhookLocksWallet
  <2>7. PaidIffCredited'
    BY <1>6, QuietLedger DEF WebhookLocksWallet, PaidIffCredited
  <2>8. QED
    BY <2>1, <2>2, <2>3, <2>4, <2>5, <2>6, <2>7
<1>7. ASSUME NEW w \in Workers, NEW u \in Users, NEW amount \in Amounts, TestTopUp(w, u, amount)
      PROVE  WalletInv'
  <2>1. TypeOK'
    BY <1>7, WalletAssumption DEF TestTopUp, LockWallet, TypeOK, Txn, TxnIsSound, RowsHaveOwners, Kinds, Refs
  <2>2. TxnIsSound' /\ ReadsStayCurrent'
    BY <1>7, WalletAssumption DEF TestTopUp, LockWallet, WalletRowFree, TxnIsSound, ReadsStayCurrent, RowsHaveOwners, TypeOK, Txn, Refs
  <2>3. RowsHaveOwners'
    BY <1>7 DEF TestTopUp, RowsHaveOwners, TypeOK, TopUpRow, Request
  <2>4. OpenTopUpIsOwed'
    BY <1>7, WalletAssumption DEF TestTopUp, LockWallet, OpenTopUpIsOwed, TypeOK, TxnIsSound, Txn, Refs
  <2>5. LedgerExplainsWallet' /\ MovedOnce'
    BY <1>7, QuietLedger DEF TestTopUp
  <2>6. CreditsAreBacked'
    BY <1>7, QuietCredits DEF TestTopUp
  <2>7. PaidIffCredited'
    BY <1>7, QuietLedger DEF TestTopUp, PaidIffCredited
  <2>8. QED
    BY <2>1, <2>2, <2>3, <2>4, <2>5, <2>6, <2>7
<1>8. ASSUME NEW w \in Workers, NEW u \in Users, NEW l \in Listings, NEW price \in Amounts, BeginPurchase(w, u, l, price)
      PROVE  WalletInv'
  <2>1. TypeOK'
    BY <1>8, WalletAssumption DEF BeginPurchase, LockWallet, TypeOK, Txn, TxnIsSound, RowsHaveOwners, Kinds, Refs
  <2>2. TxnIsSound' /\ ReadsStayCurrent'
    BY <1>8, WalletAssumption DEF BeginPurchase, LockWallet, WalletRowFree, TxnIsSound, ReadsStayCurrent, RowsHaveOwners, TypeOK, Txn, Refs
  <2>3. RowsHaveOwners'
    BY <1>8 DEF BeginPurchase, RowsHaveOwners, TypeOK, TopUpRow, Request
  <2>4. OpenTopUpIsOwed'
    BY <1>8, WalletAssumption DEF BeginPurchase, LockWallet, OpenTopUpIsOwed, TypeOK, TxnIsSound, Txn, Refs
  <2>5. LedgerExplainsWallet' /\ MovedOnce'
    BY <1>8, QuietLedger DEF BeginPurchase
  <2>6. CreditsAreBacked'
    BY <1>8, QuietCredits DEF BeginPurchase
  <2>7. PaidIffCredited'
    BY <1>8, QuietLedger DEF BeginPurchase, PaidIffCredited
  <2>8. QED
    BY <2>1, <2>2, <2>3, <2>4, <2>5, <2>6, <2>7
<1>9. ASSUME NEW w \in Workers, NEW e \in Events, NEW cost \in Amounts, BeginCharge(w, e, cost)
      PROVE  WalletInv'
  <2>1. TypeOK'
    BY <1>9, WalletAssumption DEF BeginCharge, LockWallet, TypeOK, Txn, TxnIsSound, RowsHaveOwners, Kinds, Refs, Request
  <2>2. TxnIsSound' /\ ReadsStayCurrent'
    BY <1>9, WalletAssumption DEF BeginCharge, LockWallet, WalletRowFree, TxnIsSound, ReadsStayCurrent, RowsHaveOwners, TypeOK, Txn, Refs, Request
  <2>3. RowsHaveOwners'
    BY <1>9 DEF BeginCharge, RowsHaveOwners, TypeOK, TopUpRow, Request
  <2>4. OpenTopUpIsOwed'
    BY <1>9, WalletAssumption DEF BeginCharge, LockWallet, OpenTopUpIsOwed, TypeOK, TxnIsSound, Txn, Refs
  <2>5. LedgerExplainsWallet' /\ MovedOnce'
    BY <1>9, QuietLedger DEF BeginCharge
  <2>6. CreditsAreBacked'
    BY <1>9, QuietCredits DEF BeginCharge
  <2>7. PaidIffCredited'
    BY <1>9, QuietLedger DEF BeginCharge, PaidIffCredited
  <2>8. QED
    BY <2>1, <2>2, <2>3, <2>4, <2>5, <2>6, <2>7
<1>10. ASSUME NEW e \in Events, NEW u \in Users, AuthorizeRequest(e, u)
      PROVE  WalletInv'
  <2>1. TypeOK'
    BY <1>10 DEF AuthorizeRequest, TypeOK, Request
  <2>2. TxnIsSound' /\ ReadsStayCurrent'
    BY <1>10 DEF AuthorizeRequest, TxnIsSound, ReadsStayCurrent
  <2>3. RowsHaveOwners'
    BY <1>10 DEF AuthorizeRequest, RowsHaveOwners, TypeOK, TopUpRow, Request
  <2>4. OpenTopUpIsOwed'
    BY <1>10 DEF AuthorizeRequest, OpenTopUpIsOwed, TypeOK, TopUpRow, TxnIsSound
  <2>5. LedgerExplainsWallet' /\ MovedOnce'
    BY <1>10, QuietLedger DEF AuthorizeRequest
  <2>6. CreditsAreBacked'
    BY <1>10, QuietCredits DEF AuthorizeRequest
  <2>7. PaidIffCredited'
    BY <1>10, QuietLedger DEF AuthorizeRequest, PaidIffCredited
  <2>8. QED
    BY <2>1, <2>2, <2>3, <2>4, <2>5, <2>6, <2>7
<1>11. ASSUME NEW e \in Events, RecordUsageEvent(e)
      PROVE  WalletInv'
  <2>1. TypeOK'
    BY <1>11 DEF RecordUsageEvent, TypeOK, Request
  <2>2. TxnIsSound' /\ ReadsStayCurrent'
    BY <1>11 DEF RecordUsageEvent, TxnIsSound, ReadsStayCurrent
  <2>3. RowsHaveOwners'
    BY <1>11 DEF RecordUsageEvent, RowsHaveOwners, TypeOK, TopUpRow, Request
  <2>4. OpenTopUpIsOwed'
    BY <1>11 DEF RecordUsageEvent, OpenTopUpIsOwed, TypeOK, TopUpRow, TxnIsSound
  <2>5. LedgerExplainsWallet' /\ MovedOnce'
    BY <1>11, QuietLedger DEF RecordUsageEvent
  <2>6. CreditsAreBacked'
    BY <1>11, QuietCredits DEF RecordUsageEvent
  <2>7. PaidIffCredited'
    BY <1>11, QuietLedger DEF RecordUsageEvent, PaidIffCredited
  <2>8. QED
    BY <2>1, <2>2, <2>3, <2>4, <2>5, <2>6, <2>7
<1>12. ASSUME NEW w \in Workers, EndUncommitted(w)
      PROVE  WalletInv'
  <2>1. TypeOK'
    BY <1>12, WalletAssumption DEF EndUncommitted, TypeOK, Txn, Idle, Kinds
  <2>2. TxnIsSound' /\ ReadsStayCurrent'
    BY <1>12 DEF EndUncommitted, TxnIsSound, ReadsStayCurrent, Idle, TypeOK
  <2>3. RowsHaveOwners'
    BY <1>12 DEF EndUncommitted, RowsHaveOwners, TypeOK, TopUpRow, Request
  <2>4. OpenTopUpIsOwed'
    BY <1>12, WalletAssumption DEF EndUncommitted, OpenTopUpIsOwed, Idle, TypeOK, Refs
  <2>5. LedgerExplainsWallet' /\ MovedOnce'
    BY <1>12, QuietLedger DEF EndUncommitted
  <2>6. CreditsAreBacked'
    BY <1>12, QuietCredits DEF EndUncommitted
  <2>7. PaidIffCredited'
    BY <1>12, QuietLedger DEF EndUncommitted, PaidIffCredited
  <2>8. QED
    BY <2>1, <2>2, <2>3, <2>4, <2>5, <2>6, <2>7
<1>13. ASSUME NEW w \in Workers, CommitTopUp(w) \/ CommitPurchase(w) \/ CommitCharge(w)
       PROVE  WalletInv'
  BY <1>13, CommitKeepsWalletInv
<1>14. CASE UNCHANGED vars
  <2>1. TypeOK' /\ TxnIsSound' /\ RowsHaveOwners' /\ OpenTopUpIsOwed' /\ ReadsStayCurrent'
    BY <1>14 DEF vars, TypeOK, TxnIsSound, RowsHaveOwners, OpenTopUpIsOwed, ReadsStayCurrent
  <2>2. LedgerExplainsWallet' /\ MovedOnce' /\ CreditsAreBacked' /\ PaidIffCredited'
    BY <1>14, QuietLedger DEF vars, CreditsAreBacked, PaidIffCredited
  <2>3. QED
    BY <2>1, <2>2
<1>15. QED
  <2>1. CASE PayIn
    BY <2>1, <1>1, <1>2, <1>3, <1>4, <1>5, <1>6, <1>7, <1>13 DEF PayIn
  <2>2. CASE Spend
    BY <2>2, <1>8, <1>9, <1>10, <1>11, <1>13 DEF Spend
  <2>3. CASE \E w \in Workers : Refuse(w) \/ Fail(w)
    BY <2>3, <1>12 DEF Refuse, Fail
  <2>4. QED
    BY <2>1, <2>2, <2>3, <1>14 DEF Next

-----------------------------------------------------------------------------
\* The inductive invariant of the wallet holds, for any users, amounts and bounds.
THEOREM WalletInvariant == Spec => []WalletInv
  BY WalletInvInit, WalletInvNext, PTL DEF Spec

\* Every value the tables and transactions hold is one the code can store: no
\* balance leaves 0..MaxWallet, for any number of concurrent movements.
THEOREM TypeCorrect == Spec => []TypeOK
<1>1. WalletInv => TypeOK
  BY DEF WalletInv
<1>2. QED
  BY <1>1, WalletInvariant, PTL

\* FOR UPDATE serialises the movements of one wallet.
THEOREM ReadsAreStable == Spec => []ReadsStayCurrent
<1>1. WalletInv => ReadsStayCurrent
  BY DEF WalletInv
<1>2. QED
  BY <1>1, WalletInvariant, PTL

\* No update is lost and no debit overdraws: the ledger always adds up to the wallet.
THEOREM LedgerAddsUp == Spec => []LedgerExplainsWallet
<1>1. WalletInv => LedgerExplainsWallet
  BY DEF WalletInv
<1>2. QED
  BY <1>1, WalletInvariant, PTL

\* A payment, a ticket or a usage event moves money at most once.
THEOREM NothingMovesTwice == Spec => []MovedOnce
<1>1. WalletInv => MovedOnce
  BY DEF WalletInv
<1>2. QED
  BY <1>1, WalletInvariant, PTL

\* Money credited for a card is money Stripe took for that customer's top-up.
THEOREM NoCreditWithoutPayment == Spec => []CreditsAreBacked
<1>1. WalletInv => CreditsAreBacked
  BY DEF WalletInv
<1>2. QED
  BY <1>1, WalletInvariant, PTL

\* The status of a top-up and the ledger never disagree.
THEOREM StatusMatchesLedger == Spec => []PaidIffCredited
<1>1. WalletInv => PaidIffCredited
  BY DEF WalletInv
<1>2. QED
  BY <1>1, WalletInvariant, PTL

\* What Stripe took is credited once, to the one who paid it, and the top-up says so.
THEOREM TopUpsSound == Spec => []TopUpsAreSound
<1>1. WalletInv => TopUpsAreSound
  BY DEF WalletInv, TopUpsAreSound
<1>2. QED
  BY <1>1, WalletInvariant, PTL

-----------------------------------------------------------------------------
\* Refinement.

Settled == {m \in Kinds \X Refs : Posted(m[1], m[2])}

\* A commit settles exactly the movement of its row.
LEMMA CommitSettles ==
  ASSUME WalletInv, NEW w \in Workers, txn[w].stage = "wallet_row",
         NEW amount \in Nat, NEW after \in 0..MaxWallet, Post(w, amount, after)
  PROVE  Settled' = Settled \cup
           (IF txn[w].ref = NoRef THEN {} ELSE {<<txn[w].kind, txn[w].ref>>})
<1> DEFINE x == txn[w].user
           n == Len(ledger[x])
           row == [kind |-> txn[w].kind, ref |-> txn[w].ref,
                   amount |-> amount, after |-> after]
<1>1. /\ x \in Users
      /\ Len(ledger'[x]) = n + 1
      /\ ledger'[x][n + 1] = row
      /\ \A i \in 1..n : ledger'[x][i] = ledger[x][i]
      /\ \A u \in Users : Len(ledger[u]) \in Nat
      /\ \A u \in Users \ {x} : ledger'[u] = ledger[u]
  BY PostEffect DEF WalletInv
<1>2. row.kind = txn[w].kind /\ row.ref = txn[w].ref
  OBVIOUS
<1>3. txn[w].kind \in Kinds /\ txn[w].ref \in Refs \cup {NoRef}
  BY DEF WalletInv, TypeOK, Txn
<1> HIDE DEF x, row
<1>4. ASSUME NEW k \in Kinds, NEW r \in Refs
      PROVE  Posted(k, r)' <=> Posted(k, r) \/ (row.kind = k /\ row.ref = r)
  <2>1. r # NoRef
    BY WalletAssumption
  <2>2. ASSUME Posted(k, r) PROVE Posted(k, r)'
    <3>1. PICK u \in Users : \E i \in 1..Len(ledger[u]) :
            ledger[u][i].kind = k /\ ledger[u][i].ref = r
      BY <2>2 DEF Posted
    <3>2. \A i \in 1..Len(ledger[u]) : i \in 1..Len(ledger'[u]) /\ ledger'[u][i] = ledger[u][i]
      BY <1>1
    <3>3. QED
      BY <2>1, <3>1, <3>2 DEF Posted
  <2>3. ASSUME row.kind = k, row.ref = r PROVE Posted(k, r)'
    <3>1. n + 1 \in 1..Len(ledger'[x])
      BY <1>1
    <3>2. QED
      BY <1>1, <2>1, <2>3, <3>1 DEF Posted
  <2>4. ASSUME Posted(k, r)' PROVE Posted(k, r) \/ (row.kind = k /\ row.ref = r)
    <3>1. PICK u \in Users : \E i \in 1..Len(ledger'[u]) :
            ledger'[u][i].kind = k /\ ledger'[u][i].ref = r
      BY <2>4 DEF Posted
    <3>2. \A i \in 1..Len(ledger'[u]) :
            \/ i \in 1..Len(ledger[u]) /\ ledger'[u][i] = ledger[u][i]
            \/ u = x /\ i = n + 1
      BY <1>1
    <3>3. QED
      BY <1>1, <2>1, <3>1, <3>2 DEF Posted
  <2>5. QED
    BY <2>2, <2>3, <2>4
<1>5. Settled' = {m \in Kinds \X Refs : Posted(m[1], m[2])'}
  BY DEF Settled
<1>6. QED
  BY <1>2, <1>3, <1>4, <1>5, WalletAssumption DEF Settled

\* ServiceWallet implements AbstractWallet: the wallets are the balances, and a
\* movement is settled when the ledger holds its row.
THEOREM WalletImplementsAbstract == Spec => ImplementsAbstractWallet
<1>1. Init => Abstract!Init
  BY DEF Init, Abstract!Init, Posted
<1>2. WalletInv /\ [Next]_vars => [Abstract!Next]_(Abstract!vars)
  <2> SUFFICES ASSUME WalletInv, [Next]_vars
               PROVE  Abstract!Next \/ UNCHANGED Abstract!vars
    OBVIOUS
  <2>1. ASSUME UNCHANGED <<wallet, ledger>> PROVE UNCHANGED Abstract!vars
    BY <2>1 DEF Abstract!vars, Posted
  <2>2. ASSUME NEW w \in Workers,
               CommitTopUp(w) \/ CommitPurchase(w) \/ CommitCharge(w)
        PROVE  Abstract!Next
    <3> DEFINE x == txn[w].user
               more == IF txn[w].ref = NoRef THEN {} ELSE {<<txn[w].kind, txn[w].ref>>}
    <3>1. txn[w].stage = "wallet_row" /\ ~Posted(txn[w].kind, txn[w].ref)
      BY <2>2, CommitPosts DEF WalletInv
    <3>2. PICK amount \in Nat, after \in 0..MaxWallet :
            /\ Post(w, amount, after)
            /\ amount > 0
            /\ IF txn[w].kind = "top_up" THEN after = txn[w].seen + amount
                                         ELSE after + amount = txn[w].seen
      BY <2>2, CommitPosts DEF WalletInv
    <3>3. Settled' = Settled \cup more
      BY <3>1, <3>2, CommitSettles
    <3>4. /\ x \in Users /\ txn[w].seen = wallet[x] /\ txn[w].seen \in 0..MaxWallet
          /\ txn[w].kind \in Kinds /\ txn[w].ref \in Refs \cup {NoRef}
      BY <3>1 DEF WalletInv, TxnIsSound, ReadsStayCurrent, TypeOK, Txn
    <3>5. more \cap Settled = {} /\ more \in Abstract!Reasons
      BY <3>1, <3>4 DEF Settled, Abstract!Reasons
    <3>6. wallet' = [wallet EXCEPT ![x] = after] /\ wallet \in [Users -> 0..MaxWallet]
      BY <3>2 DEF Post, WalletInv, TypeOK
    <3>7. Abstract!Settle(more)
      BY <3>3, <3>5 DEF Abstract!Settle, Settled
    <3>8. amount \in 1..MaxWallet
      BY <3>2, <3>4, WalletAssumption
    <3> HIDE DEF x, more
    <3>9. CASE txn[w].kind = "top_up"
      <4>1. wallet[x] + amount = after
        BY <3>2, <3>4, <3>9
      <4>2. Abstract!Credit(x, amount, more)
        <5>1. wallet[x] + amount <= MaxWallet
          BY <4>1, WalletAssumption
        <5>2. wallet' = [wallet EXCEPT ![x] = wallet[x] + amount]
          BY <3>6, <4>1
        <5>3. QED
          BY <3>7, <5>1, <5>2 DEF Abstract!Credit
      <4>3. QED
        BY <3>4, <3>5, <3>8, <4>2 DEF Abstract!Next
    <3>10. CASE txn[w].kind # "top_up"
      <4>1. wallet[x] - amount = after /\ amount <= wallet[x]
        BY <3>2, <3>4, <3>10
      <4>2. Abstract!Debit(x, amount, more)
        BY <3>4, <3>6, <3>7, <4>1 DEF Abstract!Debit
      <4>3. QED
        BY <3>4, <3>5, <3>8, <4>2 DEF Abstract!Next
    <3>11. QED
      BY <3>9, <3>10
  <2>3. CASE UNCHANGED vars
    BY <2>1, <2>3 DEF vars
  <2>4. CASE PayIn
    BY <2>1, <2>2, <2>4 DEF PayIn, BeginTopUp, StripeOpensSession, ExpireTopUp,
      StripeTakesPayment, WebhookLocksTopUp, WebhookLocksWallet, TestTopUp
  <2>5. CASE Spend
    BY <2>1, <2>2, <2>5 DEF Spend, BeginPurchase, AuthorizeRequest, RecordUsageEvent,
      BeginCharge
  <2>6. CASE \E w \in Workers : Refuse(w) \/ Fail(w)
    BY <2>1, <2>6 DEF Refuse, Fail, EndUncommitted
  <2>7. QED
    BY <2>3, <2>4, <2>5, <2>6 DEF Next
<1>3. QED
  BY <1>1, <1>2, WalletInvariant, PTL DEF Spec, ImplementsAbstractWallet, Abstract!Spec

(***************************************************************************)
(* Metering                                                                *)
(***************************************************************************)
\* What a recording writes.
EventOf(j) == [of |-> j.of, by |-> j.by, outcome |-> j.outcome, tokens |-> j.tokens]

\* What was written, and what is on its way to be.
Recordings == rows \cup orgRows \cup {EventOf(j) : j \in jobs}

Unrecorded(r) == \A e \in Recordings : e.of # r

\* An answer whose body is still open, or whose guard still has what to record, is not recorded.
AnswerFits(r) ==
  /\ request[r].phase \in {"none", "answering"} => observer[r].pending = TRUE /\ Unrecorded(r)
  /\ request[r].path \in Guarded /\ observer[r].pending = TRUE => Unrecorded(r)
  /\ request[r].phase # "none" => request[r].user \in Users
  /\ request[r].phase = "none" => request[r].failed = FALSE
  /\ request[r].phase = "answering" /\ request[r].failed = TRUE => request[r].path \in Guarded
  /\ Total(observer[r]) <= MaxUsage

\* What an event says of the answer, whose observer has stopped.
EventFits(e) ==
  /\ e.outcome = "completed" /\ observer[e.of].lost = FALSE => e.tokens = Total(observer[e.of])
  /\ request[e.of].path \in Streams => e.tokens >= observer[e.of].known

\* An answer that counts for its organization was completed.
Counts(r) == Completes(r) /\ request[r].failed = FALSE

\* A recording that is about to charge has written its event.
JobFits(j) ==
  /\ j.counts = TRUE => j.outcome = "completed" /\ Counts(j.of)
  /\ j.next = "charge" => EventOf(j) \in rows

\* What was charged has its ledger row, and an event that bears it out.
ChargeFits(r) ==
  charged[r] > 0 =>
    /\ <<"usage", r>> \in settled
    /\ request[r].scope = "service"
    /\ \E e \in rows : e.of = r /\ charged[r] <= e.tokens

OrgRowFits(e) == request[e.of].scope = "organization" /\ e.outcome = "completed" /\ Counts(e.of)

OneEvent == \A e, f \in Recordings : e.of = f.of => e = f

OneJob == \A j, k \in jobs : j.of = k.of => j = k

MeteringInv ==
  /\ MeteringTypeOK
  /\ \A r \in Requests : AnswerFits(r)
  /\ \A e \in Recordings : EventFits(e)
  /\ \A j \in jobs : JobFits(j)
  /\ \A r \in Requests : ChargeFits(r)
  /\ \A e \in orgRows : OrgRowFits(e)
  /\ OneEvent
  /\ OneJob
-----------------------------------------------------------------------------
\* The fields of answers, observers, recordings and events.
LEMMA MeteringTypes ==
  ASSUME MeteringTypeOK
  PROVE  /\ MaxUsage \in Nat /\ MaxWallet \in Nat /\ NoUser \notin Users
         /\ \A r \in Requests :
              /\ request[r] \in GatewayRequest /\ request[r].path \in Paths /\ request[r].scope \in Scopes
              /\ request[r].user \in Users \cup {NoUser}
              /\ request[r].failed \in BOOLEAN
              /\ observer[r] \in Observer /\ observer[r].known \in 0..MaxUsage /\ observer[r].buffered \in 0..MaxUsage
              /\ observer[r].lost \in BOOLEAN /\ observer[r].pending \in BOOLEAN
              /\ charged[r] \in 0..MaxUsage
         /\ \A j \in jobs : j \in Job /\ j.of \in Requests /\ j.tokens \in 0..MaxUsage
                            /\ j.outcome \in Outcomes /\ EventOf(j) \in EventRow
         /\ \A e \in Recordings : e \in EventRow /\ e.of \in Requests /\ e.tokens \in 0..MaxUsage
         /\ \A u \in Users : balance[u] \in 0..MaxWallet
<1>1. \A r \in Requests : request[r] \in GatewayRequest /\ observer[r] \in Observer /\ charged[r] \in 0..MaxUsage
  BY DEF MeteringTypeOK
<1>2. \A j \in jobs : j \in Job /\ j.of \in Requests /\ j.tokens \in 0..MaxUsage /\ j.outcome \in Outcomes
                      /\ EventOf(j) \in EventRow
  BY DEF MeteringTypeOK, Job, EventRow, EventOf
<1>3. \A e \in Recordings : e \in EventRow
  BY <1>2 DEF Recordings, MeteringTypeOK
<1> QED
  BY <1>1, <1>2, <1>3, MeteringAssumption DEF MeteringTypeOK, GatewayRequest, Observer, EventRow

\* The answer of r and its observer say of a written event what they said when it was written.
Frozen(r) ==
  /\ request'[r].path = request[r].path /\ request'[r].scope = request[r].scope
  /\ request'[r].failed = request[r].failed
  /\ observer'[r].known = observer[r].known /\ observer'[r].buffered = observer[r].buffered
  /\ observer'[r].lost = observer[r].lost
  /\ Read(observer[r])'.mark = Read(observer[r]).mark

\* No new event, and every answer that is recorded has stopped.
LEMMA MeteringMoves ==
  ASSUME MeteringInv, MeteringTypeOK', Recordings' \subseteq Recordings, OneJob', rows \subseteq rows', settled \subseteq settled',
         \A s \in Requests : AnswerFits(s)',
         \A s \in Requests : Unrecorded(s) \/ Frozen(s),
         \A j \in jobs' : j \in jobs \/ JobFits(j)',
         \A e \in orgRows' : e \in orgRows \/ OrgRowFits(e)',
         \A s \in Requests : charged'[s] = charged[s] \/ ChargeFits(s)'
  PROVE  MeteringInv'
<1>1. ASSUME NEW e \in Recordings
      PROVE  e.of \in Requests /\ Frozen(e.of) /\ EventFits(e)
  <2>1. e.of \in Requests /\ ~Unrecorded(e.of)
    BY MeteringTypes DEF MeteringInv, Unrecorded
  <2> QED
    BY <2>1 DEF MeteringInv
<1>2. ASSUME NEW e \in Recordings
      PROVE  EventFits(e)'
  BY <1>1 DEF EventFits, Frozen, Total
<1>3. ASSUME NEW s \in Requests, Frozen(s)
      PROVE  Counts(s) => Counts(s)'
  BY <1>3 DEF Counts, Completes, Finished, Frozen
<1>4. ASSUME NEW j \in jobs
      PROVE  JobFits(j)'
  <2>1. EventOf(j) \in Recordings
    BY DEF Recordings
  <2>2. EventOf(j).of = j.of
    BY DEF EventOf
  <2>3. j.of \in Requests /\ Frozen(j.of)
    BY <1>1, <2>1, <2>2
  <2>4. JobFits(j)
    BY DEF MeteringInv
  <2> QED
    BY <1>3, <2>3, <2>4 DEF JobFits, EventOf
<1>5. ASSUME NEW e \in orgRows
      PROVE  OrgRowFits(e)'
  <2>1. e \in Recordings
    BY DEF Recordings
  <2>2. OrgRowFits(e)
    BY DEF MeteringInv
  <2> QED
    BY <1>1, <1>3, <2>1, <2>2 DEF OrgRowFits, Frozen
<1>6. ASSUME NEW s \in Requests
      PROVE  ChargeFits(s)'
  <2>1. CASE charged'[s] = charged[s] /\ charged[s] > 0
    <3>1. /\ <<"usage", s>> \in settled /\ request[s].scope = "service"
          /\ \E e \in rows : e.of = s /\ charged[s] <= e.tokens
      BY <2>1 DEF MeteringInv, ChargeFits
    <3>2. PICK e \in rows : e.of = s /\ charged[s] <= e.tokens
      BY <3>1
    <3>3. e \in Recordings
      BY DEF Recordings
    <3>4. request'[s].scope = request[s].scope
      BY <1>1, <3>2, <3>3 DEF Frozen
    <3> QED
      BY <2>1, <3>1, <3>2, <3>4 DEF ChargeFits
  <2>2. CASE charged'[s] = charged[s] /\ ~(charged[s] > 0)
    BY <2>2 DEF ChargeFits
  <2> QED
    BY <2>1, <2>2
<1>7. OneEvent'
  BY DEF OneEvent, MeteringInv
<1> QED
  BY <1>2, <1>4, <1>5, <1>6, <1>7 DEF MeteringInv

\* An answer that did not move, and of which nothing new is recorded.
LEMMA AnswerStays ==
  ASSUME MeteringInv, NEW s \in Requests, request'[s] = request[s], observer'[s] = observer[s],
         \A e \in Recordings' : e.of = s => e \in Recordings
  PROVE  AnswerFits(s)' /\ Frozen(s)
  BY DEF MeteringInv, AnswerFits, Frozen, Unrecorded, Total, Read

\* The body of r goes on; it is not recorded.
LEMMA BodyMoves ==
  ASSUME MeteringInv, NEW r \in Requests, NEW q \in GatewayRequest, NEW o \in Observer,
         request' = [request EXCEPT ![r] = q], observer' = [observer EXCEPT ![r] = o],
         jobs' \subseteq jobs, UNCHANGED <<rows, orgRows, charged, balance, settled>>,
         Unrecorded(r) \/ (o = observer[r] /\ q.path = request[r].path /\ q.scope = request[r].scope
                           /\ q.failed = request[r].failed),
         q.phase \in {"none", "answering"} => o.pending = TRUE /\ Unrecorded(r),
         q.path \in Guarded /\ o.pending = TRUE => Unrecorded(r),
         q.phase # "none" => q.user \in Users,
         q.phase = "none" => q.failed = FALSE,
         q.phase = "answering" /\ q.failed = TRUE => q.path \in Guarded,
         Total(o) <= MaxUsage
  PROVE  MeteringInv'
<1>1. request'[r] = q /\ observer'[r] = o
  BY DEF MeteringInv, MeteringTypeOK
<1>2. MeteringTypeOK'
  BY DEF MeteringInv, MeteringTypeOK
<1>3. Recordings' \subseteq Recordings
  BY DEF Recordings, EventOf
<1>4. OneJob'
  BY DEF MeteringInv, OneJob
<1>5. AnswerFits(r)'
  BY <1>1, <1>3 DEF AnswerFits, Unrecorded, Total
<1>6. Unrecorded(r) \/ Frozen(r)
  BY <1>1 DEF Frozen, Read
<1>7. \A s \in Requests \ {r} : request'[s] = request[s] /\ observer'[s] = observer[s]
  BY DEF MeteringInv, MeteringTypeOK
<1>8. \A s \in Requests \ {r} : AnswerFits(s)' /\ Frozen(s)
  BY <1>3, <1>7, AnswerStays
<1> QED
  BY <1>2, <1>3, <1>4, <1>5, <1>6, <1>8, MeteringMoves

\* The recording of r begins.
LEMMA RecordingBegins ==
  ASSUME MeteringInv, NEW r \in Requests, NEW q \in GatewayRequest, NEW o \in Observer, Unrecorded(r),
         NEW by \in {"finish", "drop", "stream", "handler"}, NEW completed \in BOOLEAN,
         NEW tokens \in 0..MaxUsage, NEW counts \in BOOLEAN,
         request' = [request EXCEPT ![r] = q], observer' = [observer EXCEPT ![r] = o],
         jobs' = jobs \cup {NewJob(r, by, completed, tokens, counts)},
         UNCHANGED <<rows, orgRows, charged, balance, settled>>,
         q.path = request[r].path, q.user \in Users, q.phase \notin {"none", "answering"},
         q.path \in Guarded => o.pending = FALSE,
         /\ o.known = observer[r].known /\ o.buffered = observer[r].buffered /\ o.lost = observer[r].lost
         /\ o.mark = observer[r].mark /\ o.next = observer[r].next,
         completed = TRUE /\ o.lost = FALSE => tokens = Total(observer[r]),
         q.path \in Streams => tokens >= observer[r].known,
         counts = TRUE => completed = TRUE /\ Completes(r) /\ q.failed = FALSE
  PROVE  MeteringInv'
<1> DEFINE j == NewJob(r, by, completed, tokens, counts)
<1>1. request'[r] = q /\ observer'[r] = o
  BY DEF MeteringInv, MeteringTypeOK
<1>2. /\ j \in Job /\ j.of = r /\ j.next = "insert" /\ j.counts = counts /\ j.tokens = tokens
      /\ j.outcome = "completed" <=> completed = TRUE
  BY DEF NewJob, Job, Outcomes
<1>3. jobs' = jobs \cup {j}
  OBVIOUS
<1> HIDE DEF j
<1>4. MeteringTypeOK'
  BY <1>2, <1>3 DEF MeteringInv, MeteringTypeOK
<1>5. Recordings' = Recordings \cup {EventOf(j)}
  BY <1>3 DEF Recordings, EventOf
<1>6. /\ EventOf(j).of = r /\ EventOf(j).tokens = tokens
      /\ EventOf(j).outcome = "completed" <=> completed = TRUE
  BY <1>2 DEF EventOf
<1>7. \A s \in Requests \ {r} : request'[s] = request[s] /\ observer'[s] = observer[s]
  BY DEF MeteringInv, MeteringTypeOK
<1>8. \A s \in Requests \ {r} : AnswerFits(s)' /\ Frozen(s)
  BY <1>5, <1>6, <1>7, AnswerStays
<1>9. \A s \in Requests : AnswerFits(s)'
  <2>1. AnswerFits(r)'
    BY <1>1 DEF AnswerFits, Total, MeteringInv
  <2> QED
    BY <1>8, <2>1
<1>10. ASSUME NEW e \in Recordings
       PROVE  e.of \in Requests \ {r} /\ Frozen(e.of) /\ EventFits(e)
  <2>1. e.of \in Requests /\ e.of # r
    BY MeteringTypes DEF MeteringInv, Unrecorded
  <2> QED
    BY <1>8, <2>1 DEF MeteringInv
<1>11. ASSUME NEW e \in Recordings'
       PROVE  EventFits(e)'
  <2>1. CASE e \in Recordings
    BY <1>10, <2>1 DEF EventFits, Frozen, Total
  <2>2. CASE e = EventOf(j)
    <3>1. Total(o) = Total(observer[r])
      BY DEF Total
    <3> QED
      BY <1>1, <1>6, <2>2, <3>1 DEF EventFits, Total
  <2> QED
    BY <1>5, <2>1, <2>2
<1>12. ASSUME NEW s \in Requests, Frozen(s)
       PROVE  Counts(s) => Counts(s)'
  BY <1>12 DEF Counts, Completes, Finished, Frozen
<1>13. ASSUME NEW k \in jobs'
       PROVE  JobFits(k)'
  <2>1. CASE k \in jobs
    <3>1. EventOf(k) \in Recordings /\ EventOf(k).of = k.of
      BY <2>1 DEF Recordings, EventOf
    <3>2. JobFits(k) /\ k.of \in Requests /\ Frozen(k.of)
      BY <1>10, <2>1, <3>1 DEF MeteringInv
    <3> QED
      BY <1>12, <3>2 DEF JobFits, EventOf
  <2>2. CASE k = j
    <3>1. Read(o).mark = Read(observer[r]).mark
      BY DEF Read
    <3>2. counts = TRUE => Counts(r)'
      BY <1>1, <3>1 DEF Counts, Completes, Finished
    <3> QED
      BY <1>2, <2>2, <3>2 DEF JobFits
  <2> QED
    BY <1>3, <2>1, <2>2
<1>14. ASSUME NEW e \in orgRows
       PROVE  OrgRowFits(e)'
  <2>1. e \in Recordings
    BY DEF Recordings
  <2>2. OrgRowFits(e)
    BY DEF MeteringInv
  <2> QED
    BY <1>10, <1>12, <2>1, <2>2 DEF OrgRowFits, Frozen
<1>15. ASSUME NEW s \in Requests
       PROVE  ChargeFits(s)'
  <2>1. ChargeFits(s)
    BY DEF MeteringInv
  <2>2. ASSUME charged[s] > 0
        PROVE  request'[s].scope = request[s].scope
    <3>1. PICK e \in rows : e.of = s
      BY <2>1, <2>2 DEF ChargeFits
    <3>2. e \in Recordings
      BY DEF Recordings
    <3> QED
      BY <1>10, <3>1, <3>2 DEF Frozen
  <2> QED
    BY <2>1, <2>2 DEF ChargeFits
<1>16. OneEvent'
  <2>1. \A e \in Recordings : e.of # EventOf(j).of
    BY <1>6, <1>10
  <2> QED
    BY <1>5, <2>1 DEF OneEvent, MeteringInv
<1>17. OneJob'
  <2>1. ASSUME NEW k \in jobs
        PROVE  k.of # j.of
    <3>1. EventOf(k) \in Recordings /\ EventOf(k).of = k.of
      BY DEF Recordings, EventOf
    <3> QED
      BY <1>2, <1>10, <3>1
  <2> QED
    BY <1>3, <2>1 DEF OneJob, MeteringInv
<1> QED
  BY <1>4, <1>9, <1>11, <1>13, <1>14, <1>15, <1>16, <1>17 DEF MeteringInv

\* Reading what has arrived loses nothing.
LEMMA ReadKeepsTotal ==
  ASSUME MeteringInv, NEW r \in Requests
  PROVE  /\ Read(observer[r]) \in Observer /\ Total(Read(observer[r])) = Total(observer[r])
         /\ Read(observer[r]).pending = observer[r].pending /\ Total(observer[r]) \in 0..MaxUsage
<1>1. observer[r] \in Observer /\ Total(observer[r]) <= MaxUsage /\ MaxUsage \in Nat
  BY MeteringTypes DEF MeteringInv, AnswerFits
<1> DEFINE o == observer[r]
<1> HIDE DEF o
<1>2. o \in Observer /\ Total(o) <= MaxUsage
  BY <1>1 DEF o
<1>3. o.known \in Nat /\ o.buffered \in Nat
  BY <1>1, <1>2 DEF Observer
<1>4. Total(o) \in 0..MaxUsage /\ o.known + o.buffered \in 0..MaxUsage
  BY <1>1, <1>2, <1>3 DEF Total
<1>5. /\ Read(o).known = o.known + o.buffered /\ Read(o).buffered = 0 /\ Read(o).pending = o.pending
  BY <1>2 DEF Observer, Read
<1>6. Total(Read(o)) = Total(o)
  BY <1>3, <1>5 DEF Total
<1> DEFINE n == o.known + o.buffered
           mark == IF o.next = "none" \/ o.mark = "cut" THEN o.mark ELSE o.next
<1>7. Read(o) = [o EXCEPT !.known = n, !.buffered = 0, !.next = "none", !.mark = mark]
  BY <1>2 DEF Read, Observer
<1>8. n \in 0..MaxUsage /\ mark \in Marks /\ 0 \in 0..MaxUsage
  BY <1>1, <1>2, <1>4 DEF Observer
<1> HIDE DEF n, mark
<1>9. Read(o) \in Observer
  BY <1>2, <1>7, <1>8 DEF Observer, Marks
<1> QED
  BY <1>4, <1>5, <1>6, <1>9 DEF o

\* Nothing has been asked yet.
LEMMA MeteringInitInv == MeteringInit => MeteringInv
<1> SUFFICES ASSUME MeteringInit PROVE MeteringInv
  OBVIOUS
<1>1. NewObserver \in Observer /\ NewObserver.pending = TRUE /\ Total(NewObserver) <= MaxUsage
  BY MeteringAssumption DEF NewObserver, Observer, Marks, Total
<1> DEFINE q == [user |-> NoUser, path |-> "sse", scope |-> "workspace", phase |-> "none",
                 failed |-> FALSE, clientGone |-> FALSE]
<1>2. q \in GatewayRequest /\ q.phase = "none" /\ q.failed = FALSE
  BY DEF GatewayRequest, Paths, Scopes
<1>3. request = [r \in Requests |-> q] /\ observer = [r \in Requests |-> NewObserver] /\ charged = [r \in Requests |-> 0]
  BY DEF MeteringInit
<1> HIDE DEF q
<1>4. jobs = {} /\ rows = {} /\ orgRows = {} /\ Recordings = {}
  BY DEF MeteringInit, Recordings
<1>5. balance = [u \in Users |-> 0] /\ settled = {}
  BY DEF MeteringInit, Wallet!Init
<1>6. MeteringTypeOK
  BY <1>1, <1>2, <1>3, <1>4, <1>5, MeteringAssumption DEF MeteringTypeOK
<1>7. \A r \in Requests : AnswerFits(r) /\ ChargeFits(r)
  BY <1>1, <1>2, <1>3, <1>4 DEF AnswerFits, ChargeFits, Unrecorded
<1> QED
  BY <1>4, <1>6, <1>7 DEF MeteringInv, OneEvent, OneJob

\* A provider answers a request that may be made.
LEMMA AnsweredKeeps ==
  ASSUME MeteringInv, NEW r \in Requests, NEW u \in Users, NEW path \in Paths, NEW scope \in Scopes,
         Answered(r, u, path, scope)
  PROVE  MeteringInv'
<1> DEFINE q == [request[r] EXCEPT !.user = u, !.path = path, !.scope = scope, !.phase = "answering"]
<1>1. request[r] \in GatewayRequest /\ observer[r] \in Observer
  BY MeteringTypes DEF MeteringInv
<1>2. request' = [request EXCEPT ![r] = q] /\ request[r].phase = "none"
      /\ UNCHANGED <<observer, jobs, rows, orgRows, charged, balance, settled>>
  BY DEF Answered
<1>3. observer' = [observer EXCEPT ![r] = observer[r]]
  BY <1>2 DEF MeteringInv, MeteringTypeOK
<1>4. q \in GatewayRequest /\ q.user = u /\ q.phase = "answering" /\ q.failed = request[r].failed
  BY <1>1 DEF GatewayRequest
<1> HIDE DEF q
<1>5. /\ observer[r].pending = TRUE /\ Unrecorded(r) /\ request[r].failed = FALSE /\ Total(observer[r]) <= MaxUsage
  BY <1>2 DEF MeteringInv, AnswerFits
<1> QED
  BY <1>1, <1>2, <1>3, <1>4, <1>5, BodyMoves

\* The observer of an answer under way moves on.
LEMMA ObserverMoves ==
  ASSUME MeteringInv, NEW r \in Requests, NEW o \in Observer, request[r].phase = "answering",
         observer' = [observer EXCEPT ![r] = o],
         UNCHANGED <<request, jobs, rows, orgRows, charged, balance, settled>>,
         o.pending = observer[r].pending, Total(o) <= MaxUsage
  PROVE  MeteringInv'
<1>1. request[r] \in GatewayRequest /\ request' = [request EXCEPT ![r] = request[r]]
  BY MeteringTypes DEF MeteringInv, MeteringTypeOK
<1>2. AnswerFits(r)
  BY DEF MeteringInv
<1> QED
  BY <1>1, <1>2, BodyMoves DEF AnswerFits

\* Bytes arrive, an event is whole, or what has arrived is thrown away.
LEMMA BodyGoesOnKeeps ==
  ASSUME MeteringInv, NEW r \in Requests,
         \/ \E usage \in 0..1, mark \in Marks : Receive(r, usage, mark)
         \/ EventEnds(r)
         \/ Overflow(r)
  PROVE  MeteringInv'
<1>1. observer[r] \in Observer /\ Total(observer[r]) <= MaxUsage /\ MaxUsage \in Nat
  BY MeteringTypes DEF MeteringInv, AnswerFits
<1>2. observer[r].known \in Nat /\ observer[r].buffered \in Nat /\ observer[r].known <= MaxUsage
  BY <1>1 DEF Observer
<1>3. ASSUME NEW usage \in 0..1, NEW mark \in Marks, Receive(r, usage, mark)
      PROVE  MeteringInv'
  <2> DEFINE o == [observer[r] EXCEPT !.buffered = @ + usage, !.next = IF mark = "none" THEN @ ELSE mark]
  <2>1. /\ request[r].phase = "answering" /\ Total(observer[r]) + usage <= MaxUsage
        /\ observer' = [observer EXCEPT ![r] = o]
        /\ UNCHANGED <<request, jobs, rows, orgRows, charged, balance, settled>>
    BY <1>3 DEF Receive
  <2>2. observer[r].known + observer[r].buffered + usage <= MaxUsage
    BY <2>1 DEF Total
  <2>3. observer[r].buffered + usage \in 0..MaxUsage
    BY <1>1, <1>2, <2>2
  <2>4. o \in Observer /\ o.pending = observer[r].pending /\ Total(o) = observer[r].known + (observer[r].buffered + usage)
    BY <1>1, <2>3 DEF Observer, Marks, Total
  <2> HIDE DEF o
  <2>5. Total(o) <= MaxUsage
    BY <1>2, <2>2, <2>4
  <2> QED
    BY <2>1, <2>4, <2>5, ObserverMoves
<1>4. CASE EventEnds(r)
  <2>1. observer' = [observer EXCEPT ![r] = Read(observer[r])]
    BY <1>4 DEF EventEnds
  <2> QED
    BY <1>1, <1>4, <2>1, ReadKeepsTotal, ObserverMoves DEF EventEnds
<1>5. CASE Overflow(r)
  <2> DEFINE o == [observer[r] EXCEPT !.buffered = 0, !.next = "none", !.lost = TRUE]
  <2>1. /\ request[r].phase = "answering" /\ observer' = [observer EXCEPT ![r] = o]
        /\ UNCHANGED <<request, jobs, rows, orgRows, charged, balance, settled>>
    BY <1>5 DEF Overflow
  <2>2. o.pending = observer[r].pending /\ o.known = observer[r].known /\ o.buffered = 0
    BY <1>1 DEF Observer
  <2>4. o \in Observer
    <3>1. 0 \in 0..MaxUsage /\ "none" \in Marks
      BY <1>1 DEF Marks
    <3> QED
      BY <1>1, <3>1 DEF Observer
  <2> HIDE DEF o
  <2>3. Total(o) <= MaxUsage
    BY <1>2, <2>2 DEF Total
  <2> QED
    BY <1>2, <2>1, <2>2, <2>3, <2>4, ObserverMoves
<1> QED
  BY <1>3, <1>4, <1>5

\* What is known of an answer that somebody asked for.
LEMMA AnswerFacts ==
  ASSUME MeteringInv, NEW r \in Requests
  PROVE  /\ request[r] \in GatewayRequest /\ observer[r] \in Observer
         /\ observer[r].known \in 0..MaxUsage /\ observer[r].pending \in BOOLEAN /\ observer[r].lost \in BOOLEAN
         /\ Total(observer[r]) \in 0..MaxUsage /\ observer[r].known <= Total(observer[r])
         /\ request[r].failed \in BOOLEAN
         /\ AnswerFits(r)
<1>1. observer[r].known \in Nat /\ observer[r].buffered \in Nat
  BY MeteringTypes DEF MeteringInv
<1>2. observer[r].known <= Total(observer[r])
  BY <1>1 DEF Total
<1> QED
  BY <1>2, MeteringTypes, ReadKeepsTotal DEF MeteringInv

\* finish takes what was pending and records it.
LEMMA GuardFinishesKeeps ==
  ASSUME MeteringInv, NEW r \in Requests, GuardFinishes(r)
  PROVE  MeteringInv'
<1> DEFINE completed == Completes(r) /\ ~request[r].failed
           tokens == FinishedTokens(r, completed)
           q == [request[r] EXCEPT !.phase = "ended"]
           o == GuardAfterFinish(r)
<1>1. /\ request[r].phase = "answering" /\ request[r].path \in Guarded
      /\ jobs' = jobs \cup {NewJob(r, "finish", completed, tokens, completed)}
      /\ observer' = [observer EXCEPT ![r] = o]
      /\ request' = [request EXCEPT ![r] = q]
      /\ UNCHANGED <<rows, orgRows, charged, balance, settled>>
  BY DEF GuardFinishes
<1>2. request[r] \in GatewayRequest /\ observer[r] \in Observer
  BY AnswerFacts
<1>3. q \in GatewayRequest /\ q.user = request[r].user /\ q.path = request[r].path /\ q.failed = request[r].failed
      /\ q.phase = "ended"
  BY <1>2 DEF GatewayRequest
<1>4. o \in Observer
  BY <1>2 DEF GuardAfterFinish, Observer
<1>5. /\ o.pending = FALSE /\ o.known = observer[r].known /\ o.buffered = observer[r].buffered
      /\ o.lost = observer[r].lost /\ o.mark = observer[r].mark /\ o.next = observer[r].next
  BY <1>2 DEF GuardAfterFinish, Observer
<1>6. completed \in BOOLEAN
  OBVIOUS
<1>7. completed = TRUE => Completes(r) /\ request[r].failed = FALSE
  OBVIOUS
<1>8. /\ tokens \in 0..MaxUsage /\ tokens >= observer[r].known
      /\ completed = TRUE => tokens = Total(observer[r])
  <2> HIDE DEF completed
  <2>1. tokens = IF completed THEN Total(observer[r]) ELSE observer[r].known
    BY DEF FinishedTokens
  <2> HIDE DEF tokens
  <2> QED
    BY <2>1, <1>6, AnswerFacts
<1>9. Unrecorded(r) /\ request[r].user \in Users
  BY <1>1, AnswerFacts DEF AnswerFits
<1> HIDE DEF completed, tokens, q, o
<1>10. q.path = request[r].path /\ q.user \in Users /\ q.phase \notin {"none", "answering"} /\ o.pending = FALSE
  BY <1>3, <1>5, <1>9
<1>11. /\ completed = TRUE /\ o.lost = FALSE => tokens = Total(observer[r])
       /\ q.path \in Streams => tokens >= observer[r].known
       /\ completed = TRUE => completed = TRUE /\ Completes(r) /\ q.failed = FALSE
  BY <1>3, <1>7, <1>8
<1>12. q \in GatewayRequest /\ tokens \in 0..MaxUsage /\ Unrecorded(r)
  BY <1>3, <1>8, <1>9
<1> QED
  BY <1>1, <1>4, <1>5, <1>6, <1>10, <1>11, <1>12, RecordingBegins

\* Drop records what is still pending.
LEMMA GuardDropsKeeps ==
  ASSUME MeteringInv, NEW r \in Requests, GuardDrops(r)
  PROVE  MeteringInv'
<1> DEFINE o == [observer[r] EXCEPT !.pending = FALSE]
<1>1. /\ request[r].phase \in {"ended", "left"} /\ request[r].path \in Guarded /\ observer[r].pending
      /\ jobs' = jobs \cup {NewJob(r, "drop", FALSE, observer[r].known, FALSE)}
      /\ observer' = [observer EXCEPT ![r] = o]
      /\ UNCHANGED <<request, rows, orgRows, charged, balance, settled>>
  BY DEF GuardDrops, DropCounts
<1>2. request[r] \in GatewayRequest /\ observer[r] \in Observer /\ request' = [request EXCEPT ![r] = request[r]]
  BY <1>1, AnswerFacts DEF MeteringInv, MeteringTypeOK
<1>3. o \in Observer
  BY <1>2 DEF Observer
<1>4. /\ o.pending = FALSE /\ o.known = observer[r].known /\ o.buffered = observer[r].buffered
      /\ o.lost = observer[r].lost /\ o.mark = observer[r].mark /\ o.next = observer[r].next
  BY <1>2 DEF Observer
<1>5. observer[r].pending = TRUE /\ Unrecorded(r) /\ request[r].user \in Users
  BY <1>1, AnswerFacts DEF AnswerFits
<1>6. observer[r].known \in 0..MaxUsage /\ observer[r].known >= observer[r].known
  BY AnswerFacts
<1> HIDE DEF o
<1> QED
  BY <1>1, <1>2, <1>3, <1>4, <1>5, <1>6, RecordingBegins

\* The task of a stream records r as it is left: not completed, or as far as it was read.
LEMMA StreamRecords ==
  ASSUME MeteringInv, NEW r \in Requests, NEW q \in GatewayRequest, request[r].phase = "answering",
         request[r].path \notin Guarded,
         q.path = request[r].path, q.user = request[r].user, q.phase = "ended",
         NEW by \in {"stream", "handler"}, NEW completed \in BOOLEAN,
         NEW tokens \in 0..MaxUsage, NEW counts \in BOOLEAN,
         request' = [request EXCEPT ![r] = q],
         jobs' = jobs \cup {NewJob(r, by, completed, tokens, counts)},
         UNCHANGED <<observer, rows, orgRows, charged, balance, settled>>,
         completed = TRUE => tokens = Total(observer[r]),
         tokens >= observer[r].known,
         counts = TRUE => completed = TRUE /\ Completes(r) /\ q.failed = request[r].failed
  PROVE  MeteringInv'
<1>1. observer[r] \in Observer /\ observer' = [observer EXCEPT ![r] = observer[r]]
  BY AnswerFacts DEF MeteringInv, MeteringTypeOK
<1>2. Unrecorded(r) /\ request[r].user \in Users /\ request[r].failed = FALSE
  BY AnswerFacts DEF AnswerFits
<1>3. q.user \in Users /\ q.phase \notin {"none", "answering"}
  BY <1>2
<1>4. q.path \in Guarded => observer[r].pending = FALSE
  OBVIOUS
<1>5. counts = TRUE => completed = TRUE /\ Completes(r) /\ q.failed = FALSE
  BY <1>2
<1>6. by \in {"finish", "drop", "stream", "handler"}
  OBVIOUS
<1> QED
  BY <1>1, <1>2, <1>3, <1>4, <1>5, <1>6, RecordingBegins

\* The connection to the provider breaks.
LEMMA UpstreamFailsKeeps ==
  ASSUME MeteringInv, NEW r \in Requests, UpstreamFails(r)
  PROVE  MeteringInv'
<1>1. request[r] \in GatewayRequest /\ observer[r] \in Observer /\ request[r].phase = "answering"
      /\ UNCHANGED <<observer, rows, orgRows, charged, balance, settled>>
  BY AnswerFacts DEF UpstreamFails
<1> DEFINE phase == IF request[r].path \in Guarded THEN "answering" ELSE "ended"
           q == [request[r] EXCEPT !.failed = TRUE, !.phase = phase]
<1>2. request' = [request EXCEPT ![r] = q]
  BY <1>1 DEF UpstreamFails, GatewayRequest, MeteringInv, MeteringTypeOK
<1>3. q \in GatewayRequest
  BY <1>1 DEF GatewayRequest
<1>4. q.path = request[r].path /\ q.user = request[r].user /\ q.phase = phase
  BY <1>1 DEF GatewayRequest
<1>5. /\ observer[r].pending = TRUE /\ Unrecorded(r) /\ request[r].user \in Users /\ Total(observer[r]) <= MaxUsage
      /\ observer[r].known \in 0..MaxUsage /\ observer[r].known >= observer[r].known
  <2>1. AnswerFits(r) /\ observer[r].known \in 0..MaxUsage
    BY AnswerFacts
  <2>2. observer[r].known >= observer[r].known
    BY <2>1
  <2> QED
    BY <1>1, <2>1, <2>2 DEF AnswerFits
<1>6. observer' = [observer EXCEPT ![r] = observer[r]]
  BY <1>1 DEF MeteringInv, MeteringTypeOK
<1>7. CASE request[r].path = "gemini_sse"
  <2>1. jobs' = jobs \cup {NewJob(r, "stream", FALSE, observer[r].known, FALSE)}
    BY <1>7 DEF UpstreamFails
  <2>2. request[r].path \notin Guarded /\ q.phase = "ended"
    BY <1>4, <1>7 DEF Guarded
  <2> HIDE DEF q, phase
  <2> QED
    BY <1>1, <1>2, <1>3, <1>4, <1>5, <2>1, <2>2, StreamRecords
<1>8. CASE request[r].path # "gemini_sse"
  <2>1. jobs' = jobs
    BY <1>8 DEF UpstreamFails
  <2>2. q.phase = "answering" => q.path \in Guarded
    BY <1>4
  <2>3. q.phase # "none"
    BY <1>4
  <2> HIDE DEF q, phase
  <2> QED
    BY <1>1, <1>2, <1>3, <1>4, <1>5, <1>6, <2>1, <2>2, <2>3, BodyMoves
<1> QED
  BY <1>7, <1>8

\* A failed body is dropped, and what its guard has is still to be recorded.
LEMMA FailedBodyDroppedKeeps ==
  ASSUME MeteringInv, NEW r \in Requests, FailedBodyDropped(r)
  PROVE  MeteringInv'
<1> DEFINE q == [request[r] EXCEPT !.phase = "left"]
<1>1. /\ request[r].phase = "answering" /\ request' = [request EXCEPT ![r] = q]
      /\ UNCHANGED <<observer, jobs, rows, orgRows, charged, balance, settled>>
  BY DEF FailedBodyDropped
<1>2. request[r] \in GatewayRequest /\ observer[r] \in Observer /\ AnswerFits(r)
      /\ observer' = [observer EXCEPT ![r] = observer[r]]
  BY <1>1, AnswerFacts DEF MeteringInv, MeteringTypeOK
<1>3. q \in GatewayRequest /\ q.user = request[r].user /\ q.phase = "left"
  BY <1>2 DEF GatewayRequest
<1>4. Unrecorded(r) /\ request[r].user \in Users /\ Total(observer[r]) <= MaxUsage
  BY <1>1, <1>2 DEF AnswerFits
<1> HIDE DEF q
<1> QED
  BY <1>1, <1>2, <1>3, <1>4, BodyMoves

\* The body of a Gemini answer ends.
LEMMA GeminiEndsKeeps ==
  ASSUME MeteringInv, NEW r \in Requests, GeminiStreamEnds(r) \/ GeminiJsonEnds(r)
  PROVE  MeteringInv'
<1> DEFINE completed == Completes(r)
           q == [request[r] EXCEPT !.phase = "ended"]
<1>1. /\ request[r].phase = "answering" /\ request[r].path \notin Guarded
      /\ request' = [request EXCEPT ![r] = q]
      /\ UNCHANGED <<observer, rows, orgRows, charged, balance, settled>>
  BY DEF GeminiStreamEnds, GeminiJsonEnds, Guarded
<1>2. request[r] \in GatewayRequest
  BY AnswerFacts
<1>3. q \in GatewayRequest /\ q.user = request[r].user /\ q.path = request[r].path /\ q.failed = request[r].failed
      /\ q.phase = "ended"
  BY <1>2 DEF GatewayRequest
<1>4. completed \in BOOLEAN
  BY DEF Completes
<1>5. CASE GeminiStreamEnds(r)
  <2> DEFINE tokens == FinishedTokens(r, completed)
             counts == completed /\ ~request[r].clientGone
  <2>1. jobs' = jobs \cup {NewJob(r, "stream", completed, tokens, counts)}
    BY <1>5 DEF GeminiStreamEnds
  <2>2. counts \in BOOLEAN /\ (counts = TRUE => completed = TRUE)
    BY <1>4
  <2>3. completed = TRUE => Completes(r)
    OBVIOUS
  <2> HIDE DEF completed, counts
  <2>4. /\ tokens \in 0..MaxUsage /\ tokens >= observer[r].known
        /\ completed = TRUE => tokens = Total(observer[r])
    <3>1. tokens = IF completed THEN Total(observer[r]) ELSE observer[r].known
      BY DEF FinishedTokens
    <3> HIDE DEF tokens
    <3> QED
      BY <3>1, <1>4, AnswerFacts
  <2> HIDE DEF tokens, q
  <2> QED
    BY <1>1, <1>3, <1>4, <2>1, <2>2, <2>3, <2>4, StreamRecords
<1>6. CASE GeminiJsonEnds(r)
  <2>1. jobs' = jobs \cup {NewJob(r, "handler", completed, Total(observer[r]), completed)}
    BY <1>6 DEF GeminiJsonEnds
  <2>2. completed = TRUE => Completes(r)
    OBVIOUS
  <2> HIDE DEF completed, q
  <2>3. Total(observer[r]) \in 0..MaxUsage /\ Total(observer[r]) >= observer[r].known
    BY AnswerFacts
  <2> QED
    BY <1>1, <1>3, <1>4, <2>1, <2>2, <2>3, StreamRecords
<1> QED
  BY <1>5, <1>6

\* The client goes away, and what runs in its handler with it.
LEMMA ClientLeavesKeeps ==
  ASSUME MeteringInv, NEW r \in Requests, ClientLeaves(r)
  PROVE  MeteringInv'
<1>1. request[r] \in GatewayRequest /\ observer[r] \in Observer /\ AnswerFits(r)
      /\ UNCHANGED <<observer, rows, orgRows, charged, balance, settled>>
      /\ request[r].phase \in {"answering", "ended"}
  BY AnswerFacts DEF ClientLeaves
<1>2. observer' = [observer EXCEPT ![r] = observer[r]]
  BY <1>1 DEF MeteringInv, MeteringTypeOK
<1>3. ASSUME NEW phase \in {"answering", "ended", "left"}, phase = request[r].phase \/ request[r].phase = "answering",
             jobs' \subseteq jobs, request' = [request EXCEPT ![r].clientGone = TRUE, ![r].phase = phase]
      PROVE  MeteringInv'
  <2> DEFINE q == [request[r] EXCEPT !.clientGone = TRUE, !.phase = phase]
  <2>1. request' = [request EXCEPT ![r] = q]
    BY <1>1, <1>3 DEF GatewayRequest, MeteringInv, MeteringTypeOK
  <2>2. q \in GatewayRequest
    BY <1>1 DEF GatewayRequest
  <2>3. q.user = request[r].user /\ q.path = request[r].path /\ q.failed = request[r].failed
        /\ q.scope = request[r].scope /\ q.phase = phase
    BY <1>1 DEF GatewayRequest
  <2> HIDE DEF q
  <2>4. /\ q.phase \in {"none", "answering"} => observer[r].pending = TRUE /\ Unrecorded(r)
        /\ q.path \in Guarded /\ observer[r].pending = TRUE => Unrecorded(r)
        /\ q.user \in Users /\ q.phase # "none" /\ Total(observer[r]) <= MaxUsage
        /\ q.phase = "answering" /\ q.failed = TRUE => q.path \in Guarded
    BY <1>1, <1>3, <2>3 DEF AnswerFits
  <2> QED
    BY <1>1, <1>2, <1>3, <2>1, <2>2, <2>3, <2>4, BodyMoves
<1>4. CASE request[r].path = "gemini_sse" /\ request[r].phase = "answering"
           /\ request' = [request EXCEPT ![r].clientGone = TRUE] /\ UNCHANGED jobs
  <2>1. request' = [request EXCEPT ![r].clientGone = TRUE, ![r].phase = request[r].phase]
    BY <1>1, <1>4 DEF GatewayRequest, MeteringInv, MeteringTypeOK
  <2> QED
    BY <1>1, <1>3, <1>4, <2>1
<1>5. CASE request[r].path = "gemini_sse" /\ request[r].phase = "answering"
           /\ request' = [request EXCEPT ![r].clientGone = TRUE, ![r].phase = "ended"]
           /\ jobs' = jobs \cup {NewJob(r, "stream", FALSE, observer[r].known, FALSE)}
  <2> DEFINE q == [request[r] EXCEPT !.clientGone = TRUE, !.phase = "ended"]
  <2>1. request' = [request EXCEPT ![r] = q]
    BY <1>1, <1>5 DEF GatewayRequest, MeteringInv, MeteringTypeOK
  <2>2. q \in GatewayRequest
    BY <1>1 DEF GatewayRequest
  <2>3. q.user = request[r].user /\ q.path = request[r].path /\ q.failed = request[r].failed /\ q.phase = "ended"
    BY <1>1 DEF GatewayRequest
  <2> HIDE DEF q
  <2>4. observer[r].known \in 0..MaxUsage
    BY AnswerFacts
  <2>5. observer[r].known >= observer[r].known
    BY <2>4
  <2>6. request[r].path \notin Guarded
    BY <1>5 DEF Guarded
  <2> QED
    BY <1>1, <1>5, <2>1, <2>2, <2>3, <2>4, <2>5, <2>6, StreamRecords
<1>6. CASE /\ request' = [request EXCEPT ![r].clientGone = TRUE,
                ![r].phase = IF @ = "answering" THEN "left" ELSE @]
           /\ jobs' = jobs \ HandlerJobs(r)
  <2> DEFINE phase == IF request[r].phase = "answering" THEN "left" ELSE request[r].phase
  <2>1. request' = [request EXCEPT ![r].clientGone = TRUE, ![r].phase = phase]
    BY <1>1, <1>6 DEF GatewayRequest, MeteringInv, MeteringTypeOK
  <2>2. phase \in {"answering", "ended", "left"} /\ (phase = request[r].phase \/ request[r].phase = "answering")
    BY <1>1
  <2>3. jobs' \subseteq jobs
    BY <1>6
  <2> HIDE DEF phase
  <2> QED
    BY <1>3, <2>1, <2>2, <2>3
<1> QED
  BY <1>4, <1>5, <1>6 DEF ClientLeaves

\* The wallets and what was charged have their types after this step.
MoneyTypeOK ==
  /\ charged \in [Requests -> 0..MaxUsage]
  /\ balance \in [Users -> 0..MaxWallet]
  /\ settled \subseteq {"usage"} \X Requests

\* A recording writes its event, if it has not, and goes on or ends.
LEMMA JobMoves ==
  ASSUME MeteringInv, NEW j \in jobs, UNCHANGED <<request, observer>>,
         NEW k \in Job, k.of = j.of, EventOf(k) = EventOf(j), k.counts = j.counts,
         jobs' \subseteq (jobs \ {j}) \cup {k},
         rows \subseteq rows', rows' \subseteq rows \cup {EventOf(j)}, k.next = "charge" => EventOf(j) \in rows',
         orgRows' \subseteq orgRows \cup {EventOf(j)},
         EventOf(j) \in orgRows' \ orgRows => j.counts = TRUE /\ request[j.of].scope = "organization",
         MoneyTypeOK', settled \subseteq settled', \A s \in Requests : charged'[s] = charged[s] \/ ChargeFits(s)'
  PROVE  MeteringInv'
<1>1. j.of \in Requests /\ EventOf(j) \in EventRow /\ EventOf(j) \in Recordings
  BY MeteringTypes DEF MeteringInv, Recordings
<1>2. Recordings' \subseteq Recordings
  <2>1. \A i \in jobs' : i \in jobs \/ i = k
    OBVIOUS
  <2>2. \A i \in jobs' : EventOf(i) \in Recordings
    BY <1>1, <2>1 DEF Recordings
  <2>3. rows' \subseteq Recordings /\ orgRows' \subseteq Recordings
    BY <1>1 DEF Recordings
  <2>4. Recordings' = rows' \cup orgRows' \cup {EventOf(i) : i \in jobs'}
    BY DEF Recordings, EventOf
  <2> QED
    BY <2>2, <2>3, <2>4
<1>3. MeteringTypeOK'
  BY <1>1 DEF MeteringInv, MeteringTypeOK, MoneyTypeOK
<1>4. \A s \in Requests : AnswerFits(s)' /\ Frozen(s)
  BY <1>2, AnswerStays
<1>5. OneJob'
  BY DEF MeteringInv, OneJob
<1>6. JobFits(j)
  BY DEF MeteringInv
<1>7. ASSUME NEW i \in jobs'
      PROVE  i \in jobs \/ JobFits(i)'
  <2>1. CASE i = k
    <3>1. Counts(j.of)' = Counts(j.of)
      BY DEF Counts, Completes, Finished
    <3>2. k.outcome = j.outcome
      BY DEF EventOf
    <3> QED
      BY <1>6, <2>1, <3>1, <3>2 DEF JobFits, EventOf
  <2> QED
    BY <2>1
<1>8. ASSUME NEW e \in orgRows'
      PROVE  e \in orgRows \/ OrgRowFits(e)'
  <2>1. CASE e = EventOf(j) /\ e \notin orgRows
    <3>1. j.outcome = "completed" /\ Counts(j.of) /\ request[j.of].scope = "organization"
      BY <1>6, <2>1 DEF JobFits
    <3>2. e.of = j.of /\ e.outcome = j.outcome
      BY <2>1 DEF EventOf
    <3>3. Counts(j.of)'
      BY <3>1 DEF Counts, Completes, Finished
    <3> QED
      BY <3>1, <3>2, <3>3 DEF OrgRowFits
  <2> QED
    BY <2>1
<1> QED
  BY <1>2, <1>3, <1>4, <1>5, <1>7, <1>8, MeteringMoves

\* One of a recording's writes, or its failure.
LEMMA RecordKeeps ==
  ASSUME MeteringInv, NEW j \in jobs,
         InsertEvent(j) \/ InsertFails(j) \/ Charge(j) \/ ChargeFails(j) \/ EndJob(j)
  PROVE  MeteringInv'
<1> DEFINE k == [j EXCEPT !.next = "charge"]
           l == [j EXCEPT !.next = "organization"]
<1>1. /\ j \in Job /\ j.of \in Requests /\ j.tokens \in 0..MaxUsage /\ MaxUsage \in Nat /\ MaxWallet \in Nat
      /\ request[j.of].user \in Users
  <2>1. EventOf(j) \in Recordings /\ EventOf(j).of = j.of
    BY DEF Recordings, EventOf
  <2>2. j.of \in Requests
    BY MeteringTypes DEF MeteringInv
  <2>3. request[j.of].phase # "none"
    BY <2>1, <2>2 DEF MeteringInv, AnswerFits, Unrecorded
  <2> QED
    BY <2>2, <2>3, MeteringTypes DEF MeteringInv, AnswerFits
<1>2. k \in Job /\ k.of = j.of /\ k.counts = j.counts /\ k.next = "charge" /\ EventOf(k) = EventOf(j)
  BY <1>1 DEF Job, EventOf
<1>3. l \in Job /\ l.of = j.of /\ l.counts = j.counts /\ l.next = "organization" /\ EventOf(l) = EventOf(j)
  BY <1>1 DEF Job, EventOf
<1>4. Advance(j, "charge") = (jobs \ {j}) \cup {k} /\ Advance(j, "organization") = (jobs \ {j}) \cup {l}
  BY DEF Advance
<1> HIDE DEF k, l
<1>5. MoneyTypeOK
  BY DEF MoneyTypeOK, MeteringInv, MeteringTypeOK
<1>6. CASE InsertEvent(j)
  <2>1. rows' = rows \cup {EventOf(j)} /\ jobs' = (jobs \ {j}) \cup {k}
        /\ UNCHANGED <<request, observer, orgRows, charged, balance, settled>>
    BY <1>4, <1>6 DEF InsertEvent, EventOf
  <2>2. MoneyTypeOK'
    BY <1>5, <2>1 DEF MoneyTypeOK
  <2> QED
    BY <1>2, <2>1, <2>2, JobMoves
<1>7. CASE InsertFails(j) \/ ChargeFails(j)
  <2>1. jobs' = (jobs \ {j}) \cup {l}
        /\ UNCHANGED <<request, observer, rows, orgRows, charged, balance, settled>>
    BY <1>4, <1>7 DEF InsertFails, ChargeFails, AfterFailedInsert
  <2>2. MoneyTypeOK'
    BY <1>5, <2>1 DEF MoneyTypeOK
  <2> QED
    BY <1>3, <2>1, <2>2, JobMoves
<1>8. CASE EndJob(j)
  <2>1. jobs' = jobs \ {j} /\ UNCHANGED <<request, observer, rows, charged, balance, settled>>
    BY <1>8 DEF EndJob
  <2>2. MoneyTypeOK'
    BY <1>5, <2>1 DEF MoneyTypeOK
  <2>3. \/ j.counts /\ request[j.of].scope = "organization" /\ orgRows' = orgRows \cup {EventOf(j)}
        \/ UNCHANGED orgRows
    BY <1>8 DEF EndJob, EventOf
  <2>4. j.counts \in BOOLEAN
    BY <1>1 DEF Job
  <2>5. /\ orgRows' \subseteq orgRows \cup {EventOf(j)}
        /\ EventOf(j) \in orgRows' \ orgRows => j.counts = TRUE /\ request[j.of].scope = "organization"
    BY <2>3, <2>4
  <2> QED
    BY <1>3, <2>1, <2>2, <2>5, JobMoves
<1>9. CASE Charge(j)
  <2> DEFINE u == request[j.of].user
             cost == IF request[j.of].scope = "service" THEN j.tokens ELSE 0
             amount == IF cost <= balance[u] THEN cost ELSE balance[u]
  <2>1. j.next = "charge" /\ jobs' = (jobs \ {j}) \cup {l} /\ UNCHANGED <<request, observer, rows, orgRows>>
    BY <1>4, <1>9 DEF Charge
  <2>2. EventOf(j) \in rows /\ EventOf(j).of = j.of /\ EventOf(j).tokens = j.tokens
    BY <2>1 DEF MeteringInv, JobFits, EventOf
  <2>3. CASE amount > 0 /\ <<"usage", j.of>> \notin settled
    <3>1. /\ balance' = [balance EXCEPT ![u] = @ - amount] /\ settled' = settled \cup {<<"usage", j.of>>}
          /\ charged' = [charged EXCEPT ![j.of] = @ + amount]
      BY <1>9, <2>3 DEF Charge, Wallet!Debit, Wallet!Settle
    <3>2. cost \in Nat /\ cost <= j.tokens /\ balance[u] \in 0..MaxWallet
      BY <1>1, <1>5 DEF MoneyTypeOK
    <3>3. amount \in Nat /\ amount <= balance[u] /\ amount <= j.tokens
      <4> HIDE DEF cost, u
      <4> QED
        BY <1>1, <3>2
    <3>4. request[j.of].scope = "service"
      <4>1. cost # 0
        <5> HIDE DEF cost, u
        <5> QED
          BY <1>1, <2>3, <3>2
      <4> QED
        BY <4>1
    <3>5. charged[j.of] = 0
      <4>1. charged[j.of] \in 0..MaxUsage /\ ~(charged[j.of] > 0)
        BY <1>1, <1>5, <2>3 DEF MeteringInv, ChargeFits, MoneyTypeOK
      <4> QED
        BY <4>1
    <3> HIDE DEF amount, cost
    <3>6. charged'[j.of] = amount /\ \A s \in Requests \ {j.of} : charged'[s] = charged[s]
      BY <1>1, <1>5, <3>1, <3>3, <3>5 DEF MoneyTypeOK
    <3>7. amount \in 0..MaxUsage /\ balance[u] - amount \in 0..MaxWallet
      BY <1>1, <3>2, <3>3
    <3>8. charged' = [charged EXCEPT ![j.of] = amount]
      BY <1>1, <1>5, <3>1, <3>3, <3>5 DEF MoneyTypeOK
    <3>9. MoneyTypeOK'
      BY <1>1, <1>5, <3>1, <3>7, <3>8 DEF MoneyTypeOK
    <3>10. ChargeFits(j.of)'
      <4>1. EventOf(j) \in rows' /\ charged'[j.of] <= EventOf(j).tokens
        BY <2>1, <2>2, <3>3, <3>6
      <4>2. <<"usage", j.of>> \in settled' /\ request'[j.of].scope = "service"
        BY <2>1, <3>1, <3>4
      <4> QED
        BY <2>2, <4>1, <4>2 DEF ChargeFits
    <3>11. \A s \in Requests : charged'[s] = charged[s] \/ ChargeFits(s)'
      BY <3>6, <3>10
    <3>12. settled \subseteq settled'
      BY <3>1
    <3> HIDE DEF u
    <3> QED
      BY <1>3, <2>1, <3>9, <3>11, <3>12, JobMoves
  <2>4. CASE ~(amount > 0 /\ <<"usage", j.of>> \notin settled)
    <3>1. UNCHANGED <<charged, balance, settled>>
      BY <1>9, <2>4 DEF Charge
    <3>2. MoneyTypeOK'
      BY <1>5, <3>1 DEF MoneyTypeOK
    <3> HIDE DEF amount, cost, u
    <3> QED
      BY <1>3, <2>1, <3>1, <3>2, JobMoves
  <2> QED
    BY <2>3, <2>4
<1> QED
  BY <1>6, <1>7, <1>8, <1>9

\* The process dies: nothing is written any more.
LEMMA CrashKeeps ==
  ASSUME MeteringInv, Crash
  PROVE  MeteringInv'
<1> DEFINE q(r) == IF request[r].phase = "none" THEN request[r] ELSE [request[r] EXCEPT !.phase = "crashed"]
<1>1. request' = [r \in Requests |-> q(r)] /\ jobs' = {} /\ UNCHANGED <<observer, rows, orgRows, charged, balance, settled>>
  BY DEF Crash
<1>2. ASSUME NEW r \in Requests
      PROVE  /\ q(r) \in GatewayRequest /\ q(r).user = request[r].user /\ q(r).path = request[r].path
             /\ q(r).scope = request[r].scope /\ q(r).failed = request[r].failed
             /\ q(r).phase = IF request[r].phase = "none" THEN "none" ELSE "crashed"
  <2>1. request[r] \in GatewayRequest
    BY MeteringTypes DEF MeteringInv
  <2> QED
    BY <2>1 DEF GatewayRequest
<1>3. \A r \in Requests : request'[r] = q(r)
  BY <1>1
<1> HIDE DEF q
<1>4. MeteringTypeOK'
  BY <1>1, <1>2 DEF MeteringInv, MeteringTypeOK
<1>5. Recordings' \subseteq Recordings /\ OneJob'
  BY <1>1 DEF Recordings, OneJob, EventOf
<1>6. ASSUME NEW s \in Requests
      PROVE  AnswerFits(s)' /\ Frozen(s)
  <2>1. AnswerFits(s)
    BY DEF MeteringInv
  <2>2. AnswerFits(s)'
    BY <1>1, <1>2, <1>3, <1>5, <2>1 DEF AnswerFits, Unrecorded
  <2>3. Frozen(s)
    BY <1>1, <1>2, <1>3 DEF Frozen, Read
  <2> QED
    BY <2>2, <2>3
<1> QED
  BY <1>1, <1>4, <1>5, <1>6, MeteringMoves

\* A customer tops up.
LEMMA TopUpKeeps ==
  ASSUME MeteringInv, NEW u \in Users, NEW amount \in 1..MaxWallet, TopUp(u, amount)
  PROVE  MeteringInv'
<1>1. /\ balance[u] + amount <= MaxWallet /\ balance' = [balance EXCEPT ![u] = @ + amount] /\ settled' = settled
      /\ UNCHANGED <<request, observer, jobs, rows, orgRows, charged>>
  BY DEF TopUp, Wallet!Credit, Wallet!Settle
<1>2. balance[u] \in 0..MaxWallet /\ MaxWallet \in Nat
  BY MeteringTypes DEF MeteringInv
<1>3. balance[u] + amount \in 0..MaxWallet
  BY <1>1, <1>2
<1>4. MeteringTypeOK'
  BY <1>1, <1>3 DEF MeteringInv, MeteringTypeOK
<1>5. Recordings' = Recordings /\ OneJob'
  BY <1>1 DEF Recordings, EventOf, OneJob, MeteringInv
<1>6. \A s \in Requests : AnswerFits(s)' /\ Frozen(s)
  BY <1>1, <1>5, AnswerStays
<1> QED
  BY <1>1, <1>4, <1>5, <1>6, MeteringMoves

\* Every step keeps MeteringInv.
LEMMA MeteringNextInv == MeteringInv /\ [MeteringNext]_meteringVars => MeteringInv'
<1> SUFFICES ASSUME MeteringInv, [MeteringNext]_meteringVars PROVE MeteringInv'
  OBVIOUS
<1>1. CASE \E r \in Requests, u \in Users, path \in Paths, scope \in Scopes : Answered(r, u, path, scope)
  BY <1>1, AnsweredKeeps
<1>2. CASE \E u \in Users, amount \in 1..MaxWallet : TopUp(u, amount)
  BY <1>2, TopUpKeeps
<1>3. CASE Body
  <2>1. PICK r \in Requests :
          \/ (\E usage \in 0..1, mark \in Marks : Receive(r, usage, mark)) \/ EventEnds(r) \/ Overflow(r)
          \/ GuardFinishes(r) \/ GuardDrops(r) \/ UpstreamFails(r) \/ FailedBodyDropped(r)
          \/ GeminiStreamEnds(r) \/ GeminiJsonEnds(r) \/ ClientLeaves(r)
    BY <1>3 DEF Body
  <2>2. CASE (\E usage \in 0..1, mark \in Marks : Receive(r, usage, mark)) \/ EventEnds(r) \/ Overflow(r)
    BY <2>2, BodyGoesOnKeeps
  <2> QED
    BY <2>1, <2>2, GuardFinishesKeeps, GuardDropsKeeps, UpstreamFailsKeeps, FailedBodyDroppedKeeps,
       GeminiEndsKeeps, ClientLeavesKeeps
<1>4. CASE Record
  BY <1>4, RecordKeeps DEF Record
<1>5. CASE Crash
  BY <1>5, CrashKeeps
<1>6. CASE UNCHANGED meteringVars
  <2>1. Recordings' = Recordings
    BY <1>6 DEF meteringVars, Recordings, EventOf
  <2>2. \A s \in Requests : AnswerFits(s)' /\ Frozen(s)
    BY <1>6, <2>1, AnswerStays DEF meteringVars
  <2>3. MeteringTypeOK' /\ OneJob'
    BY <1>6 DEF meteringVars, MeteringInv, MeteringTypeOK, OneJob
  <2> QED
    BY <1>6, <2>1, <2>2, <2>3, MeteringMoves DEF meteringVars
<1> QED
  BY <1>1, <1>2, <1>3, <1>4, <1>5, <1>6 DEF MeteringNext

\* The inductive invariant of metering, for any requests, customers and bounds.
THEOREM MeteringInvariant == MeteringSpec => []MeteringInv
<1>1. MeteringInit => MeteringInv
  BY MeteringInitInv
<1>2. MeteringInv /\ [MeteringNext]_meteringVars => MeteringInv'
  BY MeteringNextInv
<1> QED
  BY <1>1, <1>2, PTL DEF MeteringSpec

\* The types of metering: no count passes what was reported, and every balance stays within its bounds.
THEOREM MeteringTypesHold == MeteringSpec => []MeteringTypeOK
<1>1. MeteringInv => MeteringTypeOK
  BY DEF MeteringInv
<1> QED
  BY <1>1, MeteringInvariant, PTL

\* What MeteringInv says of events is all that EventsAreSound does.
LEMMA EventsFollow == MeteringInv => EventsAreSound
<1> SUFFICES ASSUME MeteringInv PROVE EventsAreSound
  OBVIOUS
<1>1. RecordedOnce
  <2> SUFFICES ASSUME NEW r \in Requests
               PROVE  Cardinality({e \in rows : e.of = r} \cup {EventOf(j) : j \in {k \in jobs : k.of = r}}) <= 1
    BY DEF RecordedOnce, EventOf
  <2> DEFINE E == {e \in rows : e.of = r} \cup {EventOf(j) : j \in {k \in jobs : k.of = r}}
  <2>1. \A e \in E : e \in Recordings /\ e.of = r
    BY DEF Recordings, EventOf
  <2>2. \A e, f \in E : e = f
    BY <2>1 DEF MeteringInv, OneEvent
  <2> HIDE DEF E
  <2>3. CASE E = {}
    <3>1. Cardinality(E) = 0
      BY <2>3, FS_EmptySet
    <3> QED
      BY <3>1 DEF E
  <2>4. CASE E # {}
    <3>1. PICK e : E = {e}
      BY <2>2, <2>4
    <3>2. Cardinality(E) = 1
      BY <3>1, FS_Singleton
    <3> QED
      BY <3>2 DEF E
  <2> QED
    BY <2>3, <2>4
<1>2. \A e \in rows : e \in Recordings /\ EventFits(e) /\ e.of \in Requests
  BY MeteringTypes DEF Recordings, MeteringInv
<1>3. \A r \in Requests : observer[r].lost \in BOOLEAN /\ request[r].failed \in BOOLEAN
  BY MeteringTypes DEF MeteringInv
<1>4. CompletedIsExact /\ StreamsKeepUsage
  BY <1>2, <1>3 DEF CompletedIsExact, StreamsKeepUsage, EventFits
<1>5. ChargedFromEvent
  BY DEF ChargedFromEvent, MeteringInv, ChargeFits
<1>6. OrganizationCountsFinished
  <2> SUFFICES ASSUME NEW e \in orgRows
               PROVE  /\ request[e.of].scope = "organization"
                      /\ e.outcome = "completed" /\ Completes(e.of) /\ ~request[e.of].failed
                      /\ \A f \in rows : f.of = e.of => f = e
    BY DEF OrganizationCountsFinished
  <2>1. OrgRowFits(e) /\ e \in Recordings /\ rows \subseteq Recordings
    BY DEF MeteringInv, Recordings
  <2> QED
    BY <2>1 DEF OrgRowFits, Counts, MeteringInv, OneEvent
<1> QED
  BY <1>1, <1>4, <1>5, <1>6 DEF EventsAreSound

\* One event for an answer, with the usage it reported, and no charge and no organization's count that it does
\* not bear out, however the end of the body, its guard, its client and the process race (gateway/usage.rs).
THEOREM EventsStaySound == MeteringSpec => []EventsAreSound
  BY EventsFollow, MeteringInvariant, PTL

\* Metering moves money as the abstract wallet does: each step is a top-up, one charge of a request that was
\* not charged before, or none of the wallet's business.
THEOREM MeteringImplementsWallet == MeteringSpec => Wallet!Spec
<1>1. MeteringInit => Wallet!Init
  BY DEF MeteringInit
<1>2. MeteringInv /\ [MeteringNext]_meteringVars => [Wallet!Next]_(Wallet!vars)
  <2> SUFFICES ASSUME MeteringInv, [MeteringNext]_meteringVars
               PROVE  [Wallet!Next]_(Wallet!vars)
    OBVIOUS
  <2>1. ASSUME NEW u \in Users, NEW amount \in 1..MaxWallet, TopUp(u, amount)
        PROVE  Wallet!Next
    <3>1. Wallet!Credit(u, amount, {})
      BY <2>1 DEF TopUp
    <3>2. {} \in Wallet!Reasons
      BY DEF Wallet!Reasons
    <3> QED
      BY <3>1, <3>2 DEF Wallet!Next
  <2>2. ASSUME NEW j \in jobs, Charge(j)
        PROVE  Wallet!Next \/ UNCHANGED <<balance, settled>>
    <3> DEFINE u == request[j.of].user
               cost == IF request[j.of].scope = "service" THEN j.tokens ELSE 0
               amount == IF cost <= balance[u] THEN cost ELSE balance[u]
               more == {<<"usage", j.of>>}
    <3>1. j.of \in Requests /\ u \in Users /\ j.tokens \in 0..MaxUsage /\ MaxUsage \in Nat /\ MaxWallet \in Nat
      <4>1. EventOf(j) \in Recordings /\ EventOf(j).of = j.of
        BY DEF Recordings, EventOf
      <4>2. j.of \in Requests
        BY MeteringTypes DEF MeteringInv
      <4>3. request[j.of].phase # "none"
        BY <4>1, <4>2 DEF MeteringInv, AnswerFits, Unrecorded
      <4> QED
        BY <4>2, <4>3, MeteringTypes DEF MeteringInv, AnswerFits
    <3>2. balance[u] \in 0..MaxWallet
      BY <3>1, MeteringTypes DEF MeteringInv
    <3>3. amount \in 0..MaxWallet
      <4>1. cost \in Nat
        BY <3>1
      <4> HIDE DEF cost, u
      <4> QED
        BY <3>1, <3>2, <4>1
    <3>4. CASE amount > 0 /\ <<"usage", j.of>> \notin settled
      <4>1. Wallet!Debit(u, amount, more)
        BY <2>2, <3>4 DEF Charge
      <4>2. more \in Wallet!Reasons
        BY <3>1 DEF Wallet!Reasons
      <4>3. amount \in 1..MaxWallet
        <5> HIDE DEF amount
        <5> QED
          BY <3>1, <3>3, <3>4
      <4> HIDE DEF amount, more, u
      <4> QED
        BY <3>1, <4>1, <4>2, <4>3 DEF Wallet!Next
    <3>5. CASE ~(amount > 0 /\ <<"usage", j.of>> \notin settled)
      BY <2>2, <3>5 DEF Charge
    <3> QED
      BY <3>4, <3>5
  <2>3. ASSUME Body \/ Crash \/ UNCHANGED meteringVars
               \/ \E r \in Requests, u \in Users, path \in Paths, scope \in Scopes : Answered(r, u, path, scope)
        PROVE  UNCHANGED <<balance, settled>>
    BY <2>3 DEF Body, Crash, meteringVars, Answered, Receive, EventEnds, Overflow, GuardFinishes, GuardDrops,
                UpstreamFails, FailedBodyDropped, GeminiStreamEnds, GeminiJsonEnds, ClientLeaves
  <2>4. ASSUME NEW j \in jobs, InsertEvent(j) \/ InsertFails(j) \/ ChargeFails(j) \/ EndJob(j)
        PROVE  UNCHANGED <<balance, settled>>
    BY <2>4 DEF InsertEvent, InsertFails, ChargeFails, EndJob
  <2> QED
    BY <2>1, <2>2, <2>3, <2>4 DEF MeteringNext, Record, Wallet!vars
<1> QED
  BY <1>1, <1>2, MeteringInvariant, PTL DEF MeteringSpec, Wallet!Spec
=============================================================================

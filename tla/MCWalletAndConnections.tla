------------------------ MODULE MCWalletAndConnections ------------------------
(***************************************************************************)
(* TLC model of the wallet with its top-ups and charges, and of the        *)
(* connections of provider accounts with their pools.  The two share no    *)
(* state, so a behaviour is one of a single component; which one, the      *)
(* initial state says, and the other rests.                                *)
(***************************************************************************)
EXTENDS ServiceWallet, AgentConnections, TLC

VARIABLE part

bothVars == <<vars, connVars, part>>

BothInit ==
  /\ Init /\ ConnInit
  /\ part \in {"wallet", "connections"}
  \* A wallet that rests does so in one of its initial states.
  /\ part # "wallet" => cardPayments

BothNext ==
  /\ UNCHANGED part
  /\ \/ part = "wallet" /\ Next /\ UNCHANGED connVars
     \/ part = "connections" /\ ConnNext /\ UNCHANGED vars

BothSpec == BothInit /\ [][BothNext]_bothVars

\* Rows, provider accounts, users who only pay or sign in, and handlers are interchangeable.  The two components
\* give theirs the same names, so that one swap does for both.
Symmetry ==
  Permutations(Rows) \cup Permutations(Identities) \cup Permutations(Workers) \cup Permutations(Users)
=============================================================================

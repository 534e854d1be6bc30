--------------------------- MODULE MCRoutingAndChat ---------------------------
(***************************************************************************)
(* TLC model of requests on their way through provider accounts, and of    *)
(* the bot's conversations.  The two share no state, so a behaviour is one *)
(* of a single component; which one, the initial state says, and the other *)
(* rests.                                                                  *)
(***************************************************************************)
EXTENDS GatewayRouting, TelegramChat, TLC

CONSTANTS a1, a2, q1, q2

VARIABLE part

bothVars == <<routingVars, chatVars, part>>

BothInit ==
  /\ RoutingInit /\ ChatInit
  /\ part \in {"routing", "chat"}
  \* One that rests does so in one of its initial states.
  /\ part # "routing" => provider = "chatgpt"
  /\ part # "chat" => contacts = {}
  \* A bound: the shop is new, or it has both a product and people who know it.
  /\ contacts = {} <=> \A p \in Products : ~product[p]

BothNext ==
  /\ UNCHANGED part
  /\ \/ part = "routing" /\ RoutingNext /\ UNCHANGED chatVars
     \/ part = "chat" /\ ChatNext /\ UNCHANGED routingVars

BothSpec == BothInit /\ [][BothNext]_bothVars

\* A browser request that may use both accounts, and a ticket key whose listing sold the first.
TwoScopes == [r \in {q1, q2} |-> IF r = q1 THEN {{a1, a2}} ELSE {{a1}}]

\* Handlers of updates are alike, and so are broadcasts.
Symmetry == Permutations(Handlers) \cup Permutations(Casts)
=============================================================================

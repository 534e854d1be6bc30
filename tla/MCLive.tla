-------------------------------- MODULE MCLive --------------------------------
(***************************************************************************)
(* TLC model of what becomes of a request, of a payment and of a broadcast *)
(* in the end: the metering of answers, the wallet with its top-ups, and   *)
(* the bot.  In the model they share no state (a charge in ServiceWallet   *)
(* is of any recorded event, UsageMetering settles with AbstractWallet),   *)
(* so a behaviour is one of a single component; which one, the initial     *)
(* state says, and the others rest.  No fair action of a component that    *)
(* rests is enabled.                                                       *)
(***************************************************************************)
EXTENDS ServiceWallet, UsageMetering, TelegramChat

VARIABLE part

liveVars == <<vars, meteringVars, chatVars, part>>

LiveInit ==
  /\ Init /\ MeteringInit /\ ChatInit
  /\ part \in {"wallet", "metering", "chat"}
  \* One that rests does so in one of its initial states.
  /\ part # "wallet" => cardPayments
  /\ part # "chat" => contacts = {} /\ \A p \in Products : product[p]

LiveNext ==
  /\ UNCHANGED part
  /\ \/ part = "wallet" /\ Next /\ UNCHANGED <<meteringVars, chatVars>>
     \/ part = "metering" /\ MeteringNext /\ UNCHANGED <<vars, chatVars>>
     \/ part = "chat" /\ ChatNext /\ UNCHANGED <<vars, meteringVars>>

LiveSpec == LiveInit /\ [][LiveNext]_liveVars /\ Fairness /\ MeteringFairness /\ ChatFairness
=============================================================================

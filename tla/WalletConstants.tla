---------------------------- MODULE WalletConstants ----------------------------
(***************************************************************************)
(* What the modules about money share: the holders of wallets and the      *)
(* bounds of a balance (api/service/money, api/service/wallet).            *)
(***************************************************************************)

CONSTANTS
  Users,       \* hub users, who own wallets, keys and requests
  MinBalance,  \* MIN_BALANCE_MICRO
  MaxWallet,   \* i64::MAX
  NoUser       \* the absent user
=============================================================================

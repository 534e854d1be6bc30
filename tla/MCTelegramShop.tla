--------------------------- MODULE MCTelegramShop ---------------------------
(* Instances of TelegramShop for TLC. *)
EXTENDS TelegramShop, TLC

\* Money in or out, which covers an order at the cheap price only.
MCKinds == [incoming : BOOLEAN, amount : {1}]

\* Orders, transfers and workers are interchangeable.
Symmetry == Permutations(Orders) \cup Permutations(Transfers) \cup Permutations(Workers)
=============================================================================

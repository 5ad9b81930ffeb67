--------------------------- MODULE MCTaskBilling ----------------------------
(***************************************************************************)
(* Instances of TaskBilling for TLC.  Pollers (and fetchers, workers) do     *)
(* the same things with the same row, so they are interchangeable; liveness  *)
(* runs have one poller and use no symmetry.                                 *)
(***************************************************************************)
EXTENDS TaskBilling, TLC

Symmetry == Permutations(Pollers)

BothStarts == {"new", "legacy"}
NewTask == {"new"}
AllSources == {"wallet", "subscription", "free"}
WalletOnly == {"wallet"}
TwoPrices == {1, 2}
=============================================================================

----------------------------- MODULE MCPayments -----------------------------
(* Instances of Payments for TLC.                                           *)
EXTENDS Payments, TLC

Symmetry == Permutations(Handlers) \cup Permutations(Mutexes)
MCPlanOf == [o \in Trades |-> CHOOSE p \in Plans : TRUE]
MCGroup == [p \in Plans |-> "vip"]
MCOne == [x \in Plans |-> 1]
MCTwo == [x \in Plans |-> 2]
MCAmount == [o \in Trades |-> 1]
MCMoney == [o \in Trades |-> 2]
=============================================================================

----------------------------- MODULE TaskCharge -----------------------------
(***************************************************************************)
(* What the customer of one asynchronous task is promised about its charge: *)
(* an amount is held, may be revised while the task runs, and is closed     *)
(* once, by settling it or by giving all of it back.  A hold whose task was *)
(* never recorded may be released.  A closed charge never moves again.      *)
(***************************************************************************)
EXTENDS Naturals

VARIABLES
    stage,      \* "none", "held", "settled", "refunded" or "released"
    amount      \* what the customer has paid so far

ChargeInit == stage \in {"none", "held"} /\ amount \in Nat /\ (stage = "none" => amount = 0)

Hold == stage = "none" /\ stage' = "held" /\ amount' \in Nat
Revise == stage = "held" /\ stage' = "held" /\ amount' \in Nat
Settle == stage = "held" /\ stage' = "settled" /\ amount' \in Nat
GiveBack == stage = "held" /\ stage' \in {"refunded", "released"} /\ amount' = 0

ChargeSpec == ChargeInit /\ [][Hold \/ Revise \/ Settle \/ GiveBack]_<<stage, amount>>
=============================================================================

------------------------ MODULE MCUserSubscriptions -------------------------
(* Instances of UserSubscriptions for TLC.                                  *)
EXTENDS UserSubscriptions

OnePlan == [p \in Plans |-> "vip"]
OneTick == [p \in Plans |-> 1]
NoLimit == [p \in Plans |-> 0]
=============================================================================

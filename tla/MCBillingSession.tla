-------------------------- MODULE MCBillingSession --------------------------
(* Instances of BillingSession for TLC; requests are interchangeable.       *)
EXTENDS BillingSession, TLC

Symmetry == Permutations(Requests)
=============================================================================

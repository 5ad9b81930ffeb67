--------------------------- MODULE MCQuotaLedger ----------------------------
(* Instances of QuotaLedger for TLC.                                        *)
EXTENDS QuotaLedger

CONSTANTS u1, t1

MCOwner == [t \in Tokens |-> u1]
MCAmounts == -1..1
MCInitialQuota == {1}

\* No guard reads reply, and the properties read only the reply a step gives.
WithoutReply == <<quota, remain, used, userRow, tokenRow, pendU, pendT,
                  flightU, flightT, phase, lostU, lostT, draftU, draftT>>
=============================================================================

-------------------------- MODULE UserSubscriptions --------------------------
(***************************************************************************)
(* The subscriptions of one user and the group they put the user into:       *)
(* model/subscription.go.  A transaction is one action, as SQLite runs them. *)
(* The sweep of service/subscription_reset_task.go reads the time first and  *)
(* writes later.                                                             *)
(***************************************************************************)
EXTENDS Integers, Sequences, FiniteSets

CONSTANTS Plans,      \* subscription plans
          PlanGroup,  \* PlanGroup[p]: UpgradeGroup of the plan, NoGroup if empty
          Duration,   \* Duration[p]: how long a subscription to p lasts
          MaxPurchase,\* MaxPurchase[p]: MaxPurchasePerUser, 0 for no limit
          NoGroup,    \* the empty string
          Base,       \* the user's group before the first subscription
          MaxSubs,    \* bound: subscriptions ever created
          Horizon     \* bound: the clock

ASSUME SubscriptionAssumption ==
    /\ Duration \in [Plans -> Nat \ {0}]
    /\ MaxPurchase \in [Plans -> Nat]
    /\ DOMAIN PlanGroup = Plans
    /\ NoGroup # Base
    /\ \A p \in Plans : PlanGroup[p] # Base
    /\ MaxSubs \in Nat /\ Horizon \in Nat

VARIABLES subs,   \* the rows in the order of their ids; "deleted" rows are gone
          group,  \* users.group
          now,    \* the clock
          sweep   \* the time ExpireDueSubscriptions has read, -1 when it is not running

subVars == <<subs, group, now, sweep>>

Groups == {PlanGroup[p] : p \in Plans} \cup {Base, NoGroup}

Ids == 1..Len(subs)

\* The rows of the query for an active upgraded subscription at time t.
Upgraded(t) ==
    {i \in Ids : subs[i].status = "active" /\ subs[i].end > t /\ subs[i].up # NoGroup}

Count(p) == Cardinality({i \in Ids : subs[i].plan = p /\ subs[i].status # "deleted"})

Allowed(p) == MaxPurchase[p] = 0 \/ Count(p) < MaxPurchase[p]

\* CreateUserSubscriptionFromPlanTx.
Create(p) ==
    LET moves == PlanGroup[p] # NoGroup /\ group # PlanGroup[p]
    IN  /\ Allowed(p)
        /\ Len(subs) < MaxSubs
        /\ subs' = Append(subs, [plan |-> p, status |-> "active", end |-> now + Duration[p],
                                 up |-> PlanGroup[p],
                                 prev |-> IF moves THEN group ELSE NoGroup])
        /\ group' = IF moves THEN PlanGroup[p] ELSE group

AdminBind(p) == Create(p) /\ UNCHANGED <<now, sweep>>

\* Mutant: the other subscriptions are not asked for.
DowngradeAlways(i) ==
    IF subs[i].up # NoGroup /\ group = subs[i].up /\ subs[i].prev # NoGroup
    THEN subs[i].prev ELSE group

\* Mutant: the query does not leave out the subscription itself.
DowngradeCountsItself(i) ==
    IF subs[i].up # NoGroup /\ group = subs[i].up /\ Upgraded(now) = {} /\ subs[i].prev # NoGroup
    THEN subs[i].prev ELSE group

\* downgradeUserGroupForSubscriptionTx: the group after subscription i ended.
Downgrade(i) ==
    IF /\ subs[i].up # NoGroup /\ group = subs[i].up
       /\ Upgraded(now) \ {i} = {}
       /\ subs[i].prev # NoGroup
    THEN subs[i].prev ELSE group

AdminInvalidate(i) ==
    /\ subs[i].status # "deleted"
    /\ subs' = [subs EXCEPT ![i].status = "cancelled", ![i].end = now]
    /\ group' = Downgrade(i)
    /\ UNCHANGED <<now, sweep>>

AdminDelete(i) ==
    /\ subs[i].status # "deleted"
    /\ subs' = [subs EXCEPT ![i].status = "deleted"]
    /\ group' = Downgrade(i)
    /\ UNCHANGED <<now, sweep>>

Due(t) == {i \in Ids : subs[i].status = "active" /\ subs[i].end <= t}

\* ExpireDueSubscriptions reads the time and looks for rows that are due.
ExpireRead ==
    /\ sweep = -1
    /\ Due(now) # {}
    /\ sweep' = now
    /\ UNCHANGED <<subs, group, now>>

\* The latest row among those, by end time and then by id.
Last(S) ==
    CHOOSE i \in S : \A j \in S : \/ subs[j].end < subs[i].end
                                  \/ subs[j].end = subs[i].end /\ j <= i

\* The group after the sweep: unchanged while an upgraded subscription is
\* active, otherwise what the last expired one remembers.
AfterSweep(expired) ==
    IF Upgraded(sweep) # {} \/ expired = {} THEN group
    ELSE LET s == subs[Last(expired)]
         IN IF s.prev # NoGroup /\ group = s.up THEN s.prev ELSE group

\* The transaction of ExpireDueSubscriptions for the user; it may fail.
ExpireUser ==
    /\ sweep # -1
    /\ \/ /\ subs' = [i \in Ids |-> IF i \in Due(sweep) THEN [subs[i] EXCEPT !.status = "expired"]
                                    ELSE subs[i]]
          /\ group' = AfterSweep({i \in Ids : /\ subs[i].up # NoGroup
                                              /\ subs[i].status = "expired" \/ i \in Due(sweep)})
       \/ UNCHANGED <<subs, group>>
    /\ sweep' = -1
    /\ UNCHANGED now

Tick ==
    /\ now < Horizon
    /\ now' = now + 1
    /\ UNCHANGED <<subs, group, sweep>>

InitSubs ==
    /\ subs = <<>> /\ group = Base /\ now = 0 /\ sweep = -1

NextSubs ==
    \/ \E p \in Plans : AdminBind(p)
    \/ \E i \in Ids : AdminInvalidate(i) \/ AdminDelete(i)
    \/ ExpireRead \/ ExpireUser \/ Tick

SubsSpec == InitSubs /\ [][NextSubs]_subVars

-----------------------------------------------------------------------------
(* Properties.                                                              *)

Sub == [plan : Plans, status : {"active", "expired", "cancelled", "deleted"},
        end : Nat, up : Groups, prev : Groups]

SubsTypeOK ==
    /\ subs \in Seq(Sub)
    /\ group \in Groups \ {NoGroup}
    /\ now \in Nat
    /\ sweep \in Nat \cup {-1}

\* A user who holds an upgraded subscription that has not ended is not put
\* back into the group of before, whichever other subscriptions end, are
\* cancelled or deleted, also by a sweep that read the time before the
\* subscription was made (downgradeUserGroupForSubscriptionTx,
\* ExpireDueSubscriptions).
KeptWhileActive == Upgraded(now) # {} => group # Base

\* A user whose subscriptions were each bought in the group of before is back
\* in it when the last one is over, whether it was swept, cancelled or deleted
\* and whatever the sweep still had in hand.
LoneUpgradeReverts ==
    /\ \A i \in Ids : subs[i].up # NoGroup => subs[i].prev = Base /\ subs[i].status # "active"
    => group = Base

\* When nothing upgraded is active any more and nothing is left to sweep, the
\* user is back in the group of before.
RevertsToPrevious ==
    {i \in Ids : subs[i].status = "active" /\ subs[i].up # NoGroup} = {} => group = Base
=============================================================================

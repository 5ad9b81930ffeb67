------------------------------ MODULE Payments ------------------------------
(***************************************************************************)
(* Top-up and subscription orders and the webhooks that complete them:       *)
(* controller/topup*.go, controller/subscription_payment_*.go, model/topup.go *)
(* and the orders of model/subscription.go.  A payment provider knows what    *)
(* became of a checkout and says so in webhooks, which may come late, twice   *)
(* or for a trade number of another provider.  A webhook is handled by one    *)
(* goroutine under the order's lock; a transaction is one action and may fail *)
(* without an effect.                                                        *)
(***************************************************************************)
EXTENDS OrderLock, UserSubscriptions

CONSTANTS PlanOf,     \* PlanOf[o]: the plan of a subscription order
          Amount,     \* Amount[o]: the column amount of a top-up
          Money,      \* Money[o]: the column money of a top-up
          QuotaPerUnit

Orders == Trades
Kinds == {"topup", "subscription"}
Providers == {"stripe", "creem", "epay", "waffo", "waffo_pancake"}

ASSUME PaymentAssumption ==
    /\ PlanOf \in [Orders -> Plans]
    /\ Amount \in [Orders -> Nat \ {0}] /\ Money \in [Orders -> Nat \ {0}]
    /\ QuotaPerUnit \in Nat \ {0}

VARIABLES status,    \* status[o]: the order's status, "none" before it is placed
          kind,      \* kind[o]: its table, "topup" or "subscription"
          provider,  \* provider[o]: payment_provider of the order
          opening,   \* opening[o]: the request that inserted it waits for the provider
          checkout,  \* checkout[o]: what became of it at the provider
          acked,     \* acked[o]: the provider got success for the payment
          credited,  \* credited[o]: quota credited for the order
          grants,    \* grants[o]: subscriptions created for the order
          byHand,    \* byHand[o]: an administrator asked for its completion
          job        \* job[h]: what handler h does, and whether the order is its provider's own

orderVars == <<status, kind, provider, opening, checkout, acked, credited, grants, byHand>>
vars == <<lockVars, subVars, orderVars, job>>

Idle == [op |-> "done", own |-> FALSE]

-----------------------------------------------------------------------------
(* A buyer's request inserts the order.  Stripe and the top-ups of epay have *)
(* asked the provider before; the others ask afterwards, with the row they   *)
(* inserted in hand.  A buyer pays where the answer of the request points.   *)

Insert(o, k, p, waits) ==
    /\ status[o] = "none"
    /\ status' = [status EXCEPT ![o] = "pending"]
    /\ kind' = [kind EXCEPT ![o] = k]
    /\ provider' = [provider EXCEPT ![o] = p]
    /\ opening' = [opening EXCEPT ![o] = waits]
    /\ checkout' = [checkout EXCEPT ![o] = IF waits THEN "none" ELSE "open"]
    /\ UNCHANGED <<lockVars, subVars, acked, credited, grants, byHand, job>>

RequestStripePay(o) == Insert(o, "topup", "stripe", FALSE)
RequestEpay(o) == Insert(o, "topup", "epay", FALSE)
RequestCreemPay(o) == Insert(o, "topup", "creem", TRUE)
RequestWaffoPay(o) == Insert(o, "topup", "waffo", TRUE)
RequestWaffoPancakePay(o) == Insert(o, "topup", "waffo_pancake", TRUE)

SubscriptionRequestStripePay(o) == Allowed(PlanOf[o]) /\ Insert(o, "subscription", "stripe", FALSE)
SubscriptionRequestCreemPay(o) == Allowed(PlanOf[o]) /\ Insert(o, "subscription", "creem", TRUE)
SubscriptionRequestEpay(o) == Allowed(PlanOf[o]) /\ Insert(o, "subscription", "epay", TRUE)

\* The provider opens a checkout and the buyer is sent there.
Opened(o) ==
    /\ opening[o]
    /\ opening' = [opening EXCEPT ![o] = FALSE]
    /\ checkout' = [checkout EXCEPT ![o] = "open"]
    /\ UNCHANGED <<lockVars, subVars, status, kind, provider, acked, credited, grants, byHand, job>>

\* The provider does not; the order of the request gets status s, unless that
\* statement fails too.
EndOpening(o, s) ==
    /\ opening[o]
    /\ opening' = [opening EXCEPT ![o] = FALSE]
    /\ status' \in {status, [status EXCEPT ![o] = s]}
    /\ UNCHANGED <<lockVars, subVars, kind, provider, checkout, acked, credited, grants, byHand, job>>

\* Waffo's requests save the whole row they inserted, whatever it is by now,
\* and without the order's lock.
WaffoOpenFails(o) == kind[o] = "topup" /\ provider[o] = "waffo" /\ EndOpening(o, "failed")
PancakeOpenFails(o) == kind[o] = "topup" /\ provider[o] = "waffo_pancake" /\ EndOpening(o, "failed")

\* ExpireSubscriptionOrder looks at the status first.
EpayOpenFails(o) ==
    provider[o] = "epay" /\ EndOpening(o, IF status[o] = "pending" THEN "expired" ELSE status[o])

\* Creem's requests leave the order.
CreemOpenFails(o) == provider[o] = "creem" /\ EndOpening(o, status[o])

\* The buyer pays, or the provider gives the checkout up.
Checkout(o, result) ==
    /\ checkout[o] = "open"
    /\ checkout' = [checkout EXCEPT ![o] = result]
    /\ UNCHANGED <<lockVars, subVars, status, kind, provider, opening, acked, credited, grants, byHand, job>>

-----------------------------------------------------------------------------
(* The webhooks.                                                            *)

\* A verified webhook of provider p takes the order's lock.  A provider says
\* the truth about its own order, and anything about another trade number.
Receive(h, p, op, o) ==
    /\ status[o] # "none"
    /\ p = provider[o] => checkout[o] = CASE op = "expire" -> "expired" [] op = "fail" -> "failed"
                                          [] OTHER -> "paid"
    /\ Enter(h, o)
    /\ job' = [job EXCEPT ![h] = [op |-> op, own |-> p = provider[o]]]
    /\ UNCHANGED <<subVars, orderVars>>

\* Stripe: sessionCompleted and sessionAsyncPaymentSucceeded end here.
fulfillOrder(h, o) == Receive(h, "stripe", "pay", o)
sessionExpired(h, o) == Receive(h, "stripe", "expire", o)
sessionAsyncPaymentFailed(h, o) == Receive(h, "stripe", "fail", o)

handleCheckoutCompleted(h, o) == Receive(h, "creem", "pay", o)

\* epay: at the address of the other table the order is not found.
EpayNotify(h, o) == kind[o] = "topup" /\ Receive(h, "epay", "pay", o)
SubscriptionEpayNotify(h, o) == kind[o] = "subscription" /\ Receive(h, "epay", "pay", o)

\* The buyer's browser comes back with the provider's signature.
SubscriptionEpayReturn(h, o) == kind[o] = "subscription" /\ Receive(h, "epay", "return", o)

handleWaffoPayment(h, o) == Receive(h, "waffo", "pay", o)

\* handleWaffoPayment for every other status, without the lock.
WaffoFailed(o) ==
    /\ provider[o] = "waffo" /\ kind[o] = "topup"
    /\ status[o] = "pending"
    /\ status' = [status EXCEPT ![o] = "failed"]
    /\ UNCHANGED <<lockVars, subVars, kind, provider, opening, checkout, acked, credited, grants, byHand, job>>

WaffoPancakeWebhook(h, o) == Receive(h, "waffo_pancake", "pay", o)

\* ResolveWaffoPancakeTradeNo does not find the order, or cannot read it: the
\* provider is told OK.
PancakeUnresolved(o) ==
    /\ provider[o] = "waffo_pancake" /\ checkout[o] = "paid"
    /\ acked' = [acked EXCEPT ![o] = TRUE]
    /\ UNCHANGED <<lockVars, subVars, status, kind, provider, opening, checkout, credited, grants, byHand, job>>

AdminCompleteTopUp(h, o) ==
    /\ status[o] # "none"
    /\ Enter(h, o)
    /\ job' = [job EXCEPT ![h] = [op |-> "manual", own |-> TRUE]]
    /\ byHand' = [byHand EXCEPT ![o] = TRUE]
    /\ UNCHANGED <<subVars, status, kind, provider, opening, checkout, acked, credited, grants>>

TakeLock(h) == Acquire(h) /\ UNCHANGED <<subVars, orderVars, job>>

-----------------------------------------------------------------------------
(* The handlers, under the lock.  A function that another provider's webhook *)
(* calls finds the order's payment_provider different and refuses.           *)

Handles(h, op) == at[h] = "in" /\ job[h].op = op

\* A payment of an order of table k and provider p.
Pays(h, k, p) == Handles(h, "pay") /\ kind[trade[h]] = k /\ provider[trade[h]] = p

Finish(h) == job' = [job EXCEPT ![h] = Idle]

\* The answer to the provider; a browser or an administrator is none.
Acknowledge(h) ==
    acked' = [acked EXCEPT ![trade[h]] = @ \/ (job[h].own /\ job[h].op = "pay")]

NoEffect(h) ==
    /\ Finish(h)
    /\ UNCHANGED <<lockVars, subVars, status, kind, provider, opening, checkout, credited, grants, byHand>>

\* Mutant: the provider of the order is not looked at.
PendingForAnybody(h) == status[trade[h]] = "pending"

\* Mutant: the status is not looked at.
OwnInAnyStatus(h) == job[h].own

PendingFor(h) ==
    /\ job[h].own
    /\ status[trade[h]] = "pending"

\* A repeated payment of a completed order is answered with success.
Repeated(h) == job[h].own /\ status[trade[h]] = "success" /\ Acknowledge(h) /\ NoEffect(h)

\* Mutant: the sign of the amount.
QuotaTaken(op, o) == 0 - Amount[o] * QuotaPerUnit

\* What a completed top-up is worth, by the function that completes it.
Quota(op, o) ==
    CASE provider[o] = "stripe" -> Money[o] * QuotaPerUnit
      [] provider[o] = "creem" /\ op = "pay" -> Amount[o]
      [] OTHER -> Amount[o] * QuotaPerUnit

\* The transaction that completes a top-up: row and balance.
Credit(h) ==
    /\ PendingFor(h)
    /\ status' = [status EXCEPT ![trade[h]] = "success"]
    /\ credited' = [credited EXCEPT ![trade[h]] = @ + Quota(job[h].op, trade[h])]
    /\ Acknowledge(h)
    /\ Finish(h)
    /\ UNCHANGED <<lockVars, subVars, kind, provider, opening, checkout, grants, byHand>>

Recharge(h) == Pays(h, "topup", "stripe") /\ Credit(h)
RechargeEpay(h) == Pays(h, "topup", "epay") /\ (Credit(h) \/ Repeated(h))
RechargeWaffo(h) == Pays(h, "topup", "waffo") /\ (Credit(h) \/ Repeated(h))
RechargeWaffoPancake(h) == Pays(h, "topup", "waffo_pancake") /\ (Credit(h) \/ Repeated(h))
RechargeCreem(h) == Pays(h, "topup", "creem") /\ Credit(h)
ManualCompleteTopUp(h) == Handles(h, "manual") /\ kind[trade[h]] = "topup" /\ Credit(h)

\* CompleteSubscriptionOrder for a pending order.
Grant(h) ==
    /\ PendingFor(h)
    /\ Create(PlanOf[trade[h]])
    /\ status' = [status EXCEPT ![trade[h]] = "success"]
    /\ grants' = [grants EXCEPT ![trade[h]] = @ + 1]
    /\ Acknowledge(h)
    /\ Finish(h)
    /\ UNCHANGED <<lockVars, now, sweep, kind, provider, opening, checkout, credited, byHand>>

CompleteSubscriptionOrder(h) ==
    /\ Handles(h, "pay") \/ Handles(h, "return")
    /\ kind[trade[h]] = "subscription"
    /\ Grant(h) \/ Repeated(h)

\* ExpireSubscriptionOrder, or UpdatePendingTopUpStatus for a top-up.
ExpireOrder(h) ==
    /\ Handles(h, "expire")
    /\ PendingFor(h)
    /\ status' = [status EXCEPT ![trade[h]] = "expired"]
    /\ Finish(h)
    /\ UNCHANGED <<lockVars, subVars, kind, provider, opening, checkout, acked, credited, grants, byHand>>

\* sessionAsyncPaymentFailed reads the top-up and decides on what it read ...
ReadFailed(h) ==
    /\ Handles(h, "fail")
    /\ kind[trade[h]] = "topup"
    /\ PendingFor(h)
    /\ job' = [job EXCEPT ![h].op = "save"]
    /\ UNCHANGED <<lockVars, subVars, orderVars>>

\* ... and saves the whole row.
SaveFailed(h) ==
    /\ Handles(h, "save")
    /\ status' = [status EXCEPT ![trade[h]] = "failed"]
    /\ Finish(h)
    /\ UNCHANGED <<lockVars, subVars, kind, provider, opening, checkout, acked, credited, grants, byHand>>

-----------------------------------------------------------------------------
(* No effect: the order is not there for this handler, or a statement failed. *)

\* Mutant: every provider is told success, as Stripe is.
RefuseSilently(h) ==
    /\ \E op \in {"pay", "return", "manual", "expire", "fail", "save"} : Handles(h, op)
    /\ Acknowledge(h) /\ NoEffect(h)

Refuse(h) ==
    /\ \E op \in {"pay", "return", "manual", "expire", "fail", "save"} : Handles(h, op)
    /\ UNCHANGED acked /\ NoEffect(h)

\* StripeWebhook answers 200 whatever became of fulfillOrder.
StripeIgnores(h) == Handles(h, "pay") /\ provider[trade[h]] = "stripe" /\ Acknowledge(h) /\ NoEffect(h)

\* handleCheckoutCompleted answers 200 for a top-up that is not pending, and
\* for an order it found no subscription order for, or could not read one,
\* when the event's order type is not "onetime".
CreemIgnores(h) == Handles(h, "pay") /\ provider[trade[h]] = "creem" /\ Acknowledge(h) /\ NoEffect(h)

GiveLockBack(h) ==
    /\ \/ Handles(h, "done") /\ Unlock(h)
       \/ Release(h)
    /\ UNCHANGED <<subVars, orderVars, job>>

\* The process dies; every transaction is committed or not begun, and nobody
\* comes back to a request that waited.
Crash ==
    /\ LoseLocks
    /\ job' = [h \in Handlers |-> Idle]
    /\ opening' = [o \in Orders |-> FALSE]
    /\ UNCHANGED <<subVars, status, kind, provider, checkout, acked, credited, grants, byHand>>

Init ==
    /\ InitLock /\ InitSubs
    /\ status = [o \in Orders |-> "none"]
    /\ kind = [o \in Orders |-> "topup"]
    /\ provider = [o \in Orders |-> "stripe"]
    /\ opening = [o \in Orders |-> FALSE]
    /\ checkout = [o \in Orders |-> "none"]
    /\ acked = [o \in Orders |-> FALSE]
    /\ credited = [o \in Orders |-> 0]
    /\ grants = [o \in Orders |-> 0]
    /\ byHand = [o \in Orders |-> FALSE]
    /\ job = [h \in Handlers |-> Idle]

PlaceOrder(o) ==
    \/ RequestStripePay(o) \/ RequestEpay(o) \/ RequestCreemPay(o) \/ RequestWaffoPay(o)
    \/ RequestWaffoPancakePay(o) \/ SubscriptionRequestStripePay(o)
    \/ SubscriptionRequestCreemPay(o) \/ SubscriptionRequestEpay(o)

OpenFails(o) ==
    WaffoOpenFails(o) \/ PancakeOpenFails(o) \/ EpayOpenFails(o) \/ CreemOpenFails(o)

Buyer ==
    \E o \in Orders :
        \/ PlaceOrder(o) \/ Opened(o) \/ OpenFails(o)
        \/ \E result \in {"paid", "failed", "expired"} : Checkout(o, result)

Webhook ==
    \/ \E h \in Handlers, o \in Orders :
          \/ fulfillOrder(h, o) \/ sessionExpired(h, o) \/ sessionAsyncPaymentFailed(h, o)
          \/ handleCheckoutCompleted(h, o) \/ EpayNotify(h, o) \/ SubscriptionEpayNotify(h, o)
          \/ SubscriptionEpayReturn(h, o) \/ handleWaffoPayment(h, o) \/ WaffoPancakeWebhook(h, o)
          \/ AdminCompleteTopUp(h, o)
    \/ \E o \in Orders : WaffoFailed(o) \/ PancakeUnresolved(o)

Handler(h) ==
    \/ TakeLock(h) \/ Recharge(h) \/ RechargeEpay(h) \/ RechargeWaffo(h) \/ RechargeWaffoPancake(h)
    \/ RechargeCreem(h) \/ ManualCompleteTopUp(h) \/ CompleteSubscriptionOrder(h)
    \/ ExpireOrder(h) \/ ReadFailed(h) \/ SaveFailed(h)
    \/ Refuse(h) \/ StripeIgnores(h) \/ CreemIgnores(h) \/ GiveLockBack(h)

Subscriptions == NextSubs /\ UNCHANGED <<lockVars, orderVars, job>>

Next ==
    \/ Buyer \/ Webhook \/ Crash \/ Subscriptions
    \/ \E h \in Handlers : Handler(h)

Spec == Init /\ [][Next]_vars

-----------------------------------------------------------------------------
(* Properties.                                                              *)

\* Every variable has its type.
TypeOK ==
    /\ LockTypeOK /\ SubsTypeOK
    /\ status \in [Orders -> {"none", "pending", "success", "failed", "expired"}]
    /\ kind \in [Orders -> Kinds] /\ provider \in [Orders -> Providers]
    /\ checkout \in [Orders -> {"none", "open", "paid", "failed", "expired"}]
    /\ opening \in [Orders -> BOOLEAN] /\ acked \in [Orders -> BOOLEAN]
    /\ byHand \in [Orders -> BOOLEAN]
    /\ credited \in [Orders -> Nat] /\ grants \in [Orders -> Nat]
    /\ job \in [Handlers -> [op : {"pay", "return", "manual", "expire", "fail", "save", "done"},
                             own : BOOLEAN]]

PaidOut(o) == credited[o] > 0 \/ grants[o] > 0

\* However often and by whomever an order is reported paid, it is paid out
\* once: a top-up credits its quota, a subscription order creates one
\* subscription and credits nothing (Recharge*, ManualCompleteTopUp,
\* CompleteSubscriptionOrder).
PaidOutOnce ==
    \A o \in Orders :
        \/ credited[o] = 0 /\ grants[o] = 0
        \/ kind[o] = "topup" /\ grants[o] = 0 /\ credited[o] \in {Quota("pay", o), Quota("manual", o)}
        \/ kind[o] = "subscription" /\ credited[o] = 0 /\ grants[o] = 1

\* Nothing is paid out that the order's own provider was not paid for, unless
\* an administrator asked for it: a webhook of another provider with this
\* trade number completes nothing.
OnlyWhenPaid ==
    \A o \in Orders : PaidOut(o) => checkout[o] = "paid" \/ byHand[o]

\* An order that says success was paid out, and one that was paid out says
\* success.  The handler of a failed payment saves a row it read before; only
\* the order's lock keeps it from overwriting a completion
\* (sessionAsyncPaymentFailed, LockOrder).  The requests of Waffo and Waffo
\* Pancake save one without the lock: a top-up completed by hand while the
\* provider was still being asked may end as failed (RequestWaffoPay,
\* RequestWaffoPancakePay), but none that a buyer could pay.
PaidOutIsSuccess ==
    \A o \in Orders :
        /\ status[o] = "success" => PaidOut(o)
        /\ PaidOut(o) => \/ status[o] = "success"
                         \/ /\ status[o] = "failed" /\ byHand[o] /\ checkout[o] = "none"
                            /\ kind[o] = "topup" /\ provider[o] \in {"waffo", "waffo_pancake"}

\* epay and Waffo, once told success for a payment, need not call again: the
\* order is completed and stays so (EpayNotify, SubscriptionEpayNotify,
\* handleWaffoPayment).  Stripe, Creem and Waffo Pancake are told success for
\* orders that are not.
AckedIsSettled ==
    \A o \in Orders :
        acked[o] /\ provider[o] \in {"epay", "waffo"} => status[o] = "success"
=============================================================================

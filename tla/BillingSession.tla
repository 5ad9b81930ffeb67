--------------------------- MODULE BillingSession ---------------------------
(***************************************************************************)
(* What synchronous requests pay: service/billing_session.go and            *)
(* service/funding_source.go as controller/relay.go uses them, on the       *)
(* accounts the requests of one user share.                                 *)
(*                                                                          *)
(* A request reserves a price estimate from the wallet or a subscription    *)
(* and from its token, may raise the reservation while a realtime session   *)
(* runs, and settles on the real price or, after an error, starts a         *)
(* goroutine that gives everything back.  The wallet and the token are      *)
(* QuotaLedger's: here they only grant or refuse, and paid[r] counts what   *)
(* they and the subscription have taken for request r.  The subscription    *)
(* row is in the model because the requests share it: amount_used is        *)
(* limited, clamped at zero and reset when a period ends.  Statements may   *)
(* fail; the code logs some failures and goes on, which fault[r] records.   *)
(***************************************************************************)
EXTENDS Integers, Sequences, FiniteSetsExt

CONSTANTS
    Requests,
    Quotas,         \* quota of estimates, targets and final prices
    Fees,           \* violation fees
    Total,          \* amount_total of the subscription, 0 for no limit
    MaxPeriods      \* bound on the periods that end

ASSUME SessionAssumption ==
    /\ IsFiniteSet(Requests)
    /\ Quotas \subseteq Nat /\ Fees \subseteq Nat \ {0}
    /\ Total \in Nat /\ MaxPeriods \in Nat

VARIABLES
    req,            \* place, playground flag, estimate, sources left to try, what it should pay
    session,        \* the BillingSession of each request
    paid,           \* net amounts taken for the request: [wallet, sub, token]
    record,         \* its SubscriptionPreConsumeRecord
    used,           \* amount_used of the subscription
    period,         \* periods that ended, and whether the last end is still unnoticed
    refund,         \* the refund goroutine: its place and its tries
    fault           \* a failure was only logged

vars == <<req, session, paid, record, used, period, refund, fault>>

MaxTries == 3       \* refundWithRetry

NoSession == [source |-> "none", pre |-> 0, tok |-> 0, extra |-> 0,
              trusted |-> FALSE, settled |-> FALSE, refunded |-> FALSE]

-----------------------------------------------------------------------------
(* The accounts.                                                            *)

\* AdjustWalletQuota and the direct token updates: the amount of funding that
\* source gives is also the token's, except for a playground request.
Took(r, source, funding, token) ==
    [paid EXCEPT ![r] = [wallet |-> @.wallet + (IF source = "wallet" THEN funding ELSE 0),
                         sub |-> @.sub + (IF source = "sub" THEN funding ELSE 0),
                         token |-> @.token + (IF req[r].play THEN 0 ELSE token)]]

Within(amount) == Total > 0 => amount <= Total

\* Mutants: the limit is compared before the delta is added; no clamp.
FitsBefore(delta) == Within(used)
Unclamped(delta) == used + delta

\* PostConsumeUserSubscriptionDelta.
Fits(delta) == Within(used + delta)

Clamped(delta) == IF used + delta < 0 THEN 0 ELSE used + delta

\* The period of the subscription ends.
PeriodEnds ==
    /\ period.ended < MaxPeriods
    /\ period' = [ended |-> period.ended + 1, due |-> TRUE]
    /\ UNCHANGED <<req, session, paid, record, used, refund, fault>>

\* ResetDueSubscriptions.
ResetDue ==
    /\ period.due
    /\ period' = [period EXCEPT !.due = FALSE] /\ used' = 0
    /\ UNCHANGED <<req, session, paid, record, refund, fault>>

-----------------------------------------------------------------------------
(* NewBillingSession.                                                       *)

\* Billing preferences, with HasActiveUserSubscription already asked.
Orders == {<<"wallet">>, <<"sub">>, <<"wallet", "sub">>, <<"sub", "wallet">>}

Begin(r, play, order, q) ==
    /\ req[r].at = "new"
    /\ req' = [req EXCEPT ![r] = [at |-> "try", play |-> play, estimate |-> q, left |-> order, due |-> 0]]
    /\ UNCHANGED <<session, paid, record, used, period, refund, fault>>

Trying(r, source) == req[r].at = "try" /\ Head(req[r].left) = source

\* The factory returns; its arguments are forgotten.
Return(r, at) == req' = [req EXCEPT ![r].at = at, ![r].left = <<>>, ![r].estimate = 0]
Opened(r) == Return(r, "open")
Refused(r) == Return(r, "refused")

\* Only ErrorCodeInsufficientUserQuota goes on to the next source.
NextSource(r) ==
    IF Len(req[r].left) = 1 THEN Refused(r) ELSE req' = [req EXCEPT ![r].left = Tail(@)]

\* tryWallet: a trusted request reserves nothing; wallet and token are
\* reserved in one transaction.
TryWallet(r) ==
    /\ Trying(r, "wallet")
    /\ \/ \E trusted \in BOOLEAN :
             LET q == IF trusted THEN 0 ELSE req[r].estimate
             IN  /\ Opened(r)
                 /\ paid' = Took(r, "wallet", q, q)
                 /\ session' = [session EXCEPT ![r] = [NoSession EXCEPT
                        !.source = "wallet", !.pre = q, !.tok = q, !.trusted = trusted]]
       \/ (NextSource(r) \/ Refused(r)) /\ UNCHANGED <<session, paid>>
    /\ UNCHANGED <<record, used, period, refund, fault>>

\* trySubscription reserves at least 1, first from the token and then from the
\* subscription, whose period is reset on the way when it has ended.
SubConsume(r) == IF req[r].estimate = 0 THEN 1 ELSE req[r].estimate

\* Mutant: the session is told the estimate, not what the subscription took.
TrySubscriptionEstimate(r) ==
    LET amount == SubConsume(r)
        before == IF period.due THEN 0 ELSE used
    IN  /\ Trying(r, "sub") /\ Within(before + amount)
        /\ Opened(r)
        /\ paid' = Took(r, "sub", amount, amount)
        /\ used' = before + amount /\ period' = [period EXCEPT !.due = FALSE]
        /\ record' = [record EXCEPT ![r] = "consumed"]
        /\ session' = [session EXCEPT ![r] = [NoSession EXCEPT
                !.source = "sub", !.pre = req[r].estimate, !.tok = req[r].estimate]]
        /\ UNCHANGED <<refund, fault>>

TrySubscription(r) ==
    LET amount == SubConsume(r)
        before == IF period.due THEN 0 ELSE used
    IN  /\ Trying(r, "sub")
        /\ \/ /\ Within(before + amount) /\ Opened(r)
              /\ paid' = Took(r, "sub", amount, amount)
              /\ used' = before + amount /\ period' = [period EXCEPT !.due = FALSE]
              /\ record' = [record EXCEPT ![r] = "consumed"]
              /\ session' = [session EXCEPT ![r] = [NoSession EXCEPT
                     !.source = "sub", !.pre = amount, !.tok = amount]]
              /\ UNCHANGED fault
           \* the token refuses
           \/ Refused(r) /\ UNCHANGED <<session, paid, record, used, period, fault>>
           \* the subscription is gone, refuses or fails; the token is given back or not
           \/ /\ NextSource(r) \/ Refused(r)
              /\ \/ UNCHANGED <<paid, fault>>
                 \/ /\ ~req[r].play
                    /\ paid' = Took(r, "sub", 0, amount)
                    /\ fault' = [fault EXCEPT ![r] = TRUE]
              /\ UNCHANGED <<session, record, used, period>>
        /\ UNCHANGED refund

-----------------------------------------------------------------------------
(* The request runs.                                                        *)

\* Reserve, called by the reader of a realtime session; a refusal ends the
\* session, which settles on its usage.
CanRaise(r, target) ==
    /\ req[r].at = "open" /\ ~session[r].trusted /\ target > session[r].pre
    /\ session[r].source = "sub" => Fits(target - session[r].pre)

Reserve(r, target) ==
    LET s == session[r]
        delta == target - s.pre
    IN  /\ CanRaise(r, target)
        /\ paid' = Took(r, s.source, delta, delta)
        /\ used' = IF s.source = "sub" THEN used + delta ELSE used
        /\ session' = [session EXCEPT ![r].pre = @ + delta, ![r].tok = @ + delta, ![r].extra = @ + delta]
        /\ UNCHANGED <<req, record, period, refund, fault>>

\* The token refuses and rollbackFundingReserve of the subscription fails.
ReserveRollbackFails(r, target) ==
    LET delta == target - session[r].pre
    IN  /\ CanRaise(r, target) /\ session[r].source = "sub" /\ ~req[r].play
        /\ paid' = Took(r, "sub", delta, 0) /\ used' = used + delta
        /\ fault' = [fault EXCEPT ![r] = TRUE]
        /\ UNCHANGED <<req, session, record, period, refund>>

\* SettleBilling after a successful answer: its error is logged, and the
\* request keeps what it had reserved.
Settle(r, actual) ==
    LET s == session[r]
        delta == actual - s.pre
        funded == /\ s.source = "sub" => Fits(delta)
                  /\ used' = IF s.source = "sub" THEN Clamped(delta) ELSE used
    IN  /\ req[r].at = "open"
        /\ req' = [req EXCEPT ![r].at = "settled", ![r].due = actual]
        /\ \/ /\ funded
              /\ paid' = Took(r, s.source, delta, delta)
              /\ session' = [session EXCEPT ![r].settled = TRUE] /\ UNCHANGED fault
           \* only the token of a subscription is adjusted in a step of its own
           \/ /\ funded /\ s.source = "sub" /\ delta # 0 /\ ~req[r].play
              /\ paid' = Took(r, "sub", delta, 0)
              /\ session' = [session EXCEPT ![r].settled = TRUE]
              /\ fault' = [fault EXCEPT ![r] = TRUE]
           \/ /\ delta # 0 /\ fault' = [fault EXCEPT ![r] = TRUE]
              /\ UNCHANGED <<paid, used, session>>
        /\ UNCHANGED <<record, period, refund>>

\* needsRefundLocked; fundingSettled differs from settled only inside Settle.
NeedsRefund(s) == ~s.settled /\ ~s.refunded /\ (s.tok > 0 \/ (s.source = "sub" /\ s.pre > s.extra))

\* The deferred call of Relay after the last attempt failed: Refund starts a
\* goroutine.
Fail(r) ==
    /\ req[r].at = "open"
    /\ req' = [req EXCEPT ![r].at = "failed"]
    /\ IF NeedsRefund(session[r])
       THEN /\ session' = [session EXCEPT ![r].refunded = TRUE]
            /\ refund' = [refund EXCEPT ![r].at = "funding"]
       ELSE UNCHANGED <<session, refund>>
    /\ UNCHANGED <<paid, record, used, period, fault>>

\* ChargeViolationFeeIfNeeded with PostConsumeQuota, next to the goroutine.
ChargeFee(r, fee) ==
    LET source == session[r].source
        funded == /\ source = "sub" => Fits(fee)
                  /\ used' = IF source = "sub" THEN used + fee ELSE used
    IN  /\ req[r].at = "failed"
        /\ req' = [req EXCEPT ![r].at = "charged", ![r].due = fee]
        /\ \/ funded /\ paid' = Took(r, source, fee, fee) /\ UNCHANGED fault
           \/ /\ source = "sub" /\ funded /\ ~req[r].play
              /\ paid' = Took(r, "sub", fee, 0)
              /\ fault' = [fault EXCEPT ![r] = TRUE]
           \/ fault' = [fault EXCEPT ![r] = TRUE] /\ UNCHANGED <<paid, used>>
        /\ UNCHANGED <<session, record, period, refund>>

\* A handler panics in the first attempt: newAPIError is nil when the deferred
\* call looks at it, RelayPanicRecover answers with an error, and the
\* reservation stays.
Panic(r) ==
    /\ req[r].at = "open"
    /\ req' = [req EXCEPT ![r].at = "panicked"]
    /\ UNCHANGED <<session, paid, record, used, period, refund, fault>>

-----------------------------------------------------------------------------
(* The refund goroutine.                                                    *)

RefundAt(r, from, to) == refund[r].at = from /\ refund' = [refund EXCEPT ![r].at = to]

\* One transaction for wallet and token; it is not idempotent and not retried.
RefundWallet(r) ==
    LET q == session[r].tok
    IN  /\ session[r].source = "wallet"
        /\ RefundAt(r, "funding", "done")
        /\ \/ paid' = Took(r, "wallet", -q, -q) /\ UNCHANGED fault
           \/ fault' = [fault EXCEPT ![r] = TRUE] /\ UNCHANGED paid
        /\ UNCHANGED <<req, session, record, used, period>>

Initial(r) == session[r].pre - session[r].extra

\* Mutant: every try refunds.
RefundRecordAgain(r) ==
    /\ session[r].source = "sub" /\ refund[r].at = "funding"
    /\ paid' = Took(r, "sub", -Initial(r), 0) /\ used' = Clamped(-Initial(r))
    /\ record' = [record EXCEPT ![r] = "refunded"]
    /\ \/ refund' = [refund EXCEPT ![r].at = "extra"]
       \/ refund[r].tries < MaxTries - 1 /\ refund' = [refund EXCEPT ![r].tries = @ + 1]
    /\ UNCHANGED <<req, session, period, fault>>

\* RefundSubscriptionPreConsume under refundWithRetry: whoever claims the
\* record gives the amount back.  A try may fail before or after it commits.
RefundRecord(r) ==
    LET claimed == record[r] = "consumed"
        commit == /\ record' = [record EXCEPT ![r] = "refunded"]
                  /\ paid' = IF claimed THEN Took(r, "sub", -Initial(r), 0) ELSE paid
                  /\ used' = IF claimed THEN Clamped(-Initial(r)) ELSE used
        again == refund' = [refund EXCEPT ![r].tries = @ + 1,
                                          ![r].at = IF refund[r].tries + 1 = MaxTries THEN "extra" ELSE @]
    IN  /\ session[r].source = "sub" /\ refund[r].at = "funding"
        /\ \/ commit /\ refund' = [refund EXCEPT ![r].at = "extra"] /\ UNCHANGED fault
           \/ commit /\ again /\ UNCHANGED fault
           \/ /\ again /\ UNCHANGED <<record, paid, used>>
              /\ fault' = [fault EXCEPT ![r] = @ \/ (claimed /\ refund[r].tries + 1 = MaxTries)]
        /\ UNCHANGED <<req, session, period>>

RefundExtra(r) ==
    LET extra == session[r].extra
    IN  /\ RefundAt(r, "extra", "token")
        /\ \/ paid' = Took(r, "sub", -extra, 0) /\ used' = Clamped(-extra) /\ UNCHANGED fault
           \/ extra > 0 /\ fault' = [fault EXCEPT ![r] = TRUE] /\ UNCHANGED <<paid, used>>
        /\ UNCHANGED <<req, session, record, period>>

RefundToken(r) ==
    /\ RefundAt(r, "token", "done")
    /\ \/ paid' = Took(r, "sub", 0, -session[r].tok) /\ UNCHANGED fault
       \/ ~req[r].play /\ fault' = [fault EXCEPT ![r] = TRUE] /\ UNCHANGED paid
    /\ UNCHANGED <<req, session, record, used, period>>

-----------------------------------------------------------------------------

Init ==
    /\ req = [r \in Requests |-> [at |-> "new", play |-> FALSE, estimate |-> 0, left |-> <<>>, due |-> 0]]
    /\ session = [r \in Requests |-> NoSession]
    /\ paid = [r \in Requests |-> [wallet |-> 0, sub |-> 0, token |-> 0]]
    /\ record = [r \in Requests |-> "none"]
    /\ used = 0 /\ period = [ended |-> 0, due |-> FALSE]
    /\ refund = [r \in Requests |-> [at |-> "idle", tries |-> 0]]
    /\ fault = [r \in Requests |-> FALSE]

Request(r) ==
    \/ \E play \in BOOLEAN, order \in Orders, q \in Quotas : Begin(r, play, order, q)
    \/ TryWallet(r) \/ TrySubscription(r)
    \/ \E target \in Quotas : Reserve(r, target) \/ ReserveRollbackFails(r, target)
    \/ \E actual \in Quotas : Settle(r, actual)
    \/ Fail(r) \/ (\E fee \in Fees : ChargeFee(r, fee)) \/ Panic(r)

Goroutine(r) == RefundWallet(r) \/ RefundRecord(r) \/ RefundExtra(r) \/ RefundToken(r)

Next ==
    \/ \E r \in Requests : Request(r) \/ Goroutine(r)
    \/ PeriodEnds \/ ResetDue

Spec == Init /\ [][Next]_vars

-----------------------------------------------------------------------------
(* Properties.                                                              *)

\* Places and flags are the ones the code knows.
TypeOK ==
    /\ \A r \in Requests :
          /\ req[r].at \in {"new", "try", "refused", "open", "settled", "failed", "charged", "panicked"}
          /\ session[r].source \in {"none", "wallet", "sub"}
          /\ session[r].pre >= session[r].extra /\ session[r].extra >= 0 /\ session[r].tok >= 0
          /\ refund[r].at \in {"idle", "funding", "extra", "token", "done"}
          /\ refund[r].tries \in 0..MaxTries
          /\ record[r] \in {"none", "consumed", "refunded"}
    /\ used \in Nat

Done(r) == /\ req[r].at \in {"refused", "settled", "failed", "charged"}
           /\ refund[r].at \in {"idle", "done"}

\* A request whose statements worked pays its final price, a failed one its
\* violation fee or nothing, from exactly one source, and its token is charged
\* the same unless it is a playground request: whatever was estimated,
\* trusted, refused by one source, raised on the way or refunded in parallel
\* (BillingSession, Relay).
ExactCharge == \A r \in Requests : Done(r) /\ ~fault[r] =>
    /\ paid[r].wallet + paid[r].sub = req[r].due
    /\ paid[r].wallet = 0 \/ paid[r].sub = 0
    /\ paid[r].token = IF req[r].play THEN 0 ELSE req[r].due

\* No sequence of failures and retries gives back more than was taken
\* (refundWithRetry, claimSubscriptionPreConsumeRefundTx).
NeverPaidBackTwice == \A r \in Requests :
    paid[r].wallet >= 0 /\ paid[r].sub >= 0 /\ paid[r].token >= 0

\* The subscription is never overspent, never shows more use than its requests
\* account for, and exactly that much until a period ends; a refund that comes
\* after the reset can only lower it (PostConsumeUserSubscriptionDelta,
\* PreConsumeUserSubscription, ResetDueSubscriptions).
SubscriptionBooks ==
    LET taken == MapThenSumSet(LAMBDA r : paid[r].sub, Requests)
    IN  /\ Within(used) /\ used <= taken
        /\ period.ended = 0 => used = taken
=============================================================================

# Money, tasks and answers of the AI gateway: a TLA+ verification project

The repository is an AI API gateway (Go backend, React front ends). Clients call
it with API tokens; it picks an upstream channel, converts formats, relays the
call and charges the user. What makes it hard to get right is money: quota is
bought through five payment providers whose webhooks come late and twice,
reserved before an upstream answers, corrected afterwards, held for minutes by
asynchronous tasks (video, image, music), moved by request goroutines, by
background loops and by several nodes at once, and every one of them may fail
or crash between two statements. This project models that part, and the one page
of the web client that has a concurrency of its own, the playground.

## Inventory

| Component | State | Operations | Interacts with |
|---|---|---|---|
| Quota ledger (`model/quota_reservation.go`, `utils.go`, `user.go`, `token.go`) | `users.quota`, `tokens.remain_quota/used_quota`, the in-memory stores of the batch updater | reserve, adjust, queue, flush, top up, override, delete | every component that moves money |
| Billing session (`service/billing_session.go`, `funding_source.go`) | what one request has reserved and from where | pre-consume, reserve more, settle, refund | ledger, subscriptions |
| Subscriptions (`model/subscription.go`, `service/subscription_reset_task.go`) | used amount of the period, pre-consume records, the user's group | pre-consume, refund, delta, reset; buy, bind, invalidate, delete, expire | session, task billing, orders |
| Task billing (`model/task*.go`, `service/task_*.go`, `controller/relay.go`, `relay/relay_task.go`) | the task row with its billing state, outbox events | submit, complete, fail, poll, sweep, recover, apply, deliver | ledger, subscriptions, media transfer |
| Media transfer (`model/media_transfer_job.go`, `service/media_transfer_worker.go`) | one job per task, leases, attempts | enqueue, claim, renew, retry, complete | task billing |
| Creation idempotency (`model/creation_idempotency.go`, `middleware/creation_idempotency.go`) | one row per token and client key, a response kept back per request | claim, wait, replay, complete | task submission |
| Payment orders (`controller/topup*.go`, `controller/subscription_payment_*.go`, `model/topup.go`) | orders, a lock per trade number | order, complete, expire, fail, complete by hand | ledger, subscriptions, payment providers |
| Playground page (`web/default/src/features/playground`) | the conversation, open stream, request flags | send, stop, regenerate, edit, delete, reload; stream and poll events | the gateway's endpoints |
| Channel selection, rate limiting, caches, pricing, Midjourney, statistics, redemption, users, the rest of the web | see `PROJECT.json` | | |

Hard behaviours: reservations racing the batch updater's flush; copies of a task
row held across upstream calls by several pollers, the creating request and
user fetches; the recovery of stale submissions racing a slow submission;
retries of a billing that may already be applied; two databases (main and log)
written one after the other; webhooks repeated while the first is being handled;
client retries racing the request they repeat; late network events on a page that
has moved on; crashes anywhere. `PROJECT.json` lists each hazard
at its line with the properties that cover it, or why none does.

What correctness means, per component:

* ledger: an account moves by exactly the amounts of the calls that succeeded,
  and no reservation is granted beyond what is left, queued changes included; a
  crash loses what was queued and nothing else;
* task billing: one hold per task, adjusted and closed once; what the funding
  source paid equals what the row says; the outcome and the bill agree; every
  recorded task is billed in the end; no log of a final charge is lost;
* billing session: a request pays its final price once, from one source, and
  nothing when it fails; the subscription it shares is never overspent;
* media transfer: job and task agree, one result is published and stays, attempts
  are bounded, and a file uploaded by hand is kept until it is no longer needed;
* payment orders: an order is paid out once, only when it was paid for, and says
  so; a provider that was told success need not call again;
* subscriptions: the user is in the upgraded group while entitled to it and back
  in the group of before afterwards;
* creation idempotency: one key submits once; a replay is the whole response of
  the request it repeats; nobody waits for ever;
* playground: an answer shows the output of its own request, and every generation
  ends.

## Modules

| Module | What it is |
|---|---|
| `Wallet` | what the ledger promises: numbers per account, atomic calls |
| `QuotaLedger` | the ledger of one process in detail; implements `Wallet` |
| `QuotaLedger_proofs` | TLAPS proofs about `QuotaLedger` |
| `TaskCharge` | what task billing promises: a hold that is closed once |
| `TaskBilling` | one task, its row, reservation, event and media job, and everybody who works on them; implements `TaskCharge` |
| `TaskBilling_proofs` | TLAPS proofs about `TaskBilling` |
| `BillingSession` | synchronous requests of one user on a shared subscription: reservation, settlement, refund goroutine |
| `BillingSession_proofs` | TLAPS proofs about `BillingSession` |
| `MediaTransfer` | one transfer job, its lease, checkpoint and spool, several workers and the administrators |
| `MediaTransfer_proofs` | TLAPS proofs about `MediaTransfer` |
| `OrderLock` | the reference-counted lock per trade number |
| `UserSubscriptions` | one user's subscriptions and group |
| `Payments` | orders and webhooks; extends `OrderLock` and `UserSubscriptions`, and implements the latter |
| `UserSubscriptions_proofs`, `Payments_proofs` | TLAPS proofs about the three; the second has the lock and the orders, and extends the first |
| `CreationIdempotency` | the `Idempotency-Key` of the creation endpoints |
| `CreationIdempotency_proofs` | TLAPS proofs about it |
| `Playground` | the playground page |
| `Playground_proofs` | TLAPS proofs about it |
| `MCQuotaLedger`, `MCTaskBilling`, `MCBillingSession`, `MCMediaTransfer`, `MCPayments`, `MCUserSubscriptions` | instances for TLC; the other modules are run as they are |

`BillingSession` and `TaskBilling` sit on top of the ledger: what they take for
granted of wallet and token (a call moves exactly its amount or nothing) is what
`Wallet` says and `QuotaLedger` is proved to implement; that a row written back
whole may undo a call afterwards is a fault of the ledger they do not repeat. `TaskBilling` sees of a
transfer only its outcomes; `MediaTransfer` is what happens in between.

### QuotaLedger

`quota`, `remain`, `used` are the columns; `pendU`, `pendT` the batch updater's
stores of queued quota changes; `flightU`, `flightT` a store that `batchUpdate`
has swapped out and is writing; `phase` is the place of `batchUpdate`, which
holds `batchUpdateExecutionLock` while it writes a quota store. A call of the
ledger holds that lock from its beginning to its end and is one action with
alternatives: it commits, it returns early, or it fails without an effect (any
statement may fail at any time). `Commit` is the transaction of
`withReconciledWalletQuota`: queued changes of the account and the operation go
to the row together, and the queue entry is dropped only then. A flush is one
action per statement (`WriteUser`, `RequeueUser`, ...), so payments, overrides
and deletions, which take no lock, come in between. `lostU`, `lostT` and `reply`
are history variables: changes written to a deleted row, and the last answer.

Some handlers read a whole row, change another column and write all of it back
(`draftU`, `draftT` are the copies they hold): `User.Update`, which settings,
bindings and the billing preference use, writes every non-zero column
(`UpdateUser`); `inviteUser` saves the inviter's row, and GORM's `Save` inserts
it again if it is gone (`SaveInviter`); `UpdateToken` with `status_only` writes
the `remain_quota` it read (`UpdateTokenStatus`). None takes the lock or compares
anything, so calls made since the read are undone.

`Wallet` sees per account the sum of the row and of everything on its way to it,
and which part of that is in memory only (`unsavedU`, `unsavedT`). A step of
`Wallet` is one answered call; flushes and requeues are at most `Save`, which moves
no balance. Two things take calls back and are actions of their own: `Forget`, a
crash, which subtracts from each account exactly its part in memory; and `Restore`,
a row written back, after which the stored part of the account is a number that
was stored when the row was read.

### TaskBilling

An actor (the creating request, polling loops, realtime fetches of Gemini and
Vertex tasks, media workers) loads the row (`mem[a]`), talks to the upstream,
and writes back with a conditional UPDATE; `pc[a]` says which handler it is in.
The guards are the WHERE clauses: `SnapshotHolds` is `UpdateWithSnapshot`;
`Apply` is the transaction of `ApplyTaskBilling`, conditional on billing state,
quota and target; `Enqueue` is `EnqueueMediaTransferAndTask`. `GiveUp` is every
"UPDATE failed or matched nothing, log and go on", `Crash` a process that dies.
Waiting times (10 minutes until a submission counts as stale, the task timeout,
retry delays) are over at any moment after they begin, which includes every real
timing. `upstream` is what really became of the generation, which the gateway
learns only by asking, and not reliably: a poll fails a task on an explicit failure
and on a 2xx body without a status and with an error object (`PollFailure`), a
realtime fetch on any error body (`FetchFailure`), so both may happen whatever
`upstream` is. Of the progress string the model keeps whether it is "100%"
(`row.full`), because the queries for polling and for the timeout sweep leave such
rows out (`Unfinished`); an upstream may report it before it reports an end.
`TimeoutOn` is whether the sweep is configured.

`TaskCharge` sees `charged` (what the wallet or subscription paid) and a stage:
nothing, held, settled, refunded, or released by the session of a request whose
row was never inserted.

Abstractions: one task; a price is any of the values the adaptor or the token
usage may give (`Prices`); statuses before the first progress report are one
(`NOT_START`), and so are those while it runs; the token's quota moves by the
same amounts in the same transactions as the wallet and is not kept twice;
other progress strings, logs' wording and usage counters are left out, except that the
usage counter of a deleted channel fails the transaction; the media worker's
leases and attempts are one nondeterministic outcome. A commit whose
acknowledgement is lost is not modelled.

### BillingSession

`req[r]` is where a request is in `Relay` and what it should pay; `session[r]`
has the fields of the `BillingSession` struct; `record[r]` is its pre-consume
record, `used` the subscription's `amount_used`, and `refund[r]` the goroutine
that `Refund` starts. `Begin`, `TryWallet` and `TrySubscription` are
`NewBillingSession` (an order of sources, of which only an insufficient one hands
over to the next); `Reserve` raises the reservation of a realtime session;
`Settle` and `Fail` end the request, `ChargeFee` is the violation fee that is
charged while the goroutine runs, `Panic` a handler that panics. The goroutine
has one action per transaction: `RefundWallet`, or `RefundRecord` (with its three
tries, each of which may fail before or after it commits), `RefundExtra`,
`RefundToken`. `paid[r]` is a history variable: the net amounts that wallet,
subscription and token have been charged for the request. Statements may fail
everywhere; where the code logs the error and goes on, `fault[r]` records it,
because the code promises no exact charge then. A request whose handler panics
keeps its reservation, because the deferred refund of `Relay` looks at an error
variable that the panic leaves nil; no property is claimed of such a request.

Abstractions: wallet and token grant or refuse at will (whether a request is
trusted is likewise any answer, stale caches included); one subscription, so the
choice among several is left out; a request id is used once, so the path of
`PreConsumeUserSubscription` for an id it already knows is not taken.

### MediaTransfer

`job` is the row: status, lease and owner, attempts, input, candidate URL, next
retry; `task` the media state and the result of its task; `spool` the files on
disk. A worker selects a due row (`Select`), claims it with an UPDATE that looks
at status and time (`Claim`), and works on the copy it selected: `Fetch`,
`SaveFile`, `Upload`, `SaveCandidate`, `Verify`, `Complete`, `Cleanup`, every
UPDATE conditional on the lease, which `Renew` extends. A failed step ends in `ScheduleRetry`, which
decides on the worker's copy whether the attempt was the last. `Tick` lets leases
and waiting times end between any two statements, `Abandon` is a worker that
stops anywhere, by a failed statement or a crash; administrators retry (`RetryJob`) and replace the input
(`ReplaceInput`). What is downloaded is a model value of the input's generation.

### OrderLock, UserSubscriptions and Payments

`OrderLock` is `LockOrder`/`UnlockOrder`: a map from trade number to a mutex with
a count of users, behind one global lock. What runs under the global lock is one
action; waiting for the mutex lies between two. `UnlockOrder` reads the map again, as
the code does, so that the model would notice an entry replaced meanwhile; mutexes
are reused, as addresses are. A crash forgets the map.

`UserSubscriptions` has the rows of one user in the order of their ids, the
column `group` and a clock. A transaction is one action, as SQLite runs them;
`ExpireDueSubscriptions` reads the time in one step and writes in another, so a
purchase, a cancellation and time itself come in between.

`Payments` adds the orders. A buyer's request is one action per handler
(`RequestStripePay`, ..., `SubscriptionRequestEpay`). Stripe and the top-ups of
epay ask the provider first and insert then; the others insert a pending order and
ask afterwards, and `opening[o]` says that the request still waits. It ends with
`Opened`, or, when the provider refuses, as the code does: Waffo and Waffo Pancake
save the row they inserted as failed, without the lock and whatever it is by then
(`WaffoOpenFails`, `PancakeOpenFails`), epay expires a subscription order that is
pending (`EpayOpenFails`), Creem leaves it (`CreemOpenFails`).

The environment is the buyer and the provider: `checkout[o]` is the truth at the
provider, "none" until the request was answered with a link, because a buyer
can pay only where that answer points; a webhook about a provider's own order says
the truth, late, repeatedly or never; a webhook may also name a trade number that
belongs to another provider. The webhook handlers up to the lock are named as in
the code (`fulfillOrder`, `handleCheckoutCompleted`, `EpayNotify`, ...), the
transactions after it likewise (`Recharge`, `RechargeEpay`, ...,
`ManualCompleteTopUp`, `CompleteSubscriptionOrder`, `ExpireOrder`). `Refuse` is
every early return and failed transaction that the provider hears of;
`StripeIgnores`, `CreemIgnores` and `PancakeUnresolved` are those it is told success
for. Where the code does not use a transaction the model does not either:
`sessionAsyncPaymentFailed` reads and saves (`ReadFailed`, `SaveFailed`),
and Waffo's handler of any other status than `PAY_SUCCESS` takes no lock and may
come at any time (`WaffoFailed`). `Quota` keeps the providers'
different conversions. `credited`, `grants`, `acked` and `byHand` are history.
Signatures are taken as verified, one process is modelled, and plans are constants.

### CreationIdempotency

`row[k]` is the table, `pc[r]` the statement a request is at, `writer[r]` the
response writer that keeps the response until it is stored, and lets everything
through once it was flushed or has grown past the limit. `Insert` is the claim by unique index; the
loser of a claim reads the row (`Read`): another hash is a conflict, a stored response
is replayed, a row in process is polled (`Poll`) until it is done or the five seconds
are over (`GiveUp`). Statements fail, handlers panic and gateways crash at any
point; `faults` remembers the keys this happened to, because a row left in
process there is what the code does. A key stands for token and key together, a
response for the request that made it and its length.

### Playground

One thread: an event handler is a step, and what interleaves are the events of
streams, requests and timers with what the user does. No handler of the page
knows which request it serves; each writes to the last message
(`updateLastAssistantMessage`). The refs and flags that keep them apart
(`sseSourceRef`, `isStreamCompleteRef`, the media controller, the two generating
flags) are the variables, `live[r]` is what the network still owes for a request,
and the guards of user actions are those of the buttons. The poll of a media task
counts its time in units of five seconds. An aborted media request settles in a
later step (`MediaAborted`). `stopped`, `empty` and `overlap` are history.
Left out: the render closure that a Save in the same render as a chunk may hold,
the gaps between microtasks, and leaving the page without a reload.

## Runs

| Run | Instance | Shows |
|---|---|---|
| `ledger` | one user, one token, amounts -1..1 (negative: refunds, 0: early returns), balances within 1, one row copied to be written back | type, `SwappedOnlyUnderLock`, refinement of `Wallet` |
| `ledger_live` | one user | `QueuedChangesDrain` under fairness |
| `task` | request, two pollers, tasks of this and the older release, three funding sources, two prices, one recorded retry, channel deletion | type, charge, outcome, events, refinement of `TaskCharge` |
| `task_media` | request, a poller, a realtime fetch, a media worker, media storage on | outcome and refinement across the transfer |
| `task_live` | request, one poller, channel stays | every recorded task is billed and its event delivered, unless it stays in progress at 100% |
| `task_channel_deleted` | as above, channel may be deleted | violation, see below |
| `media_transfer` | two workers, two attempts, leases of one tick, clock up to 3, one replacement | type, job and task, attempts, the uploaded file, the final result |
| `session` | two requests, a subscription of 3, quotas 0 and 2, a fee of 1, one end of a period | type, exact charge, refunds, the subscription's books |
| `payments` | one order of any kind and provider, two handlers, two mutexes, two subscriptions, one tick | type, mutual exclusion, paid out once, only when paid, status and payout agree, acknowledged is settled, the two group rules |
| `subscription_renewal` | one plan of one tick, two subscriptions, clock up to 3 | violation, see below |
| `idempotency` | three requests, one key, two hashes, responses on both sides of the limit | type, one submission, faithful replays, keys held by their owner, every request answered |
| `playground` | three requests, a poll of eight units | own answers, busy answers, nothing waited for in vain, generations end |

Bounds. In the ledger one account of each kind suffices for the races, which are
between a call and the flush of the *same* account; the proof covers any number.
Balances within 1 still hold an exact, an insufficient and an overdrawn balance. One
copy of a row (`MaxDrafts`) may be written back any number of times, so it stands
for several handlers that read the same number.
The history variable `reply` is left out of TLC's view of a state there: no guard
reads it, and the refinement reads only the reply a step gives, which TLC checks
on every step it generates.
In the task runs two pollers are the smallest number that can hold two stale
copies; two prices let a final charge go up, down and stay; `MaxRetry` 1 lets a
copy become stale by a retry alone. Pollers are interchangeable (symmetry) where
no liveness is checked. The liveness run uses one poller and one funding source,
because fairness is per action and the state graph is what costs. The proofs cover any
number of pollers, fetches and workers.

For media, a lease of one tick and a clock of three let a lease expire, be taken
over and expire again; two attempts are a retry and a last one. For sessions, two
requests of 2 do not fit into a subscription of 3 together, so one of them is
refused, falls back to the wallet, or is refused its final price; an estimate of
0 is the minimum reservation of 1; one end of a period puts refunds before and
after the reset. Requests, like workers, are interchangeable. `CHECK_DEADLOCK` is
off where all requests may have been answered.

For payments, one order is enough because handlers of different orders share only
the lock map and the subscriptions; the proofs cover any number of orders,
handlers and mutexes. Two handlers are a repeated webhook, or a webhook and an administrator, next to the
request that may still be opening the checkout; two mutexes let an entry
be dropped and made anew while an old mutex is still known. `Money` 2, `Amount` 1
and `QuotaPerUnit` 3 keep the providers' conversions apart. A renewal needs two
subscriptions and the clock to pass both ends. For idempotency, three requests are
an owner, a repetition and a different request under the same key; a limit of 1 and
bodies up to 2 fall on both sides. On the playground, three requests let an
answer be regenerated while an edit is submitted; eight units of poll time are
the shortest limit at which the back-off reaches its longest delay.

Fairness. `batchUpdate` and `TaskPollingLoop` run in endless loops, so what they
are able to do they do again and again; a database or upstream that is asked
again and again answers in the end (strong fairness of the writes, which failures
interrupt). In the idempotency run the statements of a request that has begun are
run (weak fairness per request: goroutines are scheduled, and waits have a
deadline). On the playground a request settles (weak fairness per request: the
gateway cuts off silent streams, an HTTP request is answered or fails, timers
fire). Nothing is assumed of users, administrators, payment providers, fetches or
workers.

### Where code and text disagree

* `task_channel_deleted`: the refund shares its transaction with the channel's
  usage counter and `applyTaskBillingUsageDelta` fails when there is no channel
  row, so a task whose channel was deleted is never refunded.
* `subscription_renewal`: a subscription that does not change the user's group
  remembers no previous group, and neither the sweep, which looks at the last expired
  one only, nor a cancellation, which looks at the cancelled one, asks another,
  so a user who renews early stays in the upgraded group for ever. The trace ends by
  two cancellations. The plan form promises to "revert to the previous group".

Met while modelling, with the property that states the rule where there is one:

* a profile save, a binding, an invitation or a token's `status_only` update writes
  back the quota it read and so undoes debits and credits made meanwhile; `Save`
  also brings a deleted user back (`ImplementsWallet` holds because `Wallet` has
  `Restore`);
* "Only an explicit task failure may end it" (`task_polling.go`): polling
  also fails a task on a 2xx body with an error object whose code is not 429, and
  `tryRealtimeFetch` does not look at the HTTP status, so that a Gemini or Vertex
  error body parses as a failed task;
* a row that an upstream reports as in progress at 100% is neither polled nor swept
  again and never billed finally (`EveryTaskIsBilled` names this exception);
* when neither the transfer job nor the upload works, the row waits for media with
  no job, and no query selects it again (`PendingMediaHasJob`);
* a task of the older release that is still running is billed (`LegacyInert`);
* the claim of a transfer job does not notice that the input was replaced since
  the row was selected, when the replacement is due at once; the worker publishes
  the old input (`PublishedIsCurrent`);
* `ManualCompleteTopUp` multiplies the amount of a Creem order by `QuotaPerUnit`,
  although that amount is quota already (`PaidOutOnce` allows both values);
* Stripe is answered 200 also when a completion failed; Creem when the subscription
  order could not be read and the event's type is not `onetime`; Waffo Pancake when
  the trade number could not be resolved, also because of a failed read. None of
  them calls again then (`AckedIsSettled` is about epay and Waffo only);
* the requests for a Waffo or Waffo Pancake checkout save a stale row as failed: a
  top-up that an administrator completed meanwhile was credited and says failed
  (`PaidOutIsSuccess` names this exception);
* Waffo's comment speaks of terminal failures (`topup_waffo.go:381`, "终态失败订单"),
  but every status other than `PAY_SUCCESS` marks the order failed, and a
  `PAY_SUCCESS` that follows is refused: the buyer has paid and gets nothing
  until an administrator steps in;
* the order lock is local to a process, while the handler of a failed Stripe payment
  relies on it (`PaidOutIsSuccess` holds for one process);
* a plan's purchase limit is checked again after the payment: a buyer who has
  reached it meanwhile has paid and is refused;
* nothing calls `DeleteExpiredCreationIdempotency`; a handler that panics loses the
  500 that was kept back, and the client gets an empty 200;
* "Save & Submit" of an edited message is not guarded, although
  `use-message-action-guard.ts` "checks if generation is active before executing":
  two answers may then be generated into one message (`OwnAnswer` and
  `BusyIsGenerated` leave this case out by `overlap`);
* a completion without a choice leaves its message loading (`empty`);
  `sanitizeMessagesOnLoad` mends one stuck message only; a stream that ends
  without `[DONE]` is ended only by the stop button (`GenerationEnds` leaves it out).

## Proofs

`QuotaLedger_proofs` (TLAPS, every leaf by SMT, Zenon or LS4) proves for all
`Users`, `Tokens`, `Amounts` and `Bound` that satisfy `LedgerAssumption`:

* `LedgerTypeOK`: `Spec => []TypeOK`;
* `LedgerSwapsUnderLock`: `Spec => []SwappedOnlyUnderLock`;
* `LedgerImplementsWallet`: `Spec => ImplementsWallet`.

The inductive invariant `Inv` is the conjunction of `TypeOK` and
`SwappedOnlyUnderLock`: the refinement needs the second, because `Available`
looks at the row and the queue only, and this is all an account has exactly when
nothing is swapped out or lost; it also makes a copied row the stored part of
its account. `NextInv` has a lemma per group of actions; the
refinement has the same split (`CallRefines`, `OthersRefine`, flush steps
stutter).

`MediaTransfer_proofs` proves for every set of workers, every lease, number of
attempts and number of replacements that satisfy the module's assumption:
`MediaTypeOK`, `MediaJobMatchesTask`, `MediaAttemptsBounded`,
`MediaManualFileKept` and `MediaResultIsFinal`. `JobMatchesTask` and
`AttemptsBounded` are not inductive: whether an attempt is the last is decided on
a worker's copy, so the copy has to be tied to the row. The invariant adds that
the copy of a worker that owns the row, or could still claim it, is never behind
the row's attempts (`CopyCounts`); that the time a worker claims with is not in the future
(`ClaimsInPast`); that a worker past the upload has a candidate
(`HasCandidate`); and that only the worker of a READY job cleans up
(`CleansUpReady`), which is what keeps an uploaded file.

`UserSubscriptions_proofs` and `Payments_proofs` prove for any sets of handlers, mutexes, orders and plans:

* `PaymentsTypes`, `OrdersExclude` (`OneAtATime`), `OrdersCounted` (an entry counts
  exactly its users, so it is dropped by the last one), `OrdersWaitForWorker` (a
  mutex somebody waits for is free or locked by a handler at work on the same trade,
  so no lock is left behind and nobody waits in a circle);
* `OrdersPaidOnce`, `OrdersPaidFor`, `OrdersAgree`, `OrdersAcked`;
* `PaymentsImplementSubs`: `Spec => SubsSpec`, so what holds of subscriptions on their
  own holds with orders, which gives `UpgradeKept` and `UpgradeReverts`.

Mutual exclusion is not inductive: `LockInv` adds that whoever is past the map has
the mutex of the current entry (`Entry`), that entries of different trades have
different mutexes (`Apart`), who holds a mutex and that nobody else does (`Holds`), and the count as a
cardinality (`Counted`). For the orders, `IInv` ties a handler to what its webhook
claimed (`JobTrue`), says that a handler about to save a failed order has the
lock and the order is still pending (`SavesPending`), and that an order whose
request still waits has no checkout yet (`Openings`), so that
the stale save of that request can only reach what an administrator completed. For subscriptions, `SubsInv` says
that a sweep's time and expired rows lie in the past, and that, when every upgrade was
bought in the group of before, a group other than that one comes from an active row
that ends after all the others (`Traced`);
that a latest row exists among the expired ones is proved by well-foundedness.

`CreationIdempotency_proofs` proves `IdempotencyTypes`, `SubmittedOnce`,
`ReplaysWhole` and `KeysReleased` for any requests, keys, hashes and limits. The
invariant says which request owns a row at which statement (`OwnsRow`, `Phase`,
`WaitsForOwn`) and follows a response from the writer (`KeepsAll`) through the row
(`RecordWhole`) to the client (`ReplayWhole`).

`BillingSession_proofs` proves for any finite set of requests, any amounts and totals
and any number of periods: `SessionTypeOK`, `SessionExactCharge`,
`SessionNeverPaidBackTwice` and `SessionSubscriptionBooks`. What a request has paid
says nothing on its own while its settlement or its refund is still to come. The
invariant `IInv` therefore keeps books per request (`Books`): `Held` and `HeldToken`
are what a later step of the session may still give back, and the source has paid
what is held and what is due, exactly unless a failed statement was only logged,
and never less. `Phase` says which of the session's flags and which state of the
pre-consume record go with which place of the request.

For the subscription, `SumBook` says that the used amount is at most the sum over
the requests of what each has taken from it, and equal to it until the first period
ends. It needs the books per request, since a refund is clamped at zero and must not
give back more than the sum has. The sum is `MapThenSumSet` over a set of any size.
That the recursion behind it has a solution (`FoldUnfolds`), that the order of the
summands does not matter (`TakenRemove`) and that changing one summand changes the
sum by as much (`TakenChanges`) are proved without an induction principle: the
strict subsets of a finite set are well-founded, so there would be a smallest set for
which the claim fails, and removing an element of it gives a smaller one.

`TaskBilling_proofs` proves for any number of polling loops, realtime fetches and
media workers, all prices, sources and retries, with or without media storage:

* `TaskTypeOK`, `TaskChargeMatchesRow`, `TaskErrorNeverCharges`,
  `TaskBillMatchesOutcome`, `TaskDeliveredIsLogged`;
* `TaskImplementsCharge`: `Spec => ImplementsCharge`.

None of them is inductive, because every writer decides on a copy. `IInv` says what
a copy is worth at each place (`Copy`): one taken for polling or sweeping has a
status that runs, no media state and no final charge; one taken for applying has
a pending bill, and if that is the final one, either the event is there or the row
still has the same outcome as the copy. This is what makes it safe that
`ApplyTaskBilling` does not compare the status. `Closed` says why no row is
charged finally twice: a row with a prepared or applied final charge is terminal,
or has a media state and a job, so that no poll, sweep or fetch asks for it, a
conditional UPDATE of an older copy misses it, and `EnqueueMediaTransferAndTask`,
which does not compare the media column, stops at the unique job. `Recorded` ties
the request to the row, and says that a pre-consume record is refunded only by a
session without a row or with the event, so a claimed refund never loses its
delta. `Stable` is what a step must do for the copies of all others to keep their
worth (`CopyKept`); `SaveStep` does the work for all eleven users of
`UpdateWithSnapshot` at once.

`Playground_proofs` proves for conversations of any length, any number of requests
and every limit of the poll: `PageWaitsForSomething`, `PageOwnAnswer` and
`PageBusyIsGenerated`. None is inductive, because no handler asks which request it
serves. `Refs` says that behind every ref and flag there is a request of its kind;
with the types this alone is inductive, also when edits are submitted during a
generation. `Born` says that only what was sent is under way, shown or stopped, so a
new request is new to the conversation. As long as no edit overlapped, `Single` makes
up for the missing question: a request under way is the only one, the page knows it,
and the last message is its answer (`Held`), so writing to the last message is
writing to one's own; every answer shows its own output (`Own`); and an answer that
looks busy is the last one with its request at work, or a completion that came
without a choice (`Told`, `Quiet`). TLC checked this invariant on the run's instance
before it was proved. Lemmas about sequences carry it through
`sanitizeMessagesOnLoad`, deletions in the middle, and the cut at a regenerated or
edited message.

Model-checked only: liveness (`QueuedChangesDrain`, `EveryTaskIsBilled`, `Answered`,
`GenerationEnds`), which is outside the prover's reach; the properties of the two runs
that expect a violation. Every other property of a run is stated by a theorem.

## Not modelled

`PROJECT.json` names every component and its reason. Most of the repository's
lines are front end: forms, tables, dialogs and charts that show what the API
returns and keep no state of their own beyond the form. They have no behaviour for
a model checker to explore, and the share of all lines that the modules stand for is
therefore small; of the front end only the playground, where network events
and the user interleave, is modelled. The provider adaptors and pricing, most of
the rest, are conversions of formats and floating-point arithmetic.

Within the modelled components: the Redis copies of quotas and the
usage-statistics stores; queues of several processes (batching gives no promise
across processes); order locks of several processes; rows that MySQL or
PostgreSQL lock one by one inside an expiry; the limit of the subscription in task
billing; the choice among several subscriptions of one user; the storage providers'
circuit breaker; commits whose acknowledgement is lost.

## Plan

Done: the ledger and task billing with their refinements and proofs, media transfer,
billing sessions on a shared subscription, subscriptions and payment orders,
creation idempotency and the playground, all with their proofs.
Next, in this order:

1. The composition of task billing with a subscription's limit.
2. The in-memory and Redis rate limiters; the hybrid cache and the copies of quotas
   that the trust decision reads.
3. Channel selection with automatic disabling; Midjourney tasks; redemption codes.
4. An abstract charge that `BillingSession` implements, next to `TaskCharge`.

---------------------------- MODULE TaskBilling -----------------------------
(***************************************************************************)
(* The persistent billing of one asynchronous task (video, image, music):   *)
(* its row in the tasks table, the reservation of the request that creates  *)
(* it, the outbox event of its final charge, its media transfer job, and    *)
(* everyone who works on them concurrently: the request (controller/        *)
(* relay.go, relay/relay_task.go), the polling loops of the master nodes    *)
(* (service/task_polling.go, task_billing_state.go), the realtime fetch of  *)
(* Gemini and Vertex tasks (relay/relay_task.go) and the media workers.     *)
(*                                                                          *)
(* An actor reads the row, thinks (calls the upstream), and writes it back  *)
(* with a conditional UPDATE; mem[a] is its copy, pc[a] says what for.      *)
(* Any statement may fail, any actor may crash between two of them.         *)
(* Waiting times (10 minutes for a stale submission, the task timeout, the  *)
(* retry delays) are over at any moment after they begin.                   *)
(***************************************************************************)
EXTENDS Integers

CONSTANTS
    Request,        \* the goroutine that handles the creating request
    Pollers, Fetchers, Workers,
    Starts,         \* subset of {"new", "legacy"}: tasks of this or an older release
    Sources,        \* subset of {"wallet", "subscription", "free"}
    Quotas,         \* the prices a task may have
    MaxRetry,       \* bound on billing_retry_count
    MediaStorage,   \* HasEnabledMediaStorage()
    TimeoutOn,      \* TaskTimeoutMinutes > 0
    ChannelsGo      \* administrators may delete the channel

Actors == {Request} \cup Pollers \cup Fetchers \cup Workers

ASSUME TaskAssumption ==
    /\ Request \notin Pollers \cup Fetchers \cup Workers
    /\ Pollers \cap Fetchers = {} /\ Pollers \cap Workers = {} /\ Fetchers \cap Workers = {}
    /\ Starts \subseteq {"new", "legacy"}
    /\ Sources \subseteq {"wallet", "subscription", "free"}
    /\ Quotas \subseteq Nat
    /\ MaxRetry \in Nat
    /\ MediaStorage \in BOOLEAN /\ TimeoutOn \in BOOLEAN /\ ChannelsGo \in BOOLEAN

VARIABLES
    start, source,  \* what kind of task this is; never changes
    request,        \* how far the creating request is, and what it answered
    row,            \* the row of the task; bill "NONE" before the INSERT
    charged,        \* what the wallet or subscription has paid for the task
    record,         \* the subscription's pre-consume record
    event,          \* the TaskBillingEvent and whether it asks for a log
    log,            \* the event's row in the log database is there
    job,            \* the MediaTransferJob
    channel,        \* the channel row is there
    upstream,       \* what really became of the generation
    pc, mem         \* each actor's place and its copy of the row

vars == <<start, source, request, row, charged, record, event, log, job,
          channel, upstream, pc, mem>>
world == <<start, source, channel, upstream>>
money == <<charged, record, event>>

-----------------------------------------------------------------------------
(* The row.                                                                 *)

Running == {"NOT_START", "IN_PROGRESS"}
Bills == {"NONE", "LEGACY", "SUBMITTING", "SUBMIT_PENDING", "PENDING",
          "FINALIZE_PENDING", "SETTLED", "REFUNDED"}

\* `full': progress is "100%"; the other percentages make no difference.
Absent == [status |-> "NOT_START", bill |-> "NONE", quota |-> 0, target |-> 0,
           retry |-> 0, media |-> "", full |-> FALSE]

\* failTaskWithPendingRefund, failPersistentTaskSubmission, and
\* PrepareTaskFinalBilling of a task that failed.
Failed(m) == [m EXCEPT !.status = "FAILURE", !.bill = "FINALIZE_PENDING", !.target = 0,
                        !.full = TRUE]

\* PrepareTaskFinalBilling: the frozen price of a task that succeeded, which
\* the adaptor or the token usage may replace.
Base(m) == IF m.bill = "SUBMIT_PENDING" THEN m.target ELSE m.quota
Prices(m) == IF source = "free" THEN {0} ELSE {Base(m)} \cup Quotas
Prepared(m, q) == [m EXCEPT !.bill = "FINALIZE_PENDING", !.target = q]

\* Mutant: the UPDATE is guarded by the status alone (UpdateWithStatus).
SnapshotOfStatus(m) == row.status = m.status /\ row.bill # "NONE"

\* The WHERE clause of UpdateWithSnapshot.
SnapshotHolds(m) ==
    /\ row.status = m.status /\ row.bill = m.bill
    /\ row.quota = m.quota /\ row.target = m.target
    /\ row.retry = m.retry /\ row.media = m.media

\* The actor goes on to `next' with the copy m, or is done.
Goto(a, next, m) ==
    /\ pc' = [pc EXCEPT ![a] = next]
    /\ mem' = [mem EXCEPT ![a] = IF next = "idle" THEN Absent ELSE m]

\* UpdateWithSnapshot(m) wins and writes every column of the new copy.
Save(a, new, next) ==
    /\ SnapshotHolds(mem[a])
    /\ row' = new
    /\ Goto(a, next, new)
    /\ UNCHANGED <<world, money, log, job>>

\* The UPDATE fails or matches nothing, or the upstream gave no answer.
GiveUp(a) ==
    /\ pc[a] # "idle"
    /\ Goto(a, "idle", Absent)
    /\ request' = CASE a = Request /\ pc[a] = "complete" -> "refused"
                    [] a = Request /\ pc[a] = "fail" -> "error"
                    [] OTHER -> request
    /\ UNCHANGED <<world, row, money, log, job>>

-----------------------------------------------------------------------------
(* ApplyPendingTaskBilling and the outbox.                                  *)

\* Mutant: a final charge of nothing counts as a refund.
NextBillByTarget(m) ==
    IF m.bill = "SUBMIT_PENDING" THEN "PENDING"
    ELSE IF m.target = 0 THEN "REFUNDED"
    ELSE "SETTLED"

NextBill(m) ==
    IF m.bill = "SUBMIT_PENDING" THEN "PENDING"
    ELSE IF m.status = "FAILURE" /\ m.target = 0 THEN "REFUNDED"
    ELSE "SETTLED"

\* A refund of the whole reservation belongs to whoever moves the pre-consume
\* record to "refunded" (claimSubscriptionPreConsumeRefundTx).
ClaimsRecord(m) ==
    source = "subscription" /\ NextBill(m) = "REFUNDED" /\ record # "none"

\* Mutant: the transaction is not conditional on the billing state.
ApplyUnguarded(a) ==
    LET m == mem[a]
        delta == m.target - m.quota
        final == m.bill = "FINALIZE_PENDING"
    IN  /\ pc[a] = "apply"
        /\ row' = [row EXCEPT !.bill = NextBill(m), !.quota = m.target, !.retry = 0]
        /\ charged' = charged + delta
        /\ record' = record
        /\ event' = IF final THEN [state |-> "pending", logged |-> delta < 0] ELSE event
        /\ Goto(a, IF final THEN "log" ELSE "idle", m)
        /\ UNCHANGED <<world, request, log, job>>

\* The transaction of ApplyTaskBilling commits: row, funding source, usage of
\* user and channel, and outbox event together.  A consumption is logged only
\* if that is enabled.
Apply(a) ==
    LET m == mem[a]
        delta == m.target - m.quota
        final == m.bill = "FINALIZE_PENDING"
    IN  /\ pc[a] = "apply"
        /\ row.bill = m.bill /\ row.quota = m.quota /\ row.target = m.target
        /\ final => (delta # 0 => channel) /\ event.state = "none"
        /\ row' = [row EXCEPT !.bill = NextBill(m), !.quota = m.target, !.retry = 0]
        /\ charged' = IF ClaimsRecord(m) /\ record = "refunded" THEN charged ELSE charged + delta
        /\ record' = IF ClaimsRecord(m) THEN "refunded" ELSE record
        /\ IF final
           THEN \E logged \in IF delta > 0 THEN BOOLEAN ELSE {delta < 0} :
                    event' = [state |-> "pending", logged |-> logged]
           ELSE event' = event
        /\ Goto(a, IF final THEN "log" ELSE "idle", m)
        /\ UNCHANGED <<world, request, log, job>>

\* It rolls back, and the recovery loop records a retry (scheduleTaskBillingRetry).
Reschedule(p) ==
    /\ pc[p] = "apply"
    /\ row.bill = mem[p].bill /\ row.retry < MaxRetry
    /\ row' = [row EXCEPT !.retry = @ + 1]
    /\ Goto(p, "idle", Absent)
    /\ UNCHANGED <<world, request, money, log, job>>

\* RecordTaskBillingEventLog: INSERT ... ON CONFLICT DO NOTHING.
RecordLog(a) ==
    /\ pc[a] = "log" /\ event.state # "none"
    /\ log' = (log \/ event.logged)
    /\ Goto(a, "mark", mem[a])
    /\ UNCHANGED <<world, request, row, money, job>>

\* Mutant: the event is marked before its log is written.
MarkAtOnce(a) ==
    /\ pc[a] \in {"log", "mark"} /\ event.state # "none"
    /\ event' = [event EXCEPT !.state = "delivered"]
    /\ Goto(a, "idle", Absent)
    /\ UNCHANGED <<world, request, row, charged, record, log, job>>

MarkDelivered(a) ==
    /\ pc[a] = "mark"
    /\ event' = [event EXCEPT !.state = "delivered"]
    /\ Goto(a, "idle", Absent)
    /\ UNCHANGED <<world, request, row, charged, record, log, job>>

-----------------------------------------------------------------------------
(* The request that creates the task.                                       *)

\* PreConsumeBilling; a free model has no billing session.
PreConsume(q) ==
    /\ request = "new"
    /\ source = "free" => q = 0
    /\ request' = "reserved"
    /\ charged' = q
    /\ record' = IF source = "subscription" THEN "consumed" ELSE "none"
    /\ UNCHANGED <<world, row, event, log, job, pc, mem>>

PreConsumeRefused ==
    /\ request = "new"
    /\ request' = "rejected"
    /\ UNCHANGED <<world, row, money, log, job, pc, mem>>

\* ensurePersistentTaskSubmission, before the upstream is called.
InsertTask ==
    /\ request = "reserved"
    /\ row' = [Absent EXCEPT !.bill = "SUBMITTING", !.quota = charged, !.target = charged]
    /\ request' = "calling"
    /\ UNCHANGED <<world, money, log, job, pc, mem>>

\* Without a row the session gives the reservation back: RelayTask's defer.
InsertFails ==
    /\ request = "reserved"
    /\ request' = "refunding"
    /\ UNCHANGED <<world, row, money, log, job, pc, mem>>

\* BillingSession.Refund in its goroutine, which gives up after three attempts.
SessionRefund ==
    /\ request = "refunding"
    /\ \/ /\ request' = "released"
          /\ charged' = 0
          /\ record' = IF record = "consumed" THEN "refunded" ELSE record
          /\ event' = event
       \/ /\ request' = "lost"
          /\ UNCHANGED money
    /\ UNCHANGED <<world, row, log, job, pc, mem>>

\* The upstream's answer, after any number of attempts on any channel.
UpstreamAnswers ==
    /\ request = "calling"
    /\ \/ request' = "accepted" /\ upstream' = "running"
       \/ request' = "refused" /\ upstream' = upstream
    /\ UNCHANGED <<start, source, channel, row, money, log, job, pc, mem>>

\* completePersistentTaskSubmission and failPersistentTaskSubmission read the
\* row; both leave a row alone that is no longer submitting.
ReadSubmission ==
    /\ pc[Request] = "idle" /\ request \in {"accepted", "refused"}
    /\ IF row.bill = "SUBMITTING"
       THEN /\ Goto(Request, IF request = "accepted" THEN "complete" ELSE "fail", row)
            /\ request' = request
       ELSE /\ request' = IF request = "accepted" THEN "refused" ELSE "error"
            /\ UNCHANGED <<pc, mem>>
    /\ UNCHANGED <<world, row, money, log, job>>

CompleteSubmission(q) ==
    /\ pc[Request] = "complete"
    /\ request' = "ok"
    /\ IF source = "free"
       THEN q = 0 /\ Save(Request, [mem[Request] EXCEPT !.target = 0, !.bill = "SETTLED"], "idle")
       ELSE Save(Request, [mem[Request] EXCEPT !.target = q, !.bill = "SUBMIT_PENDING"], "apply")

\* Mutant: a failed submission is marked failed and its reservation kept.
FailSubmissionKeepsBill ==
    /\ pc[Request] = "fail"
    /\ request' = "error"
    /\ Save(Request, [mem[Request] EXCEPT !.status = "FAILURE", !.bill = "SUBMIT_PENDING"], "apply")

FailSubmission ==
    /\ pc[Request] = "fail"
    /\ request' = "error"
    /\ Save(Request, Failed(mem[Request]), "apply")

-----------------------------------------------------------------------------
(* runTaskPollingCycle, on each master node.                                *)

\* The part the queries of the sweep and of the polling loop share.
Unfinished == row.status \in Running /\ row.media = "" /\ ~row.full

\* Mutant: nobody looks for stale submissions, and the sweep skips them.
WantedNoStale(why) ==
    CASE why = "stale" -> FALSE
      [] why \in {"sweep", "poll"} -> Unfinished /\ row.bill # "SUBMITTING"
      [] why = "apply" -> row.bill \in {"SUBMIT_PENDING", "FINALIZE_PENDING"}

\* The rows each part of a cycle asks for: GetStaleSubmittingTaskBilling,
\* GetTimedOutUnfinishedTasks, GetAllUnFinishSyncTasks,
\* QueryPendingTaskBilling.
Wanted(why) ==
    CASE why = "stale" -> row.bill = "SUBMITTING"
      [] why = "sweep" -> TimeoutOn /\ Unfinished
      [] why = "poll"  -> Unfinished /\ row.bill # "SUBMITTING"
      [] why = "apply" -> row.bill \in {"SUBMIT_PENDING", "FINALIZE_PENDING"}

Load(p, why) ==
    /\ pc[p] = "idle" /\ row.bill # "NONE"
    /\ Wanted(why)
    /\ Goto(p, why, row)
    /\ UNCHANGED <<world, request, row, money, log, job>>

\* recoverPendingTaskBillingEvents.
LoadEvent(p) ==
    /\ pc[p] = "idle" /\ event.state = "pending"
    /\ Goto(p, "log", Absent)
    /\ UNCHANGED <<world, request, row, money, log, job>>

\* recoverStaleTaskSubmissions.
FailStale(p) == pc[p] = "stale" /\ Save(p, Failed(mem[p]), "apply") /\ UNCHANGED request

\* sweepTimedOutTasks; a task of the old system is failed without a refund.
TimeOut(p) ==
    /\ pc[p] = "sweep"
    /\ IF mem[p].bill = "LEGACY"
       THEN Save(p, [mem[p] EXCEPT !.status = "FAILURE", !.full = TRUE], "idle")
       ELSE Save(p, Failed(mem[p]), "apply")
    /\ UNCHANGED request

\* updateVideoTasks, updateSunoTasks: the channel is gone or cannot be read.
ChannelUnknown(p) ==
    /\ pc[p] = "poll"
    /\ Save(p, Failed(mem[p]), "apply")
    /\ UNCHANGED request

-----------------------------------------------------------------------------
(* What the upstream says of the task: updateVideoSingleTask,               *)
(* updateSunoTasks and tryRealtimeFetch.                                    *)

\* Mutant: a terminal task is asked for again.
LoadFetchAnyStatus(f) ==
    /\ pc[f] = "idle" /\ channel
    /\ row.bill \notin {"NONE", "SUBMITTING"} /\ row.media = ""
    /\ Goto(f, "fetch", row)
    /\ UNCHANGED <<world, request, row, money, log, job>>

\* videoFetchByIDRespBodyBuilder and the early returns of tryRealtimeFetch;
\* a submission that is not complete has no upstream id to ask for.
LoadFetch(f) ==
    /\ pc[f] = "idle" /\ channel
    /\ row.bill \notin {"NONE", "SUBMITTING"}
    /\ row.status \in Running /\ row.media = ""
    /\ Goto(f, "fetch", row)
    /\ UNCHANGED <<world, request, row, money, log, job>>

\* The polling loop stores the percentage the upstream reports, 100 too
\* (sanbao, and upstreams that answer in the format of this API); those of
\* Gemini and Vertex report 50.
Progress(a) ==
    /\ pc[a] \in {"poll", "fetch"} /\ upstream = "running"
    /\ \E full \in {FALSE, pc[a] = "poll"} :
            Save(a, [mem[a] EXCEPT !.status = "IN_PROGRESS", !.full = full], "idle")
    /\ UNCHANGED request

\* The result needs no transfer, or was uploaded on the spot.
Success(a, q) ==
    /\ pc[a] \in {"poll", "fetch"} /\ upstream = "done"
    /\ q \in Prices(mem[a])
    /\ Save(a, [Prepared(mem[a], q) EXCEPT !.status = "SUCCESS", !.full = TRUE], "apply")
    /\ UNCHANGED request

\* The upstream says FAILURE, or a 2xx body has no status and an error object
\* with another code than 429, whatever becomes of the generation.
PollFailure(p) ==
    /\ pc[p] = "poll"
    /\ Save(p, Failed(mem[p]), "apply")
    /\ UNCHANGED request

\* The realtime fetch does not even look at the HTTP status, and a Gemini or
\* Vertex error body parses as a failed task.
FetchFailure(f) ==
    /\ pc[f] = "fetch"
    /\ Save(f, Failed(mem[f]), "apply")
    /\ UNCHANGED request

\* EnqueueMediaTransferAndTask: task_record_id is unique, and the UPDATE looks
\* at status, bill and quota only.
Enqueue(p, q) ==
    LET m == mem[p]
        new == [Prepared(row, q) EXCEPT !.status = "IN_PROGRESS", !.media = "PENDING",
                                     !.full = FALSE]
    IN  /\ pc[p] = "poll" /\ upstream = "done" /\ MediaStorage
        /\ q \in Prices(m)
        /\ row.status = m.status /\ row.bill = m.bill /\ row.quota = m.quota
        /\ job = "none"
        /\ row' = new
        /\ job' = "queued"
        /\ Goto(p, "apply", new)
        /\ UNCHANGED <<world, request, money, log>>

\* Neither the job nor the upload works: MarkVideoMediaTransferPending on the
\* row as it was before billing was prepared.
KeepPending(p) ==
    /\ pc[p] = "poll" /\ upstream = "done" /\ MediaStorage
    /\ Save(p, [mem[p] EXCEPT !.status = "IN_PROGRESS", !.media = "PENDING",
                                     !.full = FALSE], "idle")
    /\ UNCHANGED request

\* Mutant: a completed transfer sends the bill back to be finalized.
CompleteTransferReopens(w) ==
    /\ pc[w] = "idle" /\ job = "queued"
    /\ row' = [row EXCEPT !.status = "SUCCESS", !.media = "READY", !.bill = "FINALIZE_PENDING"]
    /\ job' = "ready"
    /\ Goto(w, "apply", row')
    /\ UNCHANGED <<world, request, money, log>>

\* CompleteMediaTransfer by the holder of the lease.
CompleteTransfer(w) ==
    /\ pc[w] = "idle" /\ job = "queued"
    /\ row.status = "IN_PROGRESS" /\ row.media = "PENDING"
    /\ row' = [row EXCEPT !.status = "SUCCESS", !.media = "READY", !.full = TRUE]
    /\ job' = "ready"
    /\ Goto(w, IF row.bill = "FINALIZE_PENDING" THEN "apply" ELSE "idle", row')
    /\ UNCHANGED <<world, request, money, log>>

\* ScheduleMediaTransferRetry after the last attempt, RetryMediaTransferJob.
TransferFails ==
    /\ job = "queued" /\ row.media = "PENDING"
    /\ job' = "failed" /\ row' = [row EXCEPT !.media = "FAILED"]
    /\ UNCHANGED <<world, request, money, log, pc, mem>>

RetryTransfer ==
    /\ job = "failed" /\ row.media = "FAILED" /\ row.status = "IN_PROGRESS"
    /\ job' = "queued" /\ row' = [row EXCEPT !.media = "PENDING"]
    /\ UNCHANGED <<world, request, money, log, pc, mem>>

-----------------------------------------------------------------------------
(* The rest of the world.                                                   *)

UpstreamEnds ==
    /\ upstream = "running" /\ upstream' \in {"done", "failed"}
    /\ UNCHANGED <<start, source, channel, request, row, money, log, job, pc, mem>>

DeleteChannel ==
    /\ ChannelsGo /\ channel /\ row.bill # "NONE"
    /\ channel' = FALSE
    /\ UNCHANGED <<start, source, upstream, request, row, money, log, job, pc, mem>>

\* CleanupSubscriptionPreConsumeRecords, a week after the last change.
CleanupRecord ==
    /\ record # "none" /\ record' = "none"
    /\ UNCHANGED <<world, request, row, charged, event, log, job, pc, mem>>

\* A process dies between two statements.
Crash(a) ==
    /\ Goto(a, "idle", Absent)
    /\ request' = IF a # Request THEN request
                  ELSE CASE request = "new" -> "rejected"
                         [] request \in {"reserved", "refunding"} -> "lost"
                         [] request \in {"calling", "accepted", "refused"} -> "error"
                         [] OTHER -> request
    /\ UNCHANGED <<world, row, money, log, job>>

-----------------------------------------------------------------------------

Init ==
    /\ start \in Starts
    /\ source \in Sources
    /\ \/ /\ start = "new"
          /\ row = Absent /\ charged = 0 /\ request = "new" /\ upstream = "none"
       \/ /\ start = "legacy" /\ source # "free"
          /\ \E q \in Quotas :
                /\ row = [Absent EXCEPT !.bill = "LEGACY", !.quota = q]
                /\ charged = q
          /\ request = "ok" /\ upstream = "running"
    /\ record = "none"
    /\ event = [state |-> "none", logged |-> FALSE]
    /\ log = FALSE /\ job = "none" /\ channel = TRUE
    /\ pc = [a \in Actors |-> "idle"] /\ mem = [a \in Actors |-> Absent]

Submit ==
    \/ \E q \in Quotas \cup {0} : PreConsume(q) \/ CompleteSubmission(q)
    \/ PreConsumeRefused \/ InsertTask \/ InsertFails \/ SessionRefund
    \/ UpstreamAnswers \/ ReadSubmission \/ FailSubmission

Poll(p) ==
    \/ \E why \in {"stale", "sweep", "poll", "apply"} : Load(p, why)
    \/ LoadEvent(p) \/ FailStale(p) \/ TimeOut(p) \/ ChannelUnknown(p)
    \/ \E q \in Quotas \cup {0} : Enqueue(p, q)
    \/ KeepPending(p) \/ PollFailure(p) \/ Reschedule(p)

Observe(a) ==
    \/ Progress(a)
    \/ \E q \in Quotas \cup {0} : Success(a, q)

Transfer ==
    \/ \E w \in Workers : CompleteTransfer(w)
    \/ TransferFails \/ RetryTransfer

World == UpstreamEnds \/ DeleteChannel \/ CleanupRecord

Next ==
    \/ Submit
    \/ \E p \in Pollers : Poll(p)
    \/ \E f \in Fetchers : LoadFetch(f) \/ FetchFailure(f)
    \/ \E a \in Pollers \cup Fetchers : Observe(a)
    \/ Transfer
    \/ \E a \in Actors : Apply(a) \/ RecordLog(a) \/ MarkDelivered(a) \/ GiveUp(a) \/ Crash(a)
    \/ World

Spec == Init /\ [][Next]_vars

\* Every cycle of a polling loop goes through all its parts, and a database
\* that is asked again and again answers in the end.
Fairness ==
    \A p \in Pollers :
        /\ \A why \in {"stale", "sweep", "apply"} : SF_vars(Load(p, why))
        /\ SF_vars(LoadEvent(p)) /\ SF_vars(FailStale(p)) /\ SF_vars(TimeOut(p))
        /\ SF_vars(Apply(p)) /\ SF_vars(RecordLog(p)) /\ SF_vars(MarkDelivered(p))
        /\ WF_vars(GiveUp(p))

FairSpec == Spec /\ Fairness

-----------------------------------------------------------------------------
(* Properties.                                                              *)

Row == [status : Running \cup {"SUCCESS", "FAILURE"}, bill : Bills,
        quota : Nat, target : Nat, retry : Nat,
        media : {"", "PENDING", "FAILED", "READY"}, full : BOOLEAN]

\* Rows, copies and charges are well formed; no charge is ever negative.
TypeOK ==
    /\ start \in {"new", "legacy"} /\ source \in {"wallet", "subscription", "free"}
    /\ request \in {"new", "reserved", "refunding", "calling", "accepted", "refused",
                    "ok", "error", "rejected", "released", "lost"}
    /\ row \in Row /\ charged \in Nat
    /\ record \in {"none", "consumed", "refunded"}
    /\ event \in [state : {"none", "pending", "delivered"}, logged : BOOLEAN]
    /\ log \in BOOLEAN /\ channel \in BOOLEAN
    /\ job \in {"none", "queued", "failed", "ready"}
    /\ upstream \in {"none", "running", "done", "failed"}
    /\ pc \in [Actors -> {"idle", "complete", "fail", "stale", "sweep", "poll", "fetch",
                          "apply", "log", "mark"}]
    /\ mem \in [Actors -> Row]

\* Whatever interleaves, fails or crashes, the funding source has paid for the
\* task exactly what its row says (ApplyTaskBilling commits both together, and
\* every writer of the row is conditional on what it read).
ChargeMatchesRow == row.bill # "NONE" => charged = row.quota

\* A creating request that ended in an error leaves a task that was not
\* accepted by anyone: it is waiting for recovery, or failed with nothing to pay
\* (completePersistentTaskSubmission, failPersistentTaskSubmission, the
\* recovery of stale submissions and the timeout sweep race for the row).
ErrorNeverCharges ==
    request = "error" => row.bill = "SUBMITTING" \/ (row.status = "FAILURE" /\ row.target = 0)

\* A final bill agrees with the task's outcome: refunded exactly when the task
\* failed, and an event says so (the two are decided from an actor's copy).
BillMatchesOutcome ==
    /\ row.bill = "REFUNDED" => row.status = "FAILURE" /\ row.quota = 0
    /\ row.bill = "FINALIZE_PENDING" => event.state = "none"
    /\ event.state # "none" =>
        row.bill = (IF row.status = "FAILURE" THEN "REFUNDED" ELSE "SETTLED")

\* A billing event is marked delivered only after its log is in the log
\* database (deliverTaskBillingEvent, in two databases).
DeliveredIsLogged == event.state = "delivered" /\ event.logged => log

\* The billing machine of task.go keeps the promise of TaskCharge: one hold,
\* closed once, and nothing after that.
stage ==
    IF request \in {"new", "rejected"} THEN "none"
    ELSE IF request = "released" THEN "released"
    ELSE IF event.state = "none" THEN "held"
    ELSE IF row.bill = "REFUNDED" THEN "refunded"
    ELSE "settled"

C == INSTANCE TaskCharge WITH amount <- charged
ImplementsCharge == C!ChargeSpec

\* A task that reached the database is billed finally, and its event delivered,
\* however often actors crash (recoverStaleTaskSubmissions,
\* recoverPendingTaskBilling, sweepTimedOutTasks) -- unless it comes to rest in
\* the one place no query asks for: still running at 100% (GetAllUnFinishSyncTasks,
\* GetTimedOutUnfinishedTasks).
Stuck == row.status = "IN_PROGRESS" /\ row.full
EveryTaskIsBilled ==
    row.bill \notin {"NONE", "LEGACY"} ~> (event.state = "delivered" \/ []Stuck)

\* "If the process exits during submission, the stale SUBMITTING record can be
\* failed and refunded instead of leaving an untracked reservation"
\* (relay_task.go): a request that ended in an error is refunded in the end.
InterruptedIsRefunded == request = "error" ~> charged = 0

-----------------------------------------------------------------------------
(* Rules the comments of the code state and the code does not keep; README,  *)
(* "Where code and text disagree".                                           *)

\* "A failed transaction cannot leave a public task pending without a
\* recoverable job" (media_transfer_job.go).
PendingMediaHasJob == row.media = "PENDING" => job # "none"

\* "LEGACY is deliberately inert so migrations never replay historical task
\* charges or refunds" (task.go).
LegacyInert == [][start = "legacy" => charged' = charged]_vars
=============================================================================

--------------------------- MODULE MediaTransfer ----------------------------
(***************************************************************************)
(* The durable transfer of one generated video to the media storage:        *)
(* model/media_transfer_job.go (the job row, its lease and its conditional  *)
(* UPDATEs), service/media_transfer_worker.go (the workers of the master    *)
(* nodes) and the administrators' retry and manual replacement.             *)
(*                                                                          *)
(* A worker owns the job by a random lease token; it is written as the      *)
(* worker's name, because a worker has one claim at a time and compares     *)
(* tokens for equality only.  An input (source URL or uploaded file) and    *)
(* the URLs made from it are written as the input's number: 0 is what the   *)
(* upstream generated, the others come from administrators.                 *)
(***************************************************************************)
EXTENDS Integers

CONSTANTS
    Workers,
    NoWorker,       \* lease_token ''
    LeaseTime,      \* 120 seconds, in ticks of the clock
    Backoff,        \* mediaTransferBackoff: at least one tick
    MaxAttempts,    \* mediaTransferMaxAttempts
    MaxInput,       \* bound on administrators' replacements
    MaxClock        \* bound on the clock

ASSUME MediaAssumption ==
    /\ NoWorker \notin Workers
    /\ LeaseTime \in Nat \ {0} /\ Backoff \in Nat \ {0}
    /\ MaxAttempts \in Nat \ {0}
    /\ MaxInput \in Nat /\ MaxClock \in Nat

VARIABLES
    clock,
    job,            \* the row of the MediaTransferJob
    task,           \* media_transfer_state of its task (READY: also SUCCESS) and the result URL
    spool,          \* inputs whose file is complete in the spool directory
    pc, copy, now   \* each worker's place, its copy of the row, the time it claims with

vars == <<clock, job, task, spool, pc, copy, now>>

NoURL == -1
Queued == {"PENDING", "RETRY"}

-----------------------------------------------------------------------------
(* ClaimDueMediaTransfer.                                                   *)

Due(j, t) ==
    \/ j.status \in Queued /\ j.retryAt <= t
    \/ j.status = "PROCESSING" /\ j.lease <= t

Step(w, from, to) == pc[w] = from /\ pc' = [pc EXCEPT ![w] = to]

Select(w) ==
    /\ Due(job, clock)
    /\ Step(w, "idle", "claim")
    /\ copy' = [copy EXCEPT ![w] = job]
    /\ now' = [now EXCEPT ![w] = clock]
    /\ UNCHANGED <<clock, job, task, spool>>

\* The UPDATE repeats the condition of the SELECT.  The worker goes on with
\* the columns it selected, not with those it claimed.
Claim(w) ==
    LET lease(j) == [j EXCEPT !.status = "PROCESSING", !.token = w, !.lease = now[w] + LeaseTime]
    IN  /\ Due(job, now[w])
        /\ Step(w, "claim", "start")
        /\ job' = lease(job) /\ copy' = [copy EXCEPT ![w] = lease(@)]
        /\ UNCHANGED <<clock, task, spool, now>>

\* Nothing was claimed, a statement failed, or the process died.
Skip(w) ==
    /\ Step(w, "claim", "idle")
    /\ UNCHANGED <<clock, job, task, spool, copy, now>>

\* WHERE status = PROCESSING AND lease_token = ?
Owns(w) == job.status = "PROCESSING" /\ job.token = w

-----------------------------------------------------------------------------
(* transferMediaJob.  Any of its steps may fail and go to "failing".        *)

Working == {"start", "fetch", "save", "upload", "checkpoint", "verify", "publish"}

\* The goroutine of processMediaTransferJob that renews the lease.
Renew(w) ==
    /\ pc[w] \in Working \cup {"failing"} /\ Owns(w)
    /\ job' = [job EXCEPT !.lease = clock + LeaseTime]
    /\ UNCHANGED <<clock, task, spool, pc, copy, now>>

\* A URL that an earlier attempt checkpointed is verified first.
TryCandidate(w) ==
    /\ \/ copy[w].candidate # NoURL /\ Step(w, "start", "publish")
       \/ Step(w, "start", "fetch")
    /\ UNCHANGED <<clock, job, task, spool, copy, now>>

\* ensureMediaTransferFile: the spooled file, or a download that is renamed
\* when it is complete; an uploaded file cannot be downloaded again.
Fetch(w) ==
    /\ copy[w].input \in spool \/ ~copy[w].manual
    /\ Step(w, "fetch", "save")
    /\ spool' = spool \cup {copy[w].input}
    /\ UNCHANGED <<clock, job, task, copy, now>>

SaveFile(w) ==
    /\ Owns(w)
    /\ Step(w, "save", "upload")
    /\ UNCHANGED <<clock, job, task, spool, copy, now>>

Upload(w) ==
    /\ copy[w].input \in spool
    /\ Step(w, "upload", "checkpoint")
    /\ copy' = [copy EXCEPT ![w].candidate = copy[w].input]
    /\ UNCHANGED <<clock, job, task, spool, now>>

SaveCandidate(w) ==
    /\ Owns(w)
    /\ Step(w, "checkpoint", "verify")
    /\ job' = [job EXCEPT !.candidate = copy[w].candidate]
    /\ UNCHANGED <<clock, task, spool, copy, now>>

\* The URL answers with a video, or the next storage provider is tried.
Verify(w) ==
    /\ \E to \in {"publish", "upload"} : Step(w, "verify", to)
    /\ UNCHANGED <<clock, job, task, spool, copy, now>>

\* Mutant: a worker that lost its lease may still publish.
CompleteUnleased(w) ==
    /\ Step(w, "publish", "cleanup")
    /\ job' = [job EXCEPT !.status = "READY", !.token = NoWorker, !.lease = 0, !.candidate = NoURL]
    /\ task' = [media |-> "READY", url |-> copy[w].candidate]
    /\ UNCHANGED <<clock, spool, copy, now>>

\* CompleteMediaTransfer.
Complete(w) ==
    /\ Owns(w) /\ task.media = "PENDING"
    /\ Step(w, "publish", "cleanup")
    /\ job' = [job EXCEPT !.status = "READY", !.token = NoWorker, !.lease = 0, !.candidate = NoURL]
    /\ task' = [media |-> "READY", url |-> copy[w].candidate]
    /\ UNCHANGED <<clock, spool, copy, now>>

\* os.Remove of the spooled file.
Cleanup(w) ==
    /\ Step(w, "cleanup", "idle")
    /\ spool' = spool \ {copy[w].input}
    /\ UNCHANGED <<clock, job, task, copy, now>>

Fails(w) ==
    /\ pc[w] \in Working /\ pc' = [pc EXCEPT ![w] = "failing"]
    /\ UNCHANGED <<clock, job, task, spool, copy, now>>

\* Mutant: the file of a failed attempt is thrown away.
RetryRemovesFile(w) ==
    /\ Owns(w)
    /\ Step(w, "failing", "idle")
    /\ job' = [job EXCEPT !.status = "RETRY", !.attempts = @ + 1, !.retryAt = clock + Backoff,
                          !.lease = 0, !.token = NoWorker]
    /\ spool' = spool \ {copy[w].input}
    /\ UNCHANGED <<clock, task, copy, now>>

\* Mutant: off by one at the last attempt.
RetryOnceMore(w) ==
    LET failed == copy[w].attempts >= MaxAttempts
    IN  /\ Owns(w)
        /\ failed => task.media = "PENDING"
        /\ Step(w, "failing", "idle")
        /\ job' = [job EXCEPT !.status = IF failed THEN "FAILED" ELSE "RETRY",
                              !.attempts = @ + 1, !.retryAt = clock + Backoff,
                              !.lease = 0, !.token = NoWorker]
        /\ task' = IF failed THEN [task EXCEPT !.media = "FAILED"] ELSE task
        /\ UNCHANGED <<clock, spool, copy, now>>

\* Mutant: the row counts the attempts that are left.
RetryCountsDown(w) ==
    /\ Owns(w)
    /\ Step(w, "failing", "idle")
    /\ job' = [job EXCEPT !.status = "RETRY", !.attempts = @ - 1, !.retryAt = clock + Backoff,
                          !.lease = 0, !.token = NoWorker]
    /\ UNCHANGED <<clock, task, spool, copy, now>>

\* ScheduleMediaTransferRetry; whether this was the last attempt is decided on
\* the worker's copy, the row counts for itself.
ScheduleRetry(w) ==
    LET failed == copy[w].attempts + 1 >= MaxAttempts
    IN  /\ Owns(w)
        /\ failed => task.media = "PENDING"
        /\ Step(w, "failing", "idle")
        /\ job' = [job EXCEPT !.status = IF failed THEN "FAILED" ELSE "RETRY",
                              !.attempts = @ + 1, !.retryAt = clock + Backoff,
                              !.lease = 0, !.token = NoWorker]
        /\ task' = IF failed THEN [task EXCEPT !.media = "FAILED"] ELSE task
        /\ UNCHANGED <<clock, spool, copy, now>>

\* Its UPDATE matches nothing or fails, or the process dies: the lease is left.
Abandon(w) ==
    /\ pc[w] \notin {"idle", "claim"} /\ pc' = [pc EXCEPT ![w] = "idle"]
    /\ UNCHANGED <<clock, job, task, spool, copy, now>>

-----------------------------------------------------------------------------
(* Administrators.                                                          *)

\* The task of a failed job is FAILED, of a job waiting for a retry PENDING.
Requeueable ==
    /\ job.status \in {"FAILED", "RETRY"}
    /\ task.media = IF job.status = "FAILED" THEN "FAILED" ELSE "PENDING"

Requeued == [job EXCEPT !.status = "PENDING", !.attempts = 0, !.retryAt = clock,
                        !.lease = 0, !.token = NoWorker]

\* Mutant: the task's side of a manual retry is forgotten.
RetryJobOnly ==
    /\ Requeueable
    /\ job' = Requeued
    /\ UNCHANGED <<clock, task, spool, pc, copy, now>>

\* RetryMediaTransferJob.
RetryJob ==
    /\ Requeueable
    /\ job' = Requeued
    /\ task' = [task EXCEPT !.media = "PENDING"]
    /\ UNCHANGED <<clock, spool, pc, copy, now>>

\* QueueManualMediaTransfer stages an uploaded file under a new name; a URL
\* only gets a name.
Staged(manual) == IF manual THEN spool \cup {job.input + 1} ELSE spool

\* ReplaceMediaTransferInput.
ReplaceInput(manual) ==
    /\ Requeueable /\ job.input < MaxInput
    /\ job' = [Requeued EXCEPT !.input = @ + 1, !.manual = manual, !.candidate = NoURL]
    /\ task' = [task EXCEPT !.media = "PENDING"]
    /\ spool' = Staged(manual)
    /\ UNCHANGED <<clock, pc, copy, now>>

Tick ==
    /\ clock < MaxClock /\ clock' = clock + 1
    /\ UNCHANGED <<job, task, spool, pc, copy, now>>

-----------------------------------------------------------------------------

\* EnqueueMediaTransferAndTask has committed.
NewJob == [status |-> "PENDING", attempts |-> 0, retryAt |-> 0, lease |-> 0,
           token |-> NoWorker, input |-> 0, manual |-> FALSE, candidate |-> NoURL]

Init ==
    /\ clock = 0 /\ job = NewJob
    /\ task = [media |-> "PENDING", url |-> NoURL]
    /\ spool = {}
    /\ pc = [w \in Workers |-> "idle"]
    /\ copy = [w \in Workers |-> NewJob]
    /\ now = [w \in Workers |-> 0]

Work(w) ==
    \/ Select(w) \/ Claim(w) \/ Skip(w) \/ Renew(w)
    \/ TryCandidate(w) \/ Fetch(w) \/ SaveFile(w) \/ Upload(w) \/ SaveCandidate(w)
    \/ Verify(w) \/ Complete(w) \/ Cleanup(w)
    \/ Fails(w) \/ ScheduleRetry(w) \/ Abandon(w)

Next ==
    \/ \E w \in Workers : Work(w)
    \/ RetryJob
    \/ \E manual \in BOOLEAN : ReplaceInput(manual)
    \/ Tick

Spec == Init /\ [][Next]_vars

-----------------------------------------------------------------------------
(* Properties.                                                              *)

Inputs == 0..MaxInput
Job == [status : {"PENDING", "RETRY", "PROCESSING", "READY", "FAILED"},
        attempts : Nat, retryAt : Nat, lease : Nat, token : Workers \cup {NoWorker},
        input : Inputs, manual : BOOLEAN, candidate : Inputs \cup {NoURL}]

\* The row and every copy of it are well formed.
TypeOK ==
    /\ clock \in Nat
    /\ job \in Job /\ copy \in [Workers -> Job]
    /\ task \in [media : {"PENDING", "READY", "FAILED"}, url : Inputs \cup {NoURL}]
    /\ spool \subseteq Inputs
    /\ pc \in [Workers -> Working \cup {"idle", "claim", "cleanup", "failing"}]
    /\ now \in [Workers -> Nat]

\* Job and task always tell the same story, whoever lost a lease or retried by
\* hand in the meantime: a result is published with the job's READY, a failure
\* shown with its FAILED, and a task that waits has a job that will run
\* (CompleteMediaTransfer, ScheduleMediaTransferRetry, RetryMediaTransferJob).
JobMatchesTask ==
    /\ job.status = "READY" <=> task.media = "READY"
    /\ job.status = "FAILED" <=> task.media = "FAILED"
    /\ task.media = "READY" <=> task.url # NoURL

\* A published result is never withdrawn or replaced, although workers with an
\* expired lease go on working (CompleteMediaTransfer).
ResultIsFinal == [][task.media = "READY" => UNCHANGED task]_vars

\* A job in the queue has an attempt left, although the last attempt is
\* recognised on a worker's copy and counted in the row
\* (processMediaTransferJob, ScheduleMediaTransferRetry).
AttemptsBounded ==
    /\ job.attempts <= MaxAttempts
    /\ job.status \in Queued \cup {"PROCESSING"} => job.attempts < MaxAttempts

\* The file an administrator uploaded stays in the spool until its job is done:
\* no attempt can get it a second time (ensureMediaTransferFile, os.Remove
\* after completion).
ManualFileKept == job.manual /\ job.status # "READY" => job.input \in spool

-----------------------------------------------------------------------------
(* A rule a comment of the code states and the code does not keep; README,   *)
(* "Where code and text disagree".                                           *)

\* "A new spool name prevents an older download from being reused. The status
\* CAS excludes workers and other administrators" (ReplaceMediaTransferInput):
\* what is published was made from the input the operator supplied.
PublishedIsCurrent == task.media = "READY" => task.url = job.input
=============================================================================

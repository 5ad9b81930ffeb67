------------------------ MODULE MediaTransfer_proofs ------------------------
(***************************************************************************)
(* The invariants of MediaTransfer for any number of workers, attempts and  *)
(* replacements.  What the job promises rests on what a worker's copy of    *)
(* the row is worth: CopyCounts says that the row has not counted more       *)
(* attempts than the copy of a worker that owns it, or that could still     *)
(* claim it with the time it selected with.                                 *)
(***************************************************************************)
EXTENDS MediaTransfer, TLAPS

\* The time a worker claims with is not in the future.
ClaimsInPast == \A w \in Workers : now[w] <= clock

\* A worker that is about to record a URL has uploaded a file.
HasCandidate == \A w \in Workers :
    pc[w] \in {"checkpoint", "verify", "publish"} => copy[w].candidate # NoURL

\* A worker removes its file only when the job is done.
CleansUpReady == \A w \in Workers : pc[w] = "cleanup" => job.status = "READY"

CopyCounts == \A w \in Workers :
    /\ pc[w] = "claim" /\ Due(job, now[w]) => job.attempts <= copy[w].attempts
    /\ pc[w] \in Working \cup {"failing"} /\ Owns(w) => job.attempts <= copy[w].attempts

IInv == /\ TypeOK /\ JobMatchesTask /\ AttemptsBounded /\ ManualFileKept
        /\ ClaimsInPast /\ HasCandidate /\ CleansUpReady /\ CopyCounts
-----------------------------------------------------------------------------

\* The invariant holds when the job has just been enqueued.
LEMMA MediaInit == Init => IInv
<1> SUFFICES ASSUME Init PROVE IInv
  OBVIOUS
<1> USE MediaAssumption DEF Init, NewJob, NoURL
<1>1. TypeOK
  BY DEF TypeOK, Job, Inputs
<1>2. JobMatchesTask /\ AttemptsBounded /\ ManualFileKept
  BY DEF JobMatchesTask, AttemptsBounded, ManualFileKept, Queued
<1>3. ClaimsInPast /\ HasCandidate /\ CleansUpReady /\ CopyCounts
  BY DEF ClaimsInPast, HasCandidate, CleansUpReady, CopyCounts, Working
<1> QED
  BY <1>1, <1>2, <1>3 DEF IInv

\* A selected row is due, and the copy is the row.
LEMMA SelectKeeps ==
  ASSUME IInv, NEW w \in Workers, Select(w)
  PROVE  IInv'
<1> USE MediaAssumption DEF IInv, Select, Step
<1>1. TypeOK'
  BY DEF TypeOK, Job, Inputs, Working, NoURL
<1>2. JobMatchesTask'
  BY DEF JobMatchesTask, TypeOK, Job
<1>3. AttemptsBounded'
  BY DEF AttemptsBounded, Queued, CopyCounts, TypeOK, Job
<1>4. ManualFileKept'
  BY DEF ManualFileKept, CleansUpReady, TypeOK, Job
<1>5. ClaimsInPast'
  BY DEF ClaimsInPast, TypeOK
<1>6. HasCandidate'
  BY DEF HasCandidate, TypeOK, NoURL
<1>7. CleansUpReady'
  BY DEF CleansUpReady, TypeOK, Job
<1>8. CopyCounts'
  BY DEF CopyCounts, Working, TypeOK, Job, Due, Owns
<1> QED
  BY <1>1, <1>2, <1>3, <1>4, <1>5, <1>6, <1>7, <1>8

\* A worker that may still claim has a copy that is not behind the row.
LEMMA ClaimKeeps ==
  ASSUME IInv, NEW w \in Workers, Claim(w)
  PROVE  IInv'
<1> USE MediaAssumption DEF IInv, Claim, Step, Due, Queued
<1>1. TypeOK'
  <2>1. now[w] + LeaseTime \in Nat
    BY DEF TypeOK
  <2>2. job' \in Job
    BY <2>1 DEF TypeOK, Job
  <2> DEFINE claimed == [copy[w] EXCEPT !.status = "PROCESSING", !.token = w,
                                         !.lease = now[w] + LeaseTime]
  <2>3. copy[w] \in Job /\ copy' = [copy EXCEPT ![w] = claimed]
    BY DEF TypeOK
  <2>4. claimed \in Job
    BY <2>1, <2>3 DEF Job
  <2> HIDE DEF claimed
  <2>5. copy' \in [Workers -> Job]
    BY <2>3, <2>4 DEF TypeOK
  <2> QED
    BY <2>2, <2>5 DEF TypeOK, Working
<1>2. JobMatchesTask'
  BY DEF JobMatchesTask, TypeOK, Job
<1>3. AttemptsBounded'
  BY DEF AttemptsBounded, Queued, CopyCounts, TypeOK, Job
<1>4. ManualFileKept'
  BY DEF ManualFileKept, CleansUpReady, TypeOK, Job
<1>5. ClaimsInPast'
  BY DEF ClaimsInPast, TypeOK
<1>6. HasCandidate'
  BY DEF HasCandidate, TypeOK
<1>7. CleansUpReady'
  BY DEF CleansUpReady, TypeOK, Job
<1>8. CopyCounts'
  BY DEF CopyCounts, Working, TypeOK, Job, Owns, ClaimsInPast
<1> QED
  BY <1>1, <1>2, <1>3, <1>4, <1>5, <1>6, <1>7, <1>8

\* Renewing moves the lease past every time a worker selected with.
LEMMA RenewKeeps ==
  ASSUME IInv, NEW w \in Workers, Renew(w)
  PROVE  IInv'
<1> USE MediaAssumption DEF IInv, Renew, Owns
<1>1. TypeOK'
  BY DEF TypeOK, Job, Inputs, Working, NoURL
<1>2. JobMatchesTask'
  BY DEF JobMatchesTask, TypeOK, Job
<1>3. AttemptsBounded'
  BY DEF AttemptsBounded, Queued, CopyCounts, TypeOK, Job
<1>4. ManualFileKept'
  BY DEF ManualFileKept, CleansUpReady, TypeOK, Job
<1>5. ClaimsInPast'
  BY DEF ClaimsInPast, TypeOK
<1>6. HasCandidate'
  BY DEF HasCandidate, TypeOK
<1>7. CleansUpReady'
  BY DEF CleansUpReady, TypeOK, Job
<1>8. CopyCounts'
  BY DEF CopyCounts, Working, TypeOK, Job, Due, Queued, ClaimsInPast
<1> QED
  BY <1>1, <1>2, <1>3, <1>4, <1>5, <1>6, <1>7, <1>8

\* Steps that only move a worker.
LEMMA LocalKeeps ==
  ASSUME IInv, NEW w \in Workers,
         Skip(w) \/ TryCandidate(w) \/ SaveFile(w) \/ Verify(w) \/ Fails(w) \/ Abandon(w)
  PROVE  IInv'
<1> USE MediaAssumption DEF IInv, Skip, TryCandidate, SaveFile, Verify, Fails, Abandon, Step, Working
<1>1. TypeOK'
  BY DEF TypeOK, Job, Inputs, Working, NoURL
<1>2. JobMatchesTask'
  BY DEF JobMatchesTask, TypeOK, Job
<1>3. AttemptsBounded'
  BY DEF AttemptsBounded, Queued, CopyCounts, TypeOK, Job
<1>4. ManualFileKept'
  BY DEF ManualFileKept, CleansUpReady, TypeOK, Job
<1>5. ClaimsInPast'
  BY DEF ClaimsInPast, TypeOK
<1>6. HasCandidate'
  BY DEF HasCandidate, TypeOK
<1>7. CleansUpReady'
  BY DEF CleansUpReady, TypeOK, Job
<1>8. CopyCounts'
  BY DEF CopyCounts, Working, TypeOK, Job, Due, Owns
<1> QED
  BY <1>1, <1>2, <1>3, <1>4, <1>5, <1>6, <1>7, <1>8

\* A file is added to the spool.
LEMMA FetchKeeps ==
  ASSUME IInv, NEW w \in Workers, Fetch(w)
  PROVE  IInv'
<1> USE MediaAssumption DEF IInv, Fetch, Step
<1>1. TypeOK'
  BY DEF TypeOK, Job, Inputs, Working, NoURL
<1>2. JobMatchesTask'
  BY DEF JobMatchesTask, TypeOK, Job
<1>3. AttemptsBounded'
  BY DEF AttemptsBounded, Queued, CopyCounts, TypeOK, Job
<1>4. ManualFileKept'
  BY DEF ManualFileKept, CleansUpReady, TypeOK, Job
<1>5. ClaimsInPast'
  BY DEF ClaimsInPast, TypeOK
<1>6. HasCandidate'
  BY DEF HasCandidate, TypeOK
<1>7. CleansUpReady'
  BY DEF CleansUpReady, TypeOK, Job
<1>8. CopyCounts'
  BY DEF CopyCounts, Working, TypeOK, Job, Due, Owns
<1> QED
  BY <1>1, <1>2, <1>3, <1>4, <1>5, <1>6, <1>7, <1>8

\* An upload gives the copy a candidate.
LEMMA UploadKeeps ==
  ASSUME IInv, NEW w \in Workers, Upload(w)
  PROVE  IInv'
<1> USE MediaAssumption DEF IInv, Upload, Step
<1>1. TypeOK'
  BY DEF TypeOK, Job, Inputs, Working, NoURL
<1>2. JobMatchesTask'
  BY DEF JobMatchesTask, TypeOK, Job
<1>3. AttemptsBounded'
  BY DEF AttemptsBounded, Queued, CopyCounts, TypeOK, Job
<1>4. ManualFileKept'
  BY DEF ManualFileKept, CleansUpReady, TypeOK, Job
<1>5. ClaimsInPast'
  BY DEF ClaimsInPast, TypeOK
<1>6. HasCandidate'
  BY DEF HasCandidate, TypeOK, NoURL, Job, Inputs
<1>7. CleansUpReady'
  BY DEF CleansUpReady, TypeOK, Job
<1>8. CopyCounts'
  BY DEF CopyCounts, Working, TypeOK, Job, Due, Owns
<1> QED
  BY <1>1, <1>2, <1>3, <1>4, <1>5, <1>6, <1>7, <1>8

\* The candidate is written to the row.
LEMMA SaveCandidateKeeps ==
  ASSUME IInv, NEW w \in Workers, SaveCandidate(w)
  PROVE  IInv'
<1> USE MediaAssumption DEF IInv, SaveCandidate, Step
<1>1. TypeOK'
  BY DEF TypeOK, Job, Inputs, Working, NoURL
<1>2. JobMatchesTask'
  BY DEF JobMatchesTask, TypeOK, Job
<1>3. AttemptsBounded'
  BY DEF AttemptsBounded, Queued, CopyCounts, TypeOK, Job
<1>4. ManualFileKept'
  BY DEF ManualFileKept, CleansUpReady, TypeOK, Job
<1>5. ClaimsInPast'
  BY DEF ClaimsInPast, TypeOK
<1>6. HasCandidate'
  BY DEF HasCandidate, TypeOK
<1>7. CleansUpReady'
  BY DEF CleansUpReady, TypeOK, Job
<1>8. CopyCounts'
  BY DEF CopyCounts, Working, TypeOK, Job, Due, Owns
<1> QED
  BY <1>1, <1>2, <1>3, <1>4, <1>5, <1>6, <1>7, <1>8

\* Job and task are done together, with the candidate of the worker.
LEMMA CompleteKeeps ==
  ASSUME IInv, NEW w \in Workers, Complete(w)
  PROVE  IInv'
<1> USE MediaAssumption DEF IInv, Complete, Step, Owns
<1>1. TypeOK'
  BY DEF TypeOK, Job, Inputs, Working, NoURL
<1>2. JobMatchesTask'
  BY DEF JobMatchesTask, TypeOK, Job, HasCandidate
<1>3. AttemptsBounded'
  BY DEF AttemptsBounded, Queued, CopyCounts, TypeOK, Job
<1>4. ManualFileKept'
  BY DEF ManualFileKept, CleansUpReady, TypeOK, Job
<1>5. ClaimsInPast'
  BY DEF ClaimsInPast, TypeOK
<1>6. HasCandidate'
  BY DEF HasCandidate, TypeOK
<1>7. CleansUpReady'
  BY DEF CleansUpReady, TypeOK, Job
<1>8. CopyCounts'
  BY DEF CopyCounts, Working, TypeOK, Job, Due, Queued
<1> QED
  BY <1>1, <1>2, <1>3, <1>4, <1>5, <1>6, <1>7, <1>8

\* The job of a file that is removed is done.
LEMMA CleanupKeeps ==
  ASSUME IInv, NEW w \in Workers, Cleanup(w)
  PROVE  IInv'
<1> USE MediaAssumption DEF IInv, Cleanup, Step
<1>1. TypeOK'
  BY DEF TypeOK, Job, Inputs, Working, NoURL
<1>2. JobMatchesTask'
  BY DEF JobMatchesTask, TypeOK, Job
<1>3. AttemptsBounded'
  BY DEF AttemptsBounded, Queued, CopyCounts, TypeOK, Job
<1>4. ManualFileKept'
  BY DEF ManualFileKept, CleansUpReady, TypeOK, Job
<1>5. ClaimsInPast'
  BY DEF ClaimsInPast, TypeOK
<1>6. HasCandidate'
  BY DEF HasCandidate, TypeOK
<1>7. CleansUpReady'
  BY DEF CleansUpReady, TypeOK, Job
<1>8. CopyCounts'
  BY DEF CopyCounts, Working, TypeOK, Job, Due, Owns
<1> QED
  BY <1>1, <1>2, <1>3, <1>4, <1>5, <1>6, <1>7, <1>8

\* The row counts at most one attempt more than the copy, and is due later
\* than every time a worker selected with.
LEMMA ScheduleRetryKeeps ==
  ASSUME IInv, NEW w \in Workers, ScheduleRetry(w)
  PROVE  IInv'
<1> USE MediaAssumption DEF IInv, ScheduleRetry, Step, Owns
<1>1. TypeOK'
  <2>1. clock + Backoff \in Nat /\ job.attempts + 1 \in Nat
    BY DEF TypeOK, Job
  <2>2. job' \in Job
    BY <2>1 DEF TypeOK, Job
  <2>3. task' \in [media : {"PENDING", "READY", "FAILED"}, url : Inputs \cup {NoURL}]
    BY DEF TypeOK
  <2> QED
    BY <2>2, <2>3 DEF TypeOK
<1>2. JobMatchesTask'
  BY DEF JobMatchesTask, TypeOK, Job
<1>3. AttemptsBounded'
  BY DEF AttemptsBounded, Queued, CopyCounts, TypeOK, Job, Working
<1>4. ManualFileKept'
  BY DEF ManualFileKept, CleansUpReady, TypeOK, Job
<1>5. ClaimsInPast'
  BY DEF ClaimsInPast, TypeOK
<1>6. HasCandidate'
  BY DEF HasCandidate, TypeOK
<1>7. CleansUpReady'
  BY DEF CleansUpReady, TypeOK, Job
<1>8. CopyCounts'
  <2>1. job'.status \in {"RETRY", "FAILED"} /\ job'.retryAt = clock + Backoff
    BY DEF TypeOK, Job
  <2>2. copy' = copy /\ now' = now
    OBVIOUS
  <2>3. ASSUME NEW v \in Workers PROVE ~Due(job', now'[v]) /\ ~(Owns(v)')
    <3>1. clock + Backoff \in Nat /\ now[v] \in Nat /\ now[v] < clock + Backoff
      BY DEF ClaimsInPast, TypeOK
    <3>2. ~Due(job', now[v])
      BY <2>1, <3>1 DEF Due, Queued
    <3>3. ~(Owns(v)')
      BY <2>1
    <3> QED
      BY <2>2, <3>2, <3>3
  <2> QED
    BY <2>3 DEF CopyCounts, Due
<1> QED
  BY <1>1, <1>2, <1>3, <1>4, <1>5, <1>6, <1>7, <1>8

\* A requeued job starts at no attempts, with its input.
LEMMA RetryJobKeeps ==
  ASSUME IInv, RetryJob
  PROVE  IInv'
<1> USE MediaAssumption DEF IInv, RetryJob, Requeueable, Requeued
<1>1. TypeOK'
  BY DEF TypeOK, Job, Inputs, Working, NoURL
<1>2. JobMatchesTask'
  BY DEF JobMatchesTask, TypeOK, Job
<1>3. AttemptsBounded'
  BY DEF AttemptsBounded, Queued, CopyCounts, TypeOK, Job
<1>4. ManualFileKept'
  BY DEF ManualFileKept, CleansUpReady, TypeOK, Job
<1>5. ClaimsInPast'
  BY DEF ClaimsInPast, TypeOK
<1>6. HasCandidate'
  BY DEF HasCandidate, TypeOK
<1>7. CleansUpReady'
  BY DEF CleansUpReady, TypeOK, Job
<1>8. CopyCounts'
  BY DEF CopyCounts, Working, TypeOK, Job, Due, Queued, Owns
<1> QED
  BY <1>1, <1>2, <1>3, <1>4, <1>5, <1>6, <1>7, <1>8

\* A replaced input is in the spool when it is a file.
LEMMA ReplaceInputKeeps ==
  ASSUME IInv, NEW manual \in BOOLEAN, ReplaceInput(manual)
  PROVE  IInv'
<1> USE MediaAssumption DEF IInv, ReplaceInput, Staged, Requeueable, Requeued
<1>1. TypeOK'
  <2>1. job.input + 1 \in Inputs /\ clock \in Nat
    BY DEF TypeOK, Job, Inputs
  <2>2. Requeued \in Job
    BY DEF TypeOK, Job
  <2>3. job' \in Job
    BY <2>1, <2>2 DEF TypeOK, Job
  <2>4. task' \in [media : {"PENDING", "READY", "FAILED"}, url : Inputs \cup {NoURL}]
    BY DEF TypeOK
  <2> QED
    BY <2>1, <2>3, <2>4 DEF TypeOK
<1>2. JobMatchesTask'
  BY DEF JobMatchesTask, TypeOK, Job
<1>3. AttemptsBounded'
  BY DEF AttemptsBounded, Queued, CopyCounts, TypeOK, Job
<1>4. ManualFileKept'
  BY DEF ManualFileKept, CleansUpReady, TypeOK, Job
<1>5. ClaimsInPast'
  BY DEF ClaimsInPast, TypeOK
<1>6. HasCandidate'
  BY DEF HasCandidate, TypeOK
<1>7. CleansUpReady'
  BY DEF CleansUpReady, TypeOK, Job
<1>8. CopyCounts'
  BY DEF CopyCounts, Working, TypeOK, Job, Due, Queued, Owns
<1> QED
  BY <1>1, <1>2, <1>3, <1>4, <1>5, <1>6, <1>7, <1>8

\* Time passes.
LEMMA TickKeeps ==
  ASSUME IInv, Tick
  PROVE  IInv'
<1> USE MediaAssumption DEF IInv, Tick
<1>1. TypeOK'
  BY DEF TypeOK, Job, Inputs, Working, NoURL
<1>2. JobMatchesTask'
  BY DEF JobMatchesTask, TypeOK, Job
<1>3. AttemptsBounded'
  BY DEF AttemptsBounded, Queued, CopyCounts, TypeOK, Job
<1>4. ManualFileKept'
  BY DEF ManualFileKept, CleansUpReady, TypeOK, Job
<1>5. ClaimsInPast'
  BY DEF ClaimsInPast, TypeOK
<1>6. HasCandidate'
  BY DEF HasCandidate, TypeOK
<1>7. CleansUpReady'
  BY DEF CleansUpReady, TypeOK, Job
<1>8. CopyCounts'
  BY DEF CopyCounts, Working, TypeOK, Job, Due, Owns
<1> QED
  BY <1>1, <1>2, <1>3, <1>4, <1>5, <1>6, <1>7, <1>8

\* Every step keeps the invariant: one lemma per action.
LEMMA MediaNext == IInv /\ [Next]_vars => IInv'
<1> SUFFICES ASSUME IInv, [Next]_vars PROVE IInv'
  OBVIOUS
<1>1. CASE \E w \in Workers : Work(w)
  BY <1>1, SelectKeeps, ClaimKeeps, RenewKeeps, LocalKeeps, FetchKeeps, UploadKeeps,
     SaveCandidateKeeps, CompleteKeeps, CleanupKeeps, ScheduleRetryKeeps DEF Work
<1>2. CASE RetryJob
  BY <1>2, RetryJobKeeps
<1>3. CASE \E manual \in BOOLEAN : ReplaceInput(manual)
  BY <1>3, ReplaceInputKeeps
<1>4. CASE Tick
  BY <1>4, TickKeeps
<1>5. CASE UNCHANGED vars
  BY <1>5 DEF vars, IInv, TypeOK, JobMatchesTask, AttemptsBounded, ManualFileKept, ClaimsInPast,
              HasCandidate, CleansUpReady, CopyCounts, Due, Owns
<1> QED
  BY <1>1, <1>2, <1>3, <1>4, <1>5 DEF Next

\* The inductive invariant holds always.
LEMMA MediaInv == Spec => []IInv
<1> QED
  BY MediaInit, MediaNext, PTL DEF Spec

\* The row and every copy a worker holds of it stay well formed.
THEOREM MediaTypeOK == Spec => []TypeOK
<1>1. IInv => TypeOK
  BY DEF IInv
<1> QED
  BY <1>1, MediaInv, PTL

\* Job and task agree in every state, for any number of workers whose leases
\* expire at any time and for any number of manual retries.
THEOREM MediaJobMatchesTask == Spec => []JobMatchesTask
<1>1. IInv => JobMatchesTask
  BY DEF IInv
<1> QED
  BY <1>1, MediaInv, PTL

\* No job is queued or worked on without an attempt left, although the last
\* attempt is recognised on a copy that may be older than the row.
THEOREM MediaAttemptsBounded == Spec => []AttemptsBounded
<1>1. IInv => AttemptsBounded
  BY DEF IInv
<1> QED
  BY <1>1, MediaInv, PTL

\* An uploaded file is in the spool until its job is done.
THEOREM MediaManualFileKept == Spec => []ManualFileKept
<1>1. IInv => ManualFileKept
  BY DEF IInv
<1> QED
  BY <1>1, MediaInv, PTL

\* A step that changes a published result does not exist.
THEOREM MediaResultIsFinal == Spec => ResultIsFinal
<1>1. [Next]_vars => [task.media = "READY" => UNCHANGED task]_vars
  <2> SUFFICES ASSUME Next, task.media = "READY" PROVE UNCHANGED task
    BY DEF vars
  <2>1. CASE \E w \in Workers : Work(w)
    BY <2>1 DEF Work, Select, Claim, Skip, Renew, TryCandidate, Fetch, SaveFile, Upload,
                SaveCandidate, Verify, Complete, Cleanup, Fails, ScheduleRetry, Abandon
  <2>2. CASE RetryJob \/ (\E manual \in BOOLEAN : ReplaceInput(manual)) \/ Tick
    BY <2>2 DEF RetryJob, ReplaceInput, Requeueable, Tick
  <2> QED
    BY <2>1, <2>2 DEF Next
<1> QED
  BY <1>1, PTL DEF Spec, ResultIsFinal
=============================================================================

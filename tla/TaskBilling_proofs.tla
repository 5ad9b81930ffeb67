------------------------ MODULE TaskBilling_proofs --------------------------
(***************************************************************************)
(* Proofs about TaskBilling for every set of polling loops, realtime        *)
(* fetches and media workers, all prices and both kinds of tasks.           *)
(***************************************************************************)
EXTENDS TaskBilling, TLAPS

-----------------------------------------------------------------------------
(* The inductive invariant.                                                 *)

\* The request has not written the row of the task, and never will after
\* "rejected", "released" and "lost".
Early == {"new", "rejected", "reserved", "refunding", "released", "lost"}

\* The row and the request: who may still move the money, and how a submission
\* that nobody accepted looks.
Recorded ==
    /\ request \in Early <=> row.bill = "NONE"
    /\ row.bill # "NONE" => charged = row.quota
    /\ row.bill = "SUBMITTING" => row.status = "NOT_START" /\ row.media = ""
    /\ request \in {"calling", "accepted", "refused", "error"} =>
        row.bill = "SUBMITTING" \/ (row.status = "FAILURE" /\ row.target = 0)
    /\ record = "refunded" => request = "released" \/ event.state # "none"

\* The row and the event: a final charge is prepared or applied once, on a row
\* that no poll or sweep asks for again.
Closed ==
    /\ row.bill = "FINALIZE_PENDING" =>
        event.state = "none" /\ (row.status = "FAILURE" => row.target = 0)
    /\ row.bill = "REFUNDED" => event.state # "none" /\ row.quota = 0
    /\ event.state # "none" =>
        row.bill = (IF row.status = "FAILURE" THEN "REFUNDED" ELSE "SETTLED")
    /\ (row.bill = "FINALIZE_PENDING" \/ event.state # "none") /\ row.status \in Running =>
        row.media # "" /\ job # "none"

\* What an actor's copy still says about the row when it is written back.
Copy(a) ==
    /\ pc[a] \in {"complete", "fail", "stale"} => mem[a].bill = "SUBMITTING"
    /\ pc[a] \in {"sweep", "poll", "fetch"} =>
        /\ mem[a].status \in Running /\ mem[a].media = ""
        /\ mem[a].bill \notin {"NONE", "FINALIZE_PENDING", "REFUNDED"}
    /\ pc[a] \in {"poll", "fetch"} => mem[a].bill # "SUBMITTING"
    /\ pc[a] = "apply" => mem[a].bill \in {"SUBMIT_PENDING", "FINALIZE_PENDING"}
    /\ pc[a] = "apply" /\ mem[a].bill = "FINALIZE_PENDING" =>
        \/ event.state # "none"
        \/ /\ row.bill = "FINALIZE_PENDING"
           /\ mem[a].status = "FAILURE" <=> row.status = "FAILURE"
    /\ pc[a] = "mark" => event.state # "none" /\ (event.logged => log)

\* Where the request stands while it writes its submission back.
Answering ==
    /\ pc[Request] = "complete" => request = "accepted"
    /\ pc[Request] = "fail" => request = "refused"

IInv == TypeOK /\ Recorded /\ Closed /\ Answering /\ DeliveredIsLogged /\ \A a \in Actors : Copy(a)

Requests == {"new", "reserved", "refunding", "calling", "accepted", "refused",
             "ok", "error", "rejected", "released", "lost"}
Places == {"idle", "complete", "fail", "stale", "sweep", "poll", "fetch", "apply", "log", "mark"}
Pending == {"SUBMIT_PENDING", "FINALIZE_PENDING"}

\* A step that copies survive: events stay, logs stay, and a prepared charge
\* changes neither its state nor its outcome before its event is there.
Stable ==
    /\ event.state # "none" => event'.state # "none" /\ event'.logged = event.logged
    /\ log => log'
    /\ row.bill = "FINALIZE_PENDING" =>
        \/ event'.state # "none"
        \/ /\ row'.bill = "FINALIZE_PENDING"
           /\ row'.status = "FAILURE" <=> row.status = "FAILURE"
-----------------------------------------------------------------------------

\* A copy that is given up has the type of a row.
LEMMA AbsentType ==
  /\ Absent \in Row
  /\ Absent.bill = "NONE" /\ Absent.quota = 0 /\ Absent.status = "NOT_START" /\ Absent.media = ""
  BY DEF Absent, Row, Running, Bills

\* The invariant of a task that is not yet submitted, or of an older release.
LEMMA TaskInit == Init => IInv
<1> SUFFICES ASSUME Init PROVE IInv
  OBVIOUS
<1>1. /\ row \in Row /\ charged \in Nat /\ request \in {"new", "ok"} /\ upstream \in {"none", "running"}
      /\ row.status = "NOT_START" /\ row.bill \in {"NONE", "LEGACY"} /\ row.media = ""
      /\ request = "new" <=> row.bill = "NONE"
      /\ row.bill # "NONE" => charged = row.quota
  <2>1. CASE start = "new"
    <3>1. row = Absent /\ charged = 0 /\ request = "new" /\ upstream = "none"
      BY <2>1 DEF Init
    <3> QED
      BY <3>1, AbsentType
  <2>2. CASE start = "legacy"
    <3>1. PICK q \in Quotas : row = [Absent EXCEPT !.bill = "LEGACY", !.quota = q] /\ charged = q
      BY <2>2 DEF Init
    <3>2. q \in Nat
      BY TaskAssumption
    <3> QED
      BY <2>2, <3>1, <3>2 DEF Init, Absent, Row, Running, Bills
  <2> QED
    BY <2>1, <2>2 DEF Init
<1>2. /\ start \in {"new", "legacy"} /\ source \in {"wallet", "subscription", "free"}
      /\ record = "none" /\ event = [state |-> "none", logged |-> FALSE]
      /\ log = FALSE /\ job = "none" /\ channel = TRUE
  BY TaskAssumption DEF Init
<1>3. /\ pc \in [Actors -> Places] /\ mem \in [Actors -> Row]
      /\ \A a \in Actors : pc[a] = "idle"
  BY AbsentType DEF Init, Places
<1>4. TypeOK
  BY <1>1, <1>2, <1>3 DEF TypeOK, Places
<1>5. Recorded /\ Closed /\ DeliveredIsLogged
  BY <1>1, <1>2 DEF Recorded, Closed, DeliveredIsLogged, Early
<1>6. Answering /\ \A a \in Actors : Copy(a)
  BY <1>3 DEF Answering, Copy, Actors
<1> QED
  BY <1>4, <1>5, <1>6 DEF IInv

\* The copy of an actor that does nothing keeps its worth.
LEMMA CopyKept ==
  ASSUME IInv, Stable, NEW b \in Actors, pc'[b] = pc[b], mem'[b] = mem[b]
  PROVE  Copy(b)'
<1>1. Copy(b)
  BY DEF IInv
<1> QED
  BY <1>1 DEF Copy, Stable

\* An actor moves to a place of its own and copies a row.
LEMMA GotoType ==
  ASSUME IInv, NEW a \in Actors, NEW next \in Places, NEW m \in Row, Goto(a, next, m)
  PROVE  /\ pc' \in [Actors -> Places] /\ mem' \in [Actors -> Row]
         /\ pc'[a] = next /\ (next # "idle" => mem'[a] = m)
         /\ \A b \in Actors : b # a => pc'[b] = pc[b] /\ mem'[b] = mem[b]
<1>1. pc \in [Actors -> Places] /\ mem \in [Actors -> Row]
  BY DEF IInv, TypeOK, Places
<1> QED
  BY <1>1, AbsentType DEF Goto

\* The types of an actor's copy.
LEMMA MemType ==
  ASSUME IInv, NEW a \in Actors
  PROVE  /\ mem[a] \in Row /\ pc[a] \in Places /\ row \in Row
         /\ mem[a].quota \in Nat /\ mem[a].target \in Nat /\ mem[a].retry \in Nat
  BY DEF IInv, TypeOK, Row, Places

\* The polling loops, fetches and workers are not the request.
LEMMA Others ==
  /\ Request \in Actors
  /\ Pollers \subseteq Actors /\ Fetchers \subseteq Actors /\ Workers \subseteq Actors
  /\ Request \notin Pollers /\ Request \notin Fetchers /\ Request \notin Workers
  BY TaskAssumption DEF Actors

\* An actor that only moves, perhaps taking a copy, keeps the invariant when
\* its new copy is worth something.
LEMMA MoveStep ==
  ASSUME IInv, NEW a \in Actors, NEW next \in Places, NEW m \in Row,
         Goto(a, next, m), UNCHANGED <<world, row, money, log, job>>,
         request' \in Requests, Recorded', Answering', Copy(a)'
  PROVE  IInv'
<1> USE DEF world, money
<1>1. TypeOK'
  BY GotoType DEF IInv, TypeOK, Places, Requests
<1>2. Closed' /\ DeliveredIsLogged'
  BY DEF IInv, Closed, DeliveredIsLogged
<1>3. Stable
  BY DEF Stable
<1>4. ASSUME NEW b \in Actors PROVE Copy(b)'
  <2>1. CASE b = a
    BY <2>1
  <2>2. CASE b # a
    <3>1. pc'[b] = pc[b] /\ mem'[b] = mem[b]
      BY <2>2 DEF Goto, IInv, TypeOK
    <3> QED
      BY <3>1, <1>3, CopyKept
  <2> QED
    BY <2>1, <2>2
<1> QED
  BY <1>1, <1>2, <1>4 DEF IInv

\* A conditional UPDATE that wins finds a row without a final charge, whose
\* submission is open or was accepted.
LEMMA Found ==
  ASSUME IInv, NEW a \in Actors, SnapshotHolds(mem[a]),
         pc[a] \in {"complete", "fail", "stale", "sweep", "poll", "fetch"}
  PROVE  /\ event.state = "none"
         /\ row.bill \notin {"NONE", "FINALIZE_PENDING", "REFUNDED"}
         /\ mem[a].bill = row.bill /\ mem[a].quota = row.quota /\ mem[a].status = row.status
         /\ mem[a].bill \in {"LEGACY", "SUBMITTING", "SUBMIT_PENDING", "PENDING", "SETTLED"}
         /\ request \in {"calling", "accepted", "refused", "ok", "error"}
         /\ row.bill # "SUBMITTING" => request = "ok"
<1>1. Copy(a) /\ Recorded /\ Closed /\ TypeOK
  BY DEF IInv
<1>2. /\ mem[a].bill = row.bill /\ mem[a].quota = row.quota
      /\ mem[a].status = row.status /\ mem[a].media = row.media
  BY DEF SnapshotHolds
<1>3. \/ row.bill = "SUBMITTING"
      \/ /\ row.status \in Running /\ row.media = ""
         /\ row.bill \notin {"NONE", "FINALIZE_PENDING", "REFUNDED"}
  BY <1>1, <1>2 DEF Copy
<1>4. event.state = "none"
  BY <1>1, <1>3 DEF Closed
<1>5. row.bill \in Bills /\ request \in Requests
  BY <1>1 DEF TypeOK, Row, Requests
<1>6. request \notin Early
  BY <1>1, <1>3 DEF Recorded
<1>7. row.bill # "SUBMITTING" => request \notin {"calling", "accepted", "refused", "error"}
  BY <1>1, <1>3 DEF Recorded, Running
<1> QED
  BY <1>2, <1>3, <1>4, <1>5, <1>6, <1>7 DEF Bills, Requests, Early

\* UpdateWithSnapshot keeps the invariant when the new row is consistent.
LEMMA SaveStep ==
  ASSUME IInv, NEW a \in Actors, NEW new \in Row, NEW next \in {"idle", "apply"},
         Save(a, new, next),
         pc[a] \in {"complete", "fail", "stale", "sweep", "poll", "fetch"},
         new.quota = mem[a].quota,
         new.bill \in {"LEGACY", "SUBMIT_PENDING", "PENDING", "FINALIZE_PENDING", "SETTLED"},
         new.bill = "FINALIZE_PENDING" =>
            new.status \notin Running /\ (new.status = "FAILURE" => new.target = 0),
         next = "apply" => new.bill \in Pending,
         request' \in {"calling", "accepted", "refused", "ok", "error"},
         request' # "ok" => new.status = "FAILURE" /\ new.target = 0,
         a = Request \/ request' = request
  PROVE  IInv'
<1> USE DEF world, money
<1>1. /\ row' = new /\ Goto(a, next, new)
      /\ UNCHANGED <<start, source, channel, upstream, charged, record, event, log, job>>
      /\ SnapshotHolds(mem[a])
  BY DEF Save
<1>2. /\ event.state = "none"
      /\ row.bill \notin {"NONE", "FINALIZE_PENDING", "REFUNDED"}
      /\ mem[a].quota = row.quota
      /\ request \in {"calling", "accepted", "refused", "ok", "error"}
  BY <1>1, Found
<1>3. TypeOK'
  <2>1. pc' \in [Actors -> Places] /\ mem' \in [Actors -> Row]
    BY <1>1, GotoType DEF Places
  <2> QED
    BY <1>1, <2>1 DEF IInv, TypeOK, Places
<1>4. Recorded'
  BY <1>1, <1>2 DEF IInv, Recorded, Early
<1>5. Closed' /\ DeliveredIsLogged'
  BY <1>1, <1>2 DEF IInv, Closed, DeliveredIsLogged
<1>6. Answering'
  BY <1>1, Others DEF IInv, TypeOK, Answering, Goto
<1>7. Stable
  BY <1>1, <1>2 DEF Stable
<1>8. ASSUME NEW b \in Actors PROVE Copy(b)'
  <2>1. CASE b = a
    <3>1. pc'[a] = next /\ (next = "apply" => mem'[a] = new)
      BY <1>1 DEF Goto, IInv, TypeOK
    <3> QED
      BY <2>1, <3>1, <1>1 DEF Copy, Pending
  <2>2. CASE b # a
    <3>1. pc'[b] = pc[b] /\ mem'[b] = mem[b]
      BY <2>2, <1>1 DEF Goto, IInv, TypeOK
    <3> QED
      BY <3>1, <1>7, CopyKept
  <2> QED
    BY <2>1, <2>2
<1> QED
  BY <1>3, <1>4, <1>5, <1>6, <1>8 DEF IInv
-----------------------------------------------------------------------------
(* Steps that no actor's copy takes part in.                                *)

\* What is left to show of a step that leaves all copies alone.
LEMMA StillStep ==
  ASSUME IInv, Stable, UNCHANGED <<pc, mem>>,
         TypeOK', Recorded', Closed', DeliveredIsLogged', Answering'
  PROVE  IInv'
<1>1. ASSUME NEW b \in Actors PROVE Copy(b)'
  BY CopyKept
<1> QED
  BY <1>1 DEF IInv

\* PreConsumeBilling: the row is not there yet.
LEMMA PreConsumeStep ==
  ASSUME IInv, NEW q \in Quotas \cup {0}, PreConsume(q)
  PROVE  IInv'
<1> USE DEF world, money, PreConsume
<1>1. q \in Nat
  BY TaskAssumption
<1>2. row.bill = "NONE" /\ event.state = "none"
  BY DEF IInv, Recorded, Closed, Early
<1>3. TypeOK'
  BY <1>1 DEF IInv, TypeOK
<1>4. Recorded'
  BY <1>2 DEF IInv, Recorded, Early
<1>5. Closed' /\ DeliveredIsLogged' /\ Stable
  BY <1>2 DEF IInv, Closed, DeliveredIsLogged, Stable
<1>6. Answering'
  BY DEF IInv, Answering
<1> QED
  BY <1>3, <1>4, <1>5, <1>6, StillStep

\* ensurePersistentTaskSubmission: the row says what the session reserved.
LEMMA InsertStep ==
  ASSUME IInv, InsertTask
  PROVE  IInv'
<1> USE DEF world, money, InsertTask
<1>1. row.bill = "NONE" /\ event.state = "none" /\ charged \in Nat
  BY DEF IInv, TypeOK, Recorded, Closed, Early
<1>2. /\ row' \in Row /\ row'.bill = "SUBMITTING" /\ row'.quota = charged
      /\ row'.status = "NOT_START" /\ row'.media = ""
  BY <1>1 DEF Absent, Row, Running, Bills
<1>3. TypeOK'
  <2>1. UNCHANGED <<start, source, channel, upstream, charged, record, event, log, job, pc, mem>>
    OBVIOUS
  <2>2. TypeOK /\ request' = "calling"
    BY DEF IInv
  <2> QED
    BY <1>2, <2>1, <2>2 DEF TypeOK
<1>4. Recorded'
  BY <1>1, <1>2 DEF IInv, Recorded, Early
<1>5. Closed' /\ DeliveredIsLogged' /\ Stable
  BY <1>1, <1>2 DEF IInv, Closed, DeliveredIsLogged, Stable
<1>6. Answering'
  BY DEF IInv, Answering
<1> QED
  BY <1>3, <1>4, <1>5, <1>6, StillStep

\* The other steps of the request before it reads its row again.
LEMMA RequestStep ==
  ASSUME IInv, PreConsumeRefused \/ InsertFails \/ SessionRefund \/ UpstreamAnswers
  PROVE  IInv'
<1> USE DEF world, money, PreConsumeRefused, InsertFails, SessionRefund, UpstreamAnswers
<1>1. row' = row /\ event' = event /\ log' = log /\ job' = job /\ UNCHANGED <<pc, mem>>
  OBVIOUS
<1>2. TypeOK'
  <2>1. TypeOK
    BY DEF IInv
  <2> QED
    BY <1>1, <2>1 DEF TypeOK
<1>3. Recorded'
  BY DEF IInv, Recorded, Early
<1>4. Closed' /\ DeliveredIsLogged' /\ Stable
  BY <1>1 DEF IInv, Closed, DeliveredIsLogged, Stable
<1>5. Answering'
  BY DEF IInv, Answering
<1> QED
  BY <1>1, <1>2, <1>3, <1>4, <1>5, StillStep

\* The upstream, the administrators and the clean-up of records.
LEMMA WorldStep ==
  ASSUME IInv, World
  PROVE  IInv'
<1> USE DEF world, money, World, UpstreamEnds, DeleteChannel, CleanupRecord
<1>1. /\ row' = row /\ event' = event /\ log' = log /\ job' = job
      /\ request' = request /\ charged' = charged /\ UNCHANGED <<pc, mem>>
      /\ record' # record => record' = "none"
  OBVIOUS
<1>2. TypeOK'
  <2>1. TypeOK
    BY DEF IInv
  <2>2. /\ UNCHANGED <<start, source>>
        /\ upstream' = upstream \/ upstream' \in {"done", "failed"}
        /\ channel' = channel \/ channel' = FALSE
        /\ record' = record \/ record' = "none"
    OBVIOUS
  <2>3. channel' \in BOOLEAN
    BY <2>1, <2>2 DEF TypeOK
  <2> HIDE DEF World, UpstreamEnds, DeleteChannel, CleanupRecord
  <2> QED
    BY <1>1, <2>1, <2>2, <2>3 DEF TypeOK
<1>3. Recorded'
  BY <1>1 DEF IInv, Recorded
<1>4. Closed' /\ DeliveredIsLogged' /\ Stable
  BY <1>1 DEF IInv, Closed, DeliveredIsLogged, Stable
<1>5. Answering'
  BY <1>1 DEF IInv, Answering
<1> QED
  BY <1>1, <1>2, <1>3, <1>4, <1>5, StillStep

\* A transfer that fails or is retried changes no more than the media column.
LEMMA TransferStep ==
  ASSUME IInv, TransferFails \/ RetryTransfer
  PROVE  IInv'
<1> USE DEF world, money, TransferFails, RetryTransfer
<1>1. /\ event' = event /\ log' = log /\ request' = request /\ charged' = charged
      /\ record' = record /\ UNCHANGED <<pc, mem>>
  OBVIOUS
<1>2. /\ row \in Row /\ row' \in Row /\ row.media # "" /\ row'.media # ""
      /\ row'.bill = row.bill /\ row'.status = row.status
      /\ row'.quota = row.quota /\ row'.target = row.target /\ job' # "none"
  BY DEF IInv, TypeOK, Row
<1>3. TypeOK'
  <2>1. UNCHANGED <<start, source, channel, upstream>> /\ job' \in {"queued", "failed"}
    OBVIOUS
  <2>2. TypeOK
    BY DEF IInv
  <2>3. row' \in Row
    BY <1>2
  <2> HIDE DEF TransferFails, RetryTransfer
  <2> QED
    BY <1>1, <2>1, <2>2, <2>3 DEF TypeOK
<1>4. Recorded'
  BY <1>1, <1>2 DEF IInv, Recorded
<1>5. Closed' /\ DeliveredIsLogged' /\ Stable
  BY <1>1, <1>2 DEF IInv, Closed, DeliveredIsLogged, Stable
<1>6. Answering'
  BY <1>1 DEF IInv, Answering
<1> QED
  BY <1>1, <1>3, <1>4, <1>5, <1>6, StillStep
-----------------------------------------------------------------------------
(* Steps of actors that leave the row alone.                                *)

\* The request reads its row again and takes it for writing, if it is still
\* submitting; otherwise nobody accepted the task.
LEMMA ReadStep ==
  ASSUME IInv, ReadSubmission
  PROVE  IInv'
<1> USE Others DEF world, money
<1>1. CASE row.bill = "SUBMITTING"
  <2>1. PICK next \in {"complete", "fail"} :
          /\ Goto(Request, next, row) /\ request' = request
          /\ next = "complete" => request = "accepted"
          /\ next = "fail" => request = "refused"
          /\ UNCHANGED <<world, row, money, log, job>>
    BY <1>1 DEF ReadSubmission
  <2>2. pc'[Request] = next /\ mem'[Request] = row /\ row \in Row
    BY <2>1, GotoType DEF Places, IInv, TypeOK
  <2>3. Copy(Request)'
    BY <1>1, <2>1, <2>2 DEF Copy
  <2>4. Recorded' /\ Answering' /\ request' \in Requests
    BY <2>1, <2>2 DEF IInv, TypeOK, Recorded, Answering, Requests
  <2> QED
    BY <2>1, <2>2, <2>3, <2>4, MoveStep DEF Places
<1>2. CASE row.bill # "SUBMITTING"
  <2>1. /\ request \in {"accepted", "refused"} /\ request' \in {"refused", "error"}
        /\ pc[Request] = "idle" /\ UNCHANGED <<world, row, money, log, job, pc, mem>>
    BY <1>2 DEF ReadSubmission
  <2>2. TypeOK'
    BY <2>1 DEF IInv, TypeOK
  <2>3. Recorded' /\ Answering'
    BY <2>1 DEF IInv, Recorded, Answering, Early
  <2>4. Closed' /\ DeliveredIsLogged' /\ Stable
    BY <2>1 DEF IInv, Closed, DeliveredIsLogged, Stable
  <2> QED
    BY <2>1, <2>2, <2>3, <2>4, StillStep
<1> QED
  BY <1>1, <1>2

\* The rows a cycle of a polling loop asks for are what it takes them for.
LEMMA LoadStep ==
  ASSUME IInv, NEW p \in Pollers, NEW why \in {"stale", "sweep", "poll", "apply"}, Load(p, why)
  PROVE  IInv'
<1> USE Others DEF world, money
<1>1. /\ p \in Actors /\ p # Request /\ why \in Places /\ row \in Row /\ row.bill # "NONE"
      /\ Goto(p, why, row) /\ UNCHANGED <<world, request, row, money, log, job>>
  BY DEF Load, Places, IInv, TypeOK
<1>2. /\ pc'[p] = why /\ mem'[p] = row /\ pc'[Request] = pc[Request]
  BY <1>1, GotoType
<1>3. /\ why = "stale" => row.bill = "SUBMITTING"
      /\ why \in {"sweep", "poll"} => row.status \in Running /\ row.media = ""
      /\ why = "poll" => row.bill # "SUBMITTING"
      /\ why = "apply" => row.bill \in Pending
  BY DEF Load, Wanted, Unfinished, Pending
<1>4. Copy(p)'
  <2>1. row.status \in Running /\ row.media = "" => row.bill \notin {"FINALIZE_PENDING", "REFUNDED"}
    BY DEF IInv, Closed
  <2>2. row' = row /\ event' = event
    BY <1>1
  <2> QED
    BY <1>1, <1>2, <1>3, <2>1, <2>2 DEF Copy, Pending
<1>5. Recorded' /\ Answering' /\ request' \in Requests
  BY <1>1, <1>2 DEF IInv, TypeOK, Recorded, Answering, Requests
<1> QED
  BY <1>1, <1>4, <1>5, MoveStep

\* So are the rows a realtime fetch asks for.
LEMMA LoadFetchStep ==
  ASSUME IInv, NEW f \in Fetchers, LoadFetch(f)
  PROVE  IInv'
<1> USE Others DEF world, money
<1>1. /\ f \in Actors /\ f # Request /\ "fetch" \in Places /\ row \in Row
      /\ row.bill \notin {"NONE", "SUBMITTING"} /\ row.status \in Running /\ row.media = ""
      /\ Goto(f, "fetch", row) /\ UNCHANGED <<world, request, row, money, log, job>>
  BY DEF LoadFetch, Places, IInv, TypeOK
<1>2. /\ pc'[f] = "fetch" /\ mem'[f] = row /\ pc'[Request] = pc[Request]
  BY <1>1, GotoType
<1>3. Copy(f)'
  <2>1. row.bill \notin {"FINALIZE_PENDING", "REFUNDED"}
    BY <1>1 DEF IInv, Closed
  <2> QED
    BY <1>1, <1>2, <2>1 DEF Copy
<1>4. Recorded' /\ Answering' /\ request' \in Requests
  BY <1>1, <1>2 DEF IInv, TypeOK, Recorded, Answering, Requests
<1> QED
  BY <1>1, <1>3, <1>4, MoveStep

\* An event is taken up for delivery without a copy of the row.
LEMMA LoadEventStep ==
  ASSUME IInv, NEW p \in Pollers, LoadEvent(p)
  PROVE  IInv'
<1> USE Others DEF world, money
<1>1. /\ p \in Actors /\ p # Request /\ "log" \in Places
      /\ Goto(p, "log", Absent) /\ UNCHANGED <<world, request, row, money, log, job>>
  BY DEF LoadEvent, Places
<1>2. pc'[p] = "log" /\ pc'[Request] = pc[Request]
  BY <1>1, GotoType, AbsentType
<1>3. Copy(p)'
  BY <1>2 DEF Copy
<1>4. Recorded' /\ Answering' /\ request' \in Requests
  BY <1>1, <1>2 DEF IInv, TypeOK, Recorded, Answering, Requests
<1> QED
  BY <1>1, <1>3, <1>4, MoveStep, AbsentType

\* Giving up and dying forget a copy; the request answers what it knows.
LEMMA LeaveStep ==
  ASSUME IInv, NEW a \in Actors, GiveUp(a) \/ Crash(a)
  PROVE  IInv'
<1> USE Others DEF world, money
<1>1. "idle" \in Places /\ Goto(a, "idle", Absent) /\ UNCHANGED <<world, row, money, log, job>>
  BY DEF GiveUp, Crash, Places
<1>2. pc'[a] = "idle" /\ \A b \in Actors : b # a => pc'[b] = pc[b]
  BY <1>1, GotoType, AbsentType
<1>3. Copy(a)'
  BY <1>2 DEF Copy
<1>4. CASE a # Request
  <2>1. request' = request
    BY <1>4 DEF GiveUp, Crash
  <2>2. Recorded' /\ Answering' /\ request' \in Requests
    BY <1>1, <1>2, <1>4, <2>1 DEF IInv, TypeOK, Recorded, Answering, Requests
  <2> QED
    BY <1>1, <1>3, <2>2, MoveStep, AbsentType
<1>5. CASE a = Request
  <2>1. request \in Requests
    BY DEF IInv, TypeOK, Requests
  <2>2. \/ request' = request
        \/ request \in {"accepted", "refused", "calling"} /\ request' \in {"refused", "error"}
        \/ request = "new" /\ request' = "rejected"
        \/ request \in {"reserved", "refunding"} /\ request' = "lost"
    <3>1. CASE GiveUp(a)
      BY <1>5, <3>1 DEF GiveUp, IInv, Answering
    <3>2. CASE Crash(a)
      BY <1>5, <3>2, <2>1 DEF Crash, Requests
    <3> QED
      BY <3>1, <3>2
  <2>3. Recorded'
    BY <1>1, <2>2 DEF IInv, Recorded, Early
  <2>4. Answering' /\ request' \in Requests
    BY <1>2, <1>5, <2>1, <2>2 DEF Answering, Requests
  <2> QED
    BY <1>1, <1>3, <2>3, <2>4, MoveStep, AbsentType
<1> QED
  BY <1>4, <1>5
-----------------------------------------------------------------------------
(* Conditional UPDATEs of a copy.                                           *)

\* What every writer has at hand.
LEMMA FailedType ==
  ASSUME NEW m \in Row
  PROVE  /\ Failed(m) \in Row /\ Failed(m).status = "FAILURE" /\ Failed(m).target = 0
         /\ Failed(m).bill = "FINALIZE_PENDING" /\ Failed(m).quota = m.quota
  BY DEF Failed, Row, Bills

\* Whoever declares the task failed, the refund of all of it is pending.
LEMMA FailedStep ==
  ASSUME IInv, NEW a \in Actors,
         pc[a] \in {"complete", "fail", "stale", "sweep", "poll", "fetch"},
         Save(a, Failed(mem[a]), "apply"),
         request' = request \/ (a = Request /\ request' = "error")
  PROVE  IInv'
<1>1. SnapshotHolds(mem[a]) /\ mem[a] \in Row
  BY MemType DEF Save
<1>2. request \in {"calling", "accepted", "refused", "ok", "error"}
  BY <1>1, Found
<1> QED
  BY <1>1, <1>2, FailedType, SaveStep DEF Running, Pending

\* completePersistentTaskSubmission.
LEMMA CompleteSubmissionStep ==
  ASSUME IInv, NEW q \in Quotas \cup {0}, CompleteSubmission(q)
  PROVE  IInv'
<1>0. Request \in Actors /\ q \in Nat
  BY Others, TaskAssumption
<1>1. Request \in Actors /\ q \in Nat /\ mem[Request] \in Row
  BY <1>0, MemType
<1>2. pc[Request] = "complete" /\ request' = "ok"
  BY DEF CompleteSubmission
<1>3. CASE source = "free"
  <2> DEFINE new == [mem[Request] EXCEPT !.target = 0, !.bill = "SETTLED"]
  <2>1. Save(Request, new, "idle")
    BY <1>3 DEF CompleteSubmission
  <2>2. new \in Row /\ new.quota = mem[Request].quota /\ new.bill = "SETTLED"
    BY <1>1 DEF Row, Bills
  <2> HIDE DEF new
  <2> QED
    BY <1>1, <1>2, <2>1, <2>2, SaveStep
<1>4. CASE source # "free"
  <2> DEFINE new == [mem[Request] EXCEPT !.target = q, !.bill = "SUBMIT_PENDING"]
  <2>1. Save(Request, new, "apply")
    BY <1>4 DEF CompleteSubmission
  <2>2. new \in Row /\ new.quota = mem[Request].quota /\ new.bill = "SUBMIT_PENDING"
    BY <1>1 DEF Row, Bills
  <2> HIDE DEF new
  <2> QED
    BY <1>1, <1>2, <2>1, <2>2, SaveStep DEF Pending
<1> QED
  BY <1>3, <1>4

\* failPersistentTaskSubmission.
LEMMA FailSubmissionStep ==
  ASSUME IInv, FailSubmission
  PROVE  IInv'
  BY Others, FailedStep DEF FailSubmission

\* recoverStaleTaskSubmissions and the polls of a channel that is gone.
LEMMA RecoveryStep ==
  ASSUME IInv, NEW p \in Pollers, FailStale(p) \/ ChannelUnknown(p)
  PROVE  IInv'
  BY Others, FailedStep DEF FailStale, ChannelUnknown

\* sweepTimedOutTasks, with and without a refund.
LEMMA TimeOutStep ==
  ASSUME IInv, NEW p \in Pollers, TimeOut(p)
  PROVE  IInv'
<1>1. p \in Actors /\ pc[p] = "sweep" /\ request' = request /\ mem[p] \in Row
  BY Others, MemType DEF TimeOut
<1>2. CASE mem[p].bill = "LEGACY"
  <2> DEFINE new == [mem[p] EXCEPT !.status = "FAILURE", !.full = TRUE]
  <2>1. Save(p, new, "idle")
    BY <1>2 DEF TimeOut
  <2>2. new \in Row /\ new.quota = mem[p].quota /\ new.bill = "LEGACY"
    BY <1>1, <1>2 DEF Row
  <2>3. request = "ok"
    BY <1>1, <1>2, <2>1, Found DEF Save
  <2> HIDE DEF new
  <2> QED
    BY <1>1, <2>1, <2>2, <2>3, SaveStep
<1>3. CASE mem[p].bill # "LEGACY"
  BY <1>1, <1>3, FailedStep DEF TimeOut
<1> QED
  BY <1>2, <1>3

\* An answer of the upstream finds a task that was accepted.
LEMMA Accepted ==
  ASSUME IInv, NEW a \in Actors, pc[a] \in {"poll", "fetch"}, SnapshotHolds(mem[a])
  PROVE  /\ request = "ok" /\ mem[a] \in Row
         /\ mem[a].bill \in {"LEGACY", "SUBMIT_PENDING", "PENDING", "SETTLED"}
<1>1. mem[a].bill # "SUBMITTING"
  BY DEF IInv, Copy
<1> QED
  BY <1>1, Found, MemType

\* updateVideoSingleTask and tryRealtimeFetch of a task that goes on.
LEMMA ProgressStep ==
  ASSUME IInv, NEW a \in Actors, Progress(a)
  PROVE  IInv'
<1>0. PICK full \in BOOLEAN :
         Save(a, [mem[a] EXCEPT !.status = "IN_PROGRESS", !.full = full], "idle")
  BY DEF Progress
<1> DEFINE new == [mem[a] EXCEPT !.status = "IN_PROGRESS", !.full = full]
<1>1. Save(a, new, "idle") /\ pc[a] \in {"poll", "fetch"} /\ request' = request
  BY <1>0 DEF Progress
<1>2. /\ request = "ok" /\ mem[a] \in Row
      /\ mem[a].bill \in {"LEGACY", "SUBMIT_PENDING", "PENDING", "SETTLED"}
  BY <1>1, Accepted DEF Save
<1>3. new \in Row /\ new.quota = mem[a].quota /\ new.bill = mem[a].bill
  BY <1>2 DEF Row, Running
<1> HIDE DEF new
<1> QED
  BY <1>1, <1>2, <1>3, SaveStep

\* MarkVideoMediaTransferPending.
LEMMA KeepPendingStep ==
  ASSUME IInv, NEW p \in Pollers, KeepPending(p)
  PROVE  IInv'
<1> DEFINE new == [mem[p] EXCEPT !.status = "IN_PROGRESS", !.media = "PENDING", !.full = FALSE]
<1>1. Save(p, new, "idle") /\ pc[p] = "poll" /\ request' = request /\ p \in Actors
  BY Others DEF KeepPending
<1>2. /\ request = "ok" /\ mem[p] \in Row
      /\ mem[p].bill \in {"LEGACY", "SUBMIT_PENDING", "PENDING", "SETTLED"}
  BY <1>1, Accepted DEF Save
<1>3. new \in Row /\ new.quota = mem[p].quota /\ new.bill = mem[p].bill
  BY <1>2 DEF Row, Running
<1> HIDE DEF new
<1> QED
  BY <1>1, <1>2, <1>3, SaveStep

\* A finished task is billed at a price of the adaptor or of its row.
LEMMA SuccessStep ==
  ASSUME IInv, NEW a \in Actors, NEW q \in Quotas \cup {0}, Success(a, q)
  PROVE  IInv'
<1> DEFINE new == [Prepared(mem[a], q) EXCEPT !.status = "SUCCESS", !.full = TRUE]
<1>1. Save(a, new, "apply") /\ pc[a] \in {"poll", "fetch"} /\ request' = request
  BY DEF Success
<1>2. request = "ok" /\ mem[a] \in Row /\ q \in Nat
  BY <1>1, Accepted, TaskAssumption DEF Save
<1>3. /\ new \in Row /\ new.quota = mem[a].quota
      /\ new.bill = "FINALIZE_PENDING" /\ new.status = "SUCCESS"
  BY <1>2 DEF Row, Bills, Prepared
<1> HIDE DEF new
<1> QED
  BY <1>1, <1>2, <1>3, SaveStep DEF Running, Pending

\* A failed task is refunded.
LEMMA FailureStep ==
  ASSUME IInv, NEW a \in Actors, PollFailure(a) \/ FetchFailure(a)
  PROVE  IInv'
  BY FailedStep DEF PollFailure, FetchFailure
-----------------------------------------------------------------------------
(* Transactions on the row.                                                 *)

\* EnqueueMediaTransferAndTask: the UPDATE does not look at the media column,
\* but a row with a final charge has a job already.
LEMMA EnqueueStep ==
  ASSUME IInv, NEW p \in Pollers, NEW q \in Quotas \cup {0}, Enqueue(p, q)
  PROVE  IInv'
<1> DEFINE new == [Prepared(row, q) EXCEPT !.status = "IN_PROGRESS", !.media = "PENDING",
                                              !.full = FALSE]
<1> USE Others DEF world, money
<1>1. /\ p \in Actors /\ p # Request /\ pc[p] = "poll"
      /\ row.status = mem[p].status /\ row.bill = mem[p].bill /\ job = "none"
      /\ row' = new /\ job' = "queued" /\ Goto(p, "apply", new)
      /\ UNCHANGED <<world, request, money, log>>
  BY DEF Enqueue
<1>2. /\ row.status \in Running
      /\ row.bill \notin {"NONE", "FINALIZE_PENDING", "REFUNDED", "SUBMITTING"}
  BY <1>1 DEF IInv, Copy
<1>3. event.state = "none" /\ request \notin Early \cup {"calling", "accepted", "refused", "error"}
  BY <1>1, <1>2 DEF IInv, Closed, Recorded, Running
<1>4. row \in Row /\ q \in Nat
  BY TaskAssumption DEF IInv, TypeOK
<1>5. /\ new \in Row /\ new.quota = row.quota /\ new.bill = "FINALIZE_PENDING"
      /\ new.status = "IN_PROGRESS" /\ new.media = "PENDING"
  BY <1>4 DEF Row, Bills, Running, Prepared
<1> HIDE DEF new
<1>6. /\ pc' \in [Actors -> Places] /\ mem' \in [Actors -> Row]
      /\ pc'[p] = "apply" /\ mem'[p] = new
      /\ \A b \in Actors : b # p => pc'[b] = pc[b] /\ mem'[b] = mem[b]
  BY <1>1, <1>5, GotoType DEF Places
<1>7. TypeOK'
  <2>1. TypeOK /\ row' \in Row
    BY <1>1, <1>5 DEF IInv
  <2> QED
    BY <1>1, <1>6, <2>1 DEF TypeOK, Places
<1>8. Recorded'
  BY <1>1, <1>2, <1>3, <1>5 DEF IInv, Recorded, Early
<1>9. Closed' /\ DeliveredIsLogged' /\ Stable
  BY <1>1, <1>2, <1>3, <1>5 DEF IInv, Closed, DeliveredIsLogged, Stable, Running
<1>10. Answering'
  BY <1>1, <1>6 DEF IInv, Answering
<1>11. ASSUME NEW b \in Actors PROVE Copy(b)'
  <2>1. CASE b = p
    BY <2>1, <1>1, <1>5, <1>6 DEF Copy
  <2>2. CASE b # p
    BY <2>2, <1>6, <1>9, CopyKept
  <2> QED
    BY <2>1, <2>2
<1> QED
  BY <1>7, <1>8, <1>9, <1>10, <1>11 DEF IInv

\* CompleteMediaTransfer: a task in progress is done, its bill stays.
LEMMA CompleteTransferStep ==
  ASSUME IInv, NEW w \in Workers, CompleteTransfer(w)
  PROVE  IInv'
<1> DEFINE new == [row EXCEPT !.status = "SUCCESS", !.media = "READY", !.full = TRUE]
<1> DEFINE next == IF row.bill = "FINALIZE_PENDING" THEN "apply" ELSE "idle"
<1> USE Others DEF world, money
<1>1. /\ w \in Actors /\ w # Request /\ row.status = "IN_PROGRESS" /\ row.media = "PENDING"
      /\ row' = new /\ job' = "ready" /\ Goto(w, next, new)
      /\ UNCHANGED <<world, request, money, log>>
  BY DEF CompleteTransfer
<1>2. row \in Row /\ row.bill # "SUBMITTING"
  BY <1>1 DEF IInv, TypeOK, Recorded
<1>3. /\ new \in Row /\ new.quota = row.quota /\ new.bill = row.bill /\ new.target = row.target
      /\ new.status = "SUCCESS" /\ new.media = "READY"
  BY <1>2 DEF Row
<1> HIDE DEF new
<1>4. next \in Places /\ (next = "apply" => row.bill = "FINALIZE_PENDING") /\ next \in {"apply", "idle"}
  BY DEF Places
<1> HIDE DEF next
<1>5. /\ pc' \in [Actors -> Places] /\ mem' \in [Actors -> Row]
      /\ pc'[w] = next /\ (next # "idle" => mem'[w] = new)
      /\ \A b \in Actors : b # w => pc'[b] = pc[b] /\ mem'[b] = mem[b]
  BY <1>1, <1>3, <1>4, GotoType
<1>6. TypeOK'
  <2>1. TypeOK /\ row' \in Row
    BY <1>1, <1>3 DEF IInv
  <2> QED
    BY <1>1, <1>5, <2>1 DEF TypeOK, Places
<1>7. Recorded'
  BY <1>1, <1>2, <1>3 DEF IInv, Recorded, Early
<1>8. Closed' /\ DeliveredIsLogged' /\ Stable
  BY <1>1, <1>3 DEF IInv, Closed, DeliveredIsLogged, Stable, Running
<1>9. Answering'
  BY <1>1, <1>5 DEF IInv, Answering
<1>10. ASSUME NEW b \in Actors PROVE Copy(b)'
  <2>1. CASE b = w
    BY <2>1, <1>1, <1>3, <1>4, <1>5 DEF Copy
  <2>2. CASE b # w
    BY <2>2, <1>5, <1>8, CopyKept
  <2> QED
    BY <2>1, <2>2
<1> QED
  BY <1>6, <1>7, <1>8, <1>9, <1>10 DEF IInv

\* scheduleTaskBillingRetry.
LEMMA RescheduleStep ==
  ASSUME IInv, NEW p \in Pollers, Reschedule(p)
  PROVE  IInv'
<1> USE Others DEF world, money
<1>1. /\ p \in Actors /\ p # Request /\ row' = [row EXCEPT !.retry = @ + 1]
      /\ Goto(p, "idle", Absent) /\ UNCHANGED <<world, request, money, log, job>>
  BY DEF Reschedule
<1>2. /\ row' \in Row /\ row'.bill = row.bill /\ row'.status = row.status
      /\ row'.quota = row.quota /\ row'.target = row.target /\ row'.media = row.media
  <2>1. row \in Row
    BY DEF IInv, TypeOK
  <2>2. PICK n \in Nat : row' = [row EXCEPT !.retry = n]
    <3>1. row.retry \in Nat
      BY <2>1 DEF Row
    <3>2. row.retry + 1 \in Nat
      BY <3>1
    <3> QED
      BY <1>1, <3>2
  <2> QED
    BY <2>1, <2>2 DEF Row
<1>3. /\ pc' \in [Actors -> Places] /\ mem' \in [Actors -> Row] /\ pc'[p] = "idle"
      /\ \A b \in Actors : b # p => pc'[b] = pc[b] /\ mem'[b] = mem[b]
  BY <1>1, GotoType, AbsentType DEF Places
<1>4. TypeOK'
  <2>1. TypeOK /\ row' \in Row
    BY <1>2 DEF IInv
  <2> QED
    BY <1>1, <1>3, <2>1 DEF TypeOK, Places
<1>5. Recorded'
  BY <1>1, <1>2 DEF IInv, Recorded, Early
<1>6. Closed' /\ DeliveredIsLogged' /\ Stable
  BY <1>1, <1>2 DEF IInv, Closed, DeliveredIsLogged, Stable
<1>7. Answering'
  BY <1>1, <1>3 DEF IInv, Answering
<1>8. ASSUME NEW b \in Actors PROVE Copy(b)'
  <2>1. CASE b = p
    BY <2>1, <1>3 DEF Copy
  <2>2. CASE b # p
    BY <2>2, <1>3, <1>6, CopyKept
  <2> QED
    BY <2>1, <2>2
<1> QED
  BY <1>4, <1>5, <1>6, <1>7, <1>8 DEF IInv

\* RecordTaskBillingEventLog.
LEMMA RecordLogStep ==
  ASSUME IInv, NEW a \in Actors, RecordLog(a)
  PROVE  IInv'
<1> USE Others DEF world, money
<1>1. /\ pc[a] = "log" /\ event.state # "none" /\ log' = (log \/ event.logged)
      /\ Goto(a, "mark", mem[a]) /\ UNCHANGED <<world, request, row, money, job>>
  BY DEF RecordLog
<1>2. /\ pc' \in [Actors -> Places] /\ mem' \in [Actors -> Row] /\ pc'[a] = "mark"
      /\ \A b \in Actors : b # a => pc'[b] = pc[b] /\ mem'[b] = mem[b]
  BY <1>1, GotoType, MemType DEF Places
<1>3. log \in BOOLEAN /\ event.logged \in BOOLEAN
  BY DEF IInv, TypeOK
<1>4. log' \in BOOLEAN /\ (log => log') /\ (event.logged => log')
  BY <1>1, <1>3
<1>5. TypeOK'
  <2>1. TypeOK
    BY DEF IInv
  <2> QED
    BY <1>1, <1>2, <1>4, <2>1 DEF TypeOK, Places
<1>6. Recorded' /\ Closed'
  BY <1>1 DEF IInv, Recorded, Closed
<1>7. DeliveredIsLogged' /\ Stable
  BY <1>1, <1>4 DEF DeliveredIsLogged, Stable
<1>8. Answering'
  BY <1>1, <1>2 DEF IInv, Answering
<1>9. ASSUME NEW b \in Actors PROVE Copy(b)'
  <2>1. CASE b = a
    BY <2>1, <1>1, <1>2, <1>4 DEF Copy
  <2>2. CASE b # a
    BY <2>2, <1>2, <1>7, CopyKept
  <2> QED
    BY <2>1, <2>2
<1> QED
  BY <1>5, <1>6, <1>7, <1>8, <1>9 DEF IInv

\* The event is marked by an actor that has logged it.
LEMMA MarkDeliveredStep ==
  ASSUME IInv, NEW a \in Actors, MarkDelivered(a)
  PROVE  IInv'
<1> USE Others DEF world, money
<1>1. /\ pc[a] = "mark" /\ event' = [event EXCEPT !.state = "delivered"]
      /\ Goto(a, "idle", Absent)
      /\ UNCHANGED <<world, request, row, charged, record, log, job>>
  BY DEF MarkDelivered
<1>2. /\ pc' \in [Actors -> Places] /\ mem' \in [Actors -> Row] /\ pc'[a] = "idle"
      /\ \A b \in Actors : b # a => pc'[b] = pc[b] /\ mem'[b] = mem[b]
  BY <1>1, GotoType, AbsentType DEF Places
<1>3. /\ event.state # "none" /\ (event.logged => log)
  BY <1>1 DEF IInv, Copy
<1>4. /\ event' \in [state : {"none", "pending", "delivered"}, logged : BOOLEAN]
      /\ event'.state = "delivered" /\ event'.logged = event.logged
  BY <1>1 DEF IInv, TypeOK
<1>5. TypeOK'
  <2>1. TypeOK
    BY DEF IInv
  <2> QED
    BY <1>1, <1>2, <1>4, <2>1 DEF TypeOK, Places
<1>6. Recorded' /\ Closed'
  BY <1>1, <1>3, <1>4 DEF IInv, Recorded, Closed
<1>7. DeliveredIsLogged' /\ Stable
  BY <1>1, <1>3, <1>4 DEF DeliveredIsLogged, Stable
<1>8. Answering'
  BY <1>1, <1>2 DEF IInv, Answering
<1>9. ASSUME NEW b \in Actors PROVE Copy(b)'
  <2>1. CASE b = a
    BY <2>1, <1>2 DEF Copy
  <2>2. CASE b # a
    BY <2>2, <1>2, <1>7, CopyKept
  <2> QED
    BY <2>1, <2>2
<1> QED
  BY <1>5, <1>6, <1>7, <1>8, <1>9 DEF IInv
-----------------------------------------------------------------------------
(* The transaction that moves the money.                                    *)

\* ApplyTaskBilling that commits finds the money its row says, moves the
\* difference, and closes the charge by the task's outcome, once.
LEMMA Applied ==
  ASSUME IInv, NEW a \in Actors, Apply(a)
  PROVE  /\ row.bill \in Pending /\ request \notin Early /\ event.state = "none"
         /\ charged' = row.target /\ row' \in Row
         /\ row'.quota = row.target /\ row'.target = row.target
         /\ row'.status = row.status /\ row'.media = row.media
         /\ row.bill = "SUBMIT_PENDING" =>
                row'.bill = "PENDING" /\ event' = event /\ record' = record
         /\ row.bill = "FINALIZE_PENDING" =>
                /\ row'.bill = (IF row.status = "FAILURE" THEN "REFUNDED" ELSE "SETTLED")
                /\ row.status = "FAILURE" => row.target = 0
                /\ event'.state = "pending"
                /\ event' \in [state : {"pending"}, logged : BOOLEAN]
                /\ record' \in {record, "refunded"}
<1> DEFINE m == mem[a]
<1>1. /\ pc[a] = "apply" /\ row.bill = m.bill /\ row.quota = m.quota /\ row.target = m.target
      /\ row' = [row EXCEPT !.bill = NextBill(m), !.quota = m.target, !.retry = 0]
  BY DEF Apply
<1>2. /\ row \in Row /\ row.quota \in Nat /\ row.target \in Nat /\ charged \in Nat
  BY DEF IInv, TypeOK, Row
<1>3. row.bill \in Pending
  BY <1>1 DEF IInv, Copy, Pending
<1>4. request \notin Early /\ charged = row.quota
  BY <1>3 DEF IInv, Recorded, Pending
<1>5. event.state = "none"
  BY <1>3 DEF IInv, Closed, Pending
<1>6. record # "refunded"
  BY <1>4, <1>5 DEF IInv, Recorded, Early
<1>7. charged' = row.target
  <2>1. charged' = charged + (m.target - m.quota)
    BY <1>6 DEF Apply
  <2> QED
    BY <2>1, <1>1, <1>2, <1>4
<1>8. row.bill = "SUBMIT_PENDING" => NextBill(m) = "PENDING" /\ event' = event /\ record' = record
  BY <1>1 DEF Apply, NextBill, ClaimsRecord
<1>9. row.bill = "FINALIZE_PENDING" =>
        /\ NextBill(m) = (IF row.status = "FAILURE" THEN "REFUNDED" ELSE "SETTLED")
        /\ row.status = "FAILURE" => row.target = 0
  <2> SUFFICES ASSUME row.bill = "FINALIZE_PENDING"
               PROVE  /\ NextBill(m) = (IF row.status = "FAILURE" THEN "REFUNDED" ELSE "SETTLED")
                      /\ row.status = "FAILURE" => row.target = 0
    OBVIOUS
  <2>1. m.status = "FAILURE" <=> row.status = "FAILURE"
    BY <1>1, <1>5 DEF IInv, Copy
  <2>2. row.status = "FAILURE" => row.target = 0
    BY DEF IInv, Closed
  <2> QED
    BY <1>1, <2>1, <2>2 DEF NextBill
<1>10. row.bill = "FINALIZE_PENDING" =>
        /\ event' \in [state : {"pending"}, logged : BOOLEAN]
        /\ record' \in {record, "refunded"}
  <2> SUFFICES ASSUME row.bill = "FINALIZE_PENDING"
               PROVE  /\ event' \in [state : {"pending"}, logged : BOOLEAN]
                      /\ record' \in {record, "refunded"}
    OBVIOUS
  <2>1. \E logged \in IF m.target - m.quota > 0 THEN BOOLEAN ELSE {m.target - m.quota < 0} :
            event' = [state |-> "pending", logged |-> logged]
    BY <1>1 DEF Apply
  <2>2. \E logged \in BOOLEAN : event' = [state |-> "pending", logged |-> logged]
    <3>1. CASE m.target - m.quota > 0
      BY <2>1, <3>1
    <3>2. CASE ~(m.target - m.quota > 0)
      <4>1. event' = [state |-> "pending", logged |-> m.target - m.quota < 0]
        BY <2>1, <3>2
      <4>2. (m.target - m.quota < 0) \in BOOLEAN
        OBVIOUS
      <4> QED
        BY <4>1, <4>2
    <3> QED
      BY <3>1, <3>2
  <2>3. record' \in {record, "refunded"}
    BY DEF Apply
  <2> QED
    BY <2>2, <2>3
<1>11. NextBill(m) \in Bills
  BY DEF NextBill, Bills
<1>12. /\ row' \in Row /\ row'.bill = NextBill(m)
       /\ row'.quota = row.target /\ row'.target = row.target
       /\ row'.status = row.status /\ row'.media = row.media
  BY <1>1, <1>2, <1>11 DEF Row
<1> HIDE DEF m
<1> QED
  BY <1>3, <1>4, <1>5, <1>7, <1>8, <1>9, <1>10, <1>12

\* So it keeps the invariant.
LEMMA ApplyStep ==
  ASSUME IInv, NEW a \in Actors, Apply(a)
  PROVE  IInv'
<1> USE Others DEF world, money
<1> DEFINE next == IF mem[a].bill = "FINALIZE_PENDING" THEN "log" ELSE "idle"
<1>1. /\ pc[a] = "apply" /\ Goto(a, next, mem[a])
      /\ UNCHANGED <<start, source, channel, upstream, request, log, job>>
  BY DEF Apply
<1>2. next \in Places /\ next \in {"log", "idle"} /\ mem[a] \in Row
  BY MemType DEF Places
<1> HIDE DEF next
<1>3. /\ pc' \in [Actors -> Places] /\ mem' \in [Actors -> Row] /\ pc'[a] = next
      /\ \A b \in Actors : b # a => pc'[b] = pc[b] /\ mem'[b] = mem[b]
  BY <1>1, <1>2, GotoType
<1>4. /\ row.bill \in Pending /\ request \notin Early /\ event.state = "none"
      /\ charged' = row.target /\ row' \in Row
      /\ row'.quota = row.target /\ row'.target = row.target
      /\ row'.status = row.status /\ row'.media = row.media
  BY Applied
<1>5. CASE row.bill = "SUBMIT_PENDING"
  <2>1. row'.bill = "PENDING" /\ event' = event /\ record' = record
    BY <1>5, Applied
  <2>2. row \in Row /\ row.target \in Nat
    BY DEF IInv, TypeOK, Row
  <2>3. TypeOK'
    <3>1. TypeOK
      BY DEF IInv
    <3> QED
      BY <3>1, <1>1, <1>3, <1>4, <2>1, <2>2 DEF TypeOK, Places
  <2>4. Recorded'
    BY <1>1, <1>4, <1>5, <2>1 DEF IInv, Recorded
  <2>5. Closed' /\ DeliveredIsLogged' /\ Stable
    BY <1>1, <1>4, <1>5, <2>1 DEF IInv, Closed, DeliveredIsLogged, Stable
  <2> QED
    <3>1. Answering'
      BY <1>1, <1>2, <1>3 DEF IInv, Answering
    <3>2. ASSUME NEW b \in Actors PROVE Copy(b)'
      <4>1. CASE b = a
        BY <4>1, <1>2, <1>3 DEF Copy
      <4>2. CASE b # a
        BY <4>2, <1>3, <2>5, CopyKept
      <4> QED
        BY <4>1, <4>2
    <3> QED
      BY <2>3, <2>4, <2>5, <3>1, <3>2 DEF IInv
<1>6. CASE row.bill = "FINALIZE_PENDING"
  <2>1. /\ row'.bill = (IF row.status = "FAILURE" THEN "REFUNDED" ELSE "SETTLED")
        /\ row.status = "FAILURE" => row.target = 0
        /\ event'.state = "pending"
        /\ event' \in [state : {"none", "pending", "delivered"}, logged : BOOLEAN]
        /\ record' \in {record, "refunded"}
    BY <1>6, Applied
  <2>2. row \in Row /\ row.target \in Nat
    BY DEF IInv, TypeOK, Row
  <2>3. TypeOK'
    <3>1. TypeOK
      BY DEF IInv
    <3> QED
      BY <3>1, <1>1, <1>3, <1>4, <2>1, <2>2 DEF TypeOK, Places
  <2>4. Recorded'
    BY <1>1, <1>4, <1>6, <2>1 DEF IInv, Recorded
  <2>5. Closed' /\ DeliveredIsLogged' /\ Stable
    BY <1>1, <1>4, <1>6, <2>1 DEF IInv, Closed, DeliveredIsLogged, Stable
  <2> QED
    <3>1. Answering'
      BY <1>1, <1>2, <1>3 DEF IInv, Answering
    <3>2. ASSUME NEW b \in Actors PROVE Copy(b)'
      <4>1. CASE b = a
        BY <4>1, <1>2, <1>3 DEF Copy
      <4>2. CASE b # a
        BY <4>2, <1>3, <2>5, CopyKept
      <4> QED
        BY <4>1, <4>2
    <3> QED
      BY <2>3, <2>4, <2>5, <3>1, <3>2 DEF IInv
<1> QED
  BY <1>4, <1>5, <1>6 DEF Pending
-----------------------------------------------------------------------------

\* No step of anybody breaks the invariant.
LEMMA TaskStep == IInv /\ [Next]_vars => IInv'
<1> SUFFICES ASSUME IInv, [Next]_vars PROVE IInv'
  OBVIOUS
<1>1. CASE Submit
  BY <1>1, PreConsumeStep, CompleteSubmissionStep, InsertStep, RequestStep, ReadStep,
     FailSubmissionStep DEF Submit
<1>2. CASE \E p \in Pollers : Poll(p)
  BY <1>2, LoadStep, LoadEventStep, RecoveryStep, TimeOutStep, EnqueueStep, KeepPendingStep,
     FailureStep, Others, RescheduleStep DEF Poll
<1>3. CASE \E f \in Fetchers : LoadFetch(f) \/ FetchFailure(f)
  BY <1>3, LoadFetchStep, FailureStep, Others
<1>4. CASE \E a \in Pollers \cup Fetchers : Observe(a)
  BY <1>4, Others, ProgressStep, SuccessStep DEF Observe
<1>5. CASE Transfer
  BY <1>5, CompleteTransferStep, TransferStep DEF Transfer
<1>6. CASE \E a \in Actors : Apply(a) \/ RecordLog(a) \/ MarkDelivered(a) \/ GiveUp(a) \/ Crash(a)
  BY <1>6, ApplyStep, RecordLogStep, MarkDeliveredStep, LeaveStep
<1>7. CASE World
  BY <1>7, WorldStep
<1>8. CASE UNCHANGED vars
  <2>1. /\ UNCHANGED <<start, source, request, row, charged, record, event, log, job>>
        /\ UNCHANGED <<channel, upstream, pc, mem>>
    BY <1>8 DEF vars
  <2>2. TypeOK'
    BY <2>1 DEF IInv, TypeOK
  <2>3. Recorded' /\ Closed' /\ Answering' /\ DeliveredIsLogged' /\ Stable
    BY <2>1 DEF IInv, Recorded, Closed, Answering, DeliveredIsLogged, Stable
  <2> QED
    BY <2>1, <2>2, <2>3, StillStep
<1> QED
  BY <1>1, <1>2, <1>3, <1>4, <1>5, <1>6, <1>7, <1>8 DEF Next

\* The invariant holds in every state.
LEMMA TaskInvariant == Spec => []IInv
  BY TaskInit, TaskStep, PTL DEF Spec

\* Row, copies and charge stay well formed, and no charge is ever negative.
THEOREM TaskTypeOK == Spec => []TypeOK
<1>1. IInv => TypeOK
  BY DEF IInv
<1> QED
  BY <1>1, TaskInvariant, PTL

\* Whoever races, fails or dies, the funding source has paid exactly what the
\* row says (ApplyTaskBilling, UpdateWithSnapshot, EnqueueMediaTransferAndTask).
THEOREM TaskChargeMatchesRow == Spec => []ChargeMatchesRow
<1>1. IInv => ChargeMatchesRow
  BY DEF IInv, Recorded, ChargeMatchesRow
<1> QED
  BY <1>1, TaskInvariant, PTL

\* A request that was answered with an error never pays in the end
\* (completePersistentTaskSubmission against recovery and sweep).
THEOREM TaskErrorNeverCharges == Spec => []ErrorNeverCharges
<1>1. IInv => ErrorNeverCharges
  BY DEF IInv, Recorded, ErrorNeverCharges
<1> QED
  BY <1>1, TaskInvariant, PTL

\* The final bill agrees with the outcome, although both are decided on copies
\* and ApplyTaskBilling does not look at the status.
THEOREM TaskBillMatchesOutcome == Spec => []BillMatchesOutcome
<1>1. IInv => BillMatchesOutcome
  BY DEF IInv, Closed, BillMatchesOutcome
<1> QED
  BY <1>1, TaskInvariant, PTL

\* An event is marked delivered only after its log was written, by whichever
\* actor (deliverTaskBillingEvent).
THEOREM TaskDeliveredIsLogged == Spec => []DeliveredIsLogged
<1>1. IInv => DeliveredIsLogged
  BY DEF IInv
<1> QED
  BY <1>1, TaskInvariant, PTL
-----------------------------------------------------------------------------
(* TaskBilling implements TaskCharge.                                       *)

\* What the customer sees does not change when no money moves, no event comes,
\* a charge with an event keeps its bill, and a request stays rejected,
\* released or neither.
LEMMA SameStage ==
  ASSUME charged' = charged,
         event'.state = "none" <=> event.state = "none",
         event.state # "none" => row'.bill = row.bill,
         request \in {"new", "rejected"} <=> request' \in {"new", "rejected"},
         request = "released" <=> request' = "released"
  PROVE  UNCHANGED <<stage, charged>>
<1>1. stage' = stage
  BY DEF stage
<1> QED
  BY <1>1

\* A step of the abstract charge, or none.
Charge == [C!Hold \/ C!Revise \/ C!Settle \/ C!GiveBack]_<<stage, charged>>

\* The request before its row is there: a hold, and perhaps its release.
LEMMA SubmitRefines ==
  ASSUME IInv, Submit
  PROVE  Charge
<1> USE Others DEF world, money, Charge
<1>1. ASSUME NEW q \in Quotas \cup {0}, PreConsume(q) PROVE Charge
  <2>1. q \in Nat
    BY TaskAssumption
  <2>2. event.state = "none"
    BY <1>1 DEF PreConsume, IInv, Recorded, Closed, Early
  <2>3. stage = "none" /\ stage' = "held" /\ charged' = q
    BY <1>1, <2>2 DEF PreConsume, stage
  <2> QED
    BY <2>1, <2>3 DEF C!Hold
<1>2. CASE SessionRefund
  <2>1. event.state = "none" /\ event' = event
    BY <1>2 DEF SessionRefund, IInv, Recorded, Closed, Early
  <2>2. CASE request' = "released"
    <3>1. stage = "held" /\ stage' = "released" /\ charged' = 0
      BY <1>2, <2>1, <2>2 DEF SessionRefund, stage
    <3> QED
      BY <3>1 DEF C!GiveBack
  <2>3. CASE request' # "released"
    <3>1. request = "refunding" /\ request' = "lost" /\ charged' = charged
      BY <1>2, <2>3 DEF SessionRefund
    <3> QED
      BY <2>1, <3>1, SameStage
  <2> QED
    BY <2>2, <2>3
<1>3. CASE PreConsumeRefused \/ InsertFails \/ UpstreamAnswers \/ ReadSubmission
  <2>1. UNCHANGED <<row, charged, event>>
    BY <1>3 DEF PreConsumeRefused, InsertFails, UpstreamAnswers, ReadSubmission
  <2>2. \/ request = "new" /\ request' = "rejected"
        \/ request = "reserved" /\ request' = "refunding"
        \/ request = "calling" /\ request' \in {"accepted", "refused"}
        \/ request \in {"accepted", "refused"} /\ request' \in {"accepted", "refused", "error"}
    BY <1>3 DEF PreConsumeRefused, InsertFails, UpstreamAnswers, ReadSubmission
  <2> QED
    BY <2>1, <2>2, SameStage
<1>4. CASE InsertTask
  <2>1. event.state = "none"
    BY <1>4 DEF InsertTask, IInv, Recorded, Closed, Early
  <2>2. UNCHANGED <<charged, event>> /\ request = "reserved" /\ request' = "calling"
    BY <1>4 DEF InsertTask
  <2> QED
    BY <2>1, <2>2, SameStage
<1>5. ASSUME NEW q \in Quotas \cup {0}, CompleteSubmission(q) \/ FailSubmission PROVE Charge
  <2>1. /\ pc[Request] \in {"complete", "fail"} /\ SnapshotHolds(mem[Request])
        /\ UNCHANGED <<charged, event>> /\ request' \in {"ok", "error"}
    BY <1>5 DEF CompleteSubmission, FailSubmission, Save
  <2>2. event.state = "none" /\ request \notin {"new", "rejected", "released"}
    BY <2>1, Found
  <2> QED
    BY <2>1, <2>2, SameStage
<1>6. FailSubmission => Charge
  BY <1>5
<1> HIDE DEF Charge
<1> QED
  BY <1>1, <1>2, <1>3, <1>4, <1>5, <1>6 DEF Submit

\* Whoever writes the row back moves no money, and finds no event.
LEMMA SaveRefines ==
  ASSUME IInv, NEW a \in Actors, NEW new, NEW next, Save(a, new, next),
         pc[a] \in {"complete", "fail", "stale", "sweep", "poll", "fetch"}, request' = request
  PROVE  Charge
<1>1. SnapshotHolds(mem[a]) /\ UNCHANGED <<charged, event>>
  BY DEF Save, money
<1>2. event.state = "none"
  BY <1>1, Found
<1> QED
  BY <1>1, <1>2, SameStage DEF Charge

\* Polling loops and fetches.
LEMMA PollRefines ==
  ASSUME IInv, NEW a \in Pollers \cup Fetchers, Poll(a) \/ LoadFetch(a) \/ FetchFailure(a) \/ Observe(a)
  PROVE  Charge
<1> USE Others DEF world, money
<1>1. CASE \/ \E why \in {"stale", "sweep", "poll", "apply"} : Load(a, why)
           \/ LoadEvent(a) \/ LoadFetch(a) \/ Reschedule(a)
  <2>1. UNCHANGED <<charged, event, request>>
    BY <1>1 DEF Load, LoadEvent, LoadFetch, Reschedule
  <2>2. row \in Row
    BY DEF IInv, TypeOK
  <2>3. row'.bill = row.bill
    BY <1>1, <2>2 DEF Load, LoadEvent, LoadFetch, Reschedule, Row
  <2> QED
    BY <2>1, <2>3, SameStage DEF Charge
<1>2. CASE FailStale(a) \/ TimeOut(a) \/ ChannelUnknown(a) \/ KeepPending(a)
           \/ Progress(a) \/ PollFailure(a) \/ FetchFailure(a) \/ \E q \in Quotas \cup {0} : Success(a, q)
  <2>1. a \in Actors
    BY Others
  <2>2. /\ pc[a] \in {"stale", "sweep", "poll", "fetch"} /\ request' = request
        /\ \E new, next : Save(a, new, next)
    BY <1>2 DEF FailStale, TimeOut, ChannelUnknown, KeepPending, Progress, PollFailure,
           FetchFailure, Success
  <2> QED
    BY <2>1, <2>2, SaveRefines
<1>3. CASE \E q \in Quotas \cup {0} : Enqueue(a, q)
  <2>1. /\ pc[a] = "poll" /\ row.status = mem[a].status /\ row.bill = mem[a].bill /\ job = "none"
        /\ UNCHANGED <<charged, event, request>>
    BY <1>3 DEF Enqueue
  <2>2. event.state = "none"
    BY <2>1 DEF IInv, Copy, Closed, Actors
  <2> QED
    BY <2>1, <2>2, SameStage DEF Charge
<1> QED
  BY <1>1, <1>2, <1>3 DEF Poll, Observe

\* The transaction of ApplyTaskBilling revises the hold or closes it.
LEMMA ApplyRefines ==
  ASSUME IInv, NEW a \in Actors, Apply(a)
  PROVE  Charge
<1>1. /\ row.bill \in Pending /\ request \notin Early /\ event.state = "none"
      /\ charged' = row.target /\ request' = request
  BY Applied DEF Apply
<1>2. row.target \in Nat
  BY DEF IInv, TypeOK, Row
<1>3. stage = "held"
  BY <1>1 DEF stage, Early
<1>4. CASE row.bill = "SUBMIT_PENDING"
  <2>1. event' = event
    BY <1>4, Applied
  <2>2. stage' = "held"
    BY <2>1, <1>1 DEF stage, Early
  <2> QED
    BY <1>1, <1>2, <1>3, <2>2 DEF Charge, C!Revise
<1>5. CASE row.bill = "FINALIZE_PENDING"
  <2>1. /\ row'.bill = (IF row.status = "FAILURE" THEN "REFUNDED" ELSE "SETTLED")
        /\ row.status = "FAILURE" => row.target = 0
        /\ event'.state = "pending"
    BY <1>5, Applied
  <2>2. stage' = IF row.status = "FAILURE" THEN "refunded" ELSE "settled"
    BY <2>1, <1>1 DEF stage, Early
  <2> QED
    BY <1>1, <1>2, <1>3, <2>1, <2>2 DEF Charge, C!Settle, C!GiveBack
<1> QED
  BY <1>1, <1>4, <1>5 DEF Pending

\* Deliveries, transfers, departures and the rest of the world do not show.
LEMMA RestRefines ==
  ASSUME IInv,
         \/ Transfer \/ World
         \/ \E a \in Actors : RecordLog(a) \/ MarkDelivered(a) \/ GiveUp(a) \/ Crash(a)
  PROVE  Charge
<1> USE DEF world, money
<1>0. row \in Row /\ event \in [state : {"none", "pending", "delivered"}, logged : BOOLEAN]
  BY DEF IInv, TypeOK
<1>1. CASE Transfer
  <2>1. UNCHANGED <<charged, event, request>>
    BY <1>1 DEF Transfer, CompleteTransfer, TransferFails, RetryTransfer
  <2>2. row'.bill = row.bill
    BY <1>0, <1>1 DEF Transfer, CompleteTransfer, TransferFails, RetryTransfer, Row
  <2> QED
    BY <2>1, <2>2, SameStage DEF Charge
<1>2. CASE World
  <2>1. UNCHANGED <<charged, event, request, row>>
    BY <1>2 DEF World, UpstreamEnds, DeleteChannel, CleanupRecord
  <2> QED
    BY <2>1, SameStage DEF Charge
<1>3. ASSUME NEW a \in Actors, RecordLog(a) \/ MarkDelivered(a) PROVE Charge
  <2>1. /\ UNCHANGED <<charged, request, row>>
        /\ event' = event \/ (pc[a] = "mark" /\ event' = [event EXCEPT !.state = "delivered"])
    BY <1>3 DEF RecordLog, MarkDelivered
  <2>2. pc[a] = "mark" => event.state # "none"
    BY DEF IInv, Copy
  <2>3. event'.state = "none" <=> event.state = "none"
    BY <1>0, <2>1, <2>2
  <2> QED
    BY <2>1, <2>3, SameStage DEF Charge
<1>4. ASSUME NEW a \in Actors, GiveUp(a) \/ Crash(a) PROVE Charge
  <2>1. UNCHANGED <<charged, event, row>> /\ request \in Requests
    BY <1>4 DEF GiveUp, Crash, IInv, TypeOK, Requests
  <2>2. \/ request' = request
        \/ request = "new" /\ request' = "rejected"
        \/ /\ request \notin {"new", "rejected", "released"}
           /\ request' \notin {"new", "rejected", "released"}
    <3>1. CASE GiveUp(a)
      BY <3>1 DEF GiveUp, IInv, Answering
    <3>2. CASE Crash(a)
      BY <3>2, <2>1 DEF Crash, Requests
    <3> QED
      BY <1>4, <3>1, <3>2
  <2> QED
    BY <2>1, <2>2, SameStage DEF Charge
<1> QED
  BY <1>1, <1>2, <1>3, <1>4

\* For every task, the billing machine of task.go and task_billing.go keeps the
\* promise of TaskCharge: one hold, closed once, and nothing after that.
THEOREM TaskImplementsCharge == Spec => ImplementsCharge
<1>1. Init => C!ChargeInit
  <2> SUFFICES ASSUME Init PROVE C!ChargeInit
    OBVIOUS
  <2>1. charged \in Nat /\ event.state = "none"
    BY TaskInit DEF Init, IInv, TypeOK
  <2>2. (request = "new" /\ charged = 0) \/ request = "ok"
    BY DEF Init
  <2> QED
    BY <2>1, <2>2 DEF C!ChargeInit, stage
<1>2. IInv /\ [Next]_vars => Charge
  <2> SUFFICES ASSUME IInv, [Next]_vars PROVE Charge
    OBVIOUS
  <2>1. CASE UNCHANGED vars
    BY <2>1, SameStage DEF vars, Charge
  <2>2. CASE Next
    BY <2>2, SubmitRefines, PollRefines, ApplyRefines, RestRefines DEF Next
  <2> QED
    BY <2>1, <2>2
<1> QED
  BY <1>1, <1>2, TaskInvariant, PTL DEF Spec, ImplementsCharge, C!ChargeSpec, Charge
=============================================================================

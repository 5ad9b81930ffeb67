------------------------- MODULE CreationIdempotency -------------------------
(***************************************************************************)
(* The Idempotency-Key of the creation endpoints:                            *)
(* middleware/creation_idempotency.go and model/creation_idempotency.go.     *)
(* A request claims its key by inserting a row, runs the handler behind a    *)
(* writer that keeps the response, stores the response in the row and only   *)
(* then sends it.  A request that finds the row replays what is stored or    *)
(* waits for it.  A key stands for a token together with its key, a response *)
(* for the request that made it and its length.  Requests without a key, or  *)
(* with a malformed one, do not come here.                                   *)
(***************************************************************************)
EXTENDS Integers, FiniteSets

CONSTANTS Requests,   \* requests ever sent, retries included
          Keys,
          Hashes,     \* SHA-256 of method, path, query and body
          Limit,      \* creationIdempotencyResponseLimit
          MaxBody,    \* bound: the longest response
          None

ASSUME IdempotencyAssumption ==
    /\ Limit \in Nat /\ MaxBody \in Nat
    /\ None \notin Requests \cup Keys \cup Hashes

VARIABLES row,       \* row[k]: the table creation_idempotencies
          pc,        \* pc[r]: the next statement of request r
          key,       \* key[r]
          hash,      \* hash[r]: its request hash
          writer,    \* writer[r]: creationIdempotencyWriter of r
          answer,    \* answer[r]: what the client got
          ran,       \* ran: the requests whose handler was called
          faults     \* keys whose owner met a crash, a panic or a failed statement

vars == <<row, pc, key, hash, writer, answer, ran, faults>>

NoRow == [status |-> "none", hash |-> None, by |-> None, len |-> 0, truncated |-> FALSE]
NewWriter == [body |-> 0, out |-> 0, truncated |-> FALSE, streaming |-> FALSE]
NoAnswer == [kind |-> "none", from |-> None, len |-> 0]

\* Everything the handler of r has written, whether it was sent or only kept.
Written(r) == IF writer[r].streaming THEN writer[r].out ELSE writer[r].body

Answer(r, kind, from, len) ==
    /\ answer' = [answer EXCEPT ![r] = [kind |-> kind, from |-> from, len |-> len]]
    /\ pc' = [pc EXCEPT ![r] = "done"]

Error(r, kind) == Answer(r, kind, None, 0)

\* Mutant: the body is not hashed.
SendUnhashed(r, k, h) ==
    /\ pc[r] = "idle"
    /\ key' = [key EXCEPT ![r] = k]
    /\ pc' = [pc EXCEPT ![r] = "insert"]
    /\ UNCHANGED <<row, hash, writer, answer, ran, faults>>

\* creationRequestHash; the request is ready to claim its key.
Send(r, k, h) ==
    /\ pc[r] = "idle"
    /\ key' = [key EXCEPT ![r] = k]
    /\ hash' = [hash EXCEPT ![r] = h]
    /\ pc' = [pc EXCEPT ![r] = "insert"]
    /\ UNCHANGED <<row, writer, answer, ran, faults>>

Claimed(r) ==
    [status |-> "processing", hash |-> hash[r], by |-> r, len |-> 0, truncated |-> FALSE]

\* Mutant: the conflict clause updates the row instead of doing nothing.
InsertOrUpdate(r) ==
    /\ pc[r] = "insert"
    /\ row' = [row EXCEPT ![key[r]] = Claimed(r)]
    /\ ran' = ran \cup {r}
    /\ pc' = [pc EXCEPT ![r] = "run"]
    /\ UNCHANGED <<key, hash, writer, answer, faults>>

\* ReserveCreationIdempotency, the insert: the unique index on token and key
\* lets one request in.
Insert(r) ==
    /\ pc[r] = "insert"
    /\ \/ /\ row[key[r]].status = "none"
          /\ row' = [row EXCEPT ![key[r]] = Claimed(r)]
          /\ ran' = ran \cup {r}
          /\ pc' = [pc EXCEPT ![r] = "run"]
       \/ /\ row[key[r]].status # "none"
          /\ pc' = [pc EXCEPT ![r] = "read"]
          /\ UNCHANGED <<row, ran>>
    /\ UNCHANGED <<key, hash, writer, answer, faults>>

\* The insert reports an error; it may have taken effect all the same.
InsertFails(r) ==
    /\ pc[r] = "insert"
    /\ \/ UNCHANGED <<row, faults>>
       \/ /\ row[key[r]].status = "none"
          /\ row' = [row EXCEPT ![key[r]] = Claimed(r)]
          /\ faults' = faults \cup {key[r]}
    /\ Error(r, "unavailable")
    /\ UNCHANGED <<key, hash, writer, ran>>

\* replayCreationIdempotency.
Replay(r) ==
    LET e == row[key[r]]
    IN IF e.truncated THEN Error(r, "too_large")
       ELSE Answer(r, "replay", e.by, e.len)

\* ReserveCreationIdempotency, the select, and what the middleware makes of it.
Read(r) ==
    /\ pc[r] = "read"
    /\ \/ row[key[r]].hash # hash[r] /\ Error(r, "conflict")
       \/ /\ row[key[r]].hash = hash[r] /\ row[key[r]].status = "completed"
          /\ Replay(r)
       \/ /\ row[key[r]].hash = hash[r] /\ row[key[r]].status = "processing"
          /\ pc' = [pc EXCEPT ![r] = "wait"]
          /\ UNCHANGED answer
    /\ UNCHANGED <<row, key, hash, writer, ran, faults>>

\* waitForCreationIdempotency: a poll that finds the response.
Poll(r) ==
    /\ pc[r] = "wait"
    /\ row[key[r]].status = "completed"
    /\ Replay(r)
    /\ UNCHANGED <<row, key, hash, writer, ran, faults>>

\* Mutant: no deadline while the owner may still answer.
GiveUpNever(r) ==
    /\ pc[r] = "wait" /\ row[key[r]].status = "none"
    /\ Error(r, "in_progress")
    /\ UNCHANGED <<row, key, hash, writer, ran, faults>>

\* The five seconds are over.
GiveUp(r) ==
    /\ pc[r] = "wait"
    /\ Error(r, "in_progress")
    /\ UNCHANGED <<row, key, hash, writer, ran, faults>>

\* A select of a request that does not own the row fails.
ReadFails(r) ==
    /\ pc[r] \in {"read", "wait"}
    /\ Error(r, "unavailable")
    /\ UNCHANGED <<row, key, hash, writer, ran, faults>>

-----------------------------------------------------------------------------
(* The owner of the row.                                                    *)

\* Mutant: what goes past the limit is sent, and the record not marked.
KeepQuietly(w, n) ==
    IF w.streaming THEN [w EXCEPT !.out = @ + n]
    ELSE IF w.body + n > Limit
         THEN [w EXCEPT !.streaming = TRUE, !.out = w.body + n]
         ELSE [w EXCEPT !.body = @ + n]

\* creationIdempotencyWriter.Write of n bytes.
Keep(w, n) ==
    IF w.streaming THEN [w EXCEPT !.out = @ + n]
    ELSE IF w.body + n > Limit
         THEN [w EXCEPT !.truncated = TRUE, !.streaming = TRUE, !.out = w.body + n]
         ELSE [w EXCEPT !.body = @ + n]

Write(r, n) ==
    /\ pc[r] = "run"
    /\ Written(r) + n <= MaxBody
    /\ writer' = [writer EXCEPT ![r] = Keep(@, n)]
    /\ UNCHANGED <<row, pc, key, hash, answer, ran, faults>>

\* flushBuffered.
Flushed(w) == IF w.streaming THEN w ELSE [w EXCEPT !.streaming = TRUE, !.out = w.body]

\* Writer.Flush: the media handlers call it once, after the whole body.
Flush(r) ==
    /\ pc[r] = "run"
    /\ writer' = [writer EXCEPT ![r] = Flushed(@)]
    /\ pc' = [pc EXCEPT ![r] = "flushed"]
    /\ UNCHANGED <<row, key, hash, answer, ran, faults>>

\* CompleteCreationIdempotency: the row with the response of r.
Stored(r) ==
    LET e == row[key[r]]
    IN IF e.by = r /\ e.hash = hash[r] /\ e.status = "processing"
       THEN [e EXCEPT !.status = "completed", !.len = writer[r].body,
                      !.truncated = writer[r].truncated]
       ELSE e

\* Mutant: a response that is too large is not recorded.
CompleteUnlessTruncated(r) ==
    /\ pc[r] \in {"run", "flushed"}
    /\ row' = IF writer[r].truncated THEN row ELSE [row EXCEPT ![key[r]] = Stored(r)]
    /\ pc' = [pc EXCEPT ![r] = "flush"]
    /\ UNCHANGED <<key, hash, writer, answer, ran, faults>>

Complete(r) ==
    /\ pc[r] \in {"run", "flushed"}
    /\ row' = [row EXCEPT ![key[r]] = Stored(r)]
    /\ pc' = [pc EXCEPT ![r] = "flush"]
    /\ UNCHANGED <<key, hash, writer, answer, ran, faults>>

\* The update reports an error, which is only logged.
CompleteFails(r) ==
    /\ pc[r] \in {"run", "flushed"}
    /\ \/ UNCHANGED row
       \/ row' = [row EXCEPT ![key[r]] = Stored(r)]
    /\ pc' = [pc EXCEPT ![r] = "flush"]
    /\ faults' = faults \cup {key[r]}
    /\ UNCHANGED <<key, hash, writer, answer, ran>>

\* The response goes out.
Respond(r) ==
    /\ pc[r] = "flush"
    /\ writer' = [writer EXCEPT ![r] = Flushed(@)]
    /\ Answer(r, "own", r, Written(r))
    /\ UNCHANGED <<row, key, hash, ran, faults>>

\* The handler panics.  The recovery writes its error to the writer, which
\* nobody flushes any more: the client gets what was sent before, or an empty
\* response.
Panic(r) ==
    /\ pc[r] \in {"run", "flushed"}
    /\ Answer(r, "panic", r, writer[r].out)
    /\ faults' = faults \cup {key[r]}
    /\ UNCHANGED <<row, key, hash, writer, ran>>

InFlight == {r \in Requests : pc[r] \notin {"idle", "done"}}

\* A gateway process dies with the requests S that it serves.
Crash(S) ==
    /\ S # {}
    /\ pc' = [r \in Requests |-> IF r \in S THEN "done" ELSE pc[r]]
    /\ answer' = [r \in Requests |->
                    IF r \in S THEN [kind |-> "lost", from |-> None, len |-> 0] ELSE answer[r]]
    /\ faults' = faults \cup {key[r] : r \in S \cap ran}
    /\ UNCHANGED <<row, key, hash, writer, ran>>

Init ==
    /\ row = [k \in Keys |-> NoRow]
    /\ pc = [r \in Requests |-> "idle"]
    /\ key = [r \in Requests |-> None]
    /\ hash = [r \in Requests |-> None]
    /\ writer = [r \in Requests |-> NewWriter]
    /\ answer = [r \in Requests |-> NoAnswer]
    /\ ran = {} /\ faults = {}

\* What the goroutine of r does when nothing fails.
Step(r) ==
    \/ Insert(r) \/ Read(r) \/ Poll(r) \/ GiveUp(r)
    \/ \E n \in 1..MaxBody : Write(r, n)
    \/ Flush(r) \/ Complete(r) \/ Respond(r)

Fault(r) == InsertFails(r) \/ ReadFails(r) \/ CompleteFails(r) \/ Panic(r)

Next ==
    \/ \E r \in Requests :
          \/ \E k \in Keys, h \in Hashes : Send(r, k, h)
          \/ Step(r) \/ Fault(r)
    \/ \E S \in SUBSET InFlight : Crash(S)

Spec == Init /\ [][Next]_vars

\* A goroutine that can go on does; nothing is assumed about failures.
FairSpec == Spec /\ \A r \in Requests : WF_vars(Step(r))

-----------------------------------------------------------------------------
(* Properties.                                                              *)

Row == [status : {"none", "processing", "completed"}, hash : Hashes \cup {None},
        by : Requests \cup {None}, len : Nat, truncated : BOOLEAN]
Writer == [body : Nat, out : Nat, truncated : BOOLEAN, streaming : BOOLEAN]
Kinds == {"none", "own", "replay", "too_large", "conflict", "in_progress", "unavailable",
          "panic", "lost"}

\* Every variable has its type; a request that was sent has a key and a hash.
TypeOK ==
    /\ row \in [Keys -> Row]
    /\ pc \in [Requests -> {"idle", "insert", "read", "wait", "run", "flushed", "flush", "done"}]
    /\ key \in [Requests -> Keys \cup {None}]
    /\ hash \in [Requests -> Hashes \cup {None}]
    /\ writer \in [Requests -> Writer]
    /\ answer \in [Requests -> [kind : Kinds, from : Requests \cup {None}, len : Nat]]
    /\ ran \in SUBSET Requests
    /\ faults \in SUBSET Keys
    /\ \A r \in Requests : pc[r] # "idle" => key[r] \in Keys /\ hash[r] \in Hashes

\* Of all the requests with one key, retries and concurrent ones and requests
\* to other processes included, one reaches the provider, whatever fails in
\* between ("created is true only for the request that is allowed to contact
\* the upstream provider").
OneSubmission ==
    \A r, s \in ran : key[r] = key[s] => r = s

\* A replay is the whole response of the one request that ran with this key,
\* and that request asked for the same thing: neither another request's
\* response nor the first part of a long one.
ReplayFaithful ==
    \A r \in Requests : answer[r].kind = "replay" =>
        \E s \in ran : /\ answer[r].from = s
                       /\ key[s] = key[r] /\ hash[s] = hash[r]
                       /\ answer[r].len = Written(s)

\* A key stays in processing only as long as its owner works on it, unless the
\* owner crashed, panicked or lost a statement: requests with it are not told
\* to come back for ever.
HeldByOwner ==
    \A k \in Keys : row[k].status = "processing" =>
        \/ k \in faults
        \/ \E r \in ran : key[r] = k /\ pc[r] \in {"run", "flushed"}

\* Every request is answered, also one that waits for an owner that is gone
\* (the deadline of waitForCreationIdempotency).
Answered == \A r \in Requests : pc[r] = "insert" ~> pc[r] = "done"
=============================================================================

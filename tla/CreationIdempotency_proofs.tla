--------------------- MODULE CreationIdempotency_proofs ---------------------
(***************************************************************************)
(* The invariants of CreationIdempotency for any number of requests, keys,   *)
(* hashes and bytes.  They rest on two facts: a request that runs owns the   *)
(* row of its key (OwnsRow), and what the writer has kept is everything that *)
(* was written unless it says otherwise (KeepsAll).                          *)
(***************************************************************************)
EXTENDS CreationIdempotency, TLAPS

Response == [kind : Kinds, from : Requests \cup {None}, len : Nat]

\* A request whose handler was called owns the row of its key.
OwnsRow ==
    \A r \in ran : /\ row[key[r]].status # "none"
                   /\ row[key[r]].by = r /\ row[key[r]].hash = hash[r]

\* Where a request stands tells whether it has run and been answered.
Phase ==
    \A r \in Requests :
        /\ pc[r] \in {"idle", "insert", "read", "wait"} => r \notin ran
        /\ pc[r] \in {"run", "flushed", "flush"} => r \in ran
        /\ pc[r] # "done" => answer[r].kind = "none"

\* A request waits for a record with its own hash.
WaitsForOwn ==
    \A r \in Requests : pc[r] = "wait" =>
        row[key[r]].status # "none" /\ row[key[r]].hash = hash[r]

\* The writer has kept everything, or knows that it has not.
KeepsAll ==
    \A r \in Requests :
        /\ writer[r].streaming /\ ~writer[r].truncated => writer[r].out = writer[r].body
        /\ pc[r] = "run" /\ writer[r].streaming => writer[r].truncated
        /\ r \notin ran => ~writer[r].streaming

\* A complete record is the whole response of its owner, who has finished.
RecordWhole ==
    \A k \in Keys : row[k].status = "completed" =>
        /\ row[k].by \in ran /\ key[row[k].by] = k /\ hash[row[k].by] = row[k].hash
        /\ pc[row[k].by] \in {"flush", "done"}
        /\ ~row[k].truncated => row[k].len = Written(row[k].by)

\* ReplayFaithful, with the owner's handler at its end.
ReplayWhole ==
    \A r \in Requests : answer[r].kind = "replay" =>
        LET s == answer[r].from
        IN  /\ s \in ran /\ pc[s] \in {"flush", "done"}
            /\ key[s] = key[r] /\ hash[s] = hash[r]
            /\ answer[r].len = Written(s)

\* HeldByOwner, with the owner named by the row.
Held ==
    \A k \in Keys : row[k].status = "processing" =>
        \/ k \in faults
        \/ /\ row[k].by \in ran /\ key[row[k].by] = k
           /\ pc[row[k].by] \in {"run", "flushed"}

IInv == /\ TypeOK /\ OwnsRow /\ Phase /\ WaitsForOwn /\ KeepsAll
        /\ RecordWhole /\ ReplayWhole /\ Held
-----------------------------------------------------------------------------

\* Nothing has been sent: no row, no answer.
LEMMA IdempotencyInit == Init => IInv
<1> SUFFICES ASSUME Init PROVE IInv
  OBVIOUS
<1> USE IdempotencyAssumption DEF Init, NoRow, NewWriter, NoAnswer
<1>1. TypeOK
  BY DEF TypeOK, Row, Writer, Kinds
<1>2. OwnsRow /\ Phase /\ WaitsForOwn /\ KeepsAll
  BY DEF OwnsRow, Phase, WaitsForOwn, KeepsAll
<1>3. RecordWhole /\ ReplayWhole /\ Held
  BY DEF RecordWhole, ReplayWhole, Held
<1> QED
  BY <1>1, <1>2, <1>3 DEF IInv
\* A new request has not run, and its key and hash do not change any more.
LEMMA SendKeeps ==
  ASSUME IInv, NEW r \in Requests, NEW k \in Keys, NEW h \in Hashes, Send(r, k, h)
  PROVE  IInv'
<1> USE IdempotencyAssumption DEF IInv, Send
<1>1. TypeOK'
  BY DEF TypeOK, Row, Writer, Kinds, Response
<1>2. OwnsRow'
  BY DEF OwnsRow, Phase, TypeOK, Row
<1>3. Phase'
  BY DEF Phase, TypeOK
<1>4. WaitsForOwn'
  BY DEF WaitsForOwn, TypeOK, Row
<1>5. KeepsAll'
  BY DEF KeepsAll, Phase, TypeOK, Writer
<1>6. RecordWhole'
  BY DEF RecordWhole, OwnsRow, Phase, KeepsAll, Written, TypeOK, Row, Writer
<1>7. ReplayWhole'
  BY DEF ReplayWhole, Phase, Written, KeepsAll, TypeOK, Row, Writer
<1>8. Held'
  BY DEF Held, OwnsRow, Phase, TypeOK, Row
<1> QED
  BY <1>1, <1>2, <1>3, <1>4, <1>5, <1>6, <1>7, <1>8

\* A row is inserted where there was none, so no other request owns it.
LEMMA InsertKeeps ==
  ASSUME IInv, NEW r \in Requests, Insert(r)
  PROVE  IInv'
<1> USE IdempotencyAssumption DEF IInv
<1>1. /\ key[r] \in Keys /\ hash[r] \in Hashes /\ r \notin ran
      /\ pc[r] = "insert" /\ UNCHANGED <<key, hash, writer, answer, faults>>
  BY DEF Insert, TypeOK, Phase
<1>2. CASE row[key[r]].status = "none"
  <2> DEFINE c == Claimed(r)
  <2>1. c \in Row /\ c.status = "processing" /\ c.by = r /\ c.hash = hash[r]
    BY <1>1 DEF Claimed, Row
  <2>2. /\ row' = [row EXCEPT ![key[r]] = c] /\ ran' = ran \cup {r}
        /\ pc' = [pc EXCEPT ![r] = "run"]
    BY <1>2 DEF Insert
  <2> HIDE DEF c
  <2> USE <1>1, <1>2, <2>1, <2>2
  <2>3. TypeOK'
    BY DEF TypeOK
  <2>4. OwnsRow'
    BY DEF OwnsRow, TypeOK
  <2>5. Phase'
    BY DEF Phase, TypeOK
  <2>6. WaitsForOwn'
    BY DEF WaitsForOwn, TypeOK
  <2>7. KeepsAll'
    BY DEF KeepsAll, TypeOK
  <2>8. RecordWhole'
    BY DEF RecordWhole, Written, TypeOK
  <2>9. ReplayWhole'
    BY DEF ReplayWhole, Written, TypeOK
  <2>10. Held'
    BY DEF Held, TypeOK
  <2> QED
    BY <2>3, <2>4, <2>5, <2>6, <2>7, <2>8, <2>9, <2>10
<1>3. CASE row[key[r]].status # "none"
  <2>1. /\ UNCHANGED <<row, ran>> /\ pc' = [pc EXCEPT ![r] = "read"]
    BY <1>3 DEF Insert
  <2> USE <1>1, <2>1
  <2>2. TypeOK'
    BY DEF TypeOK
  <2>3. OwnsRow'
    BY DEF OwnsRow, TypeOK
  <2>4. Phase'
    BY DEF Phase, TypeOK
  <2>5. WaitsForOwn'
    BY DEF WaitsForOwn, TypeOK
  <2>6. KeepsAll'
    BY DEF KeepsAll, TypeOK
  <2>7. RecordWhole'
    BY DEF RecordWhole, Phase, Written, TypeOK
  <2>8. ReplayWhole'
    BY DEF ReplayWhole, Phase, Written, TypeOK
  <2>9. Held'
    BY DEF Held, Phase, TypeOK
  <2> QED
    BY <2>2, <2>3, <2>4, <2>5, <2>6, <2>7, <2>8, <2>9
<1> QED
  BY <1>2, <1>3

\* An insert that fails leaves a row that nobody owns, on record as a fault.
LEMMA InsertFailsKeeps ==
  ASSUME IInv, NEW r \in Requests, InsertFails(r)
  PROVE  IInv'
<1> USE IdempotencyAssumption DEF IInv
<1>1. key[r] \in Keys /\ hash[r] \in Hashes /\ r \notin ran /\ pc[r] = "insert"
  BY DEF InsertFails, TypeOK, Phase
<1> DEFINE c == Claimed(r)
<1>2. c \in Row /\ c.status = "processing" /\ c.hash = hash[r]
  BY <1>1 DEF Claimed, Row
<1> DEFINE a == [kind |-> "unavailable", from |-> None, len |-> 0]
<1>3. a \in Response /\ a.kind = "unavailable"
  BY DEF Response, Kinds
<1>4. /\ pc' = [pc EXCEPT ![r] = "done"] /\ answer' = [answer EXCEPT ![r] = a]
      /\ UNCHANGED <<key, hash, writer, ran>>
      /\ \/ UNCHANGED <<row, faults>>
         \/ /\ row[key[r]].status = "none"
            /\ row' = [row EXCEPT ![key[r]] = c] /\ faults' = faults \cup {key[r]}
  BY DEF InsertFails, Error, Answer
<1> HIDE DEF c, a
<1> USE <1>1, <1>2, <1>3, <1>4
<1>5. TypeOK'
  BY DEF TypeOK, Response
<1>6. OwnsRow'
  <2> SUFFICES ASSUME NEW q \in ran
               PROVE  /\ row'[key[q]].status # "none"
                      /\ row'[key[q]].by = q /\ row'[key[q]].hash = hash[q]
    BY DEF OwnsRow
  <2>1. key[q] \in Keys
    BY DEF TypeOK, Phase
  <2>2. CASE key[q] = key[r]
    BY <2>1, <2>2 DEF OwnsRow, TypeOK
  <2>3. CASE key[q] # key[r]
    BY <2>1, <2>3 DEF OwnsRow, TypeOK
  <2> QED
    BY <2>2, <2>3
<1>7. Phase'
  BY DEF Phase, TypeOK
<1>8. WaitsForOwn'
  BY DEF WaitsForOwn, TypeOK
<1>9. KeepsAll'
  BY DEF KeepsAll, TypeOK
<1>10. RecordWhole'
  BY DEF RecordWhole, Written, TypeOK
<1>11. ReplayWhole'
  BY DEF ReplayWhole, Written, TypeOK, Response
<1>12. Held'
  BY DEF Held, TypeOK
<1> QED
  BY <1>5, <1>6, <1>7, <1>8, <1>9, <1>10, <1>11, <1>12

\* A request that has not run is answered: a replay is of a complete record
\* with its own hash.
LEMMA AnsweredKeeps ==
  ASSUME IInv, NEW r \in Requests, NEW a \in Response,
         pc[r] \in {"read", "wait"}, a.kind # "none",
         a.kind = "replay" => /\ row[key[r]].status = "completed" /\ ~row[key[r]].truncated
                              /\ row[key[r]].hash = hash[r]
                              /\ a.from = row[key[r]].by /\ a.len = row[key[r]].len,
         answer' = [answer EXCEPT ![r] = a], pc' = [pc EXCEPT ![r] = "done"],
         UNCHANGED <<row, key, hash, writer, ran, faults>>
  PROVE  IInv'
<1> USE IdempotencyAssumption DEF IInv, Response
<1>1. r \notin ran
  BY DEF Phase
<1>2. TypeOK'
  BY <1>1 DEF TypeOK
<1>3. OwnsRow' /\ Phase' /\ WaitsForOwn' /\ KeepsAll'
  BY <1>1 DEF OwnsRow, Phase, WaitsForOwn, KeepsAll, TypeOK
<1>4. RecordWhole'
  BY <1>1 DEF RecordWhole, Written, TypeOK
<1>5. ReplayWhole'
  <2> SUFFICES ASSUME NEW q \in Requests, answer'[q].kind = "replay"
               PROVE  LET s == answer'[q].from
                      IN  /\ s \in ran /\ pc'[s] \in {"flush", "done"}
                          /\ key[s] = key[q] /\ hash[s] = hash[q]
                          /\ answer'[q].len = Written(s)
    BY DEF ReplayWhole, Written
  <2>1. CASE q = r
    <3>1. key[r] \in Keys /\ answer'[q] = a
      BY <2>1 DEF TypeOK
    <3> QED
      BY <1>1, <2>1, <3>1 DEF RecordWhole, TypeOK
  <2>2. CASE q # r
    BY <1>1, <2>2 DEF ReplayWhole, TypeOK
  <2> QED
    BY <2>1, <2>2
<1>6. Held'
  BY <1>1 DEF Held, TypeOK
<1> QED
  BY <1>2, <1>3, <1>4, <1>5, <1>6

\* A record that is complete is replayed, another one waited for.
LEMMA ReadKeeps ==
  ASSUME IInv, NEW r \in Requests, Read(r)
  PROVE  IInv'
<1>1. key[r] \in Keys /\ pc[r] \in {"read", "wait"}
  BY DEF IInv, TypeOK, Read
<1>2. ASSUME NEW x \in Kinds \ {"none", "replay"}, Error(r, x),
             UNCHANGED <<row, key, hash, writer, ran, faults>>
      PROVE  IInv'
  <2> DEFINE a == [kind |-> x, from |-> None, len |-> 0]
  <2>1. a \in Response /\ a.kind = x
    BY DEF Response
  <2>2. answer' = [answer EXCEPT ![r] = a] /\ pc' = [pc EXCEPT ![r] = "done"]
    BY <1>2 DEF Error, Answer
  <2> HIDE DEF a
  <2> QED
    BY <1>1, <1>2, <2>1, <2>2, AnsweredKeeps
<1>3. ASSUME Replay(r), row[key[r]].status = "completed", row[key[r]].hash = hash[r],
             UNCHANGED <<row, key, hash, writer, ran, faults>>
      PROVE  IInv'
  <2>1. CASE row[key[r]].truncated
    BY <1>2, <1>3, <2>1 DEF Replay, Kinds
  <2>2. CASE ~row[key[r]].truncated
    <3> DEFINE a == [kind |-> "replay", from |-> row[key[r]].by, len |-> row[key[r]].len]
    <3>1. row[key[r]] \in Row
      BY <1>1 DEF IInv, TypeOK
    <3>2. a \in Response /\ a.kind = "replay" /\ a.from = row[key[r]].by /\ a.len = row[key[r]].len
      BY <3>1 DEF Response, Kinds, Row
    <3>3. answer' = [answer EXCEPT ![r] = a] /\ pc' = [pc EXCEPT ![r] = "done"]
      BY <1>3, <2>2 DEF Replay, Answer
    <3> HIDE DEF a
    <3> QED
      BY <1>1, <1>3, <2>2, <3>2, <3>3, AnsweredKeeps
  <2> QED
    BY <2>1, <2>2
<1>4. CASE pc' = [pc EXCEPT ![r] = "wait"] /\ UNCHANGED <<answer, row, key, hash, writer, ran, faults>>
           /\ row[key[r]].hash = hash[r] /\ row[key[r]].status = "processing"
  <2> USE IdempotencyAssumption, <1>1, <1>4 DEF IInv
  <2>1. TypeOK' /\ OwnsRow' /\ Phase' /\ WaitsForOwn' /\ KeepsAll'
    BY DEF TypeOK, OwnsRow, Phase, WaitsForOwn, KeepsAll
  <2>2. RecordWhole' /\ Held'
    BY DEF RecordWhole, Held, Phase, Written, TypeOK
  <2>3. ReplayWhole'
    BY DEF ReplayWhole, Phase, Written, TypeOK
  <2> QED
    BY <2>1, <2>2, <2>3
<1> QED
  BY <1>2, <1>3, <1>4 DEF Read, Kinds

\* The hash was compared before the wait.
LEMMA WaitKeeps ==
  ASSUME IInv, NEW r \in Requests, Poll(r) \/ GiveUp(r) \/ ReadFails(r)
  PROVE  IInv'
<1>1. key[r] \in Keys /\ pc[r] \in {"read", "wait"}
  BY DEF IInv, TypeOK, Poll, GiveUp, ReadFails
<1>2. ASSUME NEW x \in Kinds \ {"none", "replay"}, Error(r, x),
             UNCHANGED <<row, key, hash, writer, ran, faults>>
      PROVE  IInv'
  <2> DEFINE a == [kind |-> x, from |-> None, len |-> 0]
  <2>1. a \in Response /\ a.kind = x
    BY DEF Response
  <2>2. answer' = [answer EXCEPT ![r] = a] /\ pc' = [pc EXCEPT ![r] = "done"]
    BY <1>2 DEF Error, Answer
  <2> HIDE DEF a
  <2> QED
    BY <1>1, <1>2, <2>1, <2>2, AnsweredKeeps
<1>3. ASSUME Replay(r), row[key[r]].status = "completed", row[key[r]].hash = hash[r],
             UNCHANGED <<row, key, hash, writer, ran, faults>>
      PROVE  IInv'
  <2>1. CASE row[key[r]].truncated
    BY <1>2, <1>3, <2>1 DEF Replay, Kinds
  <2>2. CASE ~row[key[r]].truncated
    <3> DEFINE a == [kind |-> "replay", from |-> row[key[r]].by, len |-> row[key[r]].len]
    <3>1. row[key[r]] \in Row
      BY <1>1 DEF IInv, TypeOK
    <3>2. a \in Response /\ a.kind = "replay" /\ a.from = row[key[r]].by /\ a.len = row[key[r]].len
      BY <3>1 DEF Response, Kinds, Row
    <3>3. answer' = [answer EXCEPT ![r] = a] /\ pc' = [pc EXCEPT ![r] = "done"]
      BY <1>3, <2>2 DEF Replay, Answer
    <3> HIDE DEF a
    <3> QED
      BY <1>1, <1>3, <2>2, <3>2, <3>3, AnsweredKeeps
  <2> QED
    BY <2>1, <2>2
<1>4. CASE Poll(r)
  BY <1>3, <1>4 DEF Poll, IInv, WaitsForOwn
<1>5. CASE GiveUp(r) \/ ReadFails(r)
  BY <1>2, <1>5 DEF GiveUp, ReadFails, Kinds
<1> QED
  BY <1>4, <1>5

\* Whoever still writes has no complete record.
LEMMA WriteKeeps ==
  ASSUME IInv, NEW r \in Requests, NEW n \in 1..MaxBody, Write(r, n)
  PROVE  IInv'
<1> USE IdempotencyAssumption DEF IInv, Write, Keep
<1>1. TypeOK'
  <2>1. ASSUME NEW w \in Writer PROVE Keep(w, n) \in Writer
    <3>1. n \in Nat /\ w.body + n \in Nat /\ w.out + n \in Nat
      BY DEF Writer
    <3>2. CASE w.streaming
      BY <3>1, <3>2 DEF Writer
    <3>3. CASE ~w.streaming /\ w.body + n > Limit
      BY <3>1, <3>3 DEF Writer
    <3>4. CASE ~w.streaming /\ ~(w.body + n > Limit)
      BY <3>1, <3>4 DEF Writer
    <3> QED
      BY <3>2, <3>3, <3>4
  <2> HIDE DEF Keep
  <2> QED
    BY <2>1 DEF TypeOK
<1>2. OwnsRow'
  BY DEF OwnsRow, Phase, TypeOK, Row
<1>3. Phase'
  BY DEF Phase, TypeOK
<1>4. WaitsForOwn'
  BY DEF WaitsForOwn, TypeOK, Row
<1>5. KeepsAll'
  BY DEF KeepsAll, Phase, TypeOK, Writer
<1>6. RecordWhole'
  BY DEF RecordWhole, OwnsRow, Phase, KeepsAll, Written, TypeOK, Row, Writer
<1>7. ReplayWhole'
  BY DEF ReplayWhole, Phase, Written, KeepsAll, TypeOK, Row, Writer
<1>8. Held'
  BY DEF Held, OwnsRow, Phase, TypeOK, Row
<1> QED
  BY <1>1, <1>2, <1>3, <1>4, <1>5, <1>6, <1>7, <1>8

\* Flushing sends what was kept.
LEMMA FlushKeeps ==
  ASSUME IInv, NEW r \in Requests, Flush(r)
  PROVE  IInv'
<1> USE IdempotencyAssumption DEF IInv, Flush, Flushed
<1>1. TypeOK'
  BY DEF TypeOK, Row, Writer, Kinds, Response
<1>2. OwnsRow'
  BY DEF OwnsRow, Phase, TypeOK, Row
<1>3. Phase'
  BY DEF Phase, TypeOK
<1>4. WaitsForOwn'
  BY DEF WaitsForOwn, TypeOK, Row
<1>5. KeepsAll'
  BY DEF KeepsAll, Phase, TypeOK, Writer
<1>6. RecordWhole'
  BY DEF RecordWhole, OwnsRow, Phase, KeepsAll, Written, TypeOK, Row, Writer
<1>7. ReplayWhole'
  BY DEF ReplayWhole, Phase, Written, KeepsAll, TypeOK, Row, Writer
<1>8. Held'
  BY DEF Held, OwnsRow, Phase, TypeOK, Row
<1> QED
  BY <1>1, <1>2, <1>3, <1>4, <1>5, <1>6, <1>7, <1>8

\* The record gets what was kept, which is everything unless it is marked.
LEMMA CompleteKeeps ==
  ASSUME IInv, NEW r \in Requests, Complete(r) \/ CompleteFails(r)
  PROVE  IInv'
<1> USE IdempotencyAssumption DEF IInv
<1>1. /\ key[r] \in Keys /\ hash[r] \in Hashes /\ r \in ran
      /\ pc[r] \in {"run", "flushed"} /\ UNCHANGED <<key, hash, writer, answer, ran>>
  BY DEF Complete, CompleteFails, TypeOK, Phase
<1>2. /\ row[key[r]].by = r /\ row[key[r]].hash = hash[r]
      /\ row[key[r]].status = "processing"
  BY <1>1 DEF OwnsRow, RecordWhole, TypeOK, Row
<1> DEFINE e == Stored(r)
<1>3. /\ e \in Row /\ e.status = "completed" /\ e.by = r /\ e.hash = hash[r]
      /\ e.len = writer[r].body /\ e.truncated = writer[r].truncated
  <2>1. row[key[r]] \in Row /\ writer[r].body \in Nat /\ writer[r].truncated \in BOOLEAN
    BY <1>1 DEF TypeOK, Writer
  <2>2. e = [row[key[r]] EXCEPT !.status = "completed", !.len = writer[r].body,
                                !.truncated = writer[r].truncated]
    BY <1>2 DEF Stored
  <2> HIDE DEF e
  <2> QED
    BY <1>2, <2>1, <2>2 DEF Row
<1>4. /\ pc' = [pc EXCEPT ![r] = "flush"]
      /\ \/ row' = [row EXCEPT ![key[r]] = e] /\ faults' \in {faults, faults \cup {key[r]}}
         \/ row' = row /\ faults' = faults \cup {key[r]}
  BY DEF Complete, CompleteFails
<1> HIDE DEF e
<1> USE <1>1, <1>2, <1>3, <1>4
<1>5. TypeOK'
  BY DEF TypeOK
<1>6. OwnsRow'
  <2> SUFFICES ASSUME NEW q \in ran
               PROVE  /\ row'[key[q]].status # "none"
                      /\ row'[key[q]].by = q /\ row'[key[q]].hash = hash[q]
    BY DEF OwnsRow
  <2>1. key[q] \in Keys
    BY DEF TypeOK, Phase
  <2>2. CASE key[q] = key[r]
    BY <2>1, <2>2 DEF OwnsRow, TypeOK
  <2>3. CASE key[q] # key[r]
    BY <2>1, <2>3 DEF OwnsRow, TypeOK
  <2> QED
    BY <2>2, <2>3
<1>7. Phase'
  BY DEF Phase, TypeOK
<1>8. WaitsForOwn'
  BY DEF WaitsForOwn, TypeOK
<1>9. KeepsAll'
  BY DEF KeepsAll, TypeOK
<1>10. RecordWhole'
  <2>1. ~writer[r].truncated => writer[r].body = Written(r)
    BY DEF KeepsAll, Written
  <2> QED
    BY <2>1 DEF RecordWhole, Written, TypeOK
<1>11. ReplayWhole'
  BY DEF ReplayWhole, Written, TypeOK
<1>12. Held'
  BY DEF Held, TypeOK
<1> QED
  BY <1>5, <1>6, <1>7, <1>8, <1>9, <1>10, <1>11, <1>12

\* The owner's answer changes nothing that was written.
LEMMA RespondKeeps ==
  ASSUME IInv, NEW r \in Requests, Respond(r)
  PROVE  IInv'
<1> USE IdempotencyAssumption DEF IInv, Respond, Flushed, Answer, Written
<1>1. TypeOK'
  BY DEF TypeOK, Row, Writer, Kinds, Response
<1>2. OwnsRow'
  BY DEF OwnsRow, Phase, TypeOK, Row
<1>3. Phase'
  BY DEF Phase, TypeOK
<1>4. WaitsForOwn'
  BY DEF WaitsForOwn, TypeOK, Row
<1>5. KeepsAll'
  BY DEF KeepsAll, Phase, TypeOK, Writer
<1>6. RecordWhole'
  BY DEF RecordWhole, OwnsRow, Phase, KeepsAll, TypeOK, Row, Writer
<1>7. ReplayWhole'
  BY DEF ReplayWhole, Phase, KeepsAll, TypeOK, Row, Writer
<1>8. Held'
  BY DEF Held, OwnsRow, Phase, TypeOK, Row
<1> QED
  BY <1>1, <1>2, <1>3, <1>4, <1>5, <1>6, <1>7, <1>8

\* A panic leaves the row in processing, on record as a fault.
LEMMA PanicKeeps ==
  ASSUME IInv, NEW r \in Requests, Panic(r)
  PROVE  IInv'
<1> USE IdempotencyAssumption DEF IInv, Panic, Answer
<1>1. TypeOK'
  BY DEF TypeOK, Row, Writer, Kinds, Response
<1>2. OwnsRow'
  BY DEF OwnsRow, Phase, TypeOK, Row
<1>3. Phase'
  BY DEF Phase, TypeOK
<1>4. WaitsForOwn'
  BY DEF WaitsForOwn, TypeOK, Row
<1>5. KeepsAll'
  BY DEF KeepsAll, Phase, TypeOK, Writer
<1>6. RecordWhole'
  BY DEF RecordWhole, OwnsRow, Phase, KeepsAll, Written, TypeOK, Row, Writer
<1>7. ReplayWhole'
  BY DEF ReplayWhole, Phase, Written, KeepsAll, TypeOK, Row, Writer
<1>8. Held'
  BY DEF Held, OwnsRow, Phase, TypeOK, Row
<1> QED
  BY <1>1, <1>2, <1>3, <1>4, <1>5, <1>6, <1>7, <1>8

\* So does a crash.
LEMMA CrashKeeps ==
  ASSUME IInv, NEW S \in SUBSET InFlight, Crash(S)
  PROVE  IInv'
<1> USE IdempotencyAssumption DEF IInv, Crash, InFlight
<1>1. TypeOK'
  BY DEF TypeOK, Row, Writer, Kinds, Response
<1>2. OwnsRow'
  BY DEF OwnsRow, Phase, TypeOK, Row
<1>3. Phase'
  BY DEF Phase, TypeOK
<1>4. WaitsForOwn'
  BY DEF WaitsForOwn, TypeOK, Row
<1>5. KeepsAll'
  BY DEF KeepsAll, Phase, TypeOK, Writer
<1>6. RecordWhole'
  BY DEF RecordWhole, OwnsRow, Phase, KeepsAll, Written, TypeOK, Row, Writer
<1>7. ReplayWhole'
  BY DEF ReplayWhole, Phase, Written, KeepsAll, TypeOK, Row, Writer
<1>8. Held'
  BY DEF Held, OwnsRow, Phase, TypeOK, Row
<1> QED
  BY <1>1, <1>2, <1>3, <1>4, <1>5, <1>6, <1>7, <1>8

\* The invariant holds in every step.
LEMMA IdempotencyStep == IInv /\ [Next]_vars => IInv'
<1> SUFFICES ASSUME IInv, [Next]_vars PROVE IInv'
  OBVIOUS
<1>1. ASSUME NEW r \in Requests, NEW k \in Keys, NEW h \in Hashes, Send(r, k, h) PROVE IInv'
  BY <1>1, SendKeeps
<1>2. ASSUME NEW r \in Requests, Step(r) PROVE IInv'
  <2>1. ASSUME NEW n \in 1..MaxBody, Write(r, n) PROVE IInv'
    BY <2>1, WriteKeeps
  <2> QED
    BY <1>2, <2>1, InsertKeeps, ReadKeeps, WaitKeeps, FlushKeeps, CompleteKeeps, RespondKeeps DEF Step
<1>3. ASSUME NEW r \in Requests, Fault(r) PROVE IInv'
  BY <1>3, InsertFailsKeeps, WaitKeeps, CompleteKeeps, PanicKeeps DEF Fault
<1>4. ASSUME NEW S \in SUBSET InFlight, Crash(S) PROVE IInv'
  BY <1>4, CrashKeeps
<1>5. ASSUME UNCHANGED vars PROVE IInv'
  BY <1>5 DEF vars, IInv, TypeOK, OwnsRow, Phase, WaitsForOwn, KeepsAll, RecordWhole,
               ReplayWhole, Held, Written
<1> QED
  BY <1>1, <1>2, <1>3, <1>4, <1>5 DEF Next

\* The three invariants follow.
LEMMA IdempotencyImplies == IInv => TypeOK /\ OneSubmission /\ ReplayFaithful /\ HeldByOwner
<1> SUFFICES ASSUME IInv PROVE TypeOK /\ OneSubmission /\ ReplayFaithful /\ HeldByOwner
  OBVIOUS
<1>1. OneSubmission
  BY DEF IInv, OwnsRow, OneSubmission
<1>2. ReplayFaithful
  BY DEF IInv, ReplayWhole, ReplayFaithful
<1>3. HeldByOwner
  BY DEF IInv, Held, HeldByOwner
<1> QED
  BY <1>1, <1>2, <1>3 DEF IInv

\* The inductive invariant is one.
THEOREM IdempotencyInvariant == Spec => []IInv
<1> QED
  BY IdempotencyInit, IdempotencyStep, PTL DEF Spec

\* Every variable keeps its type, for every number of requests.
THEOREM IdempotencyTypes == Spec => []TypeOK
<1> QED
  BY IdempotencyInvariant, IdempotencyImplies, PTL

\* One request of each key reaches the provider (ReserveCreationIdempotency).
THEOREM SubmittedOnce == Spec => []OneSubmission
<1> QED
  BY IdempotencyInvariant, IdempotencyImplies, PTL

\* A replay is the whole response to the same request
\* (replayCreationIdempotency, creationIdempotencyWriter).
THEOREM ReplaysWhole == Spec => []ReplayFaithful
<1> QED
  BY IdempotencyInvariant, IdempotencyImplies, PTL

\* A key is stuck only after a fault (CompleteCreationIdempotency).
THEOREM KeysReleased == Spec => []HeldByOwner
<1> QED
  BY IdempotencyInvariant, IdempotencyImplies, PTL
=============================================================================

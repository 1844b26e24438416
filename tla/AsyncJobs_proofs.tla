-------------------------- MODULE AsyncJobs_proofs --------------------------
(***************************************************************************)
(* Proofs about AsyncJobs, for any number of jobs, workers and requests    *)
(* and batches of any size.                                                *)
(*                                                                         *)
(* BatchIsolated speaks of what is recorded, a batch is recorded in one    *)
(* step, and the same batch may be run by several workers: the invariant   *)
(* follows each of them through its items and says that the results so far *)
(* are those of a prefix of the batch.  What a request has read is as      *)
(* sound as what was recorded, although the record may be gone by now.     *)
(***************************************************************************)
EXTENDS AsyncJobs, SequenceTheorems, FiniteSetTheorems, TLAPS

\* These are the outcomes of the first items of batch j, counted right.
Prefix(j, items, succeeded) ==
  /\ Len(items) <= Size[j]
  /\ \A i \in 1..Len(items) : items[i] = "error" <=> i \in Bad[j]
  /\ succeeded = Len(items) - Cardinality(Bad[j] \cap (1..Len(items)))

\* m is what job j may leave in the result backend.
Sound(j, m) ==
  /\ m.file => Kind[j] = "report"
  /\ m.state = "SUCCESS" /\ Kind[j] = "report" => m.file
  /\ m.state = "SUCCESS" /\ Kind[j] = "batch" =>
       Len(m.items) = Size[j] /\ Prefix(j, m.items, m.succeeded)

TaskSound(w) ==
  task[w].job # NoJob => Prefix(task[w].job, task[w].items, task[w].succeeded)

\* The answer of request r rests on what it has read, and on that alone when it was
\* finished.
Shown(r) ==
  /\ r.ready <=> Ready(r.read.state)
  /\ IF r.ready THEN r.shown = r.read /\ r.state = r.read.state ELSE r.shown = Absent
  /\ r.answer = "file" => r.ready /\ r.read.file

RequestSound(c) ==
  /\ request[c].pc # "idle" => request[c].job \in Jobs /\ Sound(request[c].job, request[c].read)
  /\ request[c].answer # "none" => request[c].pc = "done" /\ Shown(request[c])

IInv ==
  /\ TypeOK
  /\ \A j \in Jobs : Sound(j, meta[j])
  /\ \A w \in Workers : TaskSound(w)
  /\ \A c \in Clients : RequestSound(c)

-----------------------------------------------------------------------------
(* Results *)

\* A state without results is a record of the backend, and sound for every job.
LEMMA Bare ==
  ASSUME NEW state \in States
  PROVE  /\ [Absent EXCEPT !.state = state] \in Meta
         /\ [Absent EXCEPT !.state = state].file = FALSE
         /\ [Absent EXCEPT !.state = state].state = state
         /\ Absent \in Meta /\ Absent.file = FALSE /\ Absent.state = "PENDING"
<1>1. <<>> \in Seq(Statuses)
  BY EmptySeq
<1>2. QED
  BY <1>1 DEF Absent, Meta, States

\* Recorded touches the record of one job, and not when that is a success.
LEMMA RecordedOne ==
  ASSUME meta \in [Jobs -> Meta], NEW j \in Jobs, NEW m \in Meta, meta' = Recorded(j, m)
  PROVE  /\ meta' \in [Jobs -> Meta]
         /\ \A i \in Jobs : i # j => meta'[i] = meta[i]
         /\ meta'[j] = IF meta[j].state = "SUCCESS" THEN meta[j] ELSE m
BY DEF Recorded

\* A worker that has started has done nothing yet.
LEMMA EmptyPrefix ==
  ASSUME NEW j \in Jobs
  PROVE  Prefix(j, <<>>, 0) /\ <<>> \in Seq(Statuses)
<1>1. <<>> \in Seq(Statuses) /\ Len(<<>>) = 0
  BY EmptySeq
<1>2. Bad[j] \cap (1..0) = {} /\ Cardinality({}) = 0
  BY FS_EmptySet
<1>3. Size[j] \in Nat
  BY JobsAssumption
<1>4. QED
  BY <1>1, <1>2, <1>3 DEF Prefix

\* The outcome of one more item makes a longer prefix.
LEMMA LongerPrefix ==
  ASSUME NEW j \in Jobs, NEW items \in Seq(Statuses), NEW succeeded \in Nat,
         Prefix(j, items, succeeded), Len(items) + 1 <= Size[j],
         NEW status \in Statuses, status = "error" <=> Len(items) + 1 \in Bad[j]
  PROVE  /\ Append(items, status) \in Seq(Statuses)
         /\ Prefix(j, Append(items, status), IF status = "success" THEN succeeded + 1 ELSE succeeded)
<1> DEFINE n == Len(items)
           longer == Append(items, status)
           before == Bad[j] \cap (1..n)
           after == Bad[j] \cap (1..(n + 1))
<1>1. n \in Nat
  BY LenProperties
<1>2. /\ longer \in Seq(Statuses) /\ Len(longer) = n + 1 /\ longer[n + 1] = status
      /\ \A i \in 1..n : longer[i] = items[i]
  BY AppendProperties
<1>3. IsFiniteSet(before) /\ Cardinality(before) \in Nat
  <2>1. IsFiniteSet(1..n)
    BY <1>1, FS_Interval
  <2>2. IsFiniteSet(before)
    BY <2>1, FS_Subset
  <2>3. QED
    BY <2>2, FS_CardinalityType
<1>4. Cardinality(after) = IF status = "error" THEN Cardinality(before) + 1 ELSE Cardinality(before)
  <2>1. CASE status = "error"
    <3>1. after = before \cup {n + 1} /\ n + 1 \notin before
      BY <1>1, <2>1
    <3>2. QED
      BY <1>3, <2>1, <3>1, FS_AddElement
  <2>2. CASE status # "error"
    <3>1. after = before
      BY <1>1, <2>2
    <3>2. QED
      BY <2>2, <3>1
  <2>3. QED
    BY <2>1, <2>2
<1>5. status = "success" <=> status # "error"
  BY DEF Statuses
<1>6. \A i \in 1..(n + 1) : longer[i] = "error" <=> i \in Bad[j]
  <2>1. \A i \in 1..n : items[i] = "error" <=> i \in Bad[j]
    BY DEF Prefix
  <2>2. \A i \in 1..(n + 1) : i \in 1..n \/ i = n + 1
    BY <1>1
  <2>3. QED
    BY <1>2, <2>1, <2>2
<1>7. succeeded = n - Cardinality(before)
  BY DEF Prefix
<1> HIDE DEF n, longer, before, after
<1>8. (IF status = "success" THEN succeeded + 1 ELSE succeeded) = (n + 1) - Cardinality(after)
  BY <1>1, <1>3, <1>4, <1>5, <1>7
<1>9. n + 1 <= Size[j]
  BY DEF n
<1>10. Prefix(j, longer, IF status = "success" THEN succeeded + 1 ELSE succeeded)
  BY <1>2, <1>6, <1>8, <1>9 DEF Prefix, after
<1>11. QED
  BY <1>2, <1>10 DEF longer
-----------------------------------------------------------------------------
(* Steps *)

\* Storing a sound record of one job keeps every record sound.
LEMMA RecordedSound ==
  ASSUME IInv, NEW j \in Jobs, NEW m \in Meta, Sound(j, m), meta' = Recorded(j, m)
  PROVE  /\ meta' \in [Jobs -> Meta]
         /\ \A i \in Jobs : Sound(i, meta'[i])
<1>1. meta \in [Jobs -> Meta] /\ \A i \in Jobs : Sound(i, meta[i])
  BY DEF IInv, TypeOK
<1>2. QED
  BY <1>1, RecordedOne

\* What a worker runs, and what it would return, is sound.
LEMMA Running ==
  ASSUME IInv, NEW w \in Workers, task[w].job # NoJob
  PROVE  /\ task[w].job \in Jobs /\ task[w].items \in Seq(Statuses) /\ task[w].succeeded \in Nat
         /\ Prefix(task[w].job, task[w].items, task[w].succeeded)
         /\ Returned(w) \in Meta
         /\ (Kind[task[w].job] = "batch" => Len(task[w].items) = Size[task[w].job])
               => Sound(task[w].job, Returned(w))
<1>1. /\ task[w].job \in Jobs /\ task[w].items \in Seq(Statuses) /\ task[w].succeeded \in Nat
      /\ Prefix(task[w].job, task[w].items, task[w].succeeded)
  BY DEF IInv, TypeOK, TaskSound
<1>2. Kind[task[w].job] \in {"report", "batch"}
  BY <1>1, JobsAssumption
<1>3. <<>> \in Seq(Statuses)
  BY EmptySeq
<1>4. CASE Kind[task[w].job] = "report"
  <2>1. Returned(w) = [Absent EXCEPT !.state = "SUCCESS", !.file = TRUE]
    BY <1>4 DEF Returned
  <2>2. Absent \in Meta
    BY Bare DEF States
  <2>3. [Absent EXCEPT !.state = "SUCCESS", !.file = TRUE] \in Meta
    BY <2>2 DEF Meta, States
  <2>4. QED
    BY <1>1, <1>4, <2>1, <2>3 DEF Sound
<1>5. CASE Kind[task[w].job] = "batch"
  <2>1. Returned(w) = [Absent EXCEPT !.state = "SUCCESS", !.items = task[w].items,
                                     !.succeeded = task[w].succeeded]
    BY <1>5 DEF Returned
  <2>2. /\ Returned(w) \in Meta /\ Returned(w).file = FALSE
        /\ Returned(w).items = task[w].items /\ Returned(w).succeeded = task[w].succeeded
    BY <1>1, <2>1 DEF Absent, Meta, States
  <2>3. QED
    BY <1>1, <1>5, <2>2 DEF Sound
<1>6. QED
  BY <1>2, <1>4, <1>5

\* A worker without a task is one.
LEMMA Resting ==
  ASSUME TypeOK, NEW w \in Workers, task' = [task EXCEPT ![w] = NoTask]
  PROVE  /\ task' \in [Workers -> [job : Jobs \cup {NoJob}, items : Seq(Statuses), succeeded : Nat]]
         /\ task'[w].job = NoJob
         /\ \A v \in Workers : v # w => task'[v] = task[v]
<1>1. <<>> \in Seq(Statuses)
  BY EmptySeq
<1>2. QED
  BY <1>1 DEF TypeOK, NoTask

\* A step that starts, continues or ends a task.
LEMMA TaskStep ==
  ASSUME IInv, UNCHANGED request, NEW w \in Workers, \A v \in Workers : v # w => task'[v] = task[v],
         task'[w].job = NoJob \/ TaskSound(w)', \A i \in Jobs : Sound(i, meta'[i]), TypeOK'
  PROVE  IInv'
<1>1. \A v \in Workers : TaskSound(v)'
  BY DEF IInv, TaskSound
<1>2. \A c \in Clients : RequestSound(c)'
  BY DEF IInv, RequestSound
<1>3. QED
  BY <1>1, <1>2 DEF IInv

\* Enqueueing and redelivery change no result.
LEMMA QueueStep ==
  ASSUME IInv, NEW j \in Jobs, Enqueue(j) \/ Redeliver(j)
  PROVE  IInv'
<1>1. TypeOK'
  <2>1. CASE Enqueue(j)
    BY <2>1 DEF Enqueue, IInv, TypeOK
  <2>2. CASE Redeliver(j)
    BY <2>2 DEF Redeliver, IInv, TypeOK
  <2>3. QED
    BY <2>1, <2>2
<1>2. UNCHANGED <<meta, task, request>>
  BY DEF Enqueue, Redeliver
<1>3. QED
  BY <1>1, <1>2 DEF IInv, TaskSound, RequestSound

\* A result expires, whoever has read it.
LEMMA ExpireStep ==
  ASSUME IInv, NEW j \in Jobs, Expire(j)
  PROVE  IInv'
<1>1. /\ meta' = [meta EXCEPT ![j] = Absent] /\ expired' = expired \cup {j}
      /\ UNCHANGED <<enqueued, queue, task, request, lost>>
  BY DEF Expire
<1>2. Absent \in Meta /\ Absent.file = FALSE /\ Absent.state = "PENDING"
  BY Bare DEF States
<1>3. TypeOK'
  BY <1>1, <1>2 DEF IInv, TypeOK
<1>4. \A i \in Jobs : Sound(i, meta'[i])
  BY <1>1, <1>2 DEF IInv, TypeOK, Sound
<1>5. QED
  BY <1>1, <1>3, <1>4 DEF IInv, TaskSound, RequestSound

\* A worker starts a job, for the first time or once more.
LEMMA StartStep ==
  ASSUME IInv, NEW w \in Workers, NEW j \in Jobs, Start(w, j)
  PROVE  IInv'
<1> DEFINE m == [Absent EXCEPT !.state = "STARTED"]
           new == [NoTask EXCEPT !.job = j]
<1>1. /\ queue' = [queue EXCEPT ![j] = @ - 1] /\ queue[j] > 0
      /\ task' = [task EXCEPT ![w] = new]
      /\ meta' = Recorded(j, m)
      /\ UNCHANGED <<enqueued, request, lost, expired>>
  BY DEF Start
<1>2. m \in Meta /\ Sound(j, m)
  BY Bare DEF Sound, States
<1> HIDE DEF m
<1>3. meta' \in [Jobs -> Meta] /\ \A i \in Jobs : Sound(i, meta'[i])
  BY <1>1, <1>2, RecordedSound
<1>4. /\ task' \in [Workers -> [job : Jobs \cup {NoJob}, items : Seq(Statuses), succeeded : Nat]]
      /\ task'[w].job = j /\ task'[w].items = <<>> /\ task'[w].succeeded = 0
      /\ \A v \in Workers : v # w => task'[v] = task[v]
  <2>1. <<>> \in Seq(Statuses)
    BY EmptySeq
  <2>2. /\ new \in [job : Jobs \cup {NoJob}, items : Seq(Statuses), succeeded : Nat]
        /\ new.job = j /\ new.items = <<>> /\ new.succeeded = 0
    BY <2>1 DEF NoTask
  <2> HIDE DEF new
  <2>3. QED
    BY <1>1, <2>2 DEF IInv, TypeOK
<1> HIDE DEF new
<1>5. TypeOK'
  <2>1. queue' \in [Jobs -> 0..2]
    BY <1>1 DEF IInv, TypeOK
  <2>2. QED
    BY <1>1, <1>3, <1>4, <2>1 DEF IInv, TypeOK
<1>6. TaskSound(w)'
  BY <1>4, EmptyPrefix DEF TaskSound
<1>7. QED
  BY <1>1, <1>3, <1>4, <1>5, <1>6, TaskStep

\* A batch prices its next item, good or bad.
LEMMA PriceItemStep ==
  ASSUME IInv, NEW w \in Workers, PriceItem(w)
  PROVE  IInv'
<1>1. PICK j \in Jobs, items \in Seq(Statuses), succeeded \in Nat :
        /\ j = task[w].job /\ items = task[w].items /\ succeeded = task[w].succeeded
        /\ Prefix(j, items, succeeded) /\ j # NoJob
  BY Running DEF PriceItem
<1>2. PICK status \in Statuses :
        /\ status = "error" <=> Len(items) + 1 \in Bad[j]
        /\ Len(items) + 1 <= Size[j]
        /\ task' = [task EXCEPT ![w].items = Append(@, status),
                                ![w].succeeded = IF status = "success" THEN @ + 1 ELSE @]
  BY <1>1 DEF PriceItem, Statuses
<1>3. UNCHANGED <<enqueued, queue, meta, request, lost, expired>>
  BY DEF PriceItem
<1> DEFINE longer == Append(items, status)
           counted == IF status = "success" THEN succeeded + 1 ELSE succeeded
<1>4. longer \in Seq(Statuses) /\ counted \in Nat /\ Prefix(j, longer, counted)
  <2>1. longer \in Seq(Statuses) /\ Prefix(j, longer, counted)
    BY <1>1, <1>2, LongerPrefix
  <2>2. counted \in Nat
    OBVIOUS
  <2>3. QED
    BY <2>1, <2>2
<1>5. /\ task' \in [Workers -> [job : Jobs \cup {NoJob}, items : Seq(Statuses), succeeded : Nat]]
      /\ task'[w].job = j /\ task'[w].items = longer /\ task'[w].succeeded = counted
      /\ \A v \in Workers : v # w => task'[v] = task[v]
  <2>1. task' = [task EXCEPT ![w] = [task[w] EXCEPT !.items = longer, !.succeeded = counted]]
    BY <1>1, <1>2 DEF IInv, TypeOK
  <2> HIDE DEF longer, counted
  <2>2. QED
    BY <1>1, <1>4, <2>1 DEF IInv, TypeOK
<1> HIDE DEF longer, counted
<1>6. TypeOK'
  BY <1>3, <1>5 DEF IInv, TypeOK
<1>7. TaskSound(w)'
  BY <1>4, <1>5 DEF TaskSound
<1>8. \A i \in Jobs : Sound(i, meta'[i])
  BY <1>3 DEF IInv
<1>9. QED
  BY <1>3, <1>5, <1>6, <1>7, <1>8, TaskStep

\* A task returns, raises or dies with its worker.
LEMMA EndStep ==
  ASSUME IInv, NEW w \in Workers, Finish(w) \/ Raise(w) \/ WorkerDies(w)
  PROVE  IInv'
<1>1. /\ task[w].job # NoJob /\ task' = [task EXCEPT ![w] = NoTask]
      /\ UNCHANGED <<enqueued, queue, request, expired>>
  BY DEF Finish, Raise, WorkerDies
<1>2. /\ task' \in [Workers -> [job : Jobs \cup {NoJob}, items : Seq(Statuses), succeeded : Nat]]
      /\ task'[w].job = NoJob
      /\ \A v \in Workers : v # w => task'[v] = task[v]
  BY <1>1, Resting DEF IInv
<1>3. PICK j \in Jobs : j = task[w].job
  BY <1>1, Running
<1>4. meta' \in [Jobs -> Meta] /\ \A i \in Jobs : Sound(i, meta'[i])
  <2>1. CASE Finish(w)
    <3>1. Returned(w) \in Meta /\ Sound(j, Returned(w)) /\ meta' = Recorded(j, Returned(w))
      BY <1>1, <1>3, <2>1, Running DEF Finish
    <3>2. QED
      BY <3>1, RecordedSound
  <2>2. CASE Raise(w)
    <3> DEFINE m == [Absent EXCEPT !.state = "FAILURE"]
    <3>1. m \in Meta /\ Sound(j, m)
      BY Bare DEF Sound, States
    <3>2. meta' = Recorded(j, m)
      BY <1>3, <2>2 DEF Raise
    <3> HIDE DEF m
    <3>3. QED
      BY <3>1, <3>2, RecordedSound
  <2>3. CASE WorkerDies(w)
    BY <2>3 DEF WorkerDies, IInv, TypeOK
  <2>4. QED
    BY <2>1, <2>2, <2>3
<1>5. lost' \subseteq Jobs
  BY <1>3 DEF Finish, Raise, WorkerDies, IInv, TypeOK
<1>6. TypeOK'
  BY <1>1, <1>2, <1>4, <1>5 DEF IInv, TypeOK
<1>7. QED
  BY <1>1, <1>2, <1>4, <1>6, TaskStep
-----------------------------------------------------------------------------
(* Requests *)

Request ==
  [pc : {"idle", "reading", "done"}, job : Jobs \cup {NoJob}, kind : {"status", "download"},
   read : Meta, answer : Answers, ready : BOOLEAN, shown : Meta, state : States]

\* A step of one request.
LEMMA RequestStep ==
  ASSUME IInv, NEW c \in Clients, NEW r \in Request, request' = [request EXCEPT ![c] = r],
         r.pc # "idle" => r.job \in Jobs /\ Sound(r.job, r.read),
         r.answer # "none" => r.pc = "done" /\ Shown(r),
         UNCHANGED <<enqueued, queue, meta, task, lost, expired>>
  PROVE  IInv'
<1>1. /\ request' \in [Clients -> Request] /\ request'[c] = r
      /\ \A d \in Clients : d # c => request'[d] = request[d]
  BY DEF IInv, TypeOK, Request
<1>2. TypeOK'
  BY <1>1 DEF IInv, TypeOK, Request
<1>3. \A d \in Clients : RequestSound(d)'
  BY <1>1 DEF IInv, RequestSound
<1>4. (\A j \in Jobs : Sound(j, meta'[j])) /\ \A w \in Workers : TaskSound(w)'
  BY DEF IInv, TaskSound
<1>5. QED
  BY <1>2, <1>3, <1>4 DEF IInv

\* No request is one.
LEMMA NoRequestTyped ==
  NoRequest \in Request /\ NoRequest.pc = "idle" /\ NoRequest.answer = "none"
<1>1. Absent \in Meta
  BY Bare DEF States
<1>2. QED
  BY <1>1 DEF NoRequest, Request, States, Answers

\* A request reads the record as it is now.
LEMMA AskStep ==
  ASSUME IInv, NEW c \in Clients, NEW j \in Jobs, NEW kind \in {"status", "download"}, Ask(c, j, kind)
  PROVE  IInv'
<1> DEFINE r == [NoRequest EXCEPT !.pc = "reading", !.job = j, !.kind = kind, !.read = meta[j]]
<1>1. request' = [request EXCEPT ![c] = r] /\ UNCHANGED <<enqueued, queue, meta, task, lost, expired>>
  BY DEF Ask
<1>2. meta[j] \in Meta /\ Sound(j, meta[j])
  BY DEF IInv, TypeOK
<1>3. /\ r \in Request /\ r.pc = "reading" /\ r.job = j /\ r.read = meta[j] /\ r.answer = "none"
  BY <1>2, NoRequestTyped DEF Request
<1> HIDE DEF r
<1>4. QED
  BY <1>1, <1>2, <1>3, RequestStep

\* A request is answered from what it has read.
LEMMA AnswerStep ==
  ASSUME IInv, NEW c \in Clients, Answer(c)
  PROVE  IInv'
<1> DEFINE m == request[c].read
           kind == request[c].kind
           ready == Ready(m.state)
           shown == IF ready THEN m ELSE Absent
           last == IF ready THEN m ELSE meta[request[c].job]
           answer == CASE kind = "status" -> "status"
                       [] kind = "download" /\ ~ready -> "not_finished"
                       [] kind = "download" /\ m.state = "FAILURE" -> "failed"
                       [] kind = "download" /\ m.state = "SUCCESS" ->
                            IF m.file THEN "file" ELSE "not_a_report"
           r == [request[c] EXCEPT !.pc = "done", !.answer = answer, !.ready = ready,
                                   !.shown = shown, !.state = last.state]
<1>1. /\ request[c] \in Request /\ request[c].pc = "reading" /\ RequestSound(c)
      /\ request[c].job \in Jobs /\ meta[request[c].job] \in Meta
      /\ m \in Meta /\ m.state \in States /\ m.file \in BOOLEAN
      /\ kind \in {"status", "download"}
  BY DEF Answer, IInv, TypeOK, Request, RequestSound, Meta
<1>2. /\ request' = [request EXCEPT ![c].pc = "done", ![c].answer = answer, ![c].ready = ready,
                                    ![c].shown = shown, ![c].state = last.state]
      /\ UNCHANGED <<enqueued, queue, meta, task, lost, expired>>
  BY DEF Answer
<1>3. answer \in Answers /\ (answer = "file" => ready /\ m.file)
  <2>1. ready => m.state \in {"FAILURE", "SUCCESS"}
    BY DEF Ready
  <2>2. CASE kind = "status"
    BY <2>2 DEF Answers
  <2>3. CASE kind = "download" /\ ~ready
    BY <2>3 DEF Answers, Ready
  <2>4. CASE kind = "download" /\ ready /\ m.state = "FAILURE"
    BY <2>4 DEF Answers
  <2>5. CASE kind = "download" /\ ready /\ m.state = "SUCCESS"
    BY <1>1, <2>5 DEF Answers
  <2>6. QED
    BY <1>1, <2>1, <2>2, <2>3, <2>4, <2>5
<1>4. /\ ready \in BOOLEAN /\ shown \in Meta /\ last.state \in States
      /\ IF ready THEN shown = m /\ last.state = m.state ELSE shown = Absent
  BY <1>1, Bare DEF Ready, States, Meta
<1>5. ready <=> Ready(m.state)
  OBVIOUS
<1> HIDE DEF answer, ready, shown, last
<1>6. /\ r \in Request /\ r.pc = "done" /\ r.job = request[c].job /\ r.read = m
      /\ r.answer = answer /\ r.ready = ready /\ r.shown = shown /\ r.state = last.state
  BY <1>1, <1>3, <1>4 DEF Request
<1>7. request' = [request EXCEPT ![c] = r]
  BY <1>2 DEF IInv, TypeOK
<1> HIDE DEF r
<1>8. Shown(r) /\ r.job \in Jobs /\ Sound(r.job, r.read)
  BY <1>1, <1>3, <1>4, <1>5, <1>6 DEF Shown, RequestSound
<1>9. QED
  BY <1>2, <1>6, <1>7, <1>8, RequestStep

\* The answer leaves the server.
LEMMA LeaveStep ==
  ASSUME IInv, NEW c \in Clients, Leave(c)
  PROVE  IInv'
<1>1. request' = [request EXCEPT ![c] = NoRequest] /\ UNCHANGED <<enqueued, queue, meta, task, lost, expired>>
  BY DEF Leave
<1>2. QED
  BY <1>1, NoRequestTyped, RequestStep

-----------------------------------------------------------------------------
(* The theorems *)

\* Before the first job nothing is recorded.
LEMMA InitSound ==
  ASSUME Init
  PROVE  IInv
<1>1. <<>> \in Seq(Statuses) /\ Absent \in Meta /\ Absent.file = FALSE /\ Absent.state = "PENDING"
  BY EmptySeq, Bare DEF States
<1>2. NoRequest \in Request /\ NoRequest.pc = "idle" /\ NoRequest.answer = "none"
  BY NoRequestTyped
<1>3. NoTask \in [job : Jobs \cup {NoJob}, items : Seq(Statuses), succeeded : Nat] /\ NoTask.job = NoJob
  BY <1>1 DEF NoTask
<1>4. TypeOK
  BY <1>1, <1>2, <1>3 DEF Init, TypeOK, Request
<1>5. \A j \in Jobs : Sound(j, meta[j])
  BY <1>1 DEF Init, Sound
<1>6. (\A w \in Workers : TaskSound(w)) /\ \A c \in Clients : RequestSound(c)
  BY <1>2, <1>3 DEF Init, TaskSound, RequestSound
<1>7. QED
  BY <1>4, <1>5, <1>6 DEF IInv

\* What is recorded, run and read stays sound.
LEMMA StepSound ==
  ASSUME IInv, [Next]_vars
  PROVE  IInv'
<1>1. ASSUME NEW j \in Jobs, Enqueue(j) \/ Redeliver(j) PROVE IInv'
  BY <1>1, QueueStep
<1>2. ASSUME NEW j \in Jobs, Expire(j) PROVE IInv'
  BY <1>2, ExpireStep
<1>3. ASSUME NEW w \in Workers, NEW j \in Jobs, Start(w, j) PROVE IInv'
  BY <1>3, StartStep
<1>4. ASSUME NEW w \in Workers, PriceItem(w) PROVE IInv'
  BY <1>4, PriceItemStep
<1>5. ASSUME NEW w \in Workers, Finish(w) \/ Raise(w) \/ WorkerDies(w) PROVE IInv'
  BY <1>5, EndStep
<1>6. ASSUME NEW c \in Clients, NEW j \in Jobs, NEW kind \in {"status", "download"}, Ask(c, j, kind)
      PROVE IInv'
  BY <1>6, AskStep
<1>7. ASSUME NEW c \in Clients, Answer(c) PROVE IInv'
  BY <1>7, AnswerStep
<1>8. ASSUME NEW c \in Clients, Leave(c) PROVE IInv'
  BY <1>8, LeaveStep
<1>9. CASE UNCHANGED vars
  BY <1>9 DEF vars, IInv, TypeOK, TaskSound, RequestSound, Shown
<1>10. QED
  BY <1>1, <1>2, <1>3, <1>4, <1>5, <1>6, <1>7, <1>8, <1>9 DEF Next, Work

\* What is recorded, run and read is always sound.
THEOREM Inductive == Spec => []IInv
BY InitSound, StepSound, PTL DEF Spec

\* Every reachable state of the jobs is well typed.
THEOREM TypeCorrect == Spec => []TypeOK
<1>1. IInv => TypeOK
  BY DEF IInv
<1>2. QED
  BY <1>1, Inductive, PTL

\* A sound result of a batch is whole.
LEMMA SoundWhole ==
  ASSUME NEW j \in Jobs, NEW m, Sound(j, m)
  PROVE  WholeBatch(j, m)
<1> SUFFICES ASSUME m.state = "SUCCESS", Kind[j] = "batch"
             PROVE  /\ Len(m.items) = Size[j]
                    /\ \A i \in 1..Size[j] : m.items[i] = "error" <=> i \in Bad[j]
                    /\ m.succeeded = Size[j] - Cardinality(Bad[j])
  BY DEF WholeBatch
<1>1. Len(m.items) = Size[j] /\ Prefix(j, m.items, m.succeeded)
  BY DEF Sound
<1>2. Bad[j] \cap (1..Size[j]) = Bad[j]
  BY JobsAssumption
<1>3. QED
  BY <1>1, <1>2 DEF Prefix

\* A recorded batch has the outcome of every item, each of that item alone,
\* whichever workers ran it, died or ran it again (generate_batch_estimates_task).
THEOREM Isolated == Spec => []BatchIsolated
<1>1. IInv => BatchIsolated
  BY SoundWhole DEF IInv, BatchIsolated
<1>2. QED
  BY <1>1, Inductive, PTL

\* A file that is handed out was made by the report job it names, although the
\* result may have expired since (download_report_job).
THEOREM Downloads == Spec => []DownloadHasFile
<1>1. IInv => DownloadHasFile
  BY DEF IInv, RequestSound, Shown, Sound, DownloadHasFile
<1>2. QED
  BY <1>1, Inductive, PTL

\* The parts of a status answer fit together, whatever became of the record between
\* the reads (get_job_status).
THEOREM Coherent == Spec => []StatusCoherent
<1>1. ASSUME IInv, NEW c \in Clients, request[c].answer = "status", request[c].ready
      PROVE  LET r == request[c]
             IN /\ Ready(r.state) /\ r.shown.state = r.state
                /\ WholeBatch(r.job, r.shown)
                /\ r.state = "SUCCESS" => (r.shown.file <=> Kind[r.job] = "report")
  <2>1. /\ Shown(request[c]) /\ request[c].job \in Jobs /\ request[c].read \in Meta
        /\ Sound(request[c].job, request[c].read)
    BY <1>1 DEF IInv, TypeOK, RequestSound
  <2>2. Ready(request[c].state) /\ request[c].shown = request[c].read /\ request[c].state = request[c].read.state
    BY <1>1, <2>1 DEF Shown
  <2>3. WholeBatch(request[c].job, request[c].read)
    BY <2>1, SoundWhole
  <2>4. QED
    BY <2>1, <2>2, <2>3, JobsAssumption DEF Sound, Meta
<1>2. ASSUME IInv, NEW c \in Clients, request[c].answer = "status", ~request[c].ready
      PROVE  request[c].shown = Absent
  BY <1>2 DEF IInv, RequestSound, Shown
<1>3. IInv => StatusCoherent
  BY <1>1, <1>2 DEF StatusCoherent
<1>4. QED
  BY <1>3, Inductive, PTL
=============================================================================

----------------------------- MODULE AsyncJobs -----------------------------
(***************************************************************************)
(* Jobs that run on Celery: enqueueing, the two tasks, and the status and  *)
(* download endpoints that read the result backend (api/routers/jobs.py,   *)
(* tasks/report_tasks.py, tasks/batch_tasks.py, tasks/celery_app.py).      *)
(*                                                                         *)
(* Celery and its Redis are external and modelled as this code configures  *)
(* and uses them: a message is acknowledged when its task starts, so a     *)
(* worker that dies loses the task; a message that waits too long in a     *)
(* worker is delivered a second time; a started task is recorded; a        *)
(* recorded success is final; results expire.  An AsyncResult keeps a      *)
(* finished result it has read once, and reads again otherwise.            *)
(***************************************************************************)
EXTENDS Integers, Sequences, FiniteSets

CONSTANTS
  Jobs,         \* job ids; bounds the runs
  Workers,      \* task slots of the Celery workers
  Clients,      \* status or download requests that may be served at a time
  Bad,          \* Bad[j]: the items of batch j that cannot be priced
  Size,         \* Size[j]: the number of items of batch j
  Kind,         \* Kind[j]: "report" or "batch"
  NoJob

ASSUME JobsAssumption ==
  /\ Kind \in [Jobs -> {"report", "batch"}]
  /\ Size \in [Jobs -> Nat \ {0}]
  /\ \A j \in Jobs : Bad[j] \subseteq 1..Size[j]
  /\ NoJob \notin Jobs

VARIABLES
  enqueued,   \* jobs whose enqueueing was answered with 202
  queue,      \* copies of messages that no worker has started (0, 1 or 2 each)
  meta,       \* meta[j]: what the result backend holds for j
  task,       \* task[w]: the task worker w runs
  request,    \* request[c]: the status or download request of client c
  lost,       \* jobs whose worker died while it ran them (history)
  expired     \* jobs whose result has expired (history)

vars == <<enqueued, queue, meta, task, request, lost, expired>>

Statuses == {"success", "error"}
States == {"PENDING", "STARTED", "SUCCESS", "FAILURE"}
Ready(state) == state \in {"SUCCESS", "FAILURE"}

\* What a task returns: the file of a report, or the results of a batch.
Absent == [state |-> "PENDING", file |-> FALSE, items |-> <<>>, succeeded |-> 0]
Meta == [state : States, file : BOOLEAN, items : Seq(Statuses), succeeded : Nat]

NoTask == [job |-> NoJob, items |-> <<>>, succeeded |-> 0]
NoRequest == [pc |-> "idle", job |-> NoJob, kind |-> "status", read |-> Absent, answer |-> "none",
              ready |-> FALSE, shown |-> Absent, state |-> "PENDING"]
Answers == {"none", "status", "file", "not_finished", "failed", "not_a_report"}

TypeOK ==
  /\ enqueued \subseteq Jobs
  /\ queue \in [Jobs -> 0..2]
  /\ meta \in [Jobs -> Meta]
  /\ task \in [Workers -> [job : Jobs \cup {NoJob}, items : Seq(Statuses), succeeded : Nat]]
  /\ request \in [Clients -> [pc : {"idle", "reading", "done"}, job : Jobs \cup {NoJob},
                              kind : {"status", "download"}, read : Meta, answer : Answers,
                              ready : BOOLEAN, shown : Meta, state : States]]
  /\ lost \subseteq Jobs
  /\ expired \subseteq Jobs

-----------------------------------------------------------------------------
(* Enqueueing, and the tasks *)

\* .delay(): the message is in the broker before the client has its 202.
Enqueue(j) ==
  /\ j \notin enqueued
  /\ enqueued' = enqueued \cup {j}
  /\ queue' = [queue EXCEPT ![j] = 1]
  /\ UNCHANGED <<meta, task, request, lost, expired>>

\* The backend's store_result: a recorded success is final.
Recorded(j, m) == [meta EXCEPT ![j] = IF @.state = "SUCCESS" THEN @ ELSE m]

\* A worker acknowledges the message and starts (task_track_started).
Start(w, j) ==
  /\ task[w].job = NoJob
  /\ queue[j] > 0
  /\ queue' = [queue EXCEPT ![j] = @ - 1]
  /\ task' = [task EXCEPT ![w] = [NoTask EXCEPT !.job = j]]
  /\ meta' = Recorded(j, [Absent EXCEPT !.state = "STARTED"])
  /\ UNCHANGED <<enqueued, request, lost, expired>>

\* A faulty variant: succeeded counts every item.
PriceItemMiscounted(w) ==
  /\ task[w].job # NoJob /\ Kind[task[w].job] = "batch"
  /\ LET j == task[w].job
         i == Len(task[w].items) + 1
     IN /\ i <= Size[j]
        /\ task' = [task EXCEPT ![w].items = Append(@, IF i \in Bad[j] THEN "error" ELSE "success"),
                                ![w].succeeded = @ + 1]
  /\ UNCHANGED <<enqueued, queue, meta, request, lost, expired>>

\* generate_batch_estimates_task prices the next item; an item that cannot be
\* validated or priced is recorded and the batch goes on.
PriceItem(w) ==
  /\ task[w].job # NoJob /\ Kind[task[w].job] = "batch"
  /\ LET j == task[w].job
         i == Len(task[w].items) + 1
         status == IF i \in Bad[j] THEN "error" ELSE "success"
     IN /\ i <= Size[j]
        /\ task' = [task EXCEPT ![w].items = Append(@, status),
                                ![w].succeeded = IF status = "success" THEN @ + 1 ELSE @]
  /\ UNCHANGED <<enqueued, queue, meta, request, lost, expired>>

\* What the task of w returns once it is complete.
Returned(w) ==
  IF Kind[task[w].job] = "report"
  THEN [Absent EXCEPT !.state = "SUCCESS", !.file = TRUE]
  ELSE [Absent EXCEPT !.state = "SUCCESS", !.items = task[w].items,
                      !.succeeded = task[w].succeeded]

\* A faulty variant: the result is not stored (ignore_result).
FinishUnrecorded(w) ==
  /\ task[w].job # NoJob
  /\ Kind[task[w].job] = "batch" => Len(task[w].items) = Size[task[w].job]
  /\ task' = [task EXCEPT ![w] = NoTask]
  /\ UNCHANGED <<enqueued, queue, meta, request, lost, expired>>

\* The task returns and the worker records what it returned.
Finish(w) ==
  /\ task[w].job # NoJob
  /\ Kind[task[w].job] = "batch" => Len(task[w].items) = Size[task[w].job]
  /\ meta' = Recorded(task[w].job, Returned(w))
  /\ task' = [task EXCEPT ![w] = NoTask]
  /\ UNCHANGED <<enqueued, queue, request, lost, expired>>

\* The task raises: a report that cannot be validated or made, a batch without a
\* usable pricing provider.
Raise(w) ==
  /\ task[w].job # NoJob
  /\ task[w].items = <<>>
  /\ meta' = Recorded(task[w].job, [Absent EXCEPT !.state = "FAILURE"])
  /\ task' = [task EXCEPT ![w] = NoTask]
  /\ UNCHANGED <<enqueued, queue, request, lost, expired>>

\* The worker dies: the message was acknowledged, nobody runs the task again.
WorkerDies(w) ==
  /\ task[w].job # NoJob
  /\ lost' = lost \cup {task[w].job}
  /\ task' = [task EXCEPT ![w] = NoTask]
  /\ UNCHANGED <<enqueued, queue, meta, request, expired>>

\* The broker's visibility timeout: a message that a worker holds and has not
\* started is delivered to another one as well.
Redeliver(j) ==
  /\ queue[j] = 1
  /\ meta[j].state = "PENDING" /\ j \notin expired
  /\ queue' = [queue EXCEPT ![j] = 2]
  /\ UNCHANGED <<enqueued, meta, task, request, lost, expired>>

\* celery_result_expires_seconds after it was recorded, a result is gone.
Expire(j) ==
  /\ Ready(meta[j].state)
  /\ meta' = [meta EXCEPT ![j] = Absent]
  /\ expired' = expired \cup {j}
  /\ UNCHANGED <<enqueued, queue, task, request, lost>>

-----------------------------------------------------------------------------
(* Status and download *)

\* get_job_status or download_report_job begins: ready() reads the backend.
Ask(c, j, kind) ==
  /\ request[c].pc = "idle"
  /\ request' = [request EXCEPT ![c] = [NoRequest EXCEPT !.pc = "reading", !.job = j,
                                                         !.kind = kind, !.read = meta[j]]]
  /\ UNCHANGED <<enqueued, queue, meta, task, lost, expired>>

\* A faulty variant: after ready(), a second AsyncResult is read, and any finished job
\* is taken for a report.
AnswerReadingTwice(c) ==
  /\ request[c].pc = "reading"
  /\ LET ready == Ready(request[c].read.state)
         m == meta[request[c].job]
         answer == CASE request[c].kind = "status" -> "status"
                     [] request[c].kind = "download" /\ ~ready -> "not_finished"
                     [] request[c].kind = "download" /\ ready -> "file"
     IN request' = [request EXCEPT ![c].pc = "done", ![c].answer = answer, ![c].ready = ready,
                                   ![c].shown = IF ready THEN m ELSE Absent, ![c].state = m.state]
  /\ UNCHANGED <<enqueued, queue, meta, task, lost, expired>>

\* successful() and result are asked only of a finished job, and come from the result
\* that ready() has read; so does the state then, which is read from the backend once
\* more while the job was not finished.  A status answer shows the result without the
\* file, or the error.
Answer(c) ==
  /\ request[c].pc = "reading"
  /\ LET m == request[c].read
         answer == CASE request[c].kind = "status" -> "status"
                     [] request[c].kind = "download" /\ ~Ready(m.state) -> "not_finished"
                     [] request[c].kind = "download" /\ m.state = "FAILURE" -> "failed"
                     [] request[c].kind = "download" /\ m.state = "SUCCESS" ->
                          IF m.file THEN "file" ELSE "not_a_report"
         last == IF Ready(m.state) THEN m ELSE meta[request[c].job]
     IN request' = [request EXCEPT ![c].pc = "done", ![c].answer = answer, ![c].ready = Ready(m.state),
                                   ![c].shown = IF Ready(m.state) THEN m ELSE Absent, ![c].state = last.state]
  /\ UNCHANGED <<enqueued, queue, meta, task, lost, expired>>

Leave(c) ==
  /\ request[c].pc = "done"
  /\ request' = [request EXCEPT ![c] = NoRequest]
  /\ UNCHANGED <<enqueued, queue, meta, task, lost, expired>>

Init ==
  /\ enqueued = {}
  /\ queue = [j \in Jobs |-> 0]
  /\ meta = [j \in Jobs |-> Absent]
  /\ task = [w \in Workers |-> NoTask]
  /\ request = [c \in Clients |-> NoRequest]
  /\ lost = {}
  /\ expired = {}

Work(w) == (\E j \in Jobs : Start(w, j)) \/ PriceItem(w) \/ Finish(w) \/ Raise(w)

Next ==
  \/ \E j \in Jobs : Enqueue(j) \/ Redeliver(j) \/ Expire(j)
  \/ \E w \in Workers : Work(w) \/ WorkerDies(w)
  \/ \E c \in Clients : Answer(c) \/ Leave(c) \/ \E j \in Jobs, kind \in {"status", "download"} : Ask(c, j, kind)

Spec == Init /\ [][Next]_vars

\* A worker that is up works; whether one dies is not up to it.
FairSpec == Spec /\ \A w \in Workers : WF_vars(Work(w))

-----------------------------------------------------------------------------
(* Properties *)

\* m, if it is the result of batch j, has every item with the outcome of that item
\* alone, and counts them right.
WholeBatch(j, m) ==
  m.state = "SUCCESS" /\ Kind[j] = "batch" =>
    /\ Len(m.items) = Size[j]
    /\ \A i \in 1..Size[j] : m.items[i] = "error" <=> i \in Bad[j]
    /\ m.succeeded = Size[j] - Cardinality(Bad[j])

\* A recorded batch has every item, in order: a bad item, a dead worker or a second
\* delivery never yields a partial or a doubled batch (generate_batch_estimates_task).
BatchIsolated == \A j \in Jobs : WholeBatch(j, meta[j])

\* A download hands out a file only when the job it names has made one, although
\* the result may expire or the task be run again between the reads
\* (download_report_job).
DownloadHasFile ==
  \A c \in Clients :
    request[c].answer = "file" =>
      /\ Kind[request[c].job] = "report"
      /\ request[c].shown.file

\* The parts of a status answer fit together although they are read one after the
\* other (get_job_status): one that says ready names a finished state, has the outcome
\* of that state and the whole result of its own job, however the record has expired or
\* changed since; one that says not ready shows neither a result nor an error, even
\* when its state, read later, is already that of a finished job.
StatusCoherent ==
  \A c \in Clients :
    LET r == request[c]
    IN r.answer = "status" =>
         IF r.ready
         THEN /\ Ready(r.state) /\ r.shown.state = r.state
              /\ WholeBatch(r.job, r.shown)
              /\ r.state = "SUCCESS" => (r.shown.file <=> Kind[r.job] = "report")
         ELSE r.shown = Absent

\* An accepted job is eventually finished (and then expires), or its worker died
\* while it ran it.
JobFinishes ==
  \A j \in Jobs : (j \in enqueued) ~> (Ready(meta[j].state) \/ j \in lost \cup expired)
=============================================================================

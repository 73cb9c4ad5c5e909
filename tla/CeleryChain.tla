---------------------------- MODULE CeleryChain ----------------------------
(***************************************************************************)
(* The tasks API with its Celery tasks: web/routes/tasks.py and            *)
(* transfer.py send a task's download, alone or chained to its transfer,   *)
(* or a transfer alone, to workers (worker/download.py, transfer/tasks.py),*)
(* which report in the task's row.                                         *)
(*                                                                         *)
(* A job is a message of the broker and then its execution; a retry is the *)
(* same job, back in the queue.  Celery is modelled from how it is used:   *)
(* acks_late is off, so a job dies with its worker; a worker drops a job   *)
(* whose id is revoked; the id given to a chain is that of its last task.  *)
(* All workers are taken to reach one database.                            *)
(***************************************************************************)
EXTENDS Naturals, FiniteSets

CONSTANTS
    Ids,                 \* tasks
    Workers,
    Slots,               \* places of jobs, as many as may exist at a time
    MaxDownloadRetries,  \* max_retries of download_dataset
    MaxTransferRetries,  \* max_retries of transfer_to_juicefs
    Bounds               \* how often there is an add, a command, a signal, a crash, a fault:
                         \* the choices

ASSUME ChainAssumption ==
    /\ MaxDownloadRetries \in Nat /\ MaxTransferRetries \in Nat
    /\ Bounds \subseteq [{"adds", "commands", "signals", "crashes", "faults"} -> Nat]
    /\ "none" \notin Ids

VARIABLES
    row,      \* the status and transfer_status of each task's row, or NoRow
    job,      \* the job in each slot, or NoJob
    reads,    \* the rows that retries have read and not yet written back, or NoRow
    signal,   \* the tasks with a pause signal in Redis
    revoked,  \* ids the workers keep as revoked
    left,     \* how much of Bounds is left
    stored,   \* history: tasks a download of which has run to its end
    unready,  \* history: tasks whose chain went on though no download ended well
    blind,    \* history: tasks that passed a dedup check that got no answer
    lapsed,   \* history: tasks that lost a job, or a transfer, for good
    crossed   \* history: tasks whose jobs gave way to one another

history == <<stored, unready, blind, lapsed, crossed>>
vars == <<row, job, reads, signal, revoked, left, history>>

NoRow == [status |-> "none", transfer |-> "none"]
Statuses == {"pending", "downloading", "failed", "paused", "revoked", "transferring", "done"}

\* byId: the job has the id of the task, so that revoking reaches it.
NewJob(t, kind, chained, byId) ==
    [task |-> t, kind |-> kind, chained |-> chained, byId |-> byId,
     tries |-> 0, at |-> "queued", by |-> "none"]
NoJob == [NewJob("none", "none", FALSE, FALSE) EXCEPT !.at = "free"]

Free == {m \in Slots : job[m] = NoJob}
Jobs(t) == {m \in Slots : job[m].task = t}
Running == {m \in Slots : job[m].at \notin {"free", "queued"}}
Exists(t) == row[t] # NoRow
Status(t) == row[t].status
Waits(t) == Status(t) \in {"pending", "downloading", "transferring"}

Spend(what) == left[what] > 0 /\ left' = [left EXCEPT ![what] = @ - 1]

\* A mutant of SetStatus: a missing row is inserted.
Upserts(t, status) == row' = [row EXCEPT ![t].status = status]

\* update_task_progress: an UPDATE, which finds no row or one.
SetStatus(t, status) ==
    row' = IF Exists(t) THEN [row EXCEPT ![t].status = status] ELSE row

\* At(m, kind, at): what job m does next.
At(m, kind, at) == job[m].kind = kind /\ job[m].at = at
Goes(m, at) == job' = [job EXCEPT ![m].at = at]
Ends(m) == job' = [job EXCEPT ![m] = NoJob]
FreeSlot == CHOOSE m \in Free : TRUE
Sends(new) == Free # {} /\ job' = [job EXCEPT ![FreeSlot] = new]
Loses(T) == lapsed' = lapsed \union T

-----------------------------------------------------------------------------
(* The routes.                                                             *)

Add(t) ==
    /\ Spend("adds")
    /\ ~Exists(t)
    /\ row' = [row EXCEPT ![t] = [NoRow EXCEPT !.status = "pending"]]
    /\ \/ Sends(NewJob(t, "download", TRUE, FALSE)) /\ UNCHANGED lapsed
       \/ UNCHANGED job /\ Loses({t})                    \* no_dispatch
    /\ UNCHANGED <<reads, signal, revoked, stored, unready, blind, crossed>>

\* retry_task and batch_action read the row, and write it back as a whole later.
RetryReads(t) ==
    /\ Spend("commands")
    /\ reads[t] = NoRow /\ Status(t) \in {"failed", "revoked", "paused", "pending"}
    /\ reads' = [reads EXCEPT ![t] = row[t]]
    /\ UNCHANGED <<row, job, signal, revoked, history>>

\* The broker may refuse the job once the row is written.
RetryWrites(t) ==
    /\ reads[t] # NoRow
    /\ reads' = [reads EXCEPT ![t] = NoRow]
    /\ row' = [row EXCEPT ![t] = [reads[t] EXCEPT !.status = "pending"]]
    /\ \/ Sends(NewJob(t, "download", FALSE, TRUE)) /\ UNCHANGED <<left, lapsed>>
       \/ UNCHANGED job /\ Spend("faults") /\ Loses({t})
    /\ UNCHANGED <<signal, revoked, stored, unready, blind, crossed>>

\* revoke: the id is remembered, and its job killed when the row says it runs.
Revokes(t) ==
    /\ revoked' = revoked \union {t}
    /\ job' = [m \in Slots |->
                 IF /\ job[m].task = t /\ job[m].byId
                    /\ m \in Running /\ Status(t) = "downloading"
                 THEN NoJob ELSE job[m]]

Skip(t) ==
    /\ Spend("commands") /\ Exists(t)
    /\ Revokes(t)
    /\ SetStatus(t, "revoked")
    /\ UNCHANGED <<reads, signal, history>>

Delete(t) ==
    /\ Spend("commands") /\ Exists(t)
    /\ Revokes(t)
    /\ row' = [row EXCEPT ![t] = NoRow]
    /\ UNCHANGED <<reads, signal, history>>

\* A task reported done is taken to have its data in BOS.
Trigger(t) ==
    /\ Spend("commands")
    /\ Status(t) = "done" /\ row[t].transfer # "done"
    /\ Sends(NewJob(t, "transfer", FALSE, FALSE))
    /\ UNCHANGED <<row, reads, signal, revoked, history>>

RetryTransfer(t) ==
    /\ Spend("commands")
    /\ row[t].transfer = "failed"
    /\ row' = [row EXCEPT ![t].transfer = "queued"]
    /\ Sends(NewJob(t, "transfer", FALSE, FALSE))
    /\ UNCHANGED <<reads, signal, revoked, history>>

SignalPause(t) ==
    /\ Spend("signals") /\ Exists(t)
    /\ signal' = signal \union {t}
    /\ UNCHANGED <<row, job, reads, revoked, history>>

-----------------------------------------------------------------------------
(* Celery.                                                                 *)

\* A mutant of Receive: a worker takes any number of jobs.
ReceiveMore(m, w) ==
    /\ job[m].at = "queued"
    /\ job' = [job EXCEPT ![m].at = IF job[m].kind = "download" THEN "guard" ELSE "begin", ![m].by = w]
    /\ UNCHANGED <<row, reads, signal, revoked, left, history>>

\* A worker runs one job at a time, and drops a revoked one.
Receive(m, w) ==
    /\ job[m].at = "queued"
    /\ \A n \in Running : job[n].by # w
    /\ IF job[m].byId /\ job[m].task \in revoked
       THEN Ends(m) /\ Loses({job[m].task})
       ELSE /\ job' = [job EXCEPT ![m].at = IF job[m].kind = "download" THEN "guard" ELSE "begin",
                                  ![m].by = w]
            /\ UNCHANGED lapsed
    /\ UNCHANGED <<row, reads, signal, revoked, left, stored, unready, blind, crossed>>

Requeued(m) == [job[m] EXCEPT !.at = "queued", !.by = "none", !.tries = @ + 1]

\* A mutant of Retries: without max_retries.
RetriesForever(m, max) == job' = [job EXCEPT ![m] = [Requeued(m) EXCEPT !.tries = 0]] /\ UNCHANGED lapsed

\* self.retry: the job is sent again, or fails for good and its chain with it.
Retries(m, max) ==
    IF job[m].tries < max
    THEN job' = [job EXCEPT ![m] = Requeued(m)] /\ UNCHANGED lapsed
    ELSE Ends(m) /\ Loses({job[m].task})

\* The task returns: a chain goes on to its transfer, whatever was returned.
Returns(m, ok) ==
    IF job[m].chained
    THEN /\ job' = [job EXCEPT ![m] = NewJob(job[m].task, "transfer", FALSE, TRUE)]
         /\ unready' = IF ok THEN unready ELSE unready \union {job[m].task}
    ELSE Ends(m) /\ UNCHANGED unready

Crash(w) ==
    LET dead == {m \in Running : job[m].by = w} IN
      /\ dead # {}
      /\ Spend("crashes")
      /\ job' = [m \in Slots |-> IF m \in dead THEN NoJob ELSE job[m]]
      /\ Loses({job[m].task : m \in dead})
      /\ UNCHANGED <<row, reads, signal, revoked, stored, unready, blind, crossed>>

-----------------------------------------------------------------------------
(* download_dataset                                                        *)

Begins(m) ==
    /\ SetStatus(job[m].task, "downloading")
    /\ Goes(m, "run")
    /\ UNCHANGED <<reads, signal, revoked, left, stored, unready, lapsed, crossed>>

\* The jobs of the same task that inspect().active() finds on other workers.
Others(m) == {n \in Running : /\ job[n].task = job[m].task /\ job[n].kind = "download"
                              /\ job[n].by # job[m].by}

\* A job that has found another, and will return without a successor.
Leaves(m) == job[m].at = "skip" /\ ~job[m].chained

\* A mutant of Guard: the check is left out.
GuardNothing(m) == At(m, "download", "guard") /\ Goes(m, "start") /\ UNCHANGED <<left, blind, crossed>>

\* The answers of the workers are one look at them all.  A job is itself found,
\* while it asks and until it returns: two workers that ask at the same time
\* find each other, and both give way.
Guard(m) ==
    /\ At(m, "download", "guard")
    /\ \/ /\ Others(m) = {}
          /\ Goes(m, "start") /\ UNCHANGED <<left, blind, crossed>>
       \/ /\ Others(m) # {}
          /\ Goes(m, "skip") /\ UNCHANGED <<left, blind>>
          /\ crossed' = IF ~job[m].chained /\ \A n \in Others(m) : Leaves(n)
                        THEN crossed \union {job[m].task} ELSE crossed
       \/ /\ Spend("faults")
          /\ Goes(m, "start") /\ blind' = blind \union {job[m].task} /\ UNCHANGED crossed

Guarded(m) == Guard(m) /\ UNCHANGED <<row, reads, signal, revoked, stored, unready, lapsed>>

\* dedup_skipped.
GiveWay(m) ==
    /\ At(m, "download", "skip")
    /\ Returns(m, FALSE)
    /\ UNCHANGED <<row, reads, signal, revoked, left, stored, blind, lapsed, crossed>>

Begin(m) == At(m, "download", "start") /\ Begins(m) /\ UNCHANGED blind

\* The reporter writes the status with the progress, every 15 seconds.
Progress(m) ==
    /\ At(m, "download", "run")
    /\ SetStatus(job[m].task, "downloading")
    /\ UNCHANGED <<job, reads, signal, revoked, left, history>>

RunSucceeds(m) ==
    /\ At(m, "download", "run")
    /\ stored' = stored \union {job[m].task}
    /\ Goes(m, "success")
    /\ UNCHANGED <<row, reads, signal, revoked, left, unready, blind, lapsed, crossed>>

\* A mutant of RunFails: an error is swallowed.
RunFailsSilently(m) ==
    /\ At(m, "download", "run")
    /\ Goes(m, "success")
    /\ UNCHANGED <<row, reads, signal, revoked, left, history>>

\* TaskError: the event was set by the watcher or the time limit, or the run failed.
RunFails(m) ==
    /\ At(m, "download", "run")
    /\ Goes(m, "failure")
    /\ UNCHANGED <<row, reads, signal, revoked, left, history>>

\* Any other exception.
RunBreaks(m) ==
    /\ At(m, "download", "run")
    /\ SetStatus(job[m].task, "failed")
    /\ Retries(m, MaxDownloadRetries)
    /\ UNCHANGED <<reads, signal, revoked, left, stored, unready, blind, crossed>>

ReportDone(m) ==
    /\ At(m, "download", "success")
    /\ SetStatus(job[m].task, "done")
    /\ Returns(m, TRUE)
    /\ UNCHANGED <<reads, signal, revoked, left, stored, blind, lapsed, crossed>>

\* A signal explains the failure, whatever caused it.
ReportPaused(m) ==
    /\ At(m, "download", "failure") /\ job[m].task \in signal
    /\ signal' = signal \ {job[m].task}
    /\ SetStatus(job[m].task, "paused")
    /\ Returns(m, FALSE)
    /\ UNCHANGED <<reads, revoked, left, stored, blind, lapsed, crossed>>

\* auth, not_found: no retry.
ReportFailed(m) ==
    /\ At(m, "download", "failure") /\ job[m].task \notin signal
    /\ SetStatus(job[m].task, "failed")
    /\ Returns(m, FALSE)
    /\ UNCHANGED <<reads, signal, revoked, left, stored, blind, lapsed, crossed>>

\* A mutant of RetryLater: nothing is sent again.
RetryNever(m) ==
    /\ At(m, "download", "failure") /\ job[m].task \notin signal
    /\ SetStatus(job[m].task, "pending")
    /\ Ends(m)
    /\ UNCHANGED <<reads, signal, revoked, left, history>>

RetryLater(m) ==
    /\ At(m, "download", "failure") /\ job[m].task \notin signal
    /\ SetStatus(job[m].task, "pending")
    /\ Retries(m, MaxDownloadRetries)
    /\ UNCHANGED <<reads, signal, revoked, left, stored, unready, blind, crossed>>

\* The database raises before the try, or Redis in the handler of the TaskError:
\* the job ends there, its row as it was, and nothing is sent again.
Unreported(m) ==
    /\ job[m].kind = "download" /\ job[m].at \in {"start", "failure"}
    /\ Spend("faults")
    /\ Ends(m) /\ Loses({job[m].task})
    /\ UNCHANGED <<row, reads, signal, revoked, stored, unready, blind, crossed>>

-----------------------------------------------------------------------------
(* transfer_to_juicefs                                                     *)

\* In a chain the task is looked up again: a deleted one is not transferred.
BeginTransfer(m) ==
    /\ At(m, "transfer", "begin")
    /\ Exists(job[m].task) \/ ~job[m].byId
    /\ SetStatus(job[m].task, "transferring")
    /\ Goes(m, "import")
    /\ UNCHANGED <<reads, signal, revoked, left, history>>

\* It is gone, it names no bos_path, or the worker has no credentials.
SkipTransfer(m) ==
    /\ At(m, "transfer", "begin")
    /\ Ends(m)
    /\ Loses({job[m].task} \intersect {t \in Ids : Waits(t)})
    /\ UNCHANGED <<row, reads, signal, revoked, left, stored, unready, blind, crossed>>

\* The login, the import or the wait for it raises.
TransferBreaks(m) ==
    /\ At(m, "transfer", "import")
    /\ Retries(m, MaxTransferRetries)
    /\ UNCHANGED <<row, reads, signal, revoked, left, stored, unready, blind, crossed>>

Transferred(m) ==
    /\ At(m, "transfer", "import")
    /\ row' = IF Exists(job[m].task)
              THEN [row EXCEPT ![job[m].task] = [status |-> "done", transfer |-> "done"]] ELSE row
    /\ Ends(m)
    /\ UNCHANGED <<reads, signal, revoked, left, history>>

\* The import failed.  retry() raises inside the try, so that the handler of
\* any exception sends the job a second time.
ImportFails(m) ==
    /\ At(m, "transfer", "import")
    /\ row' = IF Exists(job[m].task) THEN [row EXCEPT ![job[m].task].transfer = "failed"] ELSE row
    /\ IF job[m].tries < MaxTransferRetries
       THEN /\ Free # {}
            /\ job' = [job EXCEPT ![m] = Requeued(m), ![FreeSlot] = Requeued(m)]
            /\ UNCHANGED lapsed
       ELSE Ends(m) /\ Loses({job[m].task})
    /\ UNCHANGED <<reads, signal, revoked, left, stored, unready, blind, crossed>>

-----------------------------------------------------------------------------
Init ==
    /\ row = [t \in Ids |-> NoRow] /\ job = [m \in Slots |-> NoJob]
    /\ reads = row /\ signal = {} /\ revoked = {} /\ left \in Bounds
    /\ stored = {} /\ unready = {} /\ blind = {}
    /\ lapsed = {} /\ crossed = {}

Download(m) ==
    \/ Guarded(m) \/ GiveWay(m) \/ Begin(m) \/ RunSucceeds(m) \/ RunFails(m) \/ RunBreaks(m)
    \/ ReportDone(m) \/ ReportPaused(m) \/ ReportFailed(m) \/ RetryLater(m) \/ Unreported(m)

Transfer(m) ==
    BeginTransfer(m) \/ SkipTransfer(m) \/ TransferBreaks(m) \/ Transferred(m) \/ ImportFails(m)

Work(m) == Download(m) \/ Transfer(m) \/ \E w \in Workers : Receive(m, w)

Command(t) ==
    \/ Add(t) \/ RetryReads(t) \/ Skip(t) \/ Delete(t)
    \/ Trigger(t) \/ RetryTransfer(t) \/ SignalPause(t)

Next ==
    \/ \E t \in Ids : Command(t) \/ RetryWrites(t)
    \/ \E m \in Slots : Work(m) \/ Progress(m)
    \/ \E w \in Workers : Crash(w)

Spec == Init /\ [][Next]_vars

\* Workers and handlers go on; commands and crashes may stay away.
FairSpec ==
    /\ Spec
    /\ \A m \in Slots : WF_vars(Work(m))
    /\ \A t \in Ids : WF_vars(RetryWrites(t))

-----------------------------------------------------------------------------
\* Types; and a worker runs one job at a time (worker_concurrency of
\* queue/app.py), also after retries, crashes and revokes.
TypeOK ==
    /\ \A t \in Ids : \/ row[t] = NoRow
                      \/ /\ row[t].status \in Statuses
                         /\ row[t].transfer \in {"none", "queued", "failed", "done"}
    /\ \A m \in Slots \ Free :
         /\ job[m].task \in Ids
         /\ \/ job[m].kind = "download" /\ job[m].tries <= MaxDownloadRetries
            \/ job[m].kind = "transfer" /\ job[m].tries <= MaxTransferRetries
    /\ \A m, n \in Running : job[m].by = job[n].by => m = n
    /\ {signal, revoked, stored, unready, blind, lapsed, crossed} \subseteq SUBSET Ids

\* The dedup guard (download.py:111) keeps two workers from running a
\* download of one task at once, though it looks before the row says so,
\* unless its inspect call got no answer.
OneDownload ==
    \A m, n \in Slots :
        /\ m # n /\ job[m].task = job[n].task
        /\ \A k \in {m, n} : job[k].kind = "download" /\ job[k].at \in {"start", "run", "success", "failure"}
        => job[m].task \in blind

\* A row that says it waits or works ("pending", "downloading",
\* "transferring") has a job that will change it, whatever duplicates,
\* skips, stale retries and signals there were; except after a loss of
\* which the code keeps no trace: no dispatch, a job the broker refused, one
\* dropped as revoked or lost with its worker, retries used up, an exception
\* outside of the try (download.py:127, :198), a transfer skipped
\* (transfer/tasks.py:50-60); and except for jobs, none of them a chain's, that
\* gave way to each other in the dedup guard (download.py:121-123).
NotForgotten == \A t \in Ids : Waits(t) => Jobs(t) # {} \/ t \in lapsed \union crossed

\* A row that says "done" is that of a task whose download ran to its end;
\* the exception is a chain that went on to its transfer without
\* (transfer/tasks.py:32 does not look at the status it is given).
DoneIsStored == \A t \in Ids : Status(t) = "done" => t \in stored \union unready

\* Only a new task, or a retry that had read the row before, brings back a
\* row that was deleted: no job does, however late it reports.
DeletedForGood ==
    [][\A t \in Ids : ~Exists(t) /\ Exists(t)' => left'.adds < left.adds \/ reads[t] # NoRow]_vars

\* Once commands and crashes stop, every job comes to its end, and with it
\* every row, unless the task has lapsed or its jobs gave way to each other.
Settles == <>[](Free = Slots /\ \A t \in Ids : Waits(t) => t \in lapsed \union crossed)
=============================================================================

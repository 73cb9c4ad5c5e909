------------------------ MODULE CeleryChain_proofs ------------------------
(***************************************************************************)
(* Theorems about the Celery chain, for any tasks, workers, numbers of     *)
(* jobs and retries, commands, crashes and faults: its types, that no two  *)
(* workers download one task, that no row is forgotten, that "done" means  *)
(* stored, and that a deleted row stays deleted.                           *)
(***************************************************************************)
EXTENDS CeleryChain, TLAPS

RowType == {NoRow} \union [status : Statuses, transfer : {"none", "queued", "failed", "done"}]

DownloadJob ==
    [task : Ids, kind : {"download"}, chained : BOOLEAN, byId : BOOLEAN,
     tries : 0..MaxDownloadRetries,
     at : {"queued", "guard", "skip", "start", "run", "success", "failure"}, by : Workers \union {"none"}]

TransferJob ==
    [task : Ids, kind : {"transfer"}, chained : BOOLEAN, byId : BOOLEAN,
     tries : 0..MaxTransferRetries, at : {"queued", "begin", "import"}, by : Workers \union {"none"}]

JobType == {NoJob} \union DownloadJob \union TransferJob

Shape ==
    /\ row \in [Ids -> RowType]
    /\ reads \in [Ids -> RowType]
    /\ job \in [Slots -> JobType]
    /\ left \in [{"adds", "commands", "signals", "crashes", "faults"} -> Nat]
    /\ signal \subseteq Ids /\ revoked \subseteq Ids
    /\ stored \subseteq Ids /\ unready \subseteq Ids /\ blind \subseteq Ids
    /\ lapsed \subseteq Ids /\ crossed \subseteq Ids

OneAtATime == \A m, n \in Running : job[m].by = job[n].by => m = n

\* A job beyond the dedup check of its download.
Active(j) == j.kind = "download" /\ j.at \in {"start", "run", "success", "failure"}

\* What is known of a task whose row or whose job is past its download.
Ready == stored \union unready

PastDownload ==
    /\ \A t \in Ids : row[t].status = "done" \/ row[t].transfer # "none" => t \in Ready
    /\ \A t \in Ids : reads[t].transfer # "none" => t \in Ready
    /\ \A m \in Slots : job[m].kind = "transfer" => job[m].task \in Ready
    /\ \A m \in Slots : job[m].kind = "download" /\ job[m].at = "success" => job[m].task \in stored

\* A job is still to change its row unless it has found another and leaves.
Stays(j) == j.at # "skip" \/ j.chained
Excused == lapsed \union crossed
HasJob(jobs, t) == \E n \in Slots : jobs[n].task = t /\ Stays(jobs[n])
Held == \A t \in Ids : Waits(t) => t \in Excused \/ HasJob(job, t)

\* The inductive invariant.
IInv == Shape /\ OneAtATime /\ OneDownload /\ Held /\ PastDownload

-----------------------------------------------------------------------------
\* What the places and kinds of a job say of its type.
LEMMA JobFacts ==
    ASSUME Shape, NEW m \in Slots
    PROVE  /\ NoJob.task = "none" /\ NoJob.kind = "none" /\ NoJob.at = "free"
           /\ job[m] = NoJob <=> job[m].at = "free"
           /\ job[m].kind = "download" => job[m] \in DownloadJob
           /\ job[m].kind = "transfer" => job[m] \in TransferJob
           /\ job[m] # NoJob => job[m].task \in Ids /\ job[m] \in DownloadJob \union TransferJob
  BY DEF Shape, JobType, DownloadJob, TransferJob, NoJob, NewJob

\* The free slot that is chosen is one, when there is one.
LEMMA FreeSlotIsFree ==
    ASSUME Free # {} PROVE FreeSlot \in Slots /\ job[FreeSlot] = NoJob
  BY DEF Free, FreeSlot

\* SetStatus is an UPDATE: no other row and no other column changes, and a row
\* that is missing stays so.
LEMMA SetStatusKeeps ==
    ASSUME Shape, NEW t \in Ids, NEW status \in Statuses, SetStatus(t, status)
    PROVE  /\ row' \in [Ids -> RowType]
           /\ \A u \in Ids : row'[u].transfer = row[u].transfer /\ (~Exists(u) => row'[u] = NoRow)
           /\ \A u \in Ids \ {t} : row'[u] = row[u]
           /\ row'[t].status = status \/ row'[t] = NoRow
<1>1. CASE ~Exists(t)
  BY <1>1 DEF SetStatus, Shape, Exists
<1>2. CASE Exists(t)
  <2>1. row[t] \in [status : Statuses, transfer : {"none", "queued", "failed", "done"}]
    BY <1>2 DEF Shape, RowType, Exists
  <2>2. row' = [row EXCEPT ![t] = [row[t] EXCEPT !.status = status]]
    BY <1>2 DEF SetStatus, Shape
  <2>3. [row[t] EXCEPT !.status = status] \in [status : Statuses, transfer : {"none", "queued", "failed", "done"}]
    BY <2>1
  <2>4. [row[t] EXCEPT !.status = status].transfer = row[t].transfer
    BY <2>1
  <2>5. [row[t] EXCEPT !.status = status].status = status
    BY <2>1
  <2>6. QED BY <1>2, <2>2, <2>3, <2>4, <2>5 DEF Shape, RowType, Exists
<1>3. QED BY <1>1, <1>2

\* A step that takes no worker's time anew, and brings no job past its dedup
\* check, keeps one job to each worker and one download to each task.
LEMMA CalmJobs ==
    ASSUME Shape, OneAtATime, OneDownload,
           job' \in [Slots -> JobType], blind \subseteq blind',
           \A n \in Slots : \/ job'[n].at \in {"free", "queued"}
                            \/ /\ Active(job'[n]) => Active(job[n])
                               /\ n \in Running /\ job'[n].by = job[n].by
                               /\ job'[n].task = job[n].task
    PROVE  OneAtATime' /\ OneDownload'
<1>1. OneAtATime'
  BY DEF OneAtATime, Running
<1>2. OneDownload'
  <2>1. SUFFICES ASSUME NEW m \in Slots, NEW n \in Slots, m # n, job'[m].task = job'[n].task,
                        Active(job'[m]), Active(job'[n])
                 PROVE  job'[m].task \in blind'
    BY DEF OneDownload, Active
  <2>2. Active(job[m]) /\ Active(job[n]) /\ job[m].task = job'[m].task /\ job[n].task = job'[n].task
    BY <2>1 DEF Active
  <2>3. QED BY <2>1, <2>2 DEF OneDownload, Active
<1>3. QED BY <1>1, <1>2

\* A row keeps its job, or is excused, or has another one.
LEMMA StillHeld ==
    ASSUME Held, Excused \subseteq Excused',
           \A t \in Ids : row'[t].status \in {"pending", "downloading", "transferring"} =>
               \/ t \in Excused'
               \/ HasJob(job', t)
               \/ /\ row[t].status \in {"pending", "downloading", "transferring"}
                  /\ \A n \in Slots : job[n].task = t /\ Stays(job[n]) => job'[n].task = t /\ Stays(job'[n])
    PROVE  Held'
<1>1. SUFFICES ASSUME NEW t \in Ids, row'[t].status \in {"pending", "downloading", "transferring"},
                      t \notin Excused'
               PROVE  HasJob(job', t)
  BY DEF Held, Waits, Status
<1>2. CASE /\ row[t].status \in {"pending", "downloading", "transferring"}
           /\ \A n \in Slots : job[n].task = t /\ Stays(job[n]) => job'[n].task = t /\ Stays(job'[n])
  <2>1. t \in Excused \/ HasJob(job, t)
    BY <1>2 DEF Held, Waits, Status
  <2>2. QED BY <1>1, <1>2, <2>1 DEF HasJob
<1>3. QED BY <1>1, <1>2

\* Initially there are no rows and no jobs.
LEMMA ChainInit == ASSUME Init PROVE IInv
<1>1. Shape
  BY ChainAssumption DEF Init, Shape, RowType, JobType
<1>2. \A m \in Slots : job[m].at = "free" /\ job[m].kind = "none"
  BY DEF Init, NoJob, NewJob
<1>3. \A t \in Ids : row[t].status = "none" /\ row[t].transfer = "none" /\ reads[t].transfer = "none"
  BY DEF Init, NoRow
<1>4. OneAtATime /\ OneDownload
  BY <1>2 DEF OneAtATime, OneDownload, Running
<1>5. Held /\ PastDownload
  BY <1>2, <1>3 DEF Held, Waits, PastDownload, Status
<1>6. QED BY <1>1, <1>4, <1>5 DEF IInv

-----------------------------------------------------------------------------
\* The steps of the system are about one task each.

Grows ==
    /\ stored \subseteq stored' /\ unready \subseteq unready' /\ blind \subseteq blind'
    /\ lapsed \subseteq lapsed' /\ crossed \subseteq crossed'

\* Other rows are as they were; t's row and the jobs that changed are as
\* PastDownload and Held ask.
About(t) ==
    /\ \A u \in Ids \ {t} : row'[u] = row[u] /\ reads'[u] = reads[u]
    /\ row'[t].status = "done" \/ row'[t].transfer # "none" \/ reads'[t].transfer # "none" => t \in Ready'
    /\ \A n \in Slots : \/ job'[n] = job[n]
                        \/ /\ job[n].task \in {t, "none"}
                           /\ job'[n].kind = "transfer" => job'[n].task = t /\ t \in Ready'
                           /\ job'[n].kind = "download" /\ job'[n].at = "success" =>
                                job'[n].task = t /\ t \in stored'
    /\ row'[t].status \in {"pending", "downloading", "transferring"} =>
         t \in Excused' \/ HasJob(job', t)

\* The jobs that changed are as CalmJobs asks.
Calm ==
    \A n \in Slots : \/ job'[n] = job[n]
                     \/ job'[n].at \in {"free", "queued"}
                     \/ /\ Active(job'[n]) => Active(job[n])
                        /\ n \in Running /\ job'[n].by = job[n].by
                        /\ job'[n].task = job[n].task

\* A step about one task keeps the invariant, if it keeps workers and
\* downloads apart.
LEMMA TaskStep ==
    ASSUME IInv, NEW t \in Ids, Shape', Grows, About(t), OneAtATime', OneDownload'
    PROVE  IInv'
<1>1. Held'
  <2>1. \A u \in Ids \ {t} : \A n \in Slots : job[n].task = u => job'[n] = job[n]
    BY ChainAssumption DEF About
  <2>2. Excused \subseteq Excused'
    BY DEF Grows, Excused
  <2>3. QED BY <2>1, <2>2, StillHeld DEF IInv, About
<1>2. PastDownload'
  <2>1. \A u \in Ids : row'[u].status = "done" \/ row'[u].transfer # "none" => u \in Ready'
    BY DEF IInv, PastDownload, About, Grows, Ready
  <2>2. \A u \in Ids : reads'[u].transfer # "none" => u \in Ready'
    BY DEF IInv, PastDownload, About, Grows, Ready
  <2>3. \A m \in Slots : job'[m].kind = "transfer" => job'[m].task \in Ready'
    BY DEF IInv, PastDownload, About, Grows, Ready
  <2>4. \A m \in Slots : job'[m].kind = "download" /\ job'[m].at = "success" => job'[m].task \in stored'
    BY DEF IInv, PastDownload, About, Grows, Ready
  <2>5. QED BY <2>1, <2>2, <2>3, <2>4 DEF PastDownload, Ready
<1>3. QED BY <1>1, <1>2 DEF IInv

\* And a calm step does.
LEMMA CalmStep ==
    ASSUME IInv, NEW t \in Ids, Shape', Grows, About(t), Calm
    PROVE  IInv'
<1>1. \A n \in Slots : job[n].at \in {"free", "queued"} \/ n \in Running
  BY DEF Running
<1>2. OneAtATime' /\ OneDownload'
  <2>1. \A n \in Slots : \/ job'[n].at \in {"free", "queued"}
                         \/ /\ Active(job'[n]) => Active(job[n])
                            /\ n \in Running /\ job'[n].by = job[n].by
                            /\ job'[n].task = job[n].task
    BY <1>1 DEF Calm
  <2>2. QED BY <2>1, CalmJobs DEF IInv, Shape, Grows
<1>3. QED BY <1>2, TaskStep

-----------------------------------------------------------------------------
\* The commands.

IsNew(j, t, kind) ==
    /\ j \in IF kind = "download" THEN DownloadJob ELSE TransferJob
    /\ j.at = "queued" /\ j.task = t /\ j.kind = kind

\* What a command sends: one job more, in a slot that was free.
LEMMA SendsOne ==
    ASSUME Shape, NEW t, NEW kind \in {"download", "transfer"}, NEW new, IsNew(new, t, kind), Sends(new)
    PROVE  /\ job' \in [Slots -> JobType]
           /\ \A n \in Slots : \/ job'[n] = job[n]
                               \/ /\ job[n].task = "none" /\ job'[n].task = t
                                  /\ job'[n].kind = kind /\ job'[n].at = "queued"
           /\ HasJob(job', t)
           /\ Calm
<1>1. new \in JobType /\ new.task = t /\ new.kind = kind /\ new.at = "queued"
  BY DEF IsNew, JobType
<1>2. job' = [job EXCEPT ![FreeSlot] = new] /\ FreeSlot \in Slots /\ job[FreeSlot] = NoJob
  BY FreeSlotIsFree DEF Sends
<1>3. NoJob.task = "none"
  BY DEF NoJob, NewJob
<1>4. QED BY <1>1, <1>2, <1>3 DEF Shape, Calm, HasJob, Stays

\* A new job is one of the kind it is made of.
LEMMA NewJobs ==
    ASSUME NEW t \in Ids
    PROVE  /\ IsNew(NewJob(t, "download", TRUE, FALSE), t, "download")
           /\ IsNew(NewJob(t, "download", FALSE, TRUE), t, "download")
           /\ IsNew(NewJob(t, "transfer", FALSE, FALSE), t, "transfer")
           /\ IsNew(NewJob(t, "transfer", FALSE, TRUE), t, "transfer")
  BY ChainAssumption DEF NewJob, DownloadJob, TransferJob, IsNew

\* What is spent is a number that gets smaller.
LEMMA SpendsOne ==
    ASSUME Shape, NEW what \in {"adds", "commands", "signals", "crashes", "faults"}, Spend(what)
    PROVE  /\ left' \in [{"adds", "commands", "signals", "crashes", "faults"} -> Nat]
           /\ left'[what] < left[what]
  BY DEF Shape, Spend

\* The values of a row that is there.
LEMMA RowFacts ==
    ASSUME Shape, NEW t \in Ids
    PROVE  /\ NoRow.status = "none" /\ NoRow.transfer = "none"
           /\ row[t] # NoRow => row[t] \in [status : Statuses, transfer : {"none", "queued", "failed", "done"}]
           /\ reads[t] # NoRow => reads[t] \in [status : Statuses, transfer : {"none", "queued", "failed", "done"}]
  BY DEF Shape, RowType, NoRow

\* Revoking a task kills jobs of this task only.
LEMMA RevokesKeeps ==
    ASSUME Shape, NEW t \in Ids, Revokes(t)
    PROVE  /\ job' \in [Slots -> JobType] /\ revoked' \subseteq Ids
           /\ \A n \in Slots : job'[n] = job[n] \/ (job[n].task = t /\ job'[n] = NoJob)
           /\ Calm
  BY JobFacts DEF Revokes, Shape, JobType, Calm

\* A new row comes with its job, or its dispatch is lost (add_task).
LEMMA AddInv == ASSUME IInv, NEW t \in Ids, Add(t) PROVE IInv'
<1> DEFINE new == [NoRow EXCEPT !.status = "pending"]
<1>0. Shape BY DEF IInv
<1>1. new \in RowType /\ new.transfer = "none" /\ new.status = "pending"
  BY DEF RowType, NoRow, Statuses
<1>2. row' = [row EXCEPT ![t] = new]
  BY DEF Add
<1>3. left' \in [{"adds", "commands", "signals", "crashes", "faults"} -> Nat]
  BY <1>0, SpendsOne DEF Add
<1>4. /\ job' \in [Slots -> JobType] /\ Calm
      /\ \A n \in Slots : job'[n] = job[n] \/ (job[n].task = "none" /\ job'[n].kind = "download" /\ job'[n].at = "queued")
      /\ HasJob(job', t) \/ t \in lapsed'
      /\ lapsed \subseteq lapsed' /\ lapsed' \subseteq Ids
  <2>1. CASE Sends(NewJob(t, "download", TRUE, FALSE)) /\ UNCHANGED lapsed
    BY <1>0, <2>1, SendsOne, NewJobs DEF Shape
  <2>2. CASE UNCHANGED job /\ Loses({t})
    BY <1>0, <2>2 DEF Loses, Shape, Calm
  <2>3. QED BY <2>1, <2>2 DEF Add
<1>5. Shape'
  BY <1>0, <1>1, <1>2, <1>3, <1>4 DEF Shape, Add
<1>6. Grows
  BY <1>4 DEF Grows, Add
<1>7. About(t)
  BY <1>0, <1>1, <1>2, <1>4 DEF About, Shape, Add, IInv, PastDownload, Ready, Excused
<1>8. QED BY <1>4, <1>5, <1>6, <1>7, CalmStep

\* A command only reads the row.
LEMMA RetryReadsInv == ASSUME IInv, NEW t \in Ids, RetryReads(t) PROVE IInv'
<1>0. Shape BY DEF IInv
<1>1. reads' = [reads EXCEPT ![t] = row[t]] /\ UNCHANGED <<row, job, signal, revoked, stored, unready, blind, lapsed, crossed>>
  BY DEF RetryReads, history
<1>2. Shape'
  BY <1>0, <1>1, SpendsOne DEF Shape, RetryReads
<1>3. About(t)
  BY <1>0, <1>1 DEF About, Shape, IInv, PastDownload, Ready, Held, Waits, Status, Excused, HasJob
<1>4. Grows /\ Calm
  BY <1>1 DEF Grows, Calm
<1>5. QED BY <1>2, <1>3, <1>4, CalmStep

\* The row comes back, with its transfer; a job goes with it, or is lost.
LEMMA RetryWritesInv == ASSUME IInv, NEW t \in Ids, RetryWrites(t) PROVE IInv'
<1> DEFINE new == [reads[t] EXCEPT !.status = "pending"]
<1>0. Shape BY DEF IInv
<1>1. new \in RowType /\ new.transfer = reads[t].transfer /\ new.status = "pending"
  <2>1. reads[t] \in [status : Statuses, transfer : {"none", "queued", "failed", "done"}]
    BY <1>0, RowFacts DEF RetryWrites
  <2>2. QED BY <2>1 DEF RowType, Statuses
<1>2. row' = [row EXCEPT ![t] = new] /\ reads' = [reads EXCEPT ![t] = NoRow]
  BY DEF RetryWrites
<1>3. NoRow \in RowType /\ NoRow.transfer = "none"
  BY DEF RowType, NoRow
<1>4. /\ job' \in [Slots -> JobType] /\ Calm
      /\ \A n \in Slots : job'[n] = job[n] \/ (job[n].task = "none" /\ job'[n].kind = "download" /\ job'[n].at = "queued")
      /\ HasJob(job', t) \/ t \in lapsed'
      /\ lapsed \subseteq lapsed' /\ lapsed' \subseteq Ids
      /\ left' \in [{"adds", "commands", "signals", "crashes", "faults"} -> Nat]
  <2>1. CASE Sends(NewJob(t, "download", FALSE, TRUE)) /\ UNCHANGED <<left, lapsed>>
    BY <1>0, <2>1, SendsOne, NewJobs DEF Shape
  <2>2. CASE UNCHANGED job /\ Spend("faults") /\ Loses({t})
    BY <1>0, <2>2, SpendsOne DEF Loses, Shape, Calm
  <2>3. QED BY <2>1, <2>2 DEF RetryWrites
<1> HIDE DEF new
<1>5. Shape'
  BY <1>0, <1>1, <1>2, <1>3, <1>4 DEF Shape, RetryWrites
<1>6. Grows
  BY <1>4 DEF Grows, RetryWrites
<1>7. About(t)
  BY <1>0, <1>1, <1>2, <1>3, <1>4 DEF About, Shape, RetryWrites, IInv, PastDownload, Ready, Excused
<1>8. QED BY <1>4, <1>5, <1>6, <1>7, CalmStep

\* The row is out of the way, and jobs of its task are killed.
LEMMA SkipInv == ASSUME IInv, NEW t \in Ids, Skip(t) PROVE IInv'
<1>0. Shape BY DEF IInv
<1>1. /\ row' \in [Ids -> RowType] /\ \A u \in Ids \ {t} : row'[u] = row[u]
      /\ row'[t].status \in {"revoked", "none"} /\ row'[t].transfer = row[t].transfer
  BY <1>0, SetStatusKeeps DEF Skip, Statuses, NoRow
<1>2. /\ job' \in [Slots -> JobType] /\ revoked' \subseteq Ids /\ Calm
      /\ \A n \in Slots : job'[n] = job[n] \/ (job[n].task = t /\ job'[n].kind = "none")
  BY <1>0, RevokesKeeps, JobFacts DEF Skip
<1>3. Shape'
  BY <1>0, <1>1, <1>2, SpendsOne DEF Shape, Skip, history
<1>4. Grows
  BY DEF Grows, Skip, history
<1>5. About(t)
  BY <1>0, <1>1, <1>2 DEF About, Skip, history, IInv, PastDownload, Ready
<1>6. QED BY <1>2, <1>3, <1>4, <1>5, CalmStep

\* The row is gone, and jobs of its task are killed.
LEMMA DeleteInv == ASSUME IInv, NEW t \in Ids, Delete(t) PROVE IInv'
<1>0. Shape BY DEF IInv
<1>1. /\ row' \in [Ids -> RowType] /\ \A u \in Ids \ {t} : row'[u] = row[u]
      /\ row'[t].status = "none" /\ row'[t].transfer = "none"
  BY <1>0 DEF Delete, Shape, RowType, NoRow
<1>2. /\ job' \in [Slots -> JobType] /\ revoked' \subseteq Ids /\ Calm
      /\ \A n \in Slots : job'[n] = job[n] \/ (job[n].task = t /\ job'[n].kind = "none")
  BY <1>0, RevokesKeeps, JobFacts DEF Delete
<1>3. Shape'
  BY <1>0, <1>1, <1>2, SpendsOne DEF Shape, Delete, history
<1>4. Grows
  BY DEF Grows, Delete, history
<1>5. About(t)
  BY <1>0, <1>1, <1>2 DEF About, Delete, history, IInv, PastDownload, Ready
<1>6. QED BY <1>2, <1>3, <1>4, <1>5, CalmStep

\* A transfer is sent for a row that says done, and was therefore downloaded.
LEMMA TriggerInv == ASSUME IInv, NEW t \in Ids, Trigger(t) PROVE IInv'
<1>0. Shape BY DEF IInv
<1>1. t \in Ready
  BY DEF IInv, PastDownload, Trigger, Status
<1>2. /\ job' \in [Slots -> JobType] /\ Calm
      /\ \A n \in Slots : \/ job'[n] = job[n]
                          \/ /\ job[n].task = "none" /\ job'[n].task = t /\ job'[n].kind = "transfer"
      /\ HasJob(job', t)
  <2>1. Sends(NewJob(t, "transfer", FALSE, FALSE)) /\ IsNew(NewJob(t, "transfer", FALSE, FALSE), t, "transfer")
    BY NewJobs DEF Trigger
  <2>2. QED BY <1>0, <2>1, SendsOne
<1>3. Shape'
  BY <1>0, <1>2, SpendsOne DEF Shape, Trigger, history
<1>4. Grows
  BY DEF Grows, Trigger, history
<1>5. About(t)
  BY <1>0, <1>1, <1>2 DEF About, Trigger, history, IInv, PastDownload, Ready
<1>6. QED BY <1>2, <1>3, <1>4, <1>5, CalmStep

\* And one for a row whose transfer has failed before.
LEMMA RetryTransferInv == ASSUME IInv, NEW t \in Ids, RetryTransfer(t) PROVE IInv'
<1>0. Shape BY DEF IInv
<1>1. t \in Ready
  BY DEF IInv, PastDownload, RetryTransfer
<1>2. /\ job' \in [Slots -> JobType] /\ Calm
      /\ \A n \in Slots : \/ job'[n] = job[n]
                          \/ /\ job[n].task = "none" /\ job'[n].task = t /\ job'[n].kind = "transfer"
      /\ HasJob(job', t)
  <2>1. Sends(NewJob(t, "transfer", FALSE, FALSE)) /\ IsNew(NewJob(t, "transfer", FALSE, FALSE), t, "transfer")
    BY NewJobs DEF RetryTransfer
  <2>2. QED BY <1>0, <2>1, SendsOne
<1>3. row' \in [Ids -> RowType] /\ \A u \in Ids \ {t} : row'[u] = row[u]
  <2>1. row[t] \in [status : Statuses, transfer : {"none", "queued", "failed", "done"}]
    BY <1>0, RowFacts DEF RetryTransfer
  <2>2. row' = [row EXCEPT ![t] = [row[t] EXCEPT !.transfer = "queued"]]
    BY <1>0 DEF RetryTransfer, Shape
  <2>3. QED BY <1>0, <2>1, <2>2 DEF Shape, RowType
<1>4. Shape'
  BY <1>0, <1>2, <1>3, SpendsOne DEF Shape, RetryTransfer, history
<1>5. Grows
  BY DEF Grows, RetryTransfer, history
<1>6. About(t)
  BY <1>0, <1>1, <1>2, <1>3 DEF About, RetryTransfer, history, IInv, PastDownload, Ready
<1>7. QED BY <1>2, <1>4, <1>5, <1>6, CalmStep

\* A signal is seen by no row and no job yet.
LEMMA SignalPauseInv == ASSUME IInv, NEW t \in Ids, SignalPause(t) PROVE IInv'
<1>0. Shape BY DEF IInv
<1>1. UNCHANGED <<row, job, reads, revoked, stored, unready, blind, lapsed, crossed>>
  BY DEF SignalPause, history
<1>2. Shape'
  BY <1>0, <1>1, SpendsOne DEF Shape, SignalPause
<1>3. Grows /\ Calm
  BY <1>1 DEF Grows, Calm
<1>4. About(t)
  BY <1>0, <1>1 DEF About, IInv, PastDownload, Ready, Held, Waits, Status, Excused, HasJob
<1>5. QED BY <1>2, <1>3, <1>4, CalmStep

-----------------------------------------------------------------------------
\* The jobs.

\* Job m, of task t, is replaced by j, of the same task or none: what is left
\* to show of a step of its own.
Moves(m, j) ==
    /\ job' = [job EXCEPT ![m] = j]
    /\ j \in JobType
    /\ j.at \in {"free", "queued"} \/ (/\ Active(j) => Active(job[m])
                                       /\ m \in Running /\ j.by = job[m].by /\ j.task = job[m].task)
    /\ j.kind = "transfer" => j.task = job[m].task /\ job[m].task \in Ready'
    /\ j.kind = "download" /\ j.at = "success" => j.task = job[m].task /\ job[m].task \in stored'

\* Such a step, with what it does to the row, keeps the invariant.
LEMMA MovesInv ==
    ASSUME IInv, NEW m \in Slots, job[m] # NoJob, NEW j, Moves(m, j), Grows,
           row' \in [Ids -> RowType], UNCHANGED <<reads, revoked>>,
           left' \in [{"adds", "commands", "signals", "crashes", "faults"} -> Nat],
           signal' \subseteq Ids, stored' \subseteq Ids, unready' \subseteq Ids,
           blind' \subseteq Ids, lapsed' \subseteq Ids, crossed' \subseteq Ids,
           \A u \in Ids \ {job[m].task} : row'[u] = row[u],
           LET t == job[m].task IN
             /\ row'[t].status = "done" \/ row'[t].transfer # "none" => t \in Ready'
             /\ row'[t].status \in {"pending", "downloading", "transferring"} =>
                  \/ t \in Excused' \/ (j.task = t /\ Stays(j))
                  \/ \E n \in Slots \ {m} : job[n].task = t /\ Stays(job[n])
    PROVE  IInv'
<1> DEFINE t == job[m].task
<1>0. Shape /\ t \in Ids
  BY JobFacts DEF IInv
<1>1. job' \in [Slots -> JobType] /\ job'[m] = j /\ \A n \in Slots \ {m} : job'[n] = job[n]
  BY <1>0 DEF Moves, Shape
<1>2. Shape'
  BY <1>0, <1>1 DEF Shape
<1>3. Calm
  BY <1>1 DEF Calm, Moves
<1>4. About(t)
  <2>1. \A u \in Ids \ {t} : row'[u] = row[u] /\ reads'[u] = reads[u]
    OBVIOUS
  <2>2. reads'[t].transfer # "none" => t \in Ready'
    BY <1>0 DEF IInv, PastDownload, Grows, Ready
  <2>3. \A n \in Slots : \/ job'[n] = job[n]
                        \/ /\ job[n].task \in {t, "none"}
                           /\ job'[n].kind = "transfer" => job'[n].task = t /\ t \in Ready'
                           /\ job'[n].kind = "download" /\ job'[n].at = "success" =>
                                job'[n].task = t /\ t \in stored'
    BY <1>1 DEF Moves
  <2>4. row'[t].status \in {"pending", "downloading", "transferring"} =>
          t \in Excused' \/ HasJob(job', t)
    BY <1>1 DEF HasJob
  <2>5. QED BY <2>1, <2>2, <2>3, <2>4 DEF About
<1>5. QED BY <1>0, <1>2, <1>3, <1>4, CalmStep

\* A job that ends.
LEMMA EndsMoves == ASSUME NEW m \in Slots, Ends(m) PROVE Moves(m, NoJob)
  BY DEF Ends, Moves, JobType, NoJob, NewJob

\* A download that goes on.
LEMMA DownloadGoes ==
    ASSUME Shape, NEW m \in Slots, job[m].kind = "download",
           NEW at \in {"start", "run", "success", "failure"}, Goes(m, at),
           Active(job[m]), at = "success" => job[m].task \in stored'
    PROVE  \E j : Moves(m, j) /\ j.task = job[m].task /\ Stays(j)
<1> DEFINE j == [job[m] EXCEPT !.at = at]
<1>1. job[m] \in DownloadJob /\ m \in Running
  BY JobFacts DEF Running, Active
<1>2. /\ j \in DownloadJob /\ j.at = at /\ j.task = job[m].task
      /\ j.by = job[m].by /\ j.kind = "download"
  BY <1>1 DEF DownloadJob
<1>3. job' = [job EXCEPT ![m] = j]
  BY <1>1 DEF Goes, Shape
<1> HIDE DEF j
<1>4. Moves(m, j)
  BY <1>1, <1>2, <1>3 DEF Moves, JobType
<1>5. QED BY <1>2, <1>4 DEF Stays

\* A transfer that goes on to its import.
LEMMA TransferGoes ==
    ASSUME Shape, NEW m \in Slots, job[m].kind = "transfer", job[m].at = "begin",
           Goes(m, "import"), job[m].task \in Ready'
    PROVE  \E j : Moves(m, j) /\ j.task = job[m].task /\ Stays(j)
<1> DEFINE j == [job[m] EXCEPT !.at = "import"]
<1>1. job[m] \in TransferJob /\ m \in Running
  BY JobFacts DEF Running
<1>2. /\ j \in TransferJob /\ j.at = "import" /\ j.task = job[m].task
      /\ j.by = job[m].by /\ j.kind = "transfer"
  BY <1>1 DEF TransferJob
<1>3. job' = [job EXCEPT ![m] = j]
  BY <1>1 DEF Goes, Shape
<1> HIDE DEF j
<1>4. Moves(m, j)
  BY <1>1, <1>2, <1>3 DEF Moves, JobType, Active
<1>5. QED BY <1>2, <1>4 DEF Stays

\* What is queued again is the same job with a try more.
LEMMA RequeuedJob ==
    ASSUME Shape, NEW m \in Slots,
           \/ job[m].kind = "download" /\ job[m].tries < MaxDownloadRetries
           \/ job[m].kind = "transfer" /\ job[m].tries < MaxTransferRetries
    PROVE  /\ Requeued(m) \in JobType /\ Requeued(m).at = "queued"
           /\ Requeued(m).task = job[m].task /\ Requeued(m).kind = job[m].kind
<1>1. CASE job[m].kind = "download" /\ job[m].tries < MaxDownloadRetries
  <2>1. job[m] \in DownloadJob
    BY <1>1, JobFacts
  <2>2. job[m].tries + 1 \in 0..MaxDownloadRetries
    BY <1>1, <2>1, ChainAssumption DEF DownloadJob
  <2>3. QED BY <2>1, <2>2 DEF Requeued, JobType, DownloadJob
<1>2. CASE job[m].kind = "transfer" /\ job[m].tries < MaxTransferRetries
  <2>1. job[m] \in TransferJob
    BY <1>2, JobFacts
  <2>2. job[m].tries + 1 \in 0..MaxTransferRetries
    BY <1>2, <2>1, ChainAssumption DEF TransferJob
  <2>3. QED BY <2>1, <2>2 DEF Requeued, JobType, TransferJob
<1>3. QED BY <1>1, <1>2

\* A retry keeps the job, or the task has lapsed.
LEMMA RetriesMoves ==
    ASSUME IInv, NEW m \in Slots, NEW max, Retries(m, max), Ready \subseteq Ready',
           \/ job[m].kind = "download" /\ max = MaxDownloadRetries
           \/ job[m].kind = "transfer" /\ max = MaxTransferRetries
    PROVE  \E j : /\ Moves(m, j)
                  /\ lapsed \subseteq lapsed' /\ lapsed' \subseteq Ids
                  /\ (j.task = job[m].task /\ Stays(j)) \/ job[m].task \in lapsed'
<1>0. Shape /\ (job[m].kind = "transfer" => job[m].task \in Ready) /\ job[m].task \in Ids
  BY JobFacts DEF IInv, PastDownload
<1>1. CASE job[m].tries < max
  <2>1. job' = [job EXCEPT ![m] = Requeued(m)] /\ lapsed' = lapsed
    BY <1>1 DEF Retries
  <2>2. /\ Requeued(m) \in JobType /\ Requeued(m).at = "queued"
        /\ Requeued(m).task = job[m].task /\ Requeued(m).kind = job[m].kind
    BY <1>0, <1>1, RequeuedJob
  <2>3. Moves(m, Requeued(m))
    BY <1>0, <2>1, <2>2 DEF Moves
  <2>4. QED BY <1>0, <2>1, <2>2, <2>3 DEF Shape, Stays
<1>2. CASE ~(job[m].tries < max)
  <2>1. Ends(m) /\ Loses({job[m].task})
    BY <1>2 DEF Retries
  <2>2. Moves(m, NoJob)
    BY <2>1, EndsMoves
  <2>3. QED BY <1>0, <2>1, <2>2 DEF Loses, Shape
<1>3. QED BY <1>1, <1>2

\* A download that returns: its chain's transfer is of a task that is stored, or
\* noted as not ready.
LEMMA ReturnsMoves ==
    ASSUME IInv, NEW m \in Slots, NEW ok \in BOOLEAN, Returns(m, ok),
           job[m].kind = "download", ok => job[m].task \in stored, stored' = stored
    PROVE  \E j : /\ Moves(m, j)
                  /\ unready \subseteq unready' /\ unready' \subseteq Ids
                  /\ job[m].chained => j.task = job[m].task /\ Stays(j)
<1>0. Shape /\ job[m].task \in Ids
  BY JobFacts DEF IInv
<1>1. CASE job[m].chained
  <2> DEFINE j == NewJob(job[m].task, "transfer", FALSE, TRUE)
  <2>1. IsNew(j, job[m].task, "transfer")
    BY <1>0, NewJobs
  <2>2. job' = [job EXCEPT ![m] = j] /\ unready' = IF ok THEN unready ELSE unready \union {job[m].task}
    BY <1>1 DEF Returns
  <2>3. job[m].task \in Ready'
    BY <2>2 DEF Ready
  <2> HIDE DEF j
  <2>4. Moves(m, j)
    BY <2>1, <2>2, <2>3 DEF Moves, IsNew, JobType
  <2>5. QED BY <1>0, <2>1, <2>2, <2>4 DEF Shape, IsNew, Stays
<1>2. CASE ~job[m].chained
  <2>1. Ends(m) /\ unready' = unready
    BY <1>2 DEF Returns
  <2>2. QED BY <1>0, <1>2, <2>1, EndsMoves DEF Shape
<1>3. QED BY <1>1, <1>2

\* What is common to the steps of a download: its task's row is set to a status,
\* or is none.
LEMMA StatusStep ==
    ASSUME IInv, NEW m \in Slots, job[m] # NoJob, NEW j, Moves(m, j), Grows,
           NEW status \in Statuses, SetStatus(job[m].task, status),
           UNCHANGED <<reads, revoked, left>>,
           signal' \subseteq signal, stored' = stored, unready' \subseteq Ids,
           blind' = blind, lapsed' \subseteq Ids, crossed' = crossed,
           status = "done" => job[m].task \in Ready',
           status \in {"pending", "downloading", "transferring"} =>
               job[m].task \in lapsed' \/ (j.task = job[m].task /\ Stays(j))
    PROVE  IInv'
<1> DEFINE t == job[m].task
<1>0. Shape /\ t \in Ids
  BY JobFacts DEF IInv
<1>1. /\ row' \in [Ids -> RowType] /\ \A u \in Ids \ {t} : row'[u] = row[u]
      /\ row'[t].transfer = row[t].transfer
      /\ row'[t].status = status \/ row'[t].status = "none"
  BY <1>0, SetStatusKeeps DEF NoRow
<1>2. row'[t].status = "done" \/ row'[t].transfer # "none" => t \in Ready'
  BY <1>0, <1>1 DEF IInv, PastDownload, Grows, Ready
<1>3. row'[t].status \in {"pending", "downloading", "transferring"} =>
        \/ t \in Excused' \/ (j.task = t /\ Stays(j))
        \/ \E n \in Slots \ {m} : job[n].task = t /\ Stays(job[n])
  BY <1>1 DEF Excused
<1>4. QED
  BY <1>0, <1>1, <1>2, <1>3, MovesInv DEF Shape

\* download_dataset sets "downloading" before it runs.
LEMMA BeginInv == ASSUME IInv, NEW m \in Slots, Begin(m) PROVE IInv'
<1>1. job[m] # NoJob /\ job[m].kind = "download" /\ Active(job[m])
  BY JobFacts DEF Begin, At, IInv, Active
<1>2. PICK j : Moves(m, j) /\ j.task = job[m].task /\ Stays(j)
  BY <1>1, DownloadGoes DEF Begin, Begins, IInv
<1>3. QED
  BY <1>1, <1>2, StatusStep DEF Begin, Begins, Grows, Statuses, IInv, Shape

\* A failure without retry: "failed" (download.py), and a chain goes on.
LEMMA ReportFailedInv == ASSUME IInv, NEW m \in Slots, ReportFailed(m) PROVE IInv'
<1>1. job[m] # NoJob /\ job[m].kind = "download"
  BY JobFacts DEF ReportFailed, At, IInv
<1>2. PICK j : Moves(m, j) /\ unready \subseteq unready' /\ unready' \subseteq Ids
  BY <1>1, ReturnsMoves DEF ReportFailed
<1>3. QED
  BY <1>1, <1>2, StatusStep DEF ReportFailed, Grows, Statuses, IInv, Shape

\* A failure under a pause signal: "paused".
LEMMA ReportPausedInv == ASSUME IInv, NEW m \in Slots, ReportPaused(m) PROVE IInv'
<1>1. job[m] # NoJob /\ job[m].kind = "download"
  BY JobFacts DEF ReportPaused, At, IInv
<1>2. PICK j : Moves(m, j) /\ unready \subseteq unready' /\ unready' \subseteq Ids
  BY <1>1, ReturnsMoves DEF ReportPaused
<1>3. QED
  BY <1>1, <1>2, StatusStep DEF ReportPaused, Grows, Statuses, IInv, Shape

\* "done" is reported of a download that ran to its end.
LEMMA ReportDoneInv == ASSUME IInv, NEW m \in Slots, ReportDone(m) PROVE IInv'
<1>1. job[m] # NoJob /\ job[m].kind = "download" /\ job[m].task \in stored
  BY JobFacts DEF ReportDone, At, IInv, PastDownload
<1>2. PICK j : Moves(m, j) /\ unready \subseteq unready' /\ unready' \subseteq Ids
  BY <1>1, ReturnsMoves DEF ReportDone
<1>3. job[m].task \in Ready'
  BY <1>1 DEF ReportDone, Ready
<1>4. QED
  BY <1>1, <1>2, <1>3, StatusStep DEF ReportDone, Grows, Statuses, IInv, Shape

\* A failure to be retried: "pending", with the job queued again, or lapsed.
LEMMA RetryLaterInv == ASSUME IInv, NEW m \in Slots, RetryLater(m) PROVE IInv'
<1>1. job[m] # NoJob /\ job[m].kind = "download"
  BY JobFacts DEF RetryLater, At, IInv
<1>2. PICK j : /\ Moves(m, j) /\ lapsed \subseteq lapsed' /\ lapsed' \subseteq Ids
               /\ (j.task = job[m].task /\ Stays(j)) \/ job[m].task \in lapsed'
  BY <1>1, RetriesMoves DEF RetryLater, Ready
<1>3. QED
  BY <1>1, <1>2, StatusStep DEF RetryLater, Grows, Statuses, IInv, Shape

\* Any other exception: "failed", and yet the job is queued again.
LEMMA RunBreaksInv == ASSUME IInv, NEW m \in Slots, RunBreaks(m) PROVE IInv'
<1>1. job[m] # NoJob /\ job[m].kind = "download"
  BY JobFacts DEF RunBreaks, At, IInv
<1>2. PICK j : /\ Moves(m, j) /\ lapsed \subseteq lapsed' /\ lapsed' \subseteq Ids
               /\ (j.task = job[m].task /\ Stays(j)) \/ job[m].task \in lapsed'
  BY <1>1, RetriesMoves DEF RunBreaks, Ready
<1>3. QED
  BY <1>1, <1>2, StatusStep DEF RunBreaks, Grows, Statuses, IInv, Shape

\* A report while it runs.
LEMMA ProgressInv == ASSUME IInv, NEW m \in Slots, Progress(m) PROVE IInv'
<1>1. /\ job[m] # NoJob /\ job[m] \in DownloadJob /\ Active(job[m]) /\ job[m].at = "run"
      /\ m \in Running /\ job[m].kind = "download"
  BY JobFacts DEF Progress, At, IInv, Active, Running
<1>2. Moves(m, job[m]) /\ Stays(job[m])
  BY <1>1 DEF Moves, Progress, IInv, Shape, JobType, Stays
<1>3. QED
  BY <1>1, <1>2, StatusStep DEF Progress, history, Grows, Statuses, IInv, Shape

\* The download runs to its end: now the task is stored.
LEMMA RunSucceedsInv == ASSUME IInv, NEW m \in Slots, RunSucceeds(m) PROVE IInv'
<1>0. Shape /\ job[m].task \in Ids /\ job[m] # NoJob /\ job[m].kind = "download" /\ Active(job[m])
  BY JobFacts DEF IInv, RunSucceeds, At, Active
<1>1. job[m].task \in stored'
  BY DEF RunSucceeds
<1>2. PICK j : Moves(m, j) /\ j.task = job[m].task /\ Stays(j)
  BY <1>0, <1>1, DownloadGoes DEF RunSucceeds
<1>3. Grows
  BY DEF Grows, RunSucceeds
<1>4. row'[job[m].task].status = "done" \/ row'[job[m].task].transfer # "none" => job[m].task \in Ready'
  BY <1>1 DEF Ready
<1>5. stored' \subseteq Ids
  BY <1>0 DEF RunSucceeds, Shape
<1>6. QED
  BY <1>0, <1>2, <1>3, <1>4, <1>5, MovesInv DEF RunSucceeds, Shape

\* A failed run has not reported yet.
LEMMA RunFailsInv == ASSUME IInv, NEW m \in Slots, RunFails(m) PROVE IInv'
<1>0. Shape /\ job[m].task \in Ids /\ job[m] # NoJob /\ job[m].kind = "download" /\ Active(job[m])
  BY JobFacts DEF IInv, RunFails, At, Active
<1>1. PICK j : Moves(m, j) /\ j.task = job[m].task /\ Stays(j)
  BY <1>0, DownloadGoes DEF RunFails
<1>2. Grows
  BY DEF Grows, RunFails, history
<1>3. row'[job[m].task].status = "done" \/ row'[job[m].task].transfer # "none" => job[m].task \in Ready'
  BY <1>0 DEF Ready, RunFails, history, IInv, PastDownload
<1>4. QED
  BY <1>0, <1>1, <1>2, <1>3, MovesInv DEF RunFails, history, Shape

\* The dedup check.  A job that passes it with an answer has found no job of its
\* task on another worker, and there is none on its own; if it found one, that
\* one keeps the row, or leaves too.
LEMMA GuardedInv == ASSUME IInv, NEW m \in Slots, Guarded(m) PROVE IInv'
<1> DEFINE t == job[m].task
<1>0. /\ Shape /\ t \in Ids /\ job[m] # NoJob /\ job[m].kind = "download" /\ job[m].at = "guard"
      /\ job[m] \in DownloadJob /\ m \in Running
  BY JobFacts DEF IInv, Guarded, Guard, At, Running
<1>1. UNCHANGED <<row, reads, signal, revoked, stored, unready, lapsed>>
  BY DEF Guarded
<1>2. CASE /\ Goes(m, "start") /\ crossed' = crossed
           /\ \/ Others(m) = {} /\ left' = left /\ blind' = blind
              \/ Spend("faults") /\ blind' = blind \union {t}
  <2>1. Grows /\ blind' \subseteq Ids /\ left' \in [{"adds", "commands", "signals", "crashes", "faults"} -> Nat]
    BY <1>0, <1>1, <1>2, SpendsOne DEF Grows, Shape
  <2> DEFINE j == [job[m] EXCEPT !.at = "start"]
  <2>2. j \in DownloadJob /\ j.task = t /\ j.by = job[m].by /\ j.at = "start" /\ j.kind = "download"
    BY <1>0 DEF DownloadJob
  <2>3. job' = [job EXCEPT ![m] = j]
    BY <1>0, <1>2 DEF Goes, Shape
  <2> HIDE DEF j
  <2>4. job' \in [Slots -> JobType] /\ job'[m] = j /\ \A n \in Slots \ {m} : job'[n] = job[n]
    BY <1>0, <2>2, <2>3 DEF Shape, JobType
  <2>5. Shape'
    BY <1>0, <1>1, <1>2, <2>1, <2>4 DEF Shape
  <2>6. About(t)
    BY <1>0, <1>1, <2>1, <2>2, <2>4 DEF About, IInv, PastDownload, Ready, Grows,
          Held, Waits, Status, HasJob, Stays, Excused
  <2>7. OneAtATime'
    BY <1>0, <2>2, <2>4 DEF IInv, OneAtATime, Running
  <2>8. OneDownload'
    <3>1. SUFFICES ASSUME NEW n \in Slots, n # m, job[n].task = t, Active(job[n]), t \notin blind'
                   PROVE  FALSE
      BY <1>2, <2>2, <2>4 DEF OneDownload, IInv, Active
    <3>2. n \in Running
      BY <3>1 DEF Active, Running
    <3>3. job[n].by # job[m].by
      BY <1>0, <3>1, <3>2 DEF IInv, OneAtATime
    <3>4. n \in Others(m)
      BY <3>1, <3>2, <3>3 DEF Others, Active
    <3>5. QED BY <1>2, <3>1, <3>4
  <2>9. QED BY <1>0, <2>1, <2>5, <2>6, <2>7, <2>8, TaskStep
<1>3. CASE /\ Others(m) # {} /\ Goes(m, "skip") /\ left' = left /\ blind' = blind
           /\ crossed' = IF ~job[m].chained /\ \A n \in Others(m) : Leaves(n)
                         THEN crossed \union {t} ELSE crossed
  <2> DEFINE j == [job[m] EXCEPT !.at = "skip"]
  <2>1. /\ j \in DownloadJob /\ j.task = t /\ j.by = job[m].by /\ j.at = "skip" /\ j.kind = "download"
        /\ j.chained = job[m].chained
    BY <1>0 DEF DownloadJob
  <2>2. job' = [job EXCEPT ![m] = j]
    BY <1>0, <1>3 DEF Goes, Shape
  <2> HIDE DEF j
  <2>3. Moves(m, j)
    BY <1>0, <2>1, <2>2 DEF Moves, JobType, Active
  <2>4. Grows /\ crossed' \subseteq Ids
    BY <1>0, <1>1, <1>3 DEF Grows, Shape
  <2>5. t \in Excused' \/ (j.task = t /\ Stays(j)) \/ \E n \in Slots \ {m} : job[n].task = t /\ Stays(job[n])
    <3>1. CASE job[m].chained
      BY <2>1, <3>1 DEF Stays
    <3>2. CASE ~job[m].chained /\ \A n \in Others(m) : Leaves(n)
      BY <1>3, <3>2 DEF Excused
    <3>3. CASE \E n \in Others(m) : ~Leaves(n)
      BY <3>3 DEF Others, Running, Leaves, Stays
    <3>4. QED BY <3>1, <3>2, <3>3
  <2>6. row'[t].status = "done" \/ row'[t].transfer # "none" => t \in Ready'
    BY <1>0, <1>1 DEF IInv, PastDownload, Ready
  <2>7. QED BY <1>0, <1>1, <1>3, <2>3, <2>4, <2>5, <2>6, MovesInv DEF Shape
<1>4. CASE Others(m) = {} /\ Goes(m, "start") /\ UNCHANGED <<left, blind, crossed>>
  BY <1>2, <1>4
<1>5. CASE Spend("faults") /\ Goes(m, "start") /\ blind' = blind \union {t} /\ UNCHANGED crossed
  BY <1>2, <1>5
<1>6. QED BY <1>3, <1>4, <1>5 DEF Guarded, Guard

\* A job that gives way leaves its row to another, or to its chain.
LEMMA GiveWayInv == ASSUME IInv, NEW m \in Slots, GiveWay(m) PROVE IInv'
<1> DEFINE t == job[m].task
<1>0. /\ Shape /\ t \in Ids /\ job[m] # NoJob /\ job[m].kind = "download" /\ job[m].at = "skip"
  BY JobFacts DEF IInv, GiveWay, At
<1>1. UNCHANGED <<row, reads, signal, revoked, left, stored, blind, lapsed, crossed>>
  BY DEF GiveWay
<1>2. PICK j : /\ Moves(m, j) /\ unready \subseteq unready' /\ unready' \subseteq Ids
               /\ job[m].chained => j.task = t /\ Stays(j)
  BY <1>0, <1>1, ReturnsMoves DEF GiveWay
<1>3. Grows
  BY <1>1, <1>2 DEF Grows
<1>4. row'[t].status \in {"pending", "downloading", "transferring"} =>
        \/ t \in Excused' \/ (j.task = t /\ Stays(j))
        \/ \E n \in Slots \ {m} : job[n].task = t /\ Stays(job[n])
  <2>1. CASE job[m].chained
    BY <1>2, <2>1
  <2>2. CASE ~job[m].chained
    <3>1. ~Stays(job[m])
      BY <1>0, <2>2 DEF Stays
    <3>2. QED BY <1>0, <1>1, <3>1 DEF IInv, Held, Waits, Status, Excused, HasJob
  <2>3. QED BY <2>1, <2>2
<1>5. row'[t].status = "done" \/ row'[t].transfer # "none" => t \in Ready'
  BY <1>0, <1>1, <1>3 DEF IInv, PastDownload, Ready, Grows
<1>6. QED BY <1>0, <1>1, <1>2, <1>3, <1>4, <1>5, MovesInv DEF Shape

\* A job that ends with its task lapsed, or with a row that does not wait.
LEMMA LosesInv ==
    ASSUME IInv, NEW m \in Slots, job[m] # NoJob, Ends(m),
           UNCHANGED <<row, reads, signal, revoked, stored, unready, blind, crossed>>,
           left' \in [{"adds", "commands", "signals", "crashes", "faults"} -> Nat],
           lapsed \subseteq lapsed', lapsed' \subseteq Ids,
           Waits(job[m].task) => job[m].task \in lapsed'
    PROVE  IInv'
<1> DEFINE t == job[m].task
<1>0. Shape /\ t \in Ids
  BY JobFacts DEF IInv
<1>1. Moves(m, NoJob) /\ Grows
  BY EndsMoves DEF Grows
<1>2. row'[t].status \in {"pending", "downloading", "transferring"} => t \in Excused'
  BY DEF Waits, Status, Excused
<1>3. row'[t].status = "done" \/ row'[t].transfer # "none" => t \in Ready'
  BY <1>0 DEF IInv, PastDownload, Ready
<1>4. QED BY <1>0, <1>1, <1>2, <1>3, MovesInv DEF Shape

\* A download that ends without a report.
LEMMA UnreportedInv == ASSUME IInv, NEW m \in Slots, Unreported(m) PROVE IInv'
<1>1. Shape /\ job[m] # NoJob /\ job[m].task \in Ids
  BY JobFacts DEF IInv, Unreported
<1>2. lapsed' = lapsed \union {job[m].task} /\ lapsed \subseteq Ids
  BY <1>1 DEF Unreported, Loses, Shape
<1>3. QED BY <1>1, <1>2, LosesInv, SpendsOne DEF Unreported

\* A transfer that is skipped.
LEMMA SkipTransferInv == ASSUME IInv, NEW m \in Slots, SkipTransfer(m) PROVE IInv'
<1>1. Shape /\ job[m] # NoJob /\ job[m].task \in Ids
  BY JobFacts DEF IInv, SkipTransfer, At
<1>2. lapsed' = lapsed \union ({job[m].task} \intersect {t \in Ids : Waits(t)}) /\ lapsed \subseteq Ids
  BY <1>1 DEF SkipTransfer, Loses, Shape
<1>3. QED BY <1>1, <1>2, LosesInv DEF SkipTransfer, Shape

\* A transfer begins.
LEMMA BeginTransferInv == ASSUME IInv, NEW m \in Slots, BeginTransfer(m) PROVE IInv'
<1>0. /\ Shape /\ job[m].task \in Ids /\ job[m] # NoJob /\ job[m].kind = "transfer" /\ job[m].at = "begin"
      /\ job[m].task \in Ready'
  BY JobFacts DEF IInv, BeginTransfer, At, PastDownload, Ready, history
<1>1. PICK j : Moves(m, j) /\ j.task = job[m].task /\ Stays(j)
  BY <1>0, TransferGoes DEF BeginTransfer
<1>2. QED BY <1>0, <1>1, StatusStep DEF BeginTransfer, history, Grows, Statuses, Shape

\* A transfer that breaks off is tried again, or its task has lapsed.
LEMMA TransferBreaksInv == ASSUME IInv, NEW m \in Slots, TransferBreaks(m) PROVE IInv'
<1>0. /\ Shape /\ job[m].task \in Ids /\ job[m] # NoJob /\ job[m].kind = "transfer"
      /\ job[m].task \in Ready'
  BY JobFacts DEF IInv, TransferBreaks, At, PastDownload, Ready
<1>1. PICK j : /\ Moves(m, j) /\ lapsed \subseteq lapsed' /\ lapsed' \subseteq Ids
               /\ (j.task = job[m].task /\ Stays(j)) \/ job[m].task \in lapsed'
  BY <1>0, RetriesMoves DEF TransferBreaks, Ready
<1>2. QED
  BY <1>0, <1>1, MovesInv DEF TransferBreaks, Grows, Shape, Excused

\* The row says done, and its task was downloaded.
LEMMA TransferredInv == ASSUME IInv, NEW m \in Slots, Transferred(m) PROVE IInv'
<1> DEFINE t == job[m].task
           both == [status |-> "done", transfer |-> "done"]
<1>0. /\ Shape /\ t \in Ids /\ job[m] # NoJob /\ job[m].kind = "transfer" /\ t \in Ready'
  BY JobFacts DEF IInv, Transferred, At, PastDownload, Ready, history
<1>1. Moves(m, NoJob)
  BY EndsMoves DEF Transferred
<1>2. row' \in [Ids -> RowType] /\ \A u \in Ids \ {t} : row'[u] = row[u]
  BY <1>0 DEF Transferred, Shape, RowType, Statuses
<1>3. row'[t].status = "done" \/ row'[t].status = "none"
  BY <1>0 DEF Transferred, Shape, Exists, NoRow
<1>4. QED
  BY <1>0, <1>1, <1>2, <1>3, MovesInv DEF Transferred, history, Grows, Shape

\* The import fails: with tries left, the job is queued twice.
LEMMA ImportFailsInv == ASSUME IInv, NEW m \in Slots, ImportFails(m) PROVE IInv'
<1> DEFINE t == job[m].task
<1>0. /\ Shape /\ t \in Ids /\ job[m] # NoJob /\ job[m].kind = "transfer" /\ t \in Ready'
  BY JobFacts DEF IInv, ImportFails, At, PastDownload, Ready
<1>1. row' \in [Ids -> RowType] /\ \A u \in Ids \ {t} : row'[u] = row[u]
  <2>1. CASE ~Exists(t)
    BY <1>0, <2>1 DEF ImportFails, Shape
  <2>2. CASE Exists(t)
    <3>1. row[t] \in [status : Statuses, transfer : {"none", "queued", "failed", "done"}]
      BY <1>0, <2>2, RowFacts DEF Exists
    <3>2. row' = [row EXCEPT ![t] = [row[t] EXCEPT !.transfer = "failed"]]
      BY <1>0, <2>2 DEF ImportFails, Shape
    <3>3. QED BY <1>0, <3>1, <3>2 DEF Shape, RowType
  <2>3. QED BY <2>1, <2>2
<1>2. CASE /\ job[m].tries < MaxTransferRetries /\ Free # {} /\ UNCHANGED lapsed
           /\ job' = [job EXCEPT ![m] = Requeued(m), ![FreeSlot] = Requeued(m)]
  <2>1. /\ Requeued(m) \in JobType /\ Requeued(m).at = "queued"
        /\ Requeued(m).task = t /\ Requeued(m).kind = "transfer"
    BY <1>0, <1>2, RequeuedJob
  <2>2. /\ job' \in [Slots -> JobType] /\ job'[m] = Requeued(m)
        /\ \A n \in Slots : \/ job'[n] = job[n]
                            \/ job'[n] = Requeued(m) /\ job[n].task \in {t, "none"}
    BY <1>0, <1>2, <2>1, FreeSlotIsFree, JobFacts DEF Shape
  <2>3. Shape' /\ Grows
    BY <1>0, <1>1, <1>2, <2>2 DEF Shape, Grows, ImportFails
  <2>4. About(t)
    BY <1>0, <1>1, <2>1, <2>2 DEF About, ImportFails, IInv, PastDownload, Ready, HasJob, Stays
  <2>5. Calm
    BY <2>1, <2>2 DEF Calm
  <2>6. QED BY <1>0, <2>3, <2>4, <2>5, CalmStep
<1>3. CASE Ends(m) /\ Loses({t})
  <2>1. Moves(m, NoJob)
    BY <1>3, EndsMoves
  <2>2. t \in lapsed' /\ lapsed \subseteq lapsed' /\ lapsed' \subseteq Ids
    BY <1>0, <1>3 DEF Loses, Shape
  <2>3. QED BY <1>0, <1>1, <2>1, <2>2, MovesInv DEF ImportFails, Grows, Shape, Excused
<1>4. QED BY <1>2, <1>3 DEF ImportFails

\* A worker takes a job that nobody else runs, and only if it runs none.
LEMMA ReceiveInv == ASSUME IInv, NEW m \in Slots, NEW w \in Workers, Receive(m, w) PROVE IInv'
<1> DEFINE t == job[m].task
<1>0. /\ Shape /\ t \in Ids /\ job[m] # NoJob /\ job[m] \in DownloadJob \union TransferJob
      /\ job[m].kind = "transfer" => t \in Ready
  BY JobFacts DEF IInv, Receive, PastDownload
<1>1. UNCHANGED <<row, reads, signal, revoked, left, stored, unready, blind, crossed>>
  BY DEF Receive
<1>2. CASE Ends(m) /\ Loses({t})
  <2>1. t \in lapsed' /\ lapsed \subseteq lapsed' /\ lapsed' \subseteq Ids
    BY <1>0, <1>2 DEF Loses, Shape
  <2>2. QED BY <1>0, <1>1, <1>2, <2>1, LosesInv DEF Shape
<1>3. CASE /\ job' = [job EXCEPT ![m].at = IF job[m].kind = "download" THEN "guard" ELSE "begin",
                                ![m].by = w]
           /\ UNCHANGED lapsed
  <2> DEFINE j == [job[m] EXCEPT !.at = IF job[m].kind = "download" THEN "guard" ELSE "begin", !.by = w]
  <2>1. /\ j \in JobType /\ j.task = t /\ j.by = w /\ j.at \in {"guard", "begin"} /\ j.kind = job[m].kind
    BY <1>0 DEF JobType, DownloadJob, TransferJob
  <2>2. job' = [job EXCEPT ![m] = j]
    BY <1>0, <1>3 DEF Shape
  <2> HIDE DEF j
  <2>3. job' \in [Slots -> JobType] /\ job'[m] = j /\ \A n \in Slots \ {m} : job'[n] = job[n]
    BY <1>0, <2>1, <2>2 DEF Shape
  <2>4. Shape' /\ Grows
    BY <1>0, <1>1, <1>3, <2>3 DEF Shape, Grows
  <2>5. About(t)
    BY <1>0, <1>1, <2>1, <2>3 DEF About, IInv, PastDownload, Ready, Held, Waits, Status, HasJob, Stays
  <2>6. OneAtATime'
    BY <2>1, <2>3 DEF OneAtATime, IInv, Running, Receive
  <2>7. OneDownload'
    BY <1>1, <2>1, <2>3 DEF OneDownload, IInv
  <2>8. QED BY <1>0, <2>4, <2>5, <2>6, <2>7, TaskStep
<1>4. QED BY <1>2, <1>3 DEF Receive

\* All that a dead worker ran has lapsed.
LEMMA CrashInv == ASSUME IInv, NEW w \in Workers, Crash(w) PROVE IInv'
<1> DEFINE dead == {m \in Running : job[m].by = w}
<1>0. Shape
  BY DEF IInv
<1>1. UNCHANGED <<row, reads, signal, revoked, stored, unready, blind, crossed>>
  BY DEF Crash
<1>2. /\ job' = [m \in Slots |-> IF m \in dead THEN NoJob ELSE job[m]]
      /\ lapsed' = lapsed \union {job[m].task : m \in dead}
      /\ left' \in [{"adds", "commands", "signals", "crashes", "faults"} -> Nat]
  BY <1>0, SpendsOne DEF Crash, Loses
<1>3. /\ job' \in [Slots -> JobType]
      /\ \A n \in Slots : \/ job'[n] = job[n]
                          \/ job'[n] = NoJob /\ job[n].task \in lapsed'
  BY <1>0, <1>2 DEF Shape, JobType
<1>4. \A n \in dead : job[n].task \in Ids
  BY <1>0, JobFacts DEF Running
<1>5. Shape'
  BY <1>0, <1>1, <1>2, <1>3, <1>4 DEF Shape
<1>6. NoJob.at = "free" /\ NoJob.kind = "none"
  BY DEF NoJob, NewJob
<1>7. OneAtATime' /\ OneDownload'
  <2>1. \A n \in Slots : \/ job'[n].at \in {"free", "queued"}
                         \/ /\ Active(job'[n]) => Active(job[n])
                            /\ n \in Running /\ job'[n].by = job[n].by
                            /\ job'[n].task = job[n].task
    BY <1>3, <1>6 DEF Running
  <2>2. QED BY <1>1, <1>3, <2>1, CalmJobs DEF IInv
<1>8. Held'
  <2>1. \A u \in Ids : \A n \in Slots : job[n].task = u => job'[n] = job[n] \/ u \in Excused'
    BY <1>3 DEF Excused
  <2>2. Excused \subseteq Excused'
    BY <1>1, <1>2 DEF Excused
  <2>3. QED BY <1>1, <2>1, <2>2, StillHeld DEF IInv
<1>9. PastDownload'
  BY <1>1, <1>3, <1>6 DEF IInv, PastDownload, Ready
<1>10. QED BY <1>5, <1>7, <1>8, <1>9 DEF IInv

-----------------------------------------------------------------------------
\* Every step keeps the invariant.
LEMMA ChainNext == ASSUME IInv, [Next]_vars PROVE IInv'
<1>1. CASE UNCHANGED vars
  BY <1>1 DEF vars, history, IInv, Shape, OneAtATime, OneDownload, Held, PastDownload,
              Running, Waits, Status, Ready, Excused, HasJob, Stays
<1>2. ASSUME NEW t \in Ids, Command(t) \/ RetryWrites(t) PROVE IInv'
  BY <1>2, AddInv, RetryReadsInv, RetryWritesInv, SkipInv, DeleteInv, TriggerInv, RetryTransferInv,
     SignalPauseInv DEF Command
<1>3. ASSUME NEW m \in Slots, Download(m) PROVE IInv'
  BY <1>3, GuardedInv, GiveWayInv, UnreportedInv, BeginInv, RunSucceedsInv, RunFailsInv, RunBreaksInv, ReportDoneInv,
     ReportPausedInv, ReportFailedInv, RetryLaterInv DEF Download
<1>4. ASSUME NEW m \in Slots, Transfer(m) PROVE IInv'
  BY <1>4, BeginTransferInv, SkipTransferInv, TransferBreaksInv, TransferredInv, ImportFailsInv DEF Transfer
<1>5. ASSUME NEW m \in Slots, Work(m) \/ Progress(m) PROVE IInv'
  BY <1>3, <1>4, <1>5, ReceiveInv, ProgressInv DEF Work
<1>6. ASSUME NEW w \in Workers, Crash(w) PROVE IInv'
  BY <1>6, CrashInv
<1>7. QED BY <1>1, <1>2, <1>5, <1>6 DEF Next

\* The invariant of all reachable states.
THEOREM ChainInvariant == Spec => []IInv
  BY ChainInit, ChainNext, PTL DEF Spec

\* The routes, the broker and the workers keep their types, and a worker runs
\* one job at a time.
THEOREM ChainTypes == Spec => []TypeOK
<1>1. IInv => TypeOK
  <2> SUFFICES ASSUME IInv PROVE TypeOK
    OBVIOUS
  <2>1. \A t \in Ids : \/ row[t] = NoRow
                       \/ /\ row[t].status \in Statuses
                          /\ row[t].transfer \in {"none", "queued", "failed", "done"}
    BY DEF IInv, Shape, RowType
  <2>2. \A m \in Slots \ Free :
          /\ job[m].task \in Ids
          /\ \/ job[m].kind = "download" /\ job[m].tries <= MaxDownloadRetries
             \/ job[m].kind = "transfer" /\ job[m].tries <= MaxTransferRetries
    <3> SUFFICES ASSUME NEW m \in Slots, job[m] # NoJob
                 PROVE  /\ job[m].task \in Ids
                        /\ \/ job[m].kind = "download" /\ job[m].tries <= MaxDownloadRetries
                           \/ job[m].kind = "transfer" /\ job[m].tries <= MaxTransferRetries
      BY DEF Free
    <3>1. job[m] \in DownloadJob \/ job[m] \in TransferJob
      BY DEF IInv, Shape, JobType
    <3>2. CASE job[m] \in DownloadJob
      BY <3>2, ChainAssumption DEF DownloadJob
    <3>3. CASE job[m] \in TransferJob
      BY <3>3, ChainAssumption DEF TransferJob
    <3>4. QED BY <3>1, <3>2, <3>3
  <2>3. QED BY <2>1, <2>2 DEF IInv, Shape, OneAtATime, TypeOK
<1>2. QED BY ChainInvariant, <1>1, PTL

\* The dedup guard of download.py:111 works, for any number of workers: no two
\* jobs that passed it with an answer download the same task.
THEOREM ChainOneDownload == Spec => []OneDownload
  BY ChainInvariant, PTL DEF IInv

\* A row that says it waits or works has a job that will change it, or its task
\* has lapsed, or its jobs gave way to each other, however the routes' stale
\* writes and the workers' steps mix.
THEOREM ChainNotForgotten == Spec => []NotForgotten
<1>1. IInv => NotForgotten
  BY DEF IInv, Held, HasJob, NotForgotten, Jobs, Excused
<1>2. QED BY ChainInvariant, <1>1, PTL

\* A row says "done" only of a task whose download ran to its end, or whose
\* chain went on without: no other way, through retries, transfers and stale
\* writes, leads there.
THEOREM ChainDoneIsStored == Spec => []DoneIsStored
<1>1. IInv => DoneIsStored
  BY DEF IInv, PastDownload, DoneIsStored, Status, Ready
<1>2. QED BY ChainInvariant, <1>1, PTL

\* The step formula of DeletedForGood.
RowsStayDeleted == \A t \in Ids : ~Exists(t) /\ Exists(t)' => left'.adds < left.adds \/ reads[t] # NoRow

\* No job writes back a row that was deleted: reports are UPDATEs.
THEOREM ChainDeletedForGood == Spec => DeletedForGood
<1>1. ASSUME IInv, [Next]_vars PROVE [RowsStayDeleted]_vars
  <2>0. Shape
    BY <1>1 DEF IInv
  <2>1. CASE UNCHANGED vars
    BY <2>1
  <2>2. ASSUME NEW m \in Slots, NEW status, job[m].task \in Ids, SetStatus(job[m].task, status)
        PROVE  RowsStayDeleted
    BY <2>0, <2>2 DEF SetStatus, RowsStayDeleted, Exists, Shape
  <2>3. ASSUME NEW t \in Ids, Command(t) PROVE RowsStayDeleted
    <3>1. CASE Add(t)
      <4>1. left'.adds < left.adds
        BY <2>0, <3>1, SpendsOne DEF Add
      <4>2. QED BY <4>1 DEF RowsStayDeleted
    <3>2. CASE Skip(t)
      BY <2>0, <3>2 DEF Skip, SetStatus, RowsStayDeleted, Exists, Shape
    <3>3. CASE Delete(t)
      BY <2>0, <3>3 DEF Delete, RowsStayDeleted, Exists, Shape
    <3>4. CASE RetryTransfer(t)
      BY <2>0, <3>4, RowFacts DEF RetryTransfer, RowsStayDeleted, Exists, Shape
    <3>5. CASE RetryReads(t) \/ Trigger(t) \/ SignalPause(t)
      BY <3>5 DEF RetryReads, Trigger, SignalPause, RowsStayDeleted, Exists
    <3>6. QED BY <2>3, <3>1, <3>2, <3>3, <3>4, <3>5 DEF Command
  <2>4. ASSUME NEW t \in Ids, RetryWrites(t) PROVE RowsStayDeleted
    BY <2>0, <2>4 DEF RetryWrites, RowsStayDeleted, Exists, Shape
  <2>5. ASSUME NEW m \in Slots, Work(m) \/ Progress(m) PROVE RowsStayDeleted
    <3>1. CASE UNCHANGED row
      BY <3>1 DEF RowsStayDeleted, Exists
    <3>2. CASE /\ job[m] # NoJob
               /\ \E status : SetStatus(job[m].task, status)
      BY <2>0, <2>2, <3>2, JobFacts
    <3>3. CASE Transferred(m) \/ ImportFails(m)
      <4>1. job[m].task \in Ids
        BY <2>0, <3>3, JobFacts DEF Transferred, ImportFails, At
      <4>2. QED BY <2>0, <3>3, <4>1 DEF Transferred, ImportFails, RowsStayDeleted, Exists, Shape
    <3>4. ASSUME At(m, "download", "start") \/ At(m, "download", "run") \/ At(m, "download", "success")
                 \/ At(m, "download", "failure") \/ At(m, "transfer", "begin")
          PROVE  job[m] # NoJob
      BY <2>0, <3>4, JobFacts DEF At
    <3>5. CASE Download(m) \/ Progress(m)
      BY <3>1, <3>2, <3>4, <3>5
         DEF Download, Guarded, GiveWay, Unreported, Begin, Begins, RunSucceeds, RunFails, RunBreaks, ReportDone,
             ReportPaused, ReportFailed, RetryLater, Progress
    <3>6. CASE BeginTransfer(m) \/ SkipTransfer(m) \/ TransferBreaks(m)
      BY <3>1, <3>2, <3>4, <3>6 DEF BeginTransfer, SkipTransfer, TransferBreaks
    <3>7. CASE \E w \in Workers : Receive(m, w)
      BY <3>1, <3>7 DEF Receive
    <3>8. QED BY <2>5, <3>3, <3>5, <3>6, <3>7 DEF Work, Transfer
  <2>6. ASSUME NEW w \in Workers, Crash(w) PROVE RowsStayDeleted
    BY <2>6 DEF Crash, RowsStayDeleted, Exists
  <2>7. QED BY <1>1, <2>1, <2>3, <2>4, <2>5, <2>6 DEF Next
<1>2. QED BY ChainInvariant, <1>1, PTL DEF Spec, DeletedForGood, RowsStayDeleted
=============================================================================

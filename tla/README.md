# A TLA+ model of the dataset download manager

`dlm` downloads repositories from a hub (Hugging Face) on a fleet of worker
hosts, stores them in BOS (object storage), and shows the tasks on a dashboard.
Three generations of it live side by side in the code: daemons that poll one
object in BOS (`state.json`), Celery workers with a task table, and Temporal
workflows with the same table. This directory models the parts where tasks,
files and rows can get lost, be done twice or hang. Paths are relative to
`src/dlm`.

## 1. Inventory

| Component | State | Operations | What makes it hard |
|---|---|---|---|
| **Pipeline engine** `temporal/pipeline.py` | staging directory, asyncio queue, `hf` process, counters | download a chunk, upload its files, clean up, cancel | two coroutines, a process and threads share a directory; cancellation at every await; a killed worker |
| **Download workflow** `temporal/workflows.py`, `activities.py` | file list and `.progress.json` on one worker; the workflow's own position | list, load progress, run batch, save, clear, clean up, report | retries, checkpoints by position, local state of a worker, attempts that outlive their timeout |
| **Split workflow** same files | the partition, the children | list, partition, start children, gather | children share one directory and one progress file |
| **Task queue** `web/routes/queue.py`, `queue/snapshot.py`, `web/temporal_client.py` | the `tasks` table of SQLite | add, pause, resume, retry, delete | handlers lose control at every await; Temporal may refuse or be unreachable |
| **Reconciler, doctor** `web/reconciler.py`, `web/routes/doctor.py` | rows read before Temporal is asked | restart orphans, reset, revoke | stale reads |
| **Progress reports** `web/routes/servers.py`, `report_to_dashboard` | the same table | update a row | late posts; a database on another host |
| **Temporal worker** `temporal/__main__.py` | two task queues | poll | pinning of activities |
| **BOS state store** `core/state.py` | `state.json` | load, save, compare and save | compare and save is not atomic |
| **Worker daemon** `worker/daemon.py`, `heartbeat.py`, `errors.py` | the task in hand, the pid, what the object says | claim, steal, run, report, retry, recover, maintain | races through the store; a report that is lost; a crash at any point |
| **Commands** `commands/*.py`, `web/routes/actions.py`, `storage.py` | a copy of the object while SSH calls run | add, dispatch, retry, sync, doctor, verify, register | they save minutes after they loaded, without comparing |
| **Task runner, movers** `worker/task_runner.py`, `movers/bos_sdk.py`, `disk.py`, `handlers/` | staging directory, thread pool, progress file on BOS | chunked and simple runs, moves by file or by tar | partial failure, cancellation amid the pool's work, files of earlier runs |
| **Celery chain** `worker/download.py`, `transfer/tasks.py`, `queue/signals.py`, `web/routes/tasks.py`, `transfer.py` | rows, jobs, signals, revoked ids | add, retry, skip, delete, download, transfer | results passed along a chain, retries in retries, checks that race |
| Clients, views, scripts | - | - | I/O and display |

The web server and the scheduler (with the reconciler) run on the coordinator
S1; each worker is another host. Temporal workers share Temporal, BOS and the
HTTP endpoint `/api/task-progress`, nothing else: `/data/dlm.db` is a different
file on every host. Daemons and commands share `state.json`. A daemon and a
Celery worker both run a task with a `TaskRunner`.

The properties that make the components correct:

* engine: a batch that reports success lacks at most files whose upload raised or
  that `hf` left out, and has counted them; the local copy goes only after BOS has the file; nobody blocks for ever; no
  process is left behind;
* workflow: checkpoints never run ahead of BOS and never go back; "done" means
  that every file that is not empty is stored, but for those a batch counted as
  failed; every workflow ends;
* split: an exact, balanced partition, whose parts the children keep to;
* table: a deleted task stays deleted; a task that is "downloading" has a
  workflow or gets one; a paused task stays paused;
* store: an update is atomic, a version names one content;
* daemons: one of them runs a task, a task that is done stays done, none is left
  downloading by nobody, every dispatched task settles;
* runner: "done" and "uploaded" mean stored, but for the files named as `Lost`,
  staged files go only once stored, some run of a task gets through;
* chain: one download of a task at a time, no row waits for nothing, "done"
  means downloaded, no job brings back a deleted row, jobs come to an end.

`PROJECT.json` lists the hazards line by line, with the property that covers
each one or the reason why none does.

## 2. Modules

### StagedCopy (abstract), ChunkPlan and PipelineEngine

`StagedCopy` is what a batch promises: files are fetched into staging, stored,
dropped from staging once stored, or given up; a batch completes only when every
file is stored or given up.

`ChunkPlan` is `_make_chunks`, a function of the constants `Batch` and `Size`:
`Plan[n]` is what its loop has after `n` files, a recursive function so that it
can be proved about; a chunk is the set of its files.

`PipelineEngine` is `PipelineEngine.run` on these chunks. One action is the code between two
awaits of a coroutine, or one step of the `hf` process or of an upload thread:

| Code | Model |
|---|---|
| producer loop, backpressure, `_hf_download`, `queue.put` | `prod`, `next`; `Pause`, `Wake`, `StartDownload`, `DownloadOk`, `DownloadFails`, `PutChunk`, `LoopOver`, `PutNone` |
| `hf download` | `proc`, `pipe`, `hurt`; `HfFile` |
| consumer, `_upload_chunk`, `_upload_one` | `cons`, `taken`, `waiting`, `inThread`, `landed`, `uploaded`, `failed`; `GetChunk` ... `FinishChunk` |
| gather and its except clause | `run`; `RunReturns`, `Cancel`, `ProducerCancelled`, `ConsumerCancelled`, `RunCancelled` |
| a killed worker, threads and processes that outlive it | `Crash`, `ghosts`, `orphans` |
| the activity's retry | `attempt`, `Retry` |

Abstractions: a chunk is named by its position in `Chunks`; `hf` writes a file in
one step, and prints any number of lines with it, as long as the pipe that
nobody reads has room; `.cache` and empty directories are not files - that the
consumer removes them under a running process is the flag `hurt`, which lets the
process fail; counters are sets, since a file is in one chunk. `hf download` with several names
fetches those of the hub's files that match them: a name that is gone by then, or
that reads as a pattern, is left out and the exit code is 0 (`MayLeaveOut`). The
consumer then finds no such file and only counts it. Two history variables name
the files a batch may lack: `errors`, whose upload or the removal after it raised,
and `skipped`, which `hf` left out.

### DownloadWorkflow and SplitWorkflow

A job is a task; `pc` is the activity its workflow waits for. `run_pipeline_batch`
is `StartBatch` followed by `BatchSucceeds` or `BatchAborts`: the promise of
`StagedCopy`, that success means stored or counted as failed; `given` are the
files so counted (history), of which the workflow keeps no record. A repository
has files and empty files: `list_repo_files` drops the empty ones
(`activities.py:39`), so no workflow ever downloads them. The list files and
`.progress.json` are kept per worker and per task NAME, as in the code. `late`
are the files an attempt nobody waits for may still store: one that lost its
heartbeats, or whose workflow was cancelled. A cancellation during
`list_repo_files` is an exception like any other to the workflow (`ListFails`).
Splitting adds the parent, and the partition as the loop it is: `PartitionBegins`
reads and sorts the list, `PartitionAdds` gives the next file to the smallest
chunk, `PartitionEnds` writes the lists. The children are jobs with a `PartOf`.

### TaskQueue

`row` is the status column and `stale` the age of `updated_at`; `wf` is the status
of the latest execution of workflow `dl-<id>`, `split` the tasks with an open
split workflow. A request is a record in `req` whose `pc` names the next await.
The reconciler and the doctor keep in `sweep` what they read. A row is changed only by
`UpdateRows` (`update_task_progress`), by the save of an add and by a deletion.
`held` is a history variable: the tasks whose last user command was a pause.
`SharedDb` says whether the workers' `DB_PATH` is the dashboard's file: by the
deploy scripts it is not, so both runs take `FALSE`, and the theorems hold for either.
A workflow that is cancelled before its first report (`withdrawn`) has no batch that
could run on; one that is cancelled later (`cancelling`) may leave one. Handlers run their database calls in a thread pool; each such call is one
step (the read and the update of `pause_task` are two statements in it).
Temporal's list of running workflows is taken to be exact. The children of a
split report under ids that have no row, so they change none.

### AtomicStore (abstract), StateStore, WorkerDaemon, StateCommands

`AtomicStore` is what the comments of `update_task` promise: a change takes the
object from what it is to that with the change, in one step. `StateStore` is
`core/state.py` for any clients: `op` says which of its BOS calls a client makes
next (`load`, `compare`, `put`; a command is at `work` between its load and its
save), `copy` what it has loaded, `want` its change. A load need not show the
object: `load` takes any error that mentions 404, NoSuchKey or "does not exist"
for a missing object and returns the initial state, and with `use_cache` it returns
the file that this machine wrote last (`cache`). `look` says which of them a
client has worked from. `raced` is a history variable: a put came between
somebody's last look at the object and that one's put, which neither the
comparison of versions nor BOS prevents, or it came from a client that had not
looked at the object. There the promise ends; the refinement says that it holds
until then. An object in use has been saved at least once, so it begins with
version 2; the initial state has version 1. Left out are the cache files of the
servers, from which nobody saves, and a cache file that cannot be written.

`WorkerDaemon` extends the store: the main loop and the heartbeat thread of each
daemon are clients. `pc` is where the loop waits for an answer of the store:

| Code | Model |
|---|---|
| `run`, `_recover_zombie_tasks` | `Start`, `StartBlind` (its load failed or misread the object), `RecoverZombie`, `ZombieAnswered` |
| `_poll_for_task`, `_try_steal_task` | `Poll`, `PollBlind` (its load misread the object), `Steal`, `StealAnswered`, `Take` |
| `_execute_task` | `Claim`, `ClaimAnswered`, `RunSucceeds`, `RunFails`, `RunBreaks`, `SuccessAnswered`, `FailureAnswered` |
| `_maintenance`, `HeartbeatThread` | `Maintain`, `Beat` and their answers |
| calls of `core/state.py` | `CallGoesOn`, `CallMisled` (a load takes the object for missing) |
| SIGTERM, the loop's end, a kill | `Signal`, `Stop`, `Crash` |

`StateCommands` adds the writes of the commands and of the dashboard's two
writers, and is the composed system. Only `ls` loads with the cache: with `--size`
or `--refresh` it sets the sizes in that copy and saves it (`ListSizes`), so it
can undo what was written since. What a server answers over SSH is chosen
freely. Two history variables name the exceptions of the properties: `moved`,
tasks a steal or a command took from whoever had them, and `lapsed`, tasks whose
daemon could not say what became of them. The line that builds the daemon's
`TaskRunner` (`daemon.py:109`) passes the state manager where the constructor
expects the server key, so how a run ends is chosen freely too, and the signal
handler's `cancel` raises.

### TaskRunner

The runs of one task on one worker, each action a step of the main thread up to
its next call with an effect, or one of the pool's threads: list, take a batch,
download, `Move` (by file or by tar), `Submit` a job, `Collect` its result, root
files, `Save` the progress, `Clean`. `thread` is the state of each job: an upload
is one step, a tar is packed, stored and removed in three. Sizes are left out:
whether a run is chunked, what fits in a batch and whether a tar is made are
chosen freely, subject to `MIN_FILES_FOR_TAR`. `skipped` are the files that `hf`
left out of a batch, which is recorded as completed all the same
(`task_runner.py:200`), and those a cancelled move left when it returned as if it
had moved them; `once` are the files that were on BOS at some time.

### CeleryChain

A row has a status and a transfer status; a job is a message in the queue and
then its execution, with the place in `download_dataset` or
`transfer_to_juicefs` it has reached. `Requeued`, `Receive` and `Revokes` model
Celery from how the code configures and calls it. A chain's id is that of its
last job (`byId`), so a revoke does not reach the download. `reads` holds what a
retry has read and not yet written back. The dedup guard looks (`Guard`) and
returns later (`GiveWay`): meanwhile the job is still found by others, so two that
look at the same time both give way. A job also ends, with its row as it was, when
the database raises before the `try`, or Redis in the handler of the failure
(`Unreported`), and when a transfer finds no row, no path or no credentials
(`SkipTransfer`). History: `stored` (a download ran to its end), `unready` (a chain
went on without), `blind` (the dedup check got no answer), `lapsed` (a job was
lost of which the code keeps no trace), `crossed` (jobs, none of them a chain's,
gave way to each other). The answers of the workers to the guard are one look.
That it passes over every worker whose name contains the server's key, not only its
own, is left out. All workers
are taken to reach one database; with one file per host no row would be
reported to at all.

## 3. Runs

Deadlock is not checked: a batch, a workflow, a daemon and a table of tasks may
all rightly come to rest. Liveness properties say what must not stop.

| Run | Shows | Bounds |
|---|---|---|
| `pipeline` | `IInv`, `Accounted`, `NoLoss`, `ProcessReaped`, `DownloadFits`, `NeverStuck`, refinement of `StagedCopy`, `EndsOrStarves` | 4 files of sizes 3, 1, 0, 1 in 3 chunks, queue of 1, 2 uploads, 2 attempts, all faults, a disk of 4 with a reserve of 2, a pipe of 2 lines |
| `workflow` | `DoneIsStored`, `ProgressSound`, `NeverForgets` | 3 files in batches of 2 and an empty one, 2 workers, 3 runs, 2 attempts per batch, every fault but a repository that changes |
| `workflow_ends` | `TypeOK`, `WorkflowEnds` | 3 tasks of one name on one worker (one a split child without a list), 1 run, 1 attempt per batch, every fault, a repository that changes among them |
| `split` | `PartitionExact`, `SumsExact`, `PartitionBalanced`, `ChildStaysInPart`, `SplitEnds` | 2 children, 3 files, every assignment of 3 sizes |
| `queue` | `TypeOK`, `DeletedForGood`, `PauseSettles`, `OrphanHealed` | 1 task, 1 request at a time, all operations, Temporal may fail |
| `state` | `TypeOK`, `NoOrphan`, `LastLook`, `OneRunner`, refinement of `AtomicStore`, `DoneIsFinal` | 2 daemons, 1 operator; four objects to begin with, each with its own budget of ends, commands, additions, beats and faults |
| `daemon` | `Settles` | 1 daemon that ends twice, 2 pids, a heartbeat, a failed call |
| `runner` | `TypeOK`, `DoneIsStored`, `ProgressSound`, `StagedUntilStored`, `EventuallyDone` | a directory with 2 files and a hidden one, an empty file at the top; four budgets of cancels, crashes, faults and disk pressure |
| `celery` | `TypeOK`, `OneDownload`, `NotForgotten`, `DoneIsStored`, `DeletedForGood`, `Settles` | 1 task, 2 workers, 3 job slots; three budgets |

Why the bounds are enough.

* `pipeline`: three chunks and a queue of one make every pair of positions of
  producer and consumer occur, with one chunk queued between them. The batch has
  what `_make_chunks` distinguishes: a file larger than a chunk, and than the
  reserve, alone in its own; a chunk closed because it has 2 files; a last chunk
  that is flushed after the loop; an empty file. The middle chunk has two files,
  so that uploads interleave; two attempts give a retry over any leftovers. A
  disk of 4 with a reserve of 2 is filled by failed uploads, and by the large
  file alone. The pipe can fill within a chunk: `hf` then waits for ever, since its
  output is read only after it ends. `EndsOrStarves` names both (`Starved`,
  `Jammed`), and `NeverStuck` shows that nothing else waits.
* `workflow`: three runs on two workers give a checkpoint on one, a restart on
  the other, and a return to the first. The name of a task is the last part of
  its repository's id, so tasks can share a staging directory:
  `workflow_ends` lets one of them remove it under the others. The properties of
  both are proved for each task that owns its directory, whatever the others do, the types for all.
* `split`: three files in two parts give ties, a file larger than the others
  together, and parts of different length; the second child finds the directory
  in use, cleared or gone. The safety properties are proved for any files,
  sizes and children.
* `queue`: the sweeps of reconciler and doctor, reports and the workflow
  interleave with one request; its safety and action properties are proved for
  any number of tasks and requests. What takes two requests - a delete between the
  save and the start of an add - is only in the theorems.
* `state`: a race needs two clients, a steal two tasks in one queue and two
  daemons. Each of the four objects brings about one kind of encounter (two
  daemons and an end; one task and a command; a finished task, a command and an
  addition; a queued task, a command, a heartbeat and two misread loads), so that all
  operations meet without their product. `MaxTasks`, the ids that tasks may get, bounds the
  additions (`Appends`). The safety properties, `DoneIsFinal` and the refinement
  are proved for any daemons, operators, tasks and budgets.
* `daemon`: two ends and two pids give a restart under the same and under
  another pid, before and after a recovery.
* `runner`: two files in one directory may fall into one batch or into two, be
  packed in one tar or stored one by one; the hidden file is what no move takes,
  the empty one what a chunked run does not list. Its safety properties are proved
  for any files and budgets.
* `celery`: two workers are what the dedup check and a duplicated job need; two
  commands give each pair of commands, with a signal or with a fault; the third budget
  adds a worker that dies. Its safety properties are proved for any
  constants.

Every budget is a constant `Bounds`; a run may start from each of its budgets.

Three runs show where the code departs from what the repository says of it:

* `workflow_upload`: a failed upload is only counted, and the batch is
  checkpointed as uploaded (`MarkedIsUploaded`; `ProgressSound` is what holds: marked
  files are uploaded or were counted as failed).
* `split_stored`: the children of a split share `.progress.json`; the second one
  skips batches of its own part.
* `queue_paused`: a post of a batch whose workflow the pause has cancelled arrives
  after the pause and sets the row back to downloading; half an hour later the
  reconciler restarts the task. A reconciler that read such a row before the pause
  can do so from its stale copy, too.

Other departures have no run of their own; the properties above except exactly
them, by a history variable or a named case, and so show that nothing else goes
wrong:

* files that `hf` leaves out of a download of several names and reports as a success
  (`skipped`), files a batch only counted (`given`), empty files that the listing
  of a workflow drops (`empty`);
* a put between a look and a put, from a load that took the object for missing,
  or from the cache of `ls --size` (`raced`), a claim after a steal or a command
  (`moved`), a pid that comes again or a report that fails (`lapsed`), a
  maintenance that acts on an old load (`DoneIsFinal`);
* a move cancelled before its first job (`skipped`), a tar replaced by that of
  a later batch (`once`), empty files in chunked mode (`Empty`);
* a chain that goes on after a download that did not end well (`unready`), jobs
  that are lost with their worker, dropped as revoked, ended by an exception outside
  of the `try`, skipped or out of retries (`lapsed`), jobs that give way to each
  other (`crossed`), a retry that writes back a deleted row (`reads`).

Two more are in the reach of `TaskQueue` and stated by no property, because no
document promises otherwise: `resume` sets a row to pending before it knows that
Temporal accepts the start, and nothing starts a pending row (`queue.py:186`);
workers report "done" to their own database file, and the reconciler starts a
completed task again (`activities.py:271`).

## 4. Fairness

* `PipelineEngine`: the event loop runs each ready coroutine, and the `hf`
  process and each upload thread make progress and end: weak fairness of each.
  Cancellation, crash, retry and the disk usage of others have none. A producer
  that sleeps for lack of disk may starve, and `EndsOrStarves` says so.
* `DownloadWorkflow`: Temporal delivers the next activity of an open workflow to
  a worker that polls. This does assume that the pinned worker comes back: the
  code sets no schedule-to-start timeout.
* `SplitWorkflow`: the same for the parent.
* `TaskQueue`: handlers, the scheduler's loop, time, posts and workflows advance
  (weak fairness); a Temporal that can be reached again and again eventually
  answers the reconciler (strong fairness of its listing and of its starts). No
  user operation and no doctor is assumed to happen.
* `WorkerDaemon`: a daemon that is down is started again, its loop, its calls and
  its thread go on (weak fairness of each daemon's own steps); the disk is not
  too full, and maintenance not due, at every poll (strong fairness of `Poll`).
* `TaskRunner`: the process goes on while it lives and a failed task is run again
  (weak fairness of everything but cancel and crash).
* `CeleryChain`: each job and each handler goes on; commands, signals and crashes
  may stay away.

## 5. Proofs

`PipelineEngine_proofs` proves, for any batch, sizes, limits of a chunk, queue
size, concurrency, disk, pipe and number of attempts - the named assumptions of
`ChunkPlan` and `PipelineEngine` - that `IInv` is inductive, and from it `Accounted`, `NoLoss`,
`ProcessReaped`, and that the engine implements `StagedCopy`. None of the three
is inductive alone. What is needed besides types:

* `QueueShape`: the queue holds exactly the chunks between consumer and
  producer, in order, with the end marker last - so when the consumer has read
  the marker, it has taken every chunk or the producer has an error;
* `UploadState`: a file of a taken chunk is in exactly one of five states - so
  at the end it is uploaded or failed;
* `QueuedIsStaged`, `InFlight`: what is queued or in flight is in staging, but for
  what `hf` left out, and nothing removes it but its own upload - so `exists()` misses
  no other file, whatever threads and processes were left behind, and what has
  failed has raised or was left out (`OnlyErrorsFail`).

Each action has its own step, and the conjuncts of `IInv` it can disturb are
the steps below it.

`ChunksPartition` is about `_make_chunks` itself: the chunks hold every file of the
batch, each once, and a chunk is within `CHUNK_MAX_BYTES` and `CHUNK_MAX_FILES` or
is a single file. The prover takes no induction schema with a formula for
parameter; `SetInduction` states induction for SETS of numbers instead, which is
enough for what a recursive function computes: the set of the turns after which
the loop is right (`PlanTurns`), the set of the places up to which two sums agree
(`BytesOfUnion`).

`DownloadFits` follows from it and from `CHUNK_MAX_BYTES` = 20 GB being at most
`DISK_FREE_MIN_GB` = 50. It excepts a single file larger than the reserve, which
`_make_chunks` puts in a chunk of its own and the check does not cover. The
invariant beside `IInv` is `RoomForChunk`: what is staged and the chunk under way
fit on the disk together. It holds when the check has passed, which counts
what is staged; it is kept because a running `hf` adds only files of that chunk,
uploads only take files away, and no other process writes.

`NeverStuck` says that the engine has no deadlock of its own: producer, `hf`, the
bounded queue, consumer, semaphore and threads never all wait. It follows from
`IInv`: a full queue has something for the consumer, a consumer with an empty
queue has a producer that is not through, a consumer that uploads has a file in
one of its states; and an `hf` that can neither write the next file nor fail for
lack of disk has no room left in its pipe (`DownloadCanGoOn`). That each "can go
on" is an action that is enabled, TLC has checked on the run's instance.

`TaskQueue_proofs` proves type correctness for any number of tasks and requests,
and with it `DeletedForGood`: a row appears only in the save of the add that was
given its id. The argument is that every other write is an UPDATE (`UpdateKeeps`),
also that of a late report, a restart or a sweep.

`PauseSettles` is what the code does guarantee of a pause, where `queue_paused`
shows what it does not: once the workflow has closed, its last attempt and post
are through and no sweep has read the row as it was before (`AtRest`), only a
user's request changes the row or starts the task. Besides types the proof needs
`NewIds`: an id is held by one add, and its row is not there before that add
saves it - so no add in progress can write over a paused row. A retry or an add
that has passed its row and not yet started the workflow is named as an
exception (`Commanded`): a pause in between does not stop it.

`StateStore_proofs` proves `LastLook` and the refinement of `AtomicStore` for any
clients and changes. The invariant behind both: until the store is raced, no copy of
a client that looked at the object is of a later version than the object's, and
one of the object's version is the object; whoever is committed to a put holds
it. A put by one client while another is committed, or by one that did not look, is
what sets `raced`. An update of a task whose load took the object for missing does not
find the task, and one whose comparison did finds another version: neither comes
to a put, only a heartbeat or a command does. `StateCommands_proofs` shows that
every step of the daemons and commands is a step of the store, and so carries
both results over to the system.

Its other theorems - the types, `NoOrphan`, `OneRunner`, `DoneIsFinal` - are about
what the object and the daemons know of each other, and none is inductive: a
call that is under way decides what the object will say, a copy loaded long
ago decides what a command will save. `SystemInv` adds:

* `Typed`: the object and every copy of it hold tasks with fields of the right
  kind, and a call changes only tasks of its copy;
* `Placed` and `Asks`: the place of a daemon's loop says whether it has a call
  under way, for which task and which status - and so what an answer can change;
* `Owned`: a task that a daemon has in hand (`Own`: it holds it, or is about to
  recover it) is the daemon's in the object too (`Live`) unless it is excused - raced,
  moved or lapsed. Two daemons cannot both have a task because the object names
  one server for it;
* `Tracked`: a task that is downloading on a daemon's server is in that daemon's
  hand, or the daemon is down.

Every step of a daemon is shown to be a `StepOf` it: the others stay as they are
and no excuse is taken back (`Frame`), the object changes by its own call or not
at all, and its own tasks stay in hand (`Keeps`). From this alone the invariant follows (`StepKeeps`), so each action needs
only the facts about its own task. A command's save may change any task; what it
leaves of those it does not take over is `Spared`.

`CeleryChain_proofs` proves all four safety properties and the types, for any
tasks, workers, job slots and budgets. `OneDownload` rests on a worker having one
job at a time and on the dedup check, which lets a download past it only when
it finds no other worker at the task, or was blind. `NotForgotten` holds
because each step that ends a job leaves its successor, or writes a final status
to the row, or adds the task to `lapsed`; a job that gives way leaves the job it
found, unless that one is leaving too (`crossed`). `DoneIsStored` needs
`PastDownload`: not only a row but also what a handler has read (`reads`) and a
transfer job in the queue is past the download only for a task that is stored or
went on without, so that no stale write and no late job brings back a claim that
is not true.

`DownloadWorkflow_proofs` proves the types of the workflows for all tasks. The
other three properties fail when tasks share a directory, when children of a
split share a progress file (the counterexample of `split_stored`) and when a
repository changes between two lists. `Owner(j)` excludes these cases for task j
alone; failed uploads and files left out it allows, since the properties speak of
files stored or counted as failed. The invariant says `Sound(j)`
of every owner and nothing of the other tasks, which may share directories, be
split or see their repositories change. A step of another task is in another
directory than an owner's and so disturbs nothing of it (`AwayStep`,
`ApartSound`); what is left is one step per activity. `OwnersAreSound` and
`OwnersKeepCheckpoints` state the results task by task, and the three properties
follow where every task is an owner (`OwnDirectories`).

`SplitWorkflow_proofs` takes those types over to the split and proves that the
partition is exact and balanced and that children stay in their parts, for any
list, sizes and number of children; the assumptions are that the hub lists a
path once and that there is a child for each part, all with the parent's name.
The loop's invariant is `Partitioned`: the list is sorted, and the files handed
out so far, and no others, stand in the parts, each once (`Handed`). Balance is
inductive only with the sort: the file that is added to a smallest chunk is not
larger than any file before it, so it is the chunk's smallest from then on. That
there is a smallest chunk rests on the well-foundedness of the naturals, and so does
`SplitSumsExact`: the sums the loop goes by are the sizes of its chunks, because
adding a file to a chunk adds its size to the total that the recursive function
`TotalSize` computes (`TotalOfAppend`).
A child stays in its part because the shared directory holds that
part or nothing (`Shared`), whichever child has removed it, and every child is
pinned to the host that wrote it (`Own`).

`TaskRunner_proofs` proves all safety properties of the runner, for any files,
directories and numbers of runs, cancels, crashes and faults. `Safe` are the files
that are stored or `Lost`; it only grows. The invariant says of them:

* `ThreadsSound`: a job that has ended has stored its file, or has removed from
  staging what its tar holds - so what the main thread unlinks has been stored;
* `Covered`: unless the move has failed or is cancelled, each staged file is safe
  or a job or the main thread will still move it - so a move that returns without
  an exception leaves no file that is not safe;
* `BatchSound`: the files of a batch are staged or safe during the move and safe
  after it, and what is neither remaining nor in the batch is completed - so a run
  that has nothing left has made every file safe.

Only model-checked: liveness (`EndsOrStarves`, `WorkflowEnds`, `SplitEnds`,
`OrphanHealed`, the two `Settles`, `EventuallyDone`), which the prover cannot
treat under fairness, and that a step is enabled. Every invariant and
every action property of the passing runs is also a theorem. Before a proof, each inductive
invariant was checked with TLC as an invariant of the run of its component.

## 6. Not modelled

* `select_server`: a server is chosen freely. Sizes of files outside `ChunkPlan`,
  `PipelineEngine` and the partition: what fits in a `TaskRunner`'s batch is
  chosen freely.
* `worker/movers/rsync_fuse.py`: `movers/__init__.py` imports the BOS mover, and
  with it the BOS library, before it could fall back to it.
* Empty files of a repository are in `DownloadWorkflow` only as what no workflow
  lists; whether BOS should have them no document says.
* `_poll_transfers` (`web/scheduler.py:85`) waits for rows whose
  `transfer_status` is "transferring", which nothing sets; `pipelines/ingest.py`
  has no caller.
* `commands/migrate.py` rewrites `state.json` from old queue files, with version
  1 again; run beside daemons it would break the store's comparison. It is meant
  to be run once, before them.
* The workers table, priorities, phases, speed and progress figures, and error
  texts: no modelled decision depends on them. The order of a queue in
  `WorkerDaemon` stands for priority and age.
* SSH, BOS and hub clients, parsing, display, the commands of the CLI that only read,
  one-off scripts.
* Time: `retry_after` is never read, backoff and cooldown only delay.

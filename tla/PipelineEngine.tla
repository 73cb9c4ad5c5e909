--------------------------- MODULE PipelineEngine ---------------------------
(***************************************************************************)
(* dlm/temporal/pipeline.py: the attempts of one run_pipeline_batch        *)
(* activity.  A producer coroutine runs one `hf download` process per      *)
(* chunk and puts the chunk on a bounded asyncio queue; a consumer         *)
(* coroutine takes chunks, uploads their files to BOS in threads and       *)
(* unlinks what was uploaded.  Both run in one event loop: a coroutine     *)
(* loses control only at an await, and every action below is the code      *)
(* between two awaits (or less: a put that finds room does not yield, the  *)
(* model lets others run in between).                                      *)
(*                                                                         *)
(* A chunk is named by its position in Chunks.  The `hf` command and the   *)
(* BOS client are external.                                                *)
(***************************************************************************)
EXTENDS ChunkPlan

CONSTANTS
    QueueMaxSize,       \* QUEUE_MAX_SIZE
    UploadConcurrency,  \* UPLOAD_CONCURRENCY
    DiskCapacity,       \* size of the staging disk
    DiskFreeMin,        \* DISK_FREE_MIN_GB
    OtherMax,           \* bound on the disk used by the worker's other tasks
    PipeCapacity,       \* lines the unread stdout pipe of `hf` can hold
    MaxAttempts,        \* bound on the attempts of the activity
    Faults              \* the kinds of fault the environment may inject

None == 0               \* the end marker queue.put(None)
NumChunks == Len(Chunks)
ChunkIds == 1..NumChunks

FaultKinds == {"hub", "skip", "bos", "unlink", "cancel", "crash"}

ASSUME BoundsAssumption ==
    /\ QueueMaxSize \in Nat \ {0}
    /\ UploadConcurrency \in Nat \ {0}
    /\ DiskCapacity \in Nat
    /\ DiskFreeMin \in Nat /\ ChunkMaxBytes <= DiskFreeMin
    /\ OtherMax \in Nat
    /\ PipeCapacity \in Nat
    /\ MaxAttempts \in Nat
ASSUME FaultsAssumption == Faults \subseteq FaultKinds

VARIABLES
    staged,     \* files in the staging directory
    remote,     \* files in the BOS bucket
    others,     \* disk used by the worker's other tasks
    run,        \* state of PipelineEngine.run
    attempt,    \* number of the attempt
    prod,       \* where the producer coroutine is
    next,       \* the producer's current chunk
    prodError,  \* producer_error[0] is set
    proc,       \* an `hf download` process of this engine is running
    pipe,       \* lines of its output nobody has read
    hurt,       \* its .cache or an empty directory was removed under it
    skipped,    \* files it left out in this attempt and still returned 0 (history)
    queue,      \* the asyncio queue
    cons,       \* where the consumer coroutine is
    taken,      \* chunks taken from the queue; the last one is being uploaded
    waiting,    \* files whose _upload_one waits for the semaphore
    inThread,   \* files an upload thread is sending
    landed,     \* files stored by their thread, _upload_one not yet resumed
    uploaded,   \* stats.uploaded_files (a file is in one chunk: a set is its counter)
    failed,     \* stats.failed_files
    errors,     \* files whose upload or unlink raised (the errors of the chunks)
    ghosts,     \* upload threads that outlived the attempt that started them
    orphans     \* files an `hf` process that outlived its worker will still write

diskVars == <<staged, remote, others>>
prodVars == <<prod, next, prodError>>
procVars == <<proc, pipe, hurt, skipped>>
consVars == <<cons, taken>>
upVars   == <<waiting, inThread, landed, uploaded, failed, errors>>
runVars  == <<run, attempt>>
lateVars == <<ghosts, orphans>>
vars == <<staged, remote, others, run, attempt, prod, next, prodError, proc,
          pipe, hurt, skipped, queue, cons, taken, waiting, inThread, landed, uploaded,
          failed, errors, ghosts, orphans>>

DiskFree == DiskCapacity - Bytes(staged) - others

-----------------------------------------------------------------------------
(* Starting an attempt.                                                    *)

\* The state a new PipelineEngine starts from.
Fresh ==
    /\ run' = "running"
    /\ prod' = "check" /\ next' = 1 /\ prodError' = FALSE
    /\ proc' = FALSE /\ pipe' = 0 /\ hurt' = FALSE /\ skipped' = {}
    /\ queue' = <<>>
    /\ cons' = "get" /\ taken' = 0
    /\ waiting' = {} /\ inThread' = {} /\ landed' = {}
    /\ uploaded' = {} /\ failed' = {} /\ errors' = {}

Init ==
    /\ staged = {} /\ remote = {} /\ others \in 0..OtherMax
    /\ run = "running" /\ attempt = 1
    /\ prod = "check" /\ next = 1 /\ prodError = FALSE
    /\ proc = FALSE /\ pipe = 0 /\ hurt = FALSE /\ skipped = {}
    /\ queue = <<>>
    /\ cons = "get" /\ taken = 0
    /\ waiting = {} /\ inThread = {} /\ landed = {}
    /\ uploaded = {} /\ failed = {} /\ errors = {}
    /\ ghosts = {} /\ orphans = {}

\* The activity is run again with the same staging directory.
Retry ==
    /\ run \in {"failed", "cancelled", "lost"}
    /\ attempt < MaxAttempts
    /\ attempt' = attempt + 1
    /\ Fresh
    /\ UNCHANGED <<diskVars, lateVars>>

-----------------------------------------------------------------------------
(* The producer.                                                           *)

\* Top of the loop with too little disk: sleep ten seconds and look again.
Pause ==
    /\ run = "running" /\ prod = "check" /\ next <= NumChunks
    /\ DiskFree < DiskFreeMin
    /\ prod' = "sleep"
    /\ UNCHANGED <<diskVars, runVars, next, prodError, procVars, queue, consVars, upVars, lateVars>>

Wake ==
    /\ run = "running" /\ prod = "sleep"
    /\ prod' = "check"
    /\ UNCHANGED <<diskVars, runVars, next, prodError, procVars, queue, consVars, upVars, lateVars>>

\* Mutant of StartDownload: the producer does not look at the free disk.
StartDownloadUnchecked ==
    /\ run = "running" /\ prod = "check" /\ next <= NumChunks
    /\ prod' = "download"
    /\ proc' = TRUE /\ pipe' = 0 /\ hurt' = FALSE
    /\ UNCHANGED <<diskVars, runVars, next, prodError, skipped, queue, consVars, upVars, lateVars>>

\* Start `hf download` for the whole chunk.
StartDownload ==
    /\ run = "running" /\ prod = "check" /\ next <= NumChunks
    /\ DiskFree >= DiskFreeMin
    /\ prod' = "download"
    /\ proc' = TRUE /\ pipe' = 0 /\ hurt' = FALSE
    /\ UNCHANGED <<diskVars, runVars, next, prodError, skipped, queue, consVars, upVars, lateVars>>

\* With several names `hf` fetches what of the hub's list matches them: a name
\* that is gone, or that reads as a pattern, is left out, and nothing is said.
\* With one name a missing file is an error.
MayLeaveOut(chunk) ==
    "skip" \in Faults /\ Cardinality(chunk) > 1 /\ pipe < PipeCapacity

\* The process returned 0: whatever it did not leave out is in staging.
DownloadOk ==
    /\ run = "running" /\ prod = "download"
    /\ Chunks[next] \subseteq staged \/ MayLeaveOut(Chunks[next])
    /\ prod' = "put"
    /\ proc' = FALSE
    /\ skipped' = skipped \union (Chunks[next] \ staged)
    /\ UNCHANGED <<diskVars, runVars, next, prodError, pipe, hurt, queue, consVars, upVars, lateVars>>

\* Mutant of DownloadFails: the return code of `hf` is ignored.
DownloadFailsUnnoticed ==
    /\ run = "running" /\ prod = "download"
    /\ pipe < PipeCapacity
    /\ "hub" \in Faults \/ hurt \/ DiskFree < Bytes(Chunks[next] \ staged)
    /\ prod' = "put"
    /\ proc' = FALSE
    /\ UNCHANGED <<diskVars, runVars, next, prodError, pipe, hurt, skipped, queue, consVars, upVars, lateVars>>

\* Mutant of DownloadFails: the end marker is put only after a full loop, not
\* in a finally clause.
DownloadFailsWithoutMarker ==
    /\ run = "running" /\ prod = "download"
    /\ pipe < PipeCapacity
    /\ "hub" \in Faults \/ hurt \/ DiskFree < Bytes(Chunks[next] \ staged)
    /\ prodError' = TRUE
    /\ prod' = "stopped"
    /\ proc' = FALSE
    /\ UNCHANGED <<diskVars, runVars, next, pipe, hurt, skipped, queue, consVars, upVars, lateVars>>

\* A non-zero return code: the hub or the network failed, the disk is full,
\* or the consumer deleted what the process was working on.
DownloadFails ==
    /\ run = "running" /\ prod = "download"
    /\ pipe < PipeCapacity
    /\ "hub" \in Faults \/ hurt \/ DiskFree < Bytes(Chunks[next] \ staged)
    /\ prodError' = TRUE
    /\ prod' = "end"
    /\ proc' = FALSE
    /\ UNCHANGED <<diskVars, runVars, next, pipe, hurt, skipped, queue, consVars, upVars, lateVars>>

PutChunk ==
    /\ run = "running" /\ prod = "put"
    /\ Len(queue) < QueueMaxSize
    /\ queue' = Append(queue, next)
    /\ next' = next + 1
    /\ prod' = "check"
    /\ UNCHANGED <<diskVars, runVars, prodError, procVars, consVars, upVars, lateVars>>

\* The for loop is over; only the finally clause is left.
LoopOver ==
    /\ run = "running" /\ prod = "check" /\ next > NumChunks
    /\ prod' = "end"
    /\ UNCHANGED <<diskVars, runVars, next, prodError, procVars, queue, consVars, upVars, lateVars>>

PutNone ==
    /\ run = "running" /\ prod = "end"
    /\ Len(queue) < QueueMaxSize
    /\ queue' = Append(queue, None)
    /\ prod' = "stopped"
    /\ UNCHANGED <<diskVars, runVars, next, prodError, procVars, consVars, upVars, lateVars>>

Producer ==
    \/ Pause \/ Wake \/ StartDownload \/ PutChunk \/ LoopOver \/ PutNone

-----------------------------------------------------------------------------
(* The `hf` process.                                                       *)

\* It completes one file and prints some lines; with a full pipe it blocks.
HfFile(f) ==
    /\ proc
    /\ f \in Chunks[next] \ staged
    /\ DiskFree >= Size[f]
    /\ staged' = staged \union {f}
    /\ pipe' \in (pipe + 1)..PipeCapacity
    /\ UNCHANGED <<remote, others, runVars, prodVars, proc, hurt, skipped, queue, consVars, upVars, lateVars>>

Hf == (\E f \in Files : HfFile(f)) \/ DownloadOk \/ DownloadFails

-----------------------------------------------------------------------------
(* The consumer.                                                           *)

\* queue.get and the start of _upload_chunk: one coroutine per file, which
\* counts a file it does not find as failed.
GetChunk ==
    /\ run = "running" /\ cons = "get"
    /\ queue # <<>> /\ Head(queue) # None
    /\ queue' = Tail(queue)
    /\ cons' = "upload" /\ taken' = Head(queue)
    /\ waiting' = Chunks[Head(queue)] \intersect staged
    /\ failed' = failed \union (Chunks[Head(queue)] \ staged)
    /\ UNCHANGED <<diskVars, runVars, prodVars, procVars, inThread, landed, uploaded, errors, lateVars>>

GetNone ==
    /\ run = "running" /\ cons = "get"
    /\ queue # <<>> /\ Head(queue) = None
    /\ queue' = Tail(queue)
    /\ cons' = "stopped"
    /\ UNCHANGED <<diskVars, runVars, prodVars, procVars, taken, upVars, lateVars>>

StartThread(f) ==
    /\ run = "running" /\ f \in waiting
    /\ Cardinality(inThread \union landed) < UploadConcurrency
    /\ waiting' = waiting \ {f}
    /\ inThread' = inThread \union {f}
    /\ UNCHANGED <<diskVars, runVars, prodVars, procVars, queue, consVars, landed, uploaded, failed, errors, lateVars>>

\* The thread's upload_file returns: BOS has the object.
ThreadStores(f) ==
    /\ f \in inThread
    /\ inThread' = inThread \ {f}
    /\ landed' = landed \union {f}
    /\ remote' = remote \union {f}
    /\ UNCHANGED <<staged, others, runVars, prodVars, procVars, queue, consVars, waiting, uploaded, failed, errors, lateVars>>

\* Mutant of UploadFails: the local file is unlinked in a finally clause.
UploadFailsUnlinking(f) ==
    /\ run = "running" /\ "bos" \in Faults
    /\ f \in inThread
    /\ inThread' = inThread \ {f}
    /\ staged' = staged \ {f}
    /\ failed' = failed \union {f}
    /\ errors' = errors \union {f}
    /\ UNCHANGED <<remote, others, runVars, prodVars, procVars, queue, consVars, waiting, landed, uploaded, lateVars>>

\* upload_file raises: the error is collected and nothing else happens.
UploadFails(f) ==
    /\ run = "running" /\ "bos" \in Faults
    /\ f \in inThread
    /\ inThread' = inThread \ {f}
    /\ failed' = failed \union {f}
    /\ errors' = errors \union {f}
    /\ UNCHANGED <<diskVars, runVars, prodVars, procVars, queue, consVars, waiting, landed, uploaded, lateVars>>

\* _upload_one resumes after the thread: unlink, then count.
Unlink(f) ==
    /\ run = "running" /\ f \in landed
    /\ landed' = landed \ {f}
    /\ staged' = staged \ {f}
    /\ uploaded' = uploaded \union {f}
    /\ UNCHANGED <<remote, others, runVars, prodVars, procVars, queue, consVars, waiting, inThread, failed, errors, lateVars>>

\* unlink raises: a stored file is counted as failed and stays on disk.
UnlinkFails(f) ==
    /\ run = "running" /\ "unlink" \in Faults
    /\ f \in landed
    /\ landed' = landed \ {f}
    /\ failed' = failed \union {f}
    /\ errors' = errors \union {f}
    /\ UNCHANGED <<diskVars, runVars, prodVars, procVars, queue, consVars, waiting, inThread, uploaded, lateVars>>

\* gather is over: remove empty directories, then .cache - both also under
\* the process that is downloading the next chunk.
FinishChunk ==
    /\ run = "running" /\ cons = "upload"
    /\ waiting = {} /\ inThread = {} /\ landed = {}
    /\ cons' = "get"
    /\ hurt' = (hurt \/ proc)
    /\ UNCHANGED <<diskVars, runVars, prodVars, proc, pipe, skipped, queue, taken, upVars, lateVars>>

Upload(f) ==
    StartThread(f) \/ ThreadStores(f) \/ UploadFails(f) \/ Unlink(f) \/ UnlinkFails(f)

Consumer == GetChunk \/ GetNone \/ FinishChunk

-----------------------------------------------------------------------------
(* The end of run, cancellation and crashes.                               *)

\* Mutant of RunReturns: producer_error is not raised.
RunReturnsDone ==
    /\ run = "running" /\ prod = "stopped" /\ cons = "stopped"
    /\ run' = "done"
    /\ UNCHANGED <<diskVars, attempt, prodVars, procVars, queue, consVars, upVars, lateVars>>

\* asyncio.gather returns: raise the producer's error or report "done".
RunReturns ==
    /\ run = "running" /\ prod = "stopped" /\ cons = "stopped"
    /\ run' = IF prodError THEN "failed" ELSE "done"
    /\ UNCHANGED <<diskVars, attempt, prodVars, procVars, queue, consVars, upVars, lateVars>>

\* The activity is cancelled while gather is pending.
Cancel ==
    /\ run = "running" /\ "cancel" \in Faults
    /\ ~(prod = "stopped" /\ cons = "stopped")
    /\ run' = "cancelling"
    /\ UNCHANGED <<diskVars, attempt, prodVars, procVars, queue, consVars, upVars, lateVars>>

\* CancelledError in the producer: its finally clause still puts None; with a
\* full queue and a cancelled consumer that put never returns.
ProducerCancelled ==
    /\ run = "cancelling" /\ prod \notin {"stopped", "leaked"}
    /\ \/ /\ prod = "end"
          /\ prod' = "stopped"
          /\ UNCHANGED queue
       \/ /\ prod # "end" /\ Len(queue) < QueueMaxSize
          /\ queue' = Append(queue, None)
          /\ prod' = "stopped"
       \/ /\ prod # "end" /\ Len(queue) >= QueueMaxSize
          /\ prod' = "leaked"
          /\ UNCHANGED queue
    /\ UNCHANGED <<diskVars, runVars, next, prodError, procVars, consVars, upVars, lateVars>>

\* CancelledError in the consumer: the upload coroutines die, also those whose
\* file is already stored; their threads cannot be stopped.
ConsumerCancelled ==
    /\ run = "cancelling" /\ cons # "stopped"
    /\ cons' = "stopped"
    /\ waiting' = {} /\ inThread' = {} /\ landed' = {}
    /\ ghosts' = ghosts \union inThread
    /\ UNCHANGED <<diskVars, runVars, prodVars, procVars, queue, taken, uploaded, failed, errors, orphans>>

\* Mutant of RunCancelled: the except clause does not terminate the process.
RunCancelledProcessLeft ==
    /\ run = "cancelling" /\ prod \in {"stopped", "leaked"} /\ cons = "stopped"
    /\ run' = "cancelled"
    /\ UNCHANGED <<diskVars, attempt, prodVars, procVars, queue, consVars, upVars, lateVars>>

\* The except clause of run: terminate, then kill, the `hf` process.
RunCancelled ==
    /\ run = "cancelling" /\ prod \in {"stopped", "leaked"} /\ cons = "stopped"
    /\ run' = "cancelled"
    /\ proc' = FALSE
    /\ UNCHANGED <<diskVars, attempt, prodVars, pipe, hurt, skipped, queue, consVars, upVars, lateVars>>

\* The worker is killed (deploy-workers.sh: pkill).  Its threads die with it,
\* its `hf` process does not.
Crash ==
    /\ "crash" \in Faults /\ run \in {"running", "cancelling"}
    /\ run' = "lost"
    /\ orphans' = IF proc THEN orphans \union (Chunks[next] \ staged) ELSE orphans
    /\ ghosts' = {}
    /\ proc' = FALSE
    /\ waiting' = {} /\ inThread' = {} /\ landed' = {}
    /\ UNCHANGED <<diskVars, attempt, prodVars, pipe, hurt, skipped, queue, consVars, uploaded, failed, errors>>

\* A thread left over from a cancelled attempt finishes, or fails.
GhostStores(f) ==
    /\ f \in ghosts
    /\ ghosts' = ghosts \ {f}
    /\ remote' = remote \union {f}
    /\ UNCHANGED <<staged, others, runVars, prodVars, procVars, queue, consVars, upVars, orphans>>

GhostFails(f) ==
    /\ f \in ghosts
    /\ ghosts' = ghosts \ {f}
    /\ UNCHANGED <<diskVars, runVars, prodVars, procVars, queue, consVars, upVars, orphans>>

\* An `hf` process left over from a killed worker writes a file, or dies.
OrphanWrites(f) ==
    /\ f \in orphans
    /\ DiskFree >= Size[f] \/ f \in staged
    /\ orphans' = orphans \ {f}
    /\ staged' = staged \union {f}
    /\ UNCHANGED <<remote, others, runVars, prodVars, procVars, queue, consVars, upVars, ghosts>>

OrphanDies ==
    /\ orphans # {}
    /\ orphans' = {}
    /\ UNCHANGED <<diskVars, runVars, prodVars, procVars, queue, consVars, upVars, ghosts>>

\* The worker's other tasks use or free disk.
OthersUseDisk ==
    /\ others' \in 0..OtherMax
    /\ DiskCapacity - Bytes(staged) - others' >= 0
    /\ UNCHANGED <<staged, remote, runVars, prodVars, procVars, queue, consVars, upVars, lateVars>>

Late ==
    \/ \E f \in Files : GhostStores(f) \/ GhostFails(f) \/ OrphanWrites(f)
    \/ OrphanDies

Next ==
    \/ Producer \/ Hf \/ Consumer
    \/ \E f \in Files : Upload(f)
    \/ RunReturns
    \/ Cancel \/ ProducerCancelled \/ ConsumerCancelled \/ RunCancelled
    \/ Crash \/ Retry
    \/ Late \/ OthersUseDisk

Spec == Init /\ [][Next]_vars

\* The event loop runs every ready coroutine, the `hf` process and the upload
\* threads make progress and end; nothing else is promised.
Fairness ==
    /\ WF_vars(Producer)
    /\ WF_vars(Hf)
    /\ WF_vars(Consumer)
    /\ \A f \in Files : WF_vars(Upload(f))
    /\ WF_vars(RunReturns)
    /\ WF_vars(ProducerCancelled) /\ WF_vars(ConsumerCancelled) /\ WF_vars(RunCancelled)

FairSpec == Spec /\ Fairness

-----------------------------------------------------------------------------
(* Properties.                                                             *)

RunStates == {"running", "cancelling", "done", "failed", "cancelled", "lost"}

TypeOK ==
    /\ staged \subseteq Files /\ remote \subseteq Files
    /\ others \in 0..OtherMax
    /\ run \in RunStates
    /\ attempt \in Nat
    /\ prod \in {"check", "sleep", "download", "put", "end", "stopped", "leaked"}
    /\ next \in 1..(NumChunks + 1)
    /\ prodError \in BOOLEAN /\ proc \in BOOLEAN /\ hurt \in BOOLEAN
    /\ pipe \in 0..PipeCapacity
    /\ skipped \subseteq Files
    /\ queue \in Seq({None} \union ChunkIds)
    /\ cons \in {"get", "upload", "stopped"}
    /\ taken \in {None} \union ChunkIds
    /\ waiting \subseteq Files /\ inThread \subseteq Files /\ landed \subseteq Files
    /\ uploaded \subseteq Files /\ failed \subseteq Files /\ errors \subseteq Files
    /\ ghosts \subseteq Files /\ orphans \subseteq Files

\* Files of the chunks the consumer has taken so far.
TakenFiles == UNION {Chunks[i] : i \in 1..taken}

\* While run is pending the queue holds exactly the chunks between the
\* consumer and the producer, in order, and the end marker comes last and only
\* once the producer is through.
QueueShape ==
    LET pending == next - 1 - taken IN
    run = "running" =>
        /\ taken <= next - 1
        /\ Len(queue) = IF prod = "stopped" /\ cons # "stopped"
                        THEN pending + 1 ELSE pending
        /\ \A i \in 1..pending : queue[i] = taken + i
        /\ prod = "stopped" /\ cons # "stopped" => queue[pending + 1] = None
        /\ cons = "stopped" => prod = "stopped" /\ pending = 0

\* The producer leaves its loop only after the last chunk or with an error, and
\* a download process always works on a chunk of the batch.
ProducerState ==
    /\ proc => next <= NumChunks
    /\ run = "running" =>
        /\ prod # "leaked"
        /\ prod \in {"check", "sleep", "download", "put"} => ~prodError
        /\ prod \in {"sleep", "download", "put"} => next <= NumChunks
        /\ prod \in {"end", "stopped"} => prodError \/ next = NumChunks + 1
        /\ proc <=> prod = "download"

\* Every file of a taken chunk is in exactly one of the five states of an
\* upload, and only files of the last one are in flight.
UploadState ==
    run = "running" =>
        /\ waiting \union inThread \union landed \union uploaded \union failed = TakenFiles
        /\ waiting \intersect (inThread \union landed \union uploaded \union failed) = {}
        /\ inThread \intersect (landed \union uploaded \union failed) = {}
        /\ landed \intersect (uploaded \union failed) = {}
        /\ uploaded \intersect failed = {}
        /\ cons = "upload" =>
              taken > 0 /\ waiting \union inThread \union landed \subseteq Chunks[taken]

\* What is queued or waits to be queued is in staging, or `hf` left it out.
QueuedIsStaged ==
    run = "running" =>
        /\ \A i \in (taken + 1)..(next - 1) : Chunks[i] \subseteq staged \union skipped
        /\ prod = "put" => Chunks[next] \subseteq staged \union skipped

\* A file in flight is in staging; a stored one is in BOS; an upload thread
\* nobody waits for any more reads a file that is in staging or in BOS.
InFlight ==
    /\ waiting \union inThread \union landed \subseteq staged
    /\ landed \subseteq remote
    /\ uploaded \subseteq remote
    /\ ghosts \subseteq staged \union remote

\* The uploads of an attempt are in flight only while its consumer uploads.
NothingInFlight ==
    \/ run \in {"running", "cancelling"} /\ cons = "upload"
    \/ waiting \union inThread \union landed = {}

\* A file is counted as failed only when its upload or unlink raised, or when
\* exists() does not find it because `hf` had left it out.
OnlyErrorsFail == run = "running" => failed \subseteq errors \union skipped

\* Accounted: when run reports "done", every file of the batch was counted
\* exactly once, as uploaded or as failed, and the uploaded ones are in BOS
\* (PipelineEngine.run returning stats after producer and consumer ended).
Accounted ==
    run = "done" =>
        /\ uploaded \union failed = Files
        /\ uploaded \intersect failed = {}
        /\ uploaded \subseteq remote

\* NoLoss: a batch that reports "done" lacks in BOS at most files whose own
\* upload raised or that `hf` left out of a chunk in this attempt (run returns
\* "done" with failed_files > 0), whatever failed downloads, cancellations,
\* crashes, leftover threads and leftover processes came before: no other file
\* is passed over because it was not found in staging.
NoLoss == run = "done" => Files \ remote \subseteq errors \union skipped

\* ProcessReaped: no `hf` process of this engine runs once run has returned
\* (the except clause of run terminates it on cancellation).
ProcessReaped == run \in {"done", "failed", "cancelled"} => ~proc

\* The strengthening of Accounted, NoLoss and ProcessReaped that every step preserves.
IInv ==
    /\ TypeOK
    /\ QueueShape /\ ProducerState /\ UploadState
    /\ QueuedIsStaged /\ InFlight /\ NothingInFlight
    /\ OnlyErrorsFail /\ Accounted /\ NoLoss /\ ProcessReaped

\* DownloadFits: the free-disk check before a chunk reserves enough for the
\* whole chunk, so a download in progress always has room for what is left of
\* it (DISK_FREE_MIN_GB against CHUNK_MAX_BYTES) - as long as the chunk is not
\* one file larger than the reserve, and nobody else uses the disk: neither
\* another task nor the `hf` process of a killed worker.
DownloadFits ==
    /\ proc /\ \A f \in Chunks[next] : Size[f] <= DiskFreeMin
    /\ others = 0 /\ (attempt = 1 \/ "crash" \notin Faults)
    => Bytes(Chunks[next] \ staged) <= DiskFree

\* The producer waits for disk, nothing is queued and nothing is being uploaded.
Starved ==
    /\ prod \in {"check", "sleep"} /\ next <= NumChunks
    /\ DiskFree < DiskFreeMin
    /\ queue = <<>> /\ cons = "get"

\* `hf` waits until somebody reads its output, which nobody does while it runs;
\* nothing is queued and nothing is being uploaded.
Jammed ==
    /\ proc /\ pipe = PipeCapacity /\ ~(Chunks[next] \subseteq staged)
    /\ queue = <<>> /\ cons = "get"

\* Which of the engine's coroutines, threads and processes can go on.
ProducerCanStep ==
    \/ prod \in {"check", "sleep"} /\ (next > NumChunks \/ DiskFree >= DiskFreeMin)
    \/ prod \in {"put", "end"} /\ Len(queue) < QueueMaxSize
HfCanStep ==
    LET left == Chunks[next] \ staged IN
    prod = "download" /\
        \/ left = {}
        \/ pipe < PipeCapacity /\ (DiskFree < Bytes(left) \/ \E f \in left : Size[f] <= DiskFree)
ConsumerCanStep ==
    \/ cons = "get" /\ queue # <<>>
    \/ cons = "upload" /\
          \/ waiting = {} \/ landed # {} \/ inThread # {}
          \/ Cardinality(inThread \union landed) < UploadConcurrency

\* NeverStuck: producer, `hf` process, bounded queue, consumer and upload
\* threads never all wait for each other: in every state of a pending run one
\* of them can go on or both coroutines have ended (and run returns), unless
\* the producer waits for disk or `hf` for a reader, with everything else done.
NeverStuck ==
    run = "running" =>
        \/ ProducerCanStep \/ HfCanStep \/ ConsumerCanStep
        \/ prod = "stopped" /\ cons = "stopped"
        \/ Starved \/ Jammed

\* EndsOrStarves: a pending run ends, unless its producer waits for disk that
\* nobody frees, or its `hf` for a reader that never comes.
EndsOrStarves ==
    run \in {"running", "cancelling"} ~> (run \notin {"running", "cancelling"} \/ Starved \/ Jammed)

\* StagedCopySpec: the engine implements StagedCopy: a local copy disappears
\* only after BOS has the file, a retry keeps what is staged, and "done" means
\* every file is stored or was counted as failed.
Phase ==
    IF run \in {"running", "cancelling"} THEN "open"
    ELSE IF run = "done" THEN "complete" ELSE "broken"

SC == INSTANCE StagedCopy WITH givenUp <- failed, phase <- Phase
StagedCopySpec == SC!Spec
=============================================================================

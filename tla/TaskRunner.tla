----------------------------- MODULE TaskRunner -----------------------------
(***************************************************************************)
(* dlm/worker/task_runner.py with movers/bos_sdk.py, the handlers and      *)
(* disk.py: the runs of one task on one worker.  A run downloads to the    *)
(* staging directory and moves what it finds there to BOS, all at once or, *)
(* when the disk is small for it, batch after batch; a run that fails is   *)
(* followed by another, as download.py retries.                            *)
(*                                                                         *)
(* Sizes are left out: whether a run is chunked, which of the files make   *)
(* up the next batch and whether files are small enough for a tar is       *)
(* chosen freely.  Files have the top-level directory DirOf[f] or lie in   *)
(* Root.  The bounds are those of `left`.                                  *)
(***************************************************************************)
EXTENDS Naturals, FiniteSets

CONSTANTS
    Files,          \* the files of the repository
    Root, DirOf,    \* no directory; the top-level directory of each file
    Hidden,         \* those EXCLUDE_PATTERNS matches
    Empty,          \* those of size 0
    MinFilesForTar, \* MIN_FILES_FOR_TAR
    Bounds          \* how often there is a cancel, a crash, a fault, disk pressure: the choices

ASSUME RunnerAssumption ==
    /\ DOMAIN DirOf = Files /\ Hidden \subseteq Files /\ Empty \subseteq Files
    /\ MinFilesForTar \in Nat
    /\ Bounds \subseteq [{"cancels", "crashes", "faults", "pressure"} -> Nat]

VARIABLES
    pc,        \* where the main thread is; "ready" between runs
    run,       \* locals of _run_chunked: chunked, remaining, batch, completed
    mover,     \* locals of the move: tarred, todo (to submit), roots, failed
    thread,    \* the state of the pool's job for each file, subdirectory, left tar
    cancel,    \* cancel_event
    staged,    \* files in the staging directory
    spare,     \* subdirectories whose tar lies in the staging directory
    direct,    \* files stored on BOS under their own key
    tars,      \* what the tar of each subdirectory on BOS holds
    progress,  \* the progress file on BOS
    left,      \* how much of Bounds is left
    skipped,   \* history: files a cancelled move left behind, or hf left out, without a word
    once       \* history: files that have been stored at some time

disk == <<staged, spare>>
bos == <<direct, tars>>
vars == <<pc, run, mover, thread, cancel, disk, bos, progress, left, skipped, once>>

Dirs == {DirOf[f] : f \in Files} \ {Root}
In(s) == {f \in Files : DirOf[f] = s}
TarFile(s) == <<s>>
TarFiles == {TarFile(s) : s \in Dirs}
Jobs == Files \union Dirs \union TarFiles
ASSUME NamesAssumption == Files \intersect Dirs = {} /\ TarFiles \intersect (Files \union Dirs) = {}
Stored == direct \union UNION {tars[s] : s \in Dirs}
NoThread == [u \in Jobs |-> "none"]
NoMove == [tarred |-> FALSE, todo |-> {}, roots |-> {}, failed |-> FALSE]
NoRun == [chunked |-> FALSE, remaining |-> {}, batch |-> {}, completed |-> {}]

Spend(what) == left[what] > 0 /\ left' = [left EXCEPT ![what] = @ - 1]
Goes(where) == pc' = where
\* An exception ends the run, and the locals of the run and of the move with it.
Raise == Goes("ready") /\ run' = NoRun /\ mover' = NoMove
EmptyStaging == staged' = {} /\ spare' = {}

Init ==
    /\ pc = "ready" /\ run = NoRun /\ mover = NoMove /\ thread = NoThread
    /\ cancel = FALSE
    /\ staged = {} /\ spare = {} /\ direct = {} /\ tars = [s \in Dirs |-> {}]
    /\ progress = {} /\ left \in Bounds /\ skipped = {} /\ once = {}

-----------------------------------------------------------------------------
(* run, _run_chunked, _run_simple                                          *)

Starts(event) ==
    /\ pc = "ready"
    /\ cancel' = event
    /\ \E chunked \in BOOLEAN :
         /\ run' = [NoRun EXCEPT !.chunked = chunked, !.batch = IF chunked THEN {} ELSE Files]
         /\ Goes(IF chunked THEN "list" ELSE "download")
    /\ UNCHANGED <<mover, thread, disk, bos, progress, left, skipped, once>>

\* A mutant of Start: the event outlives the run.
StartCancelled == Starts(cancel)

\* Each run of download_dataset has an event of its own.
Start == Starts(FALSE)

\* Validation, the listing or the check of the disk fails.
Refused ==
    /\ pc \in {"ready", "list"} /\ Spend("faults")
    /\ Raise
    /\ UNCHANGED <<thread, cancel, disk, bos, progress, skipped, once>>

\* The empty files are not listed; a progress file that cannot be read counts as none.
List ==
    /\ pc = "list"
    /\ \/ run' = [run EXCEPT !.completed = progress, !.remaining = (Files \ Empty) \ progress]
          /\ UNCHANGED left
       \/ Spend("faults") /\ run' = [run EXCEPT !.remaining = Files \ Empty]
    /\ Goes("batch")
    /\ UNCHANGED <<mover, thread, cancel, disk, bos, progress, skipped, once>>

\* Under pressure the staging directories are all removed.
Room == \/ UNCHANGED <<disk, left>>
        \/ Spend("pressure") /\ EmptyStaging

\* Takes(B, R): the batch is B, and R remains.
Takes(B, R) ==
    /\ pc = "batch" /\ ~cancel /\ B # {}
    /\ Room
    /\ run' = [run EXCEPT !.batch = B, !.remaining = R]
    /\ Goes("download")
    /\ UNCHANGED <<mover, thread, cancel, bos, progress, skipped, once>>

\* A mutant of TakeBatch: what does not fit is forgotten.
TakeBatchOnly == \E B \in SUBSET run.remaining : Takes(B, {})
TakeBatch == \E B \in SUBSET run.remaining : Takes(B, run.remaining \ B)

\* The event is set, or the disk is critically full even after the cleanup.
BatchRaises ==
    /\ pc = "batch" /\ run.remaining # {}
    /\ \/ cancel /\ UNCHANGED <<disk, left>>
       \/ ~cancel /\ Spend("pressure") /\ EmptyStaging
    /\ Raise
    /\ UNCHANGED <<thread, cancel, bos, progress, skipped, once>>

\* A batch is fetched by name.  Given several names, hf leaves out those that
\* are gone from the hub or read as patterns, and still returns 0.
LeavesOut(files) ==
    /\ files # {} => run.chunked /\ Cardinality(run.batch) > 1 /\ Spend("faults")
    /\ files = {} => UNCHANGED left

Downloaded ==
    /\ pc = "download"
    /\ \E out \in SUBSET (run.batch \ staged) :
          /\ LeavesOut(out)
          /\ staged' = staged \union (run.batch \ out)
          /\ skipped' = skipped \union out
    /\ Goes("move")
    /\ UNCHANGED <<run, mover, thread, cancel, spare, bos, progress, once>>

\* Some of the files may be complete when hf fails, stalls or is terminated.
DownloadFails ==
    /\ pc = "download"
    /\ \/ cancel /\ UNCHANGED left
       \/ Spend("faults")
    /\ \E part \in SUBSET run.batch : staged' = staged \union part
    /\ Raise
    /\ UNCHANGED <<thread, cancel, spare, bos, progress, skipped, once>>

\* A failure to write the progress file is swallowed.
Save ==
    /\ pc = "save"
    /\ run' = [run EXCEPT !.completed = @ \union run.batch]
    /\ \/ progress' = run'.completed /\ UNCHANGED left
       \/ UNCHANGED progress /\ Spend("faults")
    /\ Goes("clean")
    /\ UNCHANGED <<mover, thread, cancel, disk, bos, skipped, once>>

Clean ==
    /\ pc = "clean"
    /\ EmptyStaging
    /\ Goes(IF run.chunked THEN "batch" ELSE "done")
    /\ UNCHANGED <<run, mover, thread, cancel, bos, progress, left, skipped, once>>

ClearProgress ==
    /\ pc = "batch" /\ run.remaining = {}
    /\ \/ progress' = {} /\ UNCHANGED left
       \/ UNCHANGED progress /\ Spend("faults")
    /\ Goes("done")
    /\ UNCHANGED <<run, mover, thread, cancel, disk, bos, skipped, once>>

-----------------------------------------------------------------------------
(* BOSSDKMover                                                             *)

CollectFiles == (staged \ Hidden) \union {TarFile(s) : s \in spare}
InDir(u) == u \in Files /\ DirOf[u] # Root

Move ==
    /\ pc = "move"
    /\ \E tarred \in BOOLEAN :
         /\ tarred => Cardinality(CollectFiles) >= MinFilesForTar
         /\ mover' = [tarred |-> tarred, failed |-> FALSE,
                todo |-> IF tarred THEN {DirOf[f] : f \in {u \in CollectFiles : InDir(u)}}
                                   ELSE CollectFiles,
                roots |-> IF tarred THEN {u \in CollectFiles : ~InDir(u)} ELSE {}]
    /\ Goes("submit")
    /\ UNCHANGED <<run, thread, cancel, disk, bos, progress, left, skipped, once>>

Submit ==
    /\ pc = "submit" /\ ~cancel
    /\ \E u \in mover.todo :
         /\ mover' = [mover EXCEPT !.todo = @ \ {u}]
         /\ thread' = [thread EXCEPT ![u] = "queued"]
    /\ UNCHANGED <<pc, run, cancel, disk, bos, progress, left, skipped, once>>

Submitted ==
    /\ pc = "submit" /\ (cancel \/ mover.todo = {})
    /\ Goes("collect")
    /\ UNCHANGED <<run, mover, thread, cancel, disk, bos, progress, left, skipped, once>>

\* The jobs of the pool: a thread packs a subdirectory, stores, and removes what it packed.
Pack(s) ==
    /\ thread[s] = "queued"
    /\ thread' = [thread EXCEPT ![s] = "packed"]
    /\ spare' = spare \union {s}
    /\ UNCHANGED <<staged, bos, left, once>>

StoreTar(s) ==
    /\ thread[s] = "packed"
    /\ thread' = [thread EXCEPT ![s] = "unpacking"]
    /\ tars' = [tars EXCEPT ![s] = staged \intersect In(s)]
    /\ once' = once \union tars'[s]
    /\ UNCHANGED <<disk, direct, left>>

RemovePacked(s) ==
    /\ thread[s] = "unpacking"
    /\ thread' = [thread EXCEPT ![s] = "ended"]
    /\ staged' = staged \ In(s)
    /\ spare' = spare \ {s}
    /\ UNCHANGED <<bos, left, once>>

\* A tar that an earlier run left behind holds no file that is not staged.
Keeps(u) == direct' = direct \union ({u} \intersect Files) /\ once' = once \union ({u} \intersect Files)

StoreFile(u) ==
    /\ thread[u] = "queued"
    /\ thread' = [thread EXCEPT ![u] = "ended"]
    /\ Keeps(u)
    /\ UNCHANGED <<disk, tars, left>>

JobFails(u) ==
    /\ thread[u] \in {"queued", "packed"} /\ Spend("faults")
    /\ thread' = [thread EXCEPT ![u] = "failed"]
    /\ UNCHANGED <<disk, bos, once>>

Pool ==
    /\ \/ \E s \in Dirs : Pack(s) \/ StoreTar(s) \/ RemovePacked(s)
       \/ \E u \in Files \union TarFiles : StoreFile(u)
       \/ \E u \in Jobs : JobFails(u)
    /\ UNCHANGED <<pc, run, mover, cancel, progress, skipped>>

Unlink(u) ==
    /\ staged' = staged \ {u}
    /\ spare' = {s \in spare : TarFile(s) # u}

\* as_completed yields u.  What failed stays where it is.
Collects(u, unlinked) ==
    /\ pc = "collect" /\ ~cancel
    /\ thread[u] \in {"ended", "failed"}
    /\ IF unlinked THEN Unlink(u) ELSE UNCHANGED disk
    /\ mover' = [mover EXCEPT !.failed = @ \/ thread[u] = "failed"]
    /\ thread' = [thread EXCEPT ![u] = "none"]
    /\ UNCHANGED <<pc, run, cancel, bos, progress, left, skipped, once>>

\* A mutant of Collect: a file is removed however its upload ended.
CollectAny == \E u \in Jobs : Collects(u, u \notin Dirs)
Collect == \E u \in Jobs : Collects(u, u \notin Dirs /\ thread[u] = "ended")

\* The event is set: what no thread has begun is cancelled, and the pool waits for the rest.
Cancelled(where) ==
    /\ pc = "collect" /\ cancel
    /\ \E u \in Jobs : thread[u] \in {"ended", "failed"}
    /\ \E waiting \in SUBSET {u \in Jobs : thread[u] = "queued"} :
         thread' = [u \in Jobs |-> IF u \in waiting THEN "none" ELSE thread[u]]
    /\ Goes(where)
    /\ UNCHANGED <<run, mover, cancel, disk, bos, progress, left, skipped, once>>

\* A mutant of CollectRaises: nothing waits for the threads.
CollectLeaves == Cancelled("ready")
CollectRaises == Cancelled("drain")

Drained ==
    /\ pc = "drain"
    /\ \A u \in Jobs : thread[u] \in {"none", "ended", "failed"}
    /\ thread' = NoThread
    /\ Raise
    /\ UNCHANGED <<cancel, disk, bos, progress, left, skipped, once>>

Collected ==
    /\ pc = "collect" /\ thread = NoThread
    /\ Goes("root")
    /\ UNCHANGED <<run, mover, thread, cancel, disk, bos, progress, left, skipped, once>>

\* A tar that the pool has removed since cannot be uploaded.
MoveRootFile ==
    /\ pc = "root" /\ ~cancel
    /\ \E u \in mover.roots :
         \/ /\ u \in CollectFiles
            /\ Keeps(u) /\ Unlink(u)
            /\ mover' = [mover EXCEPT !.roots = @ \ {u}]
            /\ UNCHANGED left
         \/ /\ IF u \in CollectFiles THEN Spend("faults") ELSE UNCHANGED left
            /\ mover' = [mover EXCEPT !.roots = @ \ {u}, !.failed = TRUE]
            /\ UNCHANGED <<disk, direct, once>>
    /\ UNCHANGED <<pc, run, thread, cancel, tars, progress, skipped>>

RootRaises ==
    /\ pc = "root" /\ cancel /\ mover.roots # {}
    /\ Raise
    /\ UNCHANGED <<thread, cancel, disk, bos, progress, left, skipped, once>>

\* The move returns, or raises for what has failed.
Returns(raises) ==
    /\ pc = "root" /\ mover.roots = {}
    /\ IF raises THEN Raise /\ UNCHANGED skipped
       ELSE /\ Goes(IF run.chunked THEN "save" ELSE "clean")
            /\ mover' = NoMove
            /\ skipped' = IF cancel THEN skipped \union (staged \ (Hidden \union Stored)) ELSE skipped
            /\ UNCHANGED run
    /\ UNCHANGED <<thread, cancel, disk, bos, progress, left, once>>

\* A mutant of Moved: failures are only logged.
MovedAnyway == Returns(FALSE)
Moved == Returns(mover.failed)

-----------------------------------------------------------------------------
Cancel ==
    /\ pc \notin {"ready", "done"} /\ ~cancel /\ Spend("cancels")
    /\ cancel' = TRUE
    /\ UNCHANGED <<pc, run, mover, thread, disk, bos, progress, skipped, once>>

\* The worker process dies, and the threads of its pool with it.
Crash ==
    /\ pc \notin {"ready", "done"} /\ Spend("crashes")
    /\ \E part \in SUBSET run.batch : staged' = IF pc = "download" THEN staged \union part ELSE staged
    /\ thread' = NoThread
    /\ Raise
    /\ UNCHANGED <<cancel, spare, bos, progress, skipped, once>>

Works ==
    \/ Start \/ Refused \/ List \/ TakeBatch \/ BatchRaises
    \/ Downloaded \/ DownloadFails \/ Save \/ Clean \/ ClearProgress
    \/ Move \/ Submit \/ Submitted \/ Pool \/ Collect \/ CollectRaises \/ Drained \/ Collected
    \/ MoveRootFile \/ RootRaises \/ Moved

Next == Works \/ Cancel \/ Crash

Spec == Init /\ [][Next]_vars

\* The process goes on while it lives, and a task that failed is run again.
FairSpec == Spec /\ WF_vars(Works)

-----------------------------------------------------------------------------
\* Types; and no thread of the pool outlives its move (the with blocks of
\* bos_sdk.py), whatever ends the move.
TypeOK ==
    /\ pc \in {"ready", "list", "batch", "download", "move", "submit", "collect", "drain",
               "root", "save", "clean", "done"}
    /\ thread \in [Jobs -> {"none", "queued", "packed", "unpacking", "ended", "failed"}]
    /\ thread # NoThread => pc \in {"submit", "collect", "drain"}
    /\ {staged, direct, progress, run.remaining, run.completed, run.batch} \subseteq SUBSET Files
    /\ tars \in [Dirs -> SUBSET Files]
    /\ spare \subseteq Dirs

\* What a run may lose: the upload skips hidden names; a chunked run does not
\* list empty files; hf leaves names out of a batch that the run records as
\* completed (task_runner.py:200); a move cancelled before its first job returns
\* as if it had moved all (bos_sdk.py:91); and the tar of a subdirectory that
\* spans two batches replaces the one stored before (bos_sdk.py:162).
Lost == Hidden \union skipped \union (once \ Stored)

\* A run that returns (download.py then reports "done") has stored every
\* file of the repository, across failed and cancelled runs, crashes,
\* lost progress files and emptied disks, but for those Lost.
DoneIsStored == pc = "done" => Files \subseteq Stored \union Lost \union Empty

\* No file that a later run skips as completed (task_runner.py:130) is
\* missing on BOS, but for those Lost.
ProgressSound == progress \union run.completed \subseteq Stored \union Lost

\* A staged file goes only once it is stored, whatever fails or is cancelled
\* in the middle of the pool's work, unless the disk is emptied under pressure
\* or the file is Lost.
StagedUntilStored ==
    [][left'.pressure = left.pressure => staged \ staged' \subseteq (Stored \union Lost)']_vars

\* The runs come to an end once cancels, crashes and faults do: the tar that a
\* failed run left behind, or the event of a cancelled run, does not make
\* every later one fail.
EventuallyDone == <>(pc = "done")
=============================================================================

-------------------------- MODULE DownloadWorkflow --------------------------
(***************************************************************************)
(* dlm/temporal/workflows.py DownloadDatasetWorkflow with the activities   *)
(* of dlm/temporal/activities.py.  A job is one task of the dashboard; its *)
(* workflow is a sequence of activities.  list_repo_files runs on any      *)
(* worker of the shared queue and pins the others to the worker that holds *)
(* the file list.  A worker keeps one staging directory per task NAME: the *)
(* file lists, the progress file and the files in transit.                 *)
(*                                                                         *)
(* run_pipeline_batch is what StagedCopy promises of PipelineEngine: a     *)
(* batch that reports success has stored or given up each of its files.    *)
(* A repository is its files that have a size, in the hub's order, and its *)
(* empty files, which list_repo_files leaves out: no workflow stores them. *)
(* Temporal (the retries of an activity, one open workflow per id) is      *)
(* external.                                                               *)
(***************************************************************************)
EXTENDS Integers, Sequences, FiniteSets

CONSTANTS
    Jobs,              \* the tasks
    Dirs,              \* task names: staging directories and BOS prefixes
    DirOf,             \* the name of each task
    PartOf,            \* 0, or the partition whose list a split child is given
    Workers,           \* workers of the shared queue
    BatchSize,         \* BATCH_SIZE
    MaxBatchAttempts,  \* maximum_attempts of run_pipeline_batch
    MaxRuns,           \* bound on the workflows started for one job
    InitialRepo,       \* the hub's repository of each job
    UpdatedRepo,       \* what it is after the repository's owner changed it
    Faults             \* the kinds of fault that may happen

\* "upload": an upload fails; "skip": hf ends well and has left a file out.
\* Either way the batch only counts the file as failed.
FaultKinds == {"upload", "skip", "abort", "cancel", "list", "update"}
GivingUp == Faults \intersect {"upload", "skip"} # {}

FilesOf(s) == {s[i] : i \in 1..Len(s)}
Tree(r) == FilesOf(r.sized) \union r.empty
AllFiles == UNION {Tree(InitialRepo[j]) \union Tree(UpdatedRepo[j]) : j \in Jobs}
Repositories == [sized : Seq(AllFiles), empty : SUBSET AllFiles]
Parts == 0..Cardinality(Jobs)      \* .filelist.json and .filelist-part<i>.json
NoList == <<"no list">>            \* the list file does not exist
NoWorker == "none"

ASSUME JobsAssumption ==
    /\ IsFiniteSet(Jobs)
    /\ DirOf \in [Jobs -> Dirs]
    /\ PartOf \in [Jobs -> Parts]
    /\ NoWorker \notin Workers
    /\ InitialRepo \in [Jobs -> Repositories] /\ UpdatedRepo \in [Jobs -> Repositories]
ASSUME LimitsAssumption ==
    /\ BatchSize \in Nat \ {0}
    /\ MaxBatchAttempts \in Nat \ {0}
    /\ MaxRuns \in Nat
ASSUME WorkflowFaultsAssumption == Faults \subseteq FaultKinds

VARIABLES
    repo,      \* the hub's current repository of each job
    lists,     \* the file lists in each worker's staging directories
    progress,  \* the number of markers in each .progress.json (0: no file)
    remote,    \* BOS: pairs of a prefix and a file
    pc,        \* the activity each workflow waits for
    runs,      \* workflows started for each job
    pinned,    \* worker_queue of each workflow
    total,     \* total_file_count
    doneB,     \* batches the workflow counts as completed
    given,     \* files that its batches only counted as failed (history)
    tries,     \* attempts of the current run_pipeline_batch
    batch,     \* files the running batch works on
    wiped,     \* its staging directory was removed under it
    late,      \* files that an attempt Temporal has given up may still store
    row        \* the dashboard's status of each job

diskVars == <<lists, progress>>
flowVars == <<runs, pinned, total, doneB, given>>
batchVars == <<tries, batch, wiped, late>>
vars == <<repo, lists, progress, remote, pc, runs, pinned, total, doneB, given,
          tries, batch, wiped, late, row>>

\* Files at the positions of batch n (counted from 0) of a list, start_idx to
\* start_idx + batch_size, where batch_size comes from the workflow's total.
BatchFiles(list, n, count) ==
    {list[i] : i \in {k \in 1..Len(list) :
                         k > n * BatchSize /\ k <= (n + 1) * BatchSize /\ k <= count}}

\* Mutant of AfterBatches: only full batches are run.
AfterFullBatches(n, count) ==
    IF (n + 1) * BatchSize <= count THEN "announce" ELSE "clear"

\* The activity after progress was loaded or saved: another batch, or the end.
AfterBatches(n, count) == IF n * BatchSize < count THEN "announce" ELSE "clear"

Open == {"report", "list", "read", "load", "announce", "batch", "inBatch",
         "save", "clear", "clean", "reportDone", "reportFailed"}
\* "failed" is a returned result, "raised" an exception of the workflow.
Ended == {"done", "failed", "raised", "cancelled"}

Init ==
    /\ repo = InitialRepo
    /\ lists = [w \in Workers |-> [d \in Dirs |-> [p \in Parts |-> NoList]]]
    /\ progress = [w \in Workers |-> [d \in Dirs |-> 0]]
    /\ remote = {}
    /\ pc = [j \in Jobs |-> "idle"]
    /\ runs = [j \in Jobs |-> 0]
    /\ pinned = [j \in Jobs |-> NoWorker]
    /\ total = [j \in Jobs |-> 0]
    /\ doneB = [j \in Jobs |-> 0]
    /\ given = [j \in Jobs |-> {}]
    /\ tries = [j \in Jobs |-> 0]
    /\ batch = [j \in Jobs |-> {}]
    /\ wiped = [j \in Jobs |-> FALSE]
    /\ late = [j \in Jobs |-> {}]
    /\ row = [j \in Jobs |-> "pending"]

-----------------------------------------------------------------------------
(* The activities, in the order of the workflow.                           *)

\* start_workflow: a first run, or another one after the last has ended, also
\* with "done".  A split child is started on the queue of worker w.
Dispatch(j, w) ==
    /\ pc[j] \notin Open /\ runs[j] < MaxRuns
    /\ pc' = [pc EXCEPT ![j] = "report"]
    /\ runs' = [runs EXCEPT ![j] = @ + 1]
    /\ pinned' = [pinned EXCEPT ![j] = IF PartOf[j] = 0 THEN NoWorker ELSE w]
    /\ total' = [total EXCEPT ![j] = 0]
    /\ doneB' = [doneB EXCEPT ![j] = 0]
    /\ tries' = [tries EXCEPT ![j] = 0]
    /\ UNCHANGED <<repo, diskVars, remote, given, batch, wiped, late, row>>

ReportStarting(j) ==
    /\ pc[j] = "report"
    /\ row' = [row EXCEPT ![j] = "downloading"]
    /\ pc' = [pc EXCEPT ![j] = IF PartOf[j] = 0 THEN "list" ELSE "read"]
    /\ UNCHANGED <<repo, diskVars, remote, flowVars, batchVars>>

\* What list_repo_files keeps of the hub's tree: the items with a size that is
\* not 0.
Listing(r) == r.sized

\* Mutant of ListRepoFiles: a new listing starts with an empty directory.
ListRepoFilesAfresh(j, w) ==
    /\ pc[j] = "list"
    /\ lists' = [lists EXCEPT ![w][DirOf[j]][0] = Listing(repo[j])]
    /\ progress' = [progress EXCEPT ![w][DirOf[j]] = 0]
    /\ pinned' = [pinned EXCEPT ![j] = w]
    /\ total' = [total EXCEPT ![j] = Len(Listing(repo[j]))]
    /\ pc' = [pc EXCEPT ![j] = IF Listing(repo[j]) = <<>> THEN "reportFailed" ELSE "load"]
    /\ UNCHANGED <<repo, remote, runs, doneB, given, batchVars, row>>

\* list_repo_files on worker w: overwrite the list, pin the workflow to w.
ListRepoFiles(j, w) ==
    /\ pc[j] = "list"
    /\ lists' = [lists EXCEPT ![w][DirOf[j]][0] = Listing(repo[j])]
    /\ pinned' = [pinned EXCEPT ![j] = w]
    /\ total' = [total EXCEPT ![j] = Len(Listing(repo[j]))]
    /\ pc' = [pc EXCEPT ![j] = IF Listing(repo[j]) = <<>> THEN "reportFailed" ELSE "load"]
    /\ UNCHANGED <<repo, progress, remote, runs, doneB, given, batchVars, row>>

\* All attempts of list_repo_files failed, or the workflow is cancelled while
\* it waits for them: the except clause takes both for a failure.
ListFails(j) ==
    /\ pc[j] = "list" /\ Faults \intersect {"list", "cancel"} # {}
    /\ pc' = [pc EXCEPT ![j] = "reportFailed"]
    /\ UNCHANGED <<repo, diskVars, remote, flowVars, batchVars, row>>

\* read_filelist of a split child: a list that is gone counts as empty.
ReadFilelist(j) ==
    LET list == lists[pinned[j]][DirOf[j]][PartOf[j]]
        count == IF list = NoList THEN 0 ELSE Len(list)
    IN  /\ pc[j] = "read"
        /\ total' = [total EXCEPT ![j] = count]
        /\ pc' = [pc EXCEPT ![j] = IF count = 0 THEN "reportFailed" ELSE "load"]
        /\ UNCHANGED <<repo, diskVars, remote, runs, pinned, doneB, given, batchVars, row>>

\* load_progress: the number of markers is the number of batches to skip.
LoadProgress(j) ==
    LET n == progress[pinned[j]][DirOf[j]]
    IN  /\ pc[j] = "load"
        /\ doneB' = [doneB EXCEPT ![j] = n]
        /\ pc' = [pc EXCEPT ![j] = AfterBatches(n, total[j])]
        /\ UNCHANGED <<repo, diskVars, remote, runs, pinned, total, given, batchVars, row>>

ReportBatch(j) ==
    /\ pc[j] = "announce"
    /\ row' = [row EXCEPT ![j] = "downloading"]
    /\ pc' = [pc EXCEPT ![j] = "batch"]
    /\ UNCHANGED <<repo, diskVars, remote, flowVars, batchVars>>

\* Mutant of StartBatch: attempts are not counted (no maximum_attempts).
StartBatchUncounted(j) ==
    LET list == lists[pinned[j]][DirOf[j]][PartOf[j]]
    IN  /\ pc[j] = "batch" /\ list # NoList
        /\ batch' = [batch EXCEPT ![j] = BatchFiles(list, doneB[j], total[j])]
        /\ wiped' = [wiped EXCEPT ![j] = FALSE]
        /\ pc' = [pc EXCEPT ![j] = "inBatch"]
        /\ UNCHANGED <<repo, diskVars, remote, flowVars, tries, late, row>>

\* Mutant of StartBatch: the batch reads .filelist.json, not the part's list.
StartBatchOfWholeList(j) ==
    LET list == lists[pinned[j]][DirOf[j]][0]
    IN  /\ pc[j] = "batch" /\ list # NoList
        /\ batch' = [batch EXCEPT ![j] = BatchFiles(list, doneB[j], total[j])]
        /\ tries' = [tries EXCEPT ![j] = @ + 1]
        /\ wiped' = [wiped EXCEPT ![j] = FALSE]
        /\ pc' = [pc EXCEPT ![j] = "inBatch"]
        /\ UNCHANGED <<repo, diskVars, remote, flowVars, late, row>>

\* run_pipeline_batch reads the list file again and starts on its slice.
StartBatch(j) ==
    LET list == lists[pinned[j]][DirOf[j]][PartOf[j]]
    IN  /\ pc[j] = "batch" /\ list # NoList
        /\ batch' = [batch EXCEPT ![j] = BatchFiles(list, doneB[j], total[j])]
        /\ tries' = [tries EXCEPT ![j] = @ + 1]
        /\ wiped' = [wiped EXCEPT ![j] = FALSE]
        /\ pc' = [pc EXCEPT ![j] = "inBatch"]
        /\ UNCHANGED <<repo, diskVars, remote, flowVars, late, row>>

\* Mutant of ListGone: the batch waits for the list to come back.
ListAwaited(j) ==
    /\ pc[j] = "batch"
    /\ lists[pinned[j]][DirOf[j]][PartOf[j]] = NoList
    /\ UNCHANGED vars

\* The list file is gone: no attempt can succeed, and the workflow fails
\* without a report.
ListGone(j) ==
    /\ pc[j] = "batch"
    /\ lists[pinned[j]][DirOf[j]][PartOf[j]] = NoList
    /\ pc' = [pc EXCEPT ![j] = "raised"]
    /\ UNCHANGED <<repo, diskVars, remote, flowVars, batchVars, row>>

Stores(j, S) == remote' = remote \union ({DirOf[j]} \X S)

\* The batch reports success.  Files whose upload failed, that hf left out, or
\* that were removed from the staging directory under it, were only counted.
BatchSucceeds(j) ==
    /\ pc[j] = "inBatch"
    /\ \E S \in SUBSET batch[j] :
          /\ S = batch[j] \/ GivingUp \/ wiped[j]
          /\ Stores(j, S)
          /\ given' = [given EXCEPT ![j] = @ \union (batch[j] \ S)]
    /\ batch' = [batch EXCEPT ![j] = {}]
    /\ doneB' = [doneB EXCEPT ![j] = @ + 1]
    /\ tries' = [tries EXCEPT ![j] = 0]
    /\ pc' = [pc EXCEPT ![j] = "save"]
    /\ UNCHANGED <<repo, diskVars, runs, pinned, total, wiped, late, row>>

\* Mutant of BatchAborts: after the last attempt the workflow takes the batch
\* for done and goes on.
BatchAbortsSkipped(j) ==
    /\ pc[j] = "inBatch"
    /\ "abort" \in Faults \/ wiped[j]
    /\ \E S \in SUBSET batch[j] :
          /\ Stores(j, S)
          /\ late' \in {late, [late EXCEPT ![j] = @ \union (batch[j] \ S)]}
    /\ batch' = [batch EXCEPT ![j] = {}]
    /\ doneB' = [doneB EXCEPT ![j] = IF tries[j] < MaxBatchAttempts THEN @ ELSE @ + 1]
    /\ pc' = [pc EXCEPT ![j] = IF tries[j] < MaxBatchAttempts THEN "batch" ELSE "save"]
    /\ UNCHANGED <<repo, diskVars, runs, pinned, total, given, tries, wiped, row>>

\* The attempt ends badly with some files stored.  One that only lost its
\* heartbeats runs on and may store more (late).  After the last attempt the
\* workflow raises: no report reaches the dashboard.
BatchAborts(j) ==
    /\ pc[j] = "inBatch"
    /\ "abort" \in Faults \/ wiped[j]
    /\ \E S \in SUBSET batch[j] :
          /\ Stores(j, S)
          /\ late' \in {late, [late EXCEPT ![j] = @ \union (batch[j] \ S)]}
    /\ batch' = [batch EXCEPT ![j] = {}]
    /\ pc' = [pc EXCEPT ![j] = IF tries[j] < MaxBatchAttempts THEN "batch" ELSE "raised"]
    /\ UNCHANGED <<repo, diskVars, flowVars, tries, wiped, row>>

SaveProgress(j) ==
    /\ pc[j] = "save"
    /\ progress' = [progress EXCEPT ![pinned[j]][DirOf[j]] = doneB[j]]
    /\ pc' = [pc EXCEPT ![j] = AfterBatches(doneB[j], total[j])]
    /\ UNCHANGED <<repo, lists, remote, flowVars, batchVars, row>>

ClearProgress(j) ==
    /\ pc[j] = "clear"
    /\ progress' = [progress EXCEPT ![pinned[j]][DirOf[j]] = 0]
    /\ pc' = [pc EXCEPT ![j] = "clean"]
    /\ UNCHANGED <<repo, lists, remote, flowVars, batchVars, row>>

\* cleanup_staging(name, keep_progress=False): the whole directory goes, also
\* under another job that works in it.
CleanupStaging(j) ==
    LET w == pinned[j]
        d == DirOf[j]
    IN  /\ pc[j] = "clean"
        /\ lists' = [lists EXCEPT ![w][d] = [p \in Parts |-> NoList]]
        /\ progress' = [progress EXCEPT ![w][d] = 0]
        /\ wiped' = [k \in Jobs |->
              wiped[k] \/ (pc[k] = "inBatch" /\ pinned[k] = w /\ DirOf[k] = d)]
        /\ pc' = [pc EXCEPT ![j] = "reportDone"]
        /\ UNCHANGED <<repo, remote, flowVars, tries, batch, late, row>>

ReportDone(j) ==
    /\ pc[j] = "reportDone"
    /\ row' = [row EXCEPT ![j] = "done"]
    /\ pc' = [pc EXCEPT ![j] = "done"]
    /\ UNCHANGED <<repo, diskVars, remote, flowVars, batchVars>>

\* Mutant of ReportFailed: the error text lands in the status column.
ReportFailedAsError(j) ==
    /\ pc[j] = "reportFailed"
    /\ row' = [row EXCEPT ![j] = "error"]
    /\ pc' = [pc EXCEPT ![j] = "failed"]
    /\ UNCHANGED <<repo, diskVars, remote, flowVars, batchVars>>

ReportFailed(j) ==
    /\ pc[j] = "reportFailed"
    /\ row' = [row EXCEPT ![j] = "failed"]
    /\ pc' = [pc EXCEPT ![j] = "failed"]
    /\ UNCHANGED <<repo, diskVars, remote, flowVars, batchVars>>

\* The workflow is cancelled anywhere else.  It does not wait for a running
\* batch, which learns of it with its next heartbeat and may store more files.
Cancelled(j) ==
    /\ "cancel" \in Faults /\ pc[j] \in Open \ {"list"}
    /\ late' = [late EXCEPT ![j] = @ \union batch[j]]
    /\ batch' = [batch EXCEPT ![j] = {}]
    /\ pc' = [pc EXCEPT ![j] = "cancelled"]
    /\ UNCHANGED <<repo, diskVars, remote, flowVars, tries, wiped, row>>

LateStores(j, f) ==
    /\ f \in late[j]
    /\ late' = [late EXCEPT ![j] = @ \ {f}]
    /\ Stores(j, {f})
    /\ UNCHANGED <<repo, diskVars, pc, flowVars, tries, batch, wiped, row>>

LateStops(j) ==
    /\ late[j] # {}
    /\ late' = [late EXCEPT ![j] = {}]
    /\ UNCHANGED <<repo, diskVars, remote, pc, flowVars, tries, batch, wiped, row>>

\* The owner of the repository pushes a new version.
UpdateRepo(j) ==
    /\ "update" \in Faults
    /\ repo' = [repo EXCEPT ![j] = UpdatedRepo[j]]
    /\ UNCHANGED <<diskVars, remote, pc, flowVars, batchVars, row>>

Activity(j) ==
    \/ ReportStarting(j) \/ (\E w \in Workers : ListRepoFiles(j, w)) \/ ListFails(j)
    \/ ReadFilelist(j) \/ LoadProgress(j) \/ ReportBatch(j)
    \/ StartBatch(j) \/ ListGone(j) \/ BatchSucceeds(j) \/ BatchAborts(j)
    \/ SaveProgress(j) \/ ClearProgress(j) \/ CleanupStaging(j)
    \/ ReportDone(j) \/ ReportFailed(j)

Next ==
    \E j \in Jobs :
        \/ \E w \in Workers : Dispatch(j, w)
        \/ Activity(j) \/ Cancelled(j) \/ UpdateRepo(j)
        \/ (\E f \in AllFiles : LateStores(j, f)) \/ LateStops(j)

Spec == Init /\ [][Next]_vars

\* Temporal runs the next activity of an open workflow until it has a result.
FairSpec == Spec /\ \A j \in Jobs : WF_vars(Activity(j))

-----------------------------------------------------------------------------
(* Properties.                                                             *)

TypeOK ==
    /\ repo \in [Jobs -> Repositories]
    /\ lists \in [Workers -> [Dirs -> [Parts -> Seq(AllFiles) \union {NoList}]]]
    /\ progress \in [Workers -> [Dirs -> Nat]]
    /\ remote \subseteq Dirs \X AllFiles
    /\ pc \in [Jobs -> Open \union Ended \union {"idle"}]
    /\ runs \in [Jobs -> Nat]
    /\ pinned \in [Jobs -> Workers \union {NoWorker}]
    /\ total \in [Jobs -> Nat] /\ doneB \in [Jobs -> Nat] /\ tries \in [Jobs -> Nat]
    /\ given \in [Jobs -> SUBSET AllFiles] /\ batch \in [Jobs -> SUBSET AllFiles]
    /\ late \in [Jobs -> SUBSET AllFiles]
    /\ wiped \in [Jobs -> BOOLEAN]
    /\ row \in [Jobs -> {"pending", "downloading", "done", "failed"}]

\* Files of the first n batches of a sequence.
FirstBatches(s, n) == {s[i] : i \in {k \in 1..Len(s) : k <= n * BatchSize}}

\* What job j has settled: stored in BOS, or counted as failed by a batch that
\* went on.
Settled(j, files) == \A f \in files : <<DirOf[j], f>> \in remote \/ f \in given[j]

\* DoneIsStored: a workflow that reports "done" has settled every file of its
\* repository that is not empty: none is missing from BOS but those its own
\* batches counted as failed, over all aborted batches, cancelled and repeated
\* workflows and changes of worker (DownloadDatasetWorkflow.run).
DoneIsStored ==
    \A j \in Jobs : pc[j] \in {"clear", "clean", "reportDone", "done"} =>
        Settled(j, Tree(repo[j]) \ repo[j].empty)

\* ProgressSound: so are the batches that a worker's progress file marks as
\* done, which the next workflow skips (load_progress).
ProgressSound ==
    \A j \in Jobs, w \in Workers :
        Settled(j, FirstBatches(Listing(repo[j]), progress[w][DirOf[j]]))

\* MarkedIsUploaded: the files of those batches are in BOS: load_progress
\* "Load list of already-uploaded file paths".
MarkedIsUploaded ==
    \A j \in Jobs, w \in Workers :
        \A f \in FirstBatches(Listing(repo[j]), progress[w][DirOf[j]]) : <<DirOf[j], f>> \in remote

\* NeverForgets: what BOS holds is never lost, and while a job's workflow is
\* not at its end its progress file never goes back (the checkpoints of a job
\* that owns its directory only grow until clear_progress).
NeverForgets ==
    [][ /\ remote \subseteq remote'
        /\ \A w \in Workers, d \in Dirs :
              progress'[w][d] < progress[w][d] =>
                  \E j \in Jobs : DirOf[j] = d /\ pinned[j] = w /\ pc[j] \in {"clear", "clean"} ]_vars

\* WorkflowEnds: every workflow that was started ends.
WorkflowEnds ==
    \A j \in Jobs : (pc[j] = "report") ~> (pc[j] \in Ended)
=============================================================================

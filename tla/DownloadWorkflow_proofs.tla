---------------------- MODULE DownloadWorkflow_proofs ----------------------
(***************************************************************************)
(* Theorems about DownloadDatasetWorkflow: its types, for any tasks; and,  *)
(* for each task that has a directory of its own, that its checkpoints are *)
(* sound, that they do not go back, and that "done" means settled: stored, *)
(* or counted as failed by its own batches - whatever the other tasks      *)
(* share, and for any number of tasks, workers, files, runs and attempts,  *)
(* aborts, cancels and late stores.                                        *)
(***************************************************************************)
EXTENDS DownloadWorkflow, FiniteSetTheorems, TLAPS

\* Where a workflow has its worker.
Placed(j) ==
    \/ pc[j] \in {"read", "load", "announce", "batch", "inBatch", "save", "clear", "clean"}
    \/ pc[j] = "report" /\ PartOf[j] # 0

Types == TypeOK /\ \A j \in Jobs : Placed(j) => pinned[j] \in Workers

-----------------------------------------------------------------------------
\* The list of a whole repository has an index.
LEMMA ZeroIsAPart == 0 \in Parts
  BY JobsAssumption, FS_CardinalityType DEF Parts

\* A slice of a list is of its files.
LEMMA BatchOfFiles ==
    ASSUME NEW list \in Seq(AllFiles), NEW n, NEW count PROVE BatchFiles(list, n, count) \subseteq AllFiles
  BY DEF BatchFiles

\* Initially nothing is started.
LEMMA WorkflowInit == ASSUME Init PROVE Types
<1>1. repo \in [Jobs -> Repositories]
  BY JobsAssumption DEF Init
<1>2. TypeOK
  BY <1>1 DEF Init, TypeOK
<1>3. \A j \in Jobs : ~Placed(j)
  BY DEF Init, Placed
<1>4. QED BY <1>2, <1>3 DEF Types

\* Every step keeps the types.
LEMMA WorkflowStep == ASSUME Types, [Next]_vars PROVE Types'
<1> USE DEF Types, TypeOK, Placed, Open, Ended
<1>1. CASE UNCHANGED vars
  BY <1>1 DEF vars, diskVars, flowVars, batchVars
<1> SUFFICES ASSUME NEW j \in Jobs, \/ \E w \in Workers : Dispatch(j, w)
                                    \/ Activity(j) \/ Cancelled(j) \/ UpdateRepo(j)
                                    \/ (\E f \in AllFiles : LateStores(j, f)) \/ LateStops(j)
             PROVE  Types'
  BY <1>1 DEF Next
<1>2. CASE \E w \in Workers : Dispatch(j, w)
  BY <1>2, JobsAssumption DEF Dispatch, diskVars
<1>3. CASE ReportStarting(j)
  BY <1>3 DEF ReportStarting, diskVars, flowVars, batchVars
<1>4. ASSUME NEW w \in Workers, ListRepoFiles(j, w) PROVE Types'
  <2>1. DirOf[j] \in Dirs /\ 0 \in Parts /\ Listing(repo[j]) \in Seq(AllFiles)
    BY JobsAssumption, ZeroIsAPart DEF Repositories, Listing
  <2>2. lists' \in [Workers -> [Dirs -> [Parts -> Seq(AllFiles) \union {NoList}]]]
    BY <1>4, <2>1 DEF ListRepoFiles
  <2>3. total' \in [Jobs -> Nat]
    BY <1>4 DEF ListRepoFiles
  <2>4. QED BY <1>4, <2>2, <2>3 DEF ListRepoFiles, batchVars
<1>5. CASE ListFails(j)
  BY <1>5 DEF ListFails, diskVars, flowVars, batchVars
<1>6. CASE ReadFilelist(j)
  <2> DEFINE list == lists[pinned[j]][DirOf[j]][PartOf[j]]
             count == IF list = NoList THEN 0 ELSE Len(list)
  <2>1. pinned[j] \in Workers /\ DirOf[j] \in Dirs /\ PartOf[j] \in Parts
    BY <1>6, JobsAssumption DEF ReadFilelist
  <2>2. list \in Seq(AllFiles) \union {NoList}
    BY <2>1
  <2>3. count \in Nat
    <3> HIDE DEF list
    <3>1. CASE list = NoList
      BY <3>1
    <3>2. CASE list # NoList
      BY <2>2, <3>2
    <3>3. QED BY <3>1, <3>2
  <2>4. /\ total' = [total EXCEPT ![j] = count]
        /\ pc' = [pc EXCEPT ![j] = IF count = 0 THEN "reportFailed" ELSE "load"]
        /\ UNCHANGED <<repo, diskVars, remote, runs, pinned, doneB, given, batchVars, row>>
        /\ pc[j] = "read"
    BY <1>6 DEF ReadFilelist
  <2> HIDE DEF count
  <2>5. QED BY <2>1, <2>3, <2>4 DEF diskVars, batchVars
<1>7. CASE LoadProgress(j)
  <2>1. pinned[j] \in Workers /\ DirOf[j] \in Dirs
    BY <1>7, JobsAssumption DEF LoadProgress
  <2>2. progress[pinned[j]][DirOf[j]] \in Nat
    BY <2>1
  <2>3. QED BY <1>7, <2>1, <2>2 DEF LoadProgress, AfterBatches, diskVars, batchVars
<1>8. CASE ReportBatch(j)
  BY <1>8 DEF ReportBatch, diskVars, flowVars, batchVars
<1>9. CASE StartBatch(j)
  <2> DEFINE list == lists[pinned[j]][DirOf[j]][PartOf[j]]
  <2>1. pinned[j] \in Workers /\ DirOf[j] \in Dirs /\ PartOf[j] \in Parts
    BY <1>9, JobsAssumption DEF StartBatch
  <2>2. list \in Seq(AllFiles)
    BY <1>9, <2>1 DEF StartBatch
  <2>3. BatchFiles(list, doneB[j], total[j]) \subseteq AllFiles
    BY <2>2, BatchOfFiles
  <2>4. QED BY <1>9, <2>1, <2>3 DEF StartBatch, diskVars, flowVars
<1>10. CASE ListGone(j)
  BY <1>10 DEF ListGone, diskVars, flowVars, batchVars
<1>11. CASE BatchSucceeds(j)
  <2>1. PICK S \in SUBSET batch[j] :
          Stores(j, S) /\ given' = [given EXCEPT ![j] = @ \union (batch[j] \ S)]
    BY <1>11 DEF BatchSucceeds
  <2>2. remote' \subseteq Dirs \X AllFiles
    BY <2>1, JobsAssumption DEF Stores
  <2>3. given' \in [Jobs -> SUBSET AllFiles]
    BY <2>1
  <2>4. QED BY <1>11, <2>2, <2>3 DEF BatchSucceeds, diskVars
<1>12. CASE BatchAborts(j)
  <2>1. PICK S \in SUBSET batch[j] :
          Stores(j, S) /\ late' \in {late, [late EXCEPT ![j] = @ \union (batch[j] \ S)]}
    BY <1>12 DEF BatchAborts
  <2>2. remote' \subseteq Dirs \X AllFiles
    BY <2>1, JobsAssumption DEF Stores
  <2>3. late' \in [Jobs -> SUBSET AllFiles]
    BY <2>1
  <2>4. QED BY <1>12, <2>2, <2>3 DEF BatchAborts, diskVars, flowVars
<1>13. CASE SaveProgress(j)
  <2>1. pinned[j] \in Workers /\ DirOf[j] \in Dirs
    BY <1>13, JobsAssumption DEF SaveProgress
  <2>2. progress' \in [Workers -> [Dirs -> Nat]]
    BY <1>13, <2>1 DEF SaveProgress
  <2>3. QED BY <1>13, <2>1, <2>2 DEF SaveProgress, AfterBatches, flowVars, batchVars
<1>14. CASE ClearProgress(j)
  <2>1. pinned[j] \in Workers /\ DirOf[j] \in Dirs
    BY <1>14, JobsAssumption DEF ClearProgress
  <2>2. progress' \in [Workers -> [Dirs -> Nat]]
    BY <1>14, <2>1 DEF ClearProgress
  <2>3. QED BY <1>14, <2>1, <2>2 DEF ClearProgress, flowVars, batchVars
<1>15. CASE CleanupStaging(j)
  <2>1. pinned[j] \in Workers /\ DirOf[j] \in Dirs
    BY <1>15, JobsAssumption DEF CleanupStaging
  <2>2. /\ progress' \in [Workers -> [Dirs -> Nat]]
        /\ lists' \in [Workers -> [Dirs -> [Parts -> Seq(AllFiles) \union {NoList}]]]
    BY <1>15, <2>1 DEF CleanupStaging
  <2>3. QED BY <1>15, <2>2 DEF CleanupStaging, flowVars
<1>16. CASE ReportDone(j)
  BY <1>16 DEF ReportDone, diskVars, flowVars, batchVars
<1>17. CASE ReportFailed(j)
  BY <1>17 DEF ReportFailed, diskVars, flowVars, batchVars
<1>18. CASE Cancelled(j)
  BY <1>18 DEF Cancelled, diskVars, flowVars
<1>19. CASE UpdateRepo(j)
  <2>1. UpdatedRepo[j] \in Repositories
    BY JobsAssumption
  <2>2. QED BY <1>19, <2>1 DEF UpdateRepo, diskVars, flowVars, batchVars
<1>20. ASSUME NEW f \in AllFiles, LateStores(j, f) PROVE Types'
  <2>1. remote' \subseteq Dirs \X AllFiles
    BY <1>20, JobsAssumption DEF LateStores, Stores
  <2>2. QED BY <1>20, <2>1 DEF LateStores, diskVars, flowVars
<1>21. CASE LateStops(j)
  BY <1>21 DEF LateStops, diskVars, flowVars
<1>22. QED
  BY <1>2, <1>3, <1>4, <1>5, <1>6, <1>7, <1>8, <1>9, <1>10, <1>11, <1>12, <1>13, <1>14, <1>15,
     <1>16, <1>17, <1>18, <1>19, <1>20, <1>21 DEF Activity

\* The workflow and its activities keep their types; where an activity needs a
\* worker's directory, a worker is pinned.
THEOREM WorkflowTypes == Spec => []TypeOK
<1>1. Types => TypeOK
  BY DEF Types
<1>2. QED BY WorkflowInit, WorkflowStep, <1>1, PTL DEF Spec

-----------------------------------------------------------------------------
\* A task that owns its directory: no other task has its name, it is not the
\* child of a split, and the hub's list of its repository stays the same.
Owner(j) ==
    /\ \A k \in Jobs \ {j} : DirOf[k] # DirOf[j]
    /\ PartOf[j] = 0
    /\ "update" \notin Faults \/ UpdatedRepo[j] = InitialRepo[j]

\* The files that the workflow of an owner works through.
OwnList(j) == Listing(InitialRepo[j])

\* BOS loses nothing, and what was counted as failed stays counted.
Grows == remote \subseteq remote' /\ \A k \in Jobs : given[k] \subseteq given'[k]

\* What a task's list, its progress files and its place in the workflow say of
\* what BOS has.
Sound(j) ==
    /\ repo[j] = InitialRepo[j] /\ pc[j] # "read"
    /\ \A w \in Workers : lists[w][DirOf[j]][0] \in {OwnList(j), NoList}
    /\ \A w \in Workers : Settled(j, FirstBatches(OwnList(j), progress[w][DirOf[j]]))
    /\ pc[j] \in {"load", "announce", "batch", "inBatch", "save"} => total[j] = Len(OwnList(j))
    /\ pc[j] \in {"announce", "batch", "inBatch", "save"} =>
         /\ Settled(j, FirstBatches(OwnList(j), doneB[j]))
         /\ progress[pinned[j]][DirOf[j]] <= doneB[j]
    /\ pc[j] = "inBatch" => batch[j] = BatchFiles(OwnList(j), doneB[j], total[j]) /\ ~wiped[j]
    /\ pc[j] \in {"clear", "clean", "reportDone", "done"} => Settled(j, FilesOf(OwnList(j)))

\* Nothing is said of the tasks that are not owners: they may share their
\* directories, be split, or see their repositories change.
IInv == Types /\ \A j \in Jobs : Owner(j) => Sound(j)

\* The steps of task j.
Step(j) ==
    \/ \E w \in Workers : Dispatch(j, w)
    \/ Activity(j) \/ Cancelled(j) \/ UpdateRepo(j)
    \/ (\E f \in AllFiles : LateStores(j, f)) \/ LateStops(j)

\* A step of another task: what is k's does not change.
Apart(k) ==
    /\ repo'[k] = repo[k] /\ pc'[k] = pc[k] /\ pinned'[k] = pinned[k]
    /\ total'[k] = total[k] /\ doneB'[k] = doneB[k] /\ batch'[k] = batch[k] /\ wiped'[k] = wiped[k]
    /\ \A w \in Workers : /\ lists'[w][DirOf[k]] = lists[w][DirOf[k]]
                          /\ progress'[w][DirOf[k]] = progress[w][DirOf[k]]

\* Nor does what is known of it.
LEMMA ApartSound ==
    ASSUME Types, NEW k \in Jobs, Sound(k), Apart(k), Grows
    PROVE  Sound(k)'
<1>1. pc[k] \in {"announce", "batch", "inBatch", "save"} => pinned[k] \in Workers
  BY DEF Types, Placed
<1>2. QED BY <1>1 DEF Sound, Apart, Settled, Grows

\* No step of a task takes anything back.
LEMMA BosKeeps == ASSUME Types, NEW j \in Jobs, Step(j) PROVE Grows
<1>1. given \in [Jobs -> SUBSET AllFiles]
  BY DEF Types, TypeOK
<1>2. CASE BatchSucceeds(j)
  <2>1. PICK S \in SUBSET batch[j] :
          Stores(j, S) /\ given' = [given EXCEPT ![j] = @ \union (batch[j] \ S)]
    BY <1>2 DEF BatchSucceeds
  <2>2. QED BY <1>1, <2>1 DEF Stores, Grows
<1>3. CASE ~BatchSucceeds(j)
  <2>1. given' = given
    BY <1>3
       DEF Step, Activity, Dispatch, ReportStarting, ListRepoFiles, ListFails, ReadFilelist,
           LoadProgress, ReportBatch, StartBatch, ListGone, BatchAborts, SaveProgress, ClearProgress,
           CleanupStaging, ReportDone, ReportFailed, Cancelled, UpdateRepo, LateStores, LateStops,
           flowVars
  <2>2. remote \subseteq remote'
    BY <1>3
       DEF Step, Activity, Dispatch, ReportStarting, ListRepoFiles, ListFails, ReadFilelist,
           LoadProgress, ReportBatch, StartBatch, ListGone, BatchAborts, SaveProgress, ClearProgress,
           CleanupStaging, ReportDone, ReportFailed, Cancelled, UpdateRepo, LateStores, LateStops, Stores
  <2>3. QED BY <2>1, <2>2 DEF Grows
<1>4. QED BY <1>2, <1>3

\* Whatever another task does, it does in another directory than an owner's.
LEMMA AwayStep ==
    ASSUME Types, NEW j \in Jobs, Step(j), NEW k \in Jobs \ {j}, Owner(k)
    PROVE  Apart(k)
<1>0. DirOf[k] \in Dirs /\ DirOf[k] # DirOf[j]
  BY JobsAssumption DEF Owner
<1> USE DEF Types, TypeOK, Apart
<1>1. CASE \E v \in Workers : Dispatch(j, v)
  BY <1>1 DEF Dispatch, diskVars
<1>2. CASE ReportStarting(j) \/ ListFails(j) \/ ReportBatch(j) \/ ListGone(j) \/ ReportDone(j) \/ ReportFailed(j)
  BY <1>2 DEF ReportStarting, ListFails, ReportBatch, ListGone, ReportDone, ReportFailed,
              diskVars, flowVars, batchVars
<1>3. ASSUME NEW v \in Workers, ListRepoFiles(j, v) PROVE Apart(k)
  <2>1. \A u \in Workers : lists'[u][DirOf[k]] = lists[u][DirOf[k]]
    BY <1>0, <1>3 DEF ListRepoFiles
  <2>2. QED BY <1>3, <2>1 DEF ListRepoFiles, batchVars
<1>4. CASE ReadFilelist(j) \/ LoadProgress(j)
  BY <1>4 DEF ReadFilelist, LoadProgress, diskVars, batchVars
<1>5. CASE StartBatch(j) \/ BatchAborts(j) \/ Cancelled(j)
  BY <1>5 DEF StartBatch, BatchAborts, Cancelled, diskVars, flowVars
<1>6. CASE BatchSucceeds(j)
  BY <1>6 DEF BatchSucceeds, diskVars
<1>7. CASE SaveProgress(j) \/ ClearProgress(j)
  <2>1. \E n : progress' = [progress EXCEPT ![pinned[j]][DirOf[j]] = n]
    BY <1>7 DEF SaveProgress, ClearProgress
  <2>2. \A u \in Workers : progress'[u][DirOf[k]] = progress[u][DirOf[k]]
    BY <1>0, <2>1
  <2>3. QED BY <1>7, <2>2 DEF SaveProgress, ClearProgress, flowVars, batchVars
<1>8. CASE CleanupStaging(j)
  <2>1. \A u \in Workers : /\ progress'[u][DirOf[k]] = progress[u][DirOf[k]]
                          /\ lists'[u][DirOf[k]] = lists[u][DirOf[k]]
    BY <1>0, <1>8 DEF CleanupStaging
  <2>2. wiped'[k] = wiped[k]
    BY <1>0, <1>8 DEF CleanupStaging
  <2>3. QED BY <1>8, <2>1, <2>2 DEF CleanupStaging, flowVars
<1>9. CASE UpdateRepo(j)
  BY <1>9 DEF UpdateRepo, diskVars, flowVars, batchVars
<1>10. CASE (\E f \in AllFiles : LateStores(j, f)) \/ LateStops(j)
  BY <1>10 DEF LateStores, LateStops, diskVars, flowVars
<1>11. QED
  BY <1>1, <1>2, <1>3, <1>4, <1>5, <1>6, <1>7, <1>8, <1>9, <1>10 DEF Step, Activity

\* The first batches of a list, one by one.
LEMMA FirstBatchesFacts ==
    ASSUME NEW list \in Seq(AllFiles), NEW n \in Nat
    PROVE  /\ FirstBatches(list, 0) = {}
           /\ FirstBatches(list, n + 1) = FirstBatches(list, n) \union BatchFiles(list, n, Len(list))
           /\ AfterBatches(n, Len(list)) = "clear" => FirstBatches(list, n) = FilesOf(list)
           /\ AfterBatches(n, Len(list)) \in {"announce", "clear"}
<1>1. BatchSize \in Nat /\ n * BatchSize \in Nat /\ (n + 1) * BatchSize \in Nat /\ 0 * BatchSize = 0
  BY LimitsAssumption
<1>2. FirstBatches(list, 0) = {}
  BY <1>1 DEF FirstBatches
<1>3. n * BatchSize <= (n + 1) * BatchSize
  BY <1>1
<1>4. FirstBatches(list, n + 1) = FirstBatches(list, n) \union BatchFiles(list, n, Len(list))
  BY <1>1, <1>3 DEF FirstBatches, BatchFiles
<1>5. AfterBatches(n, Len(list)) = "clear" => FirstBatches(list, n) = FilesOf(list)
  BY <1>1 DEF AfterBatches, FirstBatches, FilesOf
<1>6. QED BY <1>2, <1>4, <1>5 DEF AfterBatches

\* Initially nothing is claimed.
LEMMA OwnInit == ASSUME Init PROVE IInv
<1>1. \A j \in Jobs : DirOf[j] \in Dirs /\ 0 \in Parts /\ OwnList(j) \in Seq(AllFiles)
  BY JobsAssumption, ZeroIsAPart DEF OwnList, Listing, Repositories
<1>2. \A j \in Jobs, w \in Workers : lists[w][DirOf[j]][0] = NoList /\ progress[w][DirOf[j]] = 0
  BY <1>1 DEF Init
<1>3. \A j \in Jobs : FirstBatches(OwnList(j), 0) = {}
  BY <1>1, FirstBatchesFacts
<1>4. \A j \in Jobs : Sound(j)
  BY <1>2, <1>3 DEF Init, Sound, Settled
<1>5. QED BY WorkflowInit, <1>4 DEF IInv

\* A step of an owner keeps what is known of it.
LEMMA OwnStep ==
    ASSUME Types, NEW j \in Jobs, Owner(j), Sound(j), Step(j)
    PROVE  Sound(j)'
<1> DEFINE own == OwnList(j)
           d == DirOf[j]
           w == pinned[j]
<1>0. /\ d \in Dirs /\ 0 \in Parts /\ own \in Seq(AllFiles) /\ PartOf[j] = 0
      /\ Placed(j) => w \in Workers
  BY JobsAssumption, ZeroIsAPart DEF Owner, Types, OwnList, Listing, Repositories
<1>a. Len(own) \in Nat /\ doneB[j] \in Nat /\ \A v \in Workers : progress[v][d] \in Nat
  BY <1>0 DEF Types, TypeOK
\* Where the directories do not change.
<1>b. ASSUME UNCHANGED <<repo, lists, progress>>, pc'[j] # "read",
             pc'[j] \in {"announce", "batch", "inBatch", "save", "load", "clear", "clean", "reportDone", "done"} =>
                 /\ pinned'[j] = pinned[j] /\ total'[j] = total[j] /\ doneB'[j] = doneB[j]
                 /\ pc'[j] = pc[j] \/ (pc[j] = "announce" /\ pc'[j] = "batch")
                                   \/ (pc[j] = "batch" /\ pc'[j] = "inBatch")
                                   \/ (pc[j] = "inBatch" /\ pc'[j] = "batch")
                                   \/ (pc[j] = "reportDone" /\ pc'[j] = "done"),
             pc'[j] = "inBatch" => batch'[j] = BatchFiles(own, doneB[j], total[j]) /\ ~wiped'[j]
      PROVE  Sound(j)'
  BY <1>0, <1>b, BosKeeps DEF Sound, Settled, Grows
<1>1. CASE \E v \in Workers : Dispatch(j, v)
  BY <1>0, <1>1, <1>b DEF Dispatch, diskVars, Types, TypeOK
<1>2. CASE ReportStarting(j)
  BY <1>0, <1>2, <1>b DEF ReportStarting, diskVars, flowVars, batchVars, Types, TypeOK
<1>3. ASSUME NEW v \in Workers, ListRepoFiles(j, v) PROVE Sound(j)'
  <2>1. lists'[v][d][0] = own /\ \A u \in Workers : lists'[u][d][0] \in {own, lists[u][d][0]}
    BY <1>0, <1>3 DEF ListRepoFiles, Types, TypeOK, Sound, OwnList
  <2>2. /\ pc'[j] \in {"load", "reportFailed"} /\ total'[j] = Len(own)
        /\ UNCHANGED <<repo, progress, remote, given>>
    BY <1>0, <1>3 DEF ListRepoFiles, Types, TypeOK, Sound, OwnList
  <2>3. QED BY <1>0, <2>1, <2>2 DEF Sound, Settled
<1>4. CASE ListFails(j)
  BY <1>0, <1>4, <1>b DEF ListFails, diskVars, flowVars, batchVars, Types, TypeOK
<1>5. CASE ReadFilelist(j)
  <2>1. FALSE
    BY <1>0, <1>5 DEF ReadFilelist, Sound
  <2>2. QED BY <2>1
<1>6. CASE LoadProgress(j)
  <2> DEFINE n == progress[w][d]
  <2>1. n \in Nat /\ w \in Workers /\ total[j] = Len(own)
    BY <1>0, <1>6, <1>a DEF LoadProgress, Placed, Sound
  <2>2. /\ pc'[j] = AfterBatches(n, Len(own)) /\ doneB'[j] = n
        /\ UNCHANGED <<repo, lists, progress, remote, given, pinned, total, batch, wiped>>
    BY <1>0, <1>6, <2>1 DEF LoadProgress, diskVars, batchVars, Types, TypeOK
  <2>3. Settled(j, FirstBatches(own, n))
    BY <1>0, <2>1 DEF Sound
  <2>4. pc'[j] \in {"announce", "clear"} /\ (pc'[j] = "clear" => Settled(j, FilesOf(own)))
    BY <1>0, <2>1, <2>2, <2>3, FirstBatchesFacts
  <2> HIDE DEF n
  <2>5. doneB'[j] = n /\ progress'[pinned'[j]][d] = n
    BY <2>2 DEF n
  <2>6. QED BY <1>0, <2>1, <2>2, <2>3, <2>4, <2>5 DEF Sound, Settled
<1>7. CASE ReportBatch(j)
  BY <1>0, <1>7, <1>b DEF ReportBatch, diskVars, flowVars, batchVars, Types, TypeOK
<1>8. CASE StartBatch(j)
  <2>1. w \in Workers
    BY <1>0, <1>8 DEF StartBatch, Placed
  <2>2. lists[w][d][PartOf[j]] = own
    BY <1>0, <1>8, <2>1 DEF StartBatch, Sound
  <2>3. batch'[j] = BatchFiles(own, doneB[j], total[j]) /\ ~wiped'[j]
    BY <1>0, <1>8, <2>2 DEF StartBatch, Types, TypeOK
  <2>4. QED BY <1>0, <1>8, <1>b, <2>3 DEF StartBatch, diskVars, flowVars, Types, TypeOK
<1>9. CASE ListGone(j)
  BY <1>0, <1>9, <1>b DEF ListGone, diskVars, flowVars, batchVars, Types, TypeOK
<1>10. CASE BatchSucceeds(j)
  <2>1. batch[j] = BatchFiles(own, doneB[j], Len(own)) /\ ~wiped[j] /\ total[j] = Len(own) /\ w \in Workers
    BY <1>0, <1>10 DEF BatchSucceeds, Sound, Placed
  <2>2. Grows /\ \A f \in batch[j] : <<d, f>> \in remote' \/ f \in given'[j]
    <3>1. PICK S \in SUBSET batch[j] :
            Stores(j, S) /\ given' = [given EXCEPT ![j] = @ \union (batch[j] \ S)]
      BY <1>10 DEF BatchSucceeds
    <3>2. \A f \in batch[j] : <<d, f>> \in remote' \/ f \in given'[j]
      BY <3>1 DEF Stores, Types, TypeOK
    <3>3. QED BY <3>2, BosKeeps
  <2>3. /\ pc'[j] = "save" /\ doneB'[j] = doneB[j] + 1 /\ batch'[j] = {}
        /\ UNCHANGED <<repo, lists, progress, pinned, total, wiped>>
    BY <1>0, <1>10 DEF BatchSucceeds, diskVars, Types, TypeOK
  <2>4. FirstBatches(own, doneB[j] + 1) = FirstBatches(own, doneB[j]) \union batch[j]
    BY <1>0, <1>a, <2>1, FirstBatchesFacts
  <2>5. Settled(j, FirstBatches(own, doneB[j])) /\ progress[w][d] <= doneB[j]
    BY <1>0, <1>10 DEF BatchSucceeds, Sound
  <2>6. \A f \in FirstBatches(own, doneB[j] + 1) : <<d, f>> \in remote' \/ f \in given'[j]
    BY <2>2, <2>4, <2>5 DEF Settled, Grows
  <2>7. progress'[pinned'[j]][d] <= doneB'[j]
    BY <1>a, <2>1, <2>3, <2>5
  <2>8. QED BY <1>0, <2>1, <2>2, <2>3, <2>6, <2>7 DEF Sound, Settled, Grows
<1>11. CASE BatchAborts(j)
  BY <1>0, <1>11, <1>b DEF BatchAborts, diskVars, flowVars, Types, TypeOK
<1>12. CASE SaveProgress(j)
  <2>1. w \in Workers /\ total[j] = Len(own) /\ Settled(j, FirstBatches(own, doneB[j]))
    BY <1>0, <1>12 DEF SaveProgress, Sound, Placed
  <2>2. progress'[w][d] = doneB[j] /\ \A v \in Workers : progress'[v][d] \in {doneB[j], progress[v][d]}
    BY <1>0, <1>12, <2>1 DEF SaveProgress, Types, TypeOK
  <2>3. pc'[j] \in {"announce", "clear"} /\ (pc'[j] = "clear" => Settled(j, FilesOf(own)))
    BY <1>0, <1>a, <1>12, <2>1, FirstBatchesFacts DEF SaveProgress, Types, TypeOK
  <2>4. /\ UNCHANGED <<repo, lists, remote, given, pinned, total, doneB, batch, wiped>>
    BY <1>0, <1>12 DEF SaveProgress, flowVars, batchVars, Types, TypeOK
  <2>5. \A v \in Workers : Settled(j, FirstBatches(own, progress'[v][d]))
    BY <1>0, <2>1, <2>2 DEF Sound
  <2>6. QED BY <1>0, <1>a, <2>1, <2>2, <2>3, <2>4, <2>5 DEF Sound, Settled
<1>13. CASE ClearProgress(j)
  <2>1. w \in Workers /\ Settled(j, FilesOf(own))
    BY <1>0, <1>13 DEF ClearProgress, Sound, Placed
  <2>2. \A v \in Workers : progress'[v][d] \in {0, progress[v][d]}
    BY <1>0, <1>13, <2>1 DEF ClearProgress, Types, TypeOK
  <2>3. /\ UNCHANGED <<repo, lists, remote, given, pinned, total, doneB, batch, wiped>> /\ pc'[j] = "clean"
    BY <1>0, <1>13 DEF ClearProgress, flowVars, batchVars, Types, TypeOK
  <2>4. \A v \in Workers : Settled(j, FirstBatches(own, progress'[v][d]))
    BY <1>0, <2>2, FirstBatchesFacts DEF Sound, Settled
  <2>5. QED BY <1>0, <2>1, <2>3, <2>4 DEF Sound, Settled
<1>14. CASE CleanupStaging(j)
  <2>1. w \in Workers /\ Settled(j, FilesOf(own))
    BY <1>0, <1>14 DEF CleanupStaging, Sound, Placed
  <2>2. \A v \in Workers : progress'[v][d] \in {0, progress[v][d]} /\ lists'[v][d][0] \in {NoList, lists[v][d][0]}
    BY <1>0, <1>14, <2>1 DEF CleanupStaging, Types, TypeOK
  <2>3. /\ UNCHANGED <<repo, remote, given, pinned, total, doneB, batch>> /\ pc'[j] = "reportDone"
    BY <1>0, <1>14 DEF CleanupStaging, flowVars, Types, TypeOK
  <2>4. \A v \in Workers : Settled(j, FirstBatches(own, progress'[v][d]))
    BY <1>0, <2>2, FirstBatchesFacts DEF Sound, Settled
  <2>5. QED BY <1>0, <2>1, <2>2, <2>3, <2>4 DEF Sound, Settled
<1>15. CASE ReportDone(j)
  BY <1>0, <1>15, <1>b DEF ReportDone, diskVars, flowVars, batchVars, Types, TypeOK
<1>16. CASE ReportFailed(j)
  BY <1>0, <1>16, <1>b DEF ReportFailed, diskVars, flowVars, batchVars, Types, TypeOK
<1>17. CASE Cancelled(j)
  BY <1>0, <1>17, <1>b DEF Cancelled, diskVars, flowVars, Types, TypeOK
<1>18. CASE UpdateRepo(j)
  BY <1>0, <1>18, <1>b DEF UpdateRepo, Owner, Sound, diskVars, flowVars, batchVars, Types, TypeOK
<1>19. CASE (\E f \in AllFiles : LateStores(j, f)) \/ LateStops(j)
  <2>1. /\ UNCHANGED <<repo, lists, progress, pc, pinned, total, doneB, batch, wiped>>
    BY <1>19 DEF LateStores, LateStops, diskVars, flowVars
  <2>2. QED BY <1>0, <2>1, BosKeeps DEF Sound, Settled, Grows
<1>20. QED
  BY <1>1, <1>2, <1>3, <1>4, <1>5, <1>6, <1>7, <1>8, <1>9, <1>10, <1>11, <1>12, <1>13, <1>14, <1>15,
     <1>16, <1>17, <1>18, <1>19 DEF Step, Activity

\* Every step keeps what is known of every owner.
LEMMA OwnNext == ASSUME IInv, [Next]_vars PROVE IInv'
<1>1. Types'
  BY WorkflowStep DEF IInv
<1>2. CASE UNCHANGED vars
  BY <1>1, <1>2 DEF IInv, Sound, Settled, vars, diskVars, flowVars, batchVars
<1>3. CASE Next
  <2>1. PICK j \in Jobs : Step(j)
    BY <1>3 DEF Next, Step
  <2>2. ASSUME NEW k \in Jobs, Owner(k) PROVE Sound(k)'
    <3>1. CASE k = j
      BY <2>1, <2>2, <3>1, OwnStep DEF IInv
    <3>2. CASE k # j
      BY <2>1, <2>2, <3>2, AwayStep, ApartSound, BosKeeps DEF IInv
    <3>3. QED BY <3>1, <3>2
  <2>3. QED BY <1>1, <2>2 DEF IInv
<1>4. QED BY <1>2, <1>3

\* The invariant of the tasks that own their directories.
THEOREM WorkflowInvariant == Spec => []IInv
<1>1. Init => IInv
  BY OwnInit
<1>2. IInv /\ [Next]_vars => IInv'
  BY OwnNext
<1>3. QED BY <1>1, <1>2, PTL DEF Spec

\* ProgressSound and DoneIsStored of one task.
MarkedIsSettled(j) ==
    \A w \in Workers : Settled(j, FirstBatches(Listing(repo[j]), progress[w][DirOf[j]]))
SettledWhenDone(j) ==
    pc[j] \in {"clear", "clean", "reportDone", "done"} =>
        Settled(j, Tree(repo[j]) \ repo[j].empty)

\* A task that owns its directory is not hurt by those that do not: what its
\* progress files mark is settled, and "done" means that every file that is not
\* empty is, whatever other tasks share, split, update or remove.
THEOREM OwnersAreSound ==
    Spec => [](\A j \in Jobs : Owner(j) => MarkedIsSettled(j) /\ SettledWhenDone(j))
<1>1. IInv => \A j \in Jobs : Owner(j) => MarkedIsSettled(j) /\ SettledWhenDone(j)
  <2> SUFFICES ASSUME IInv, NEW j \in Jobs, Owner(j) PROVE MarkedIsSettled(j) /\ SettledWhenDone(j)
    OBVIOUS
  <2>1. Sound(j) /\ Listing(repo[j]) = OwnList(j) /\ Tree(repo[j]) \ repo[j].empty \subseteq FilesOf(OwnList(j))
    BY DEF IInv, Sound, OwnList, Listing, Tree
  <2>2. QED BY <2>1 DEF Sound, Settled, MarkedIsSettled, SettledWhenDone
<1>2. QED BY WorkflowInvariant, <1>1, PTL

\* Every task owns its directory.
OwnDirectories == \A j \in Jobs : Owner(j)

\* The batches that a worker's progress file marks are settled: a workflow that
\* skips them (load_progress) skips nothing that is missing unnoticed.
THEOREM WorkflowProgressSound == ASSUME OwnDirectories PROVE Spec => []ProgressSound
<1>1. (\A j \in Jobs : Owner(j) => MarkedIsSettled(j) /\ SettledWhenDone(j)) => ProgressSound
  BY DEF OwnDirectories, MarkedIsSettled, ProgressSound
<1>2. QED BY OwnersAreSound, <1>1, PTL

\* A workflow that reports "done" has put every file of its repository that is
\* not empty into BOS, but those its own batches counted as failed, over all
\* aborted batches, cancelled and repeated workflows and changes of worker.
THEOREM WorkflowDoneIsStored == ASSUME OwnDirectories PROVE Spec => []DoneIsStored
<1>1. (\A j \in Jobs : Owner(j) => MarkedIsSettled(j) /\ SettledWhenDone(j)) => DoneIsStored
  BY DEF OwnDirectories, SettledWhenDone, DoneIsStored
<1>2. QED BY OwnersAreSound, <1>1, PTL

\* The checkpoints of task j go back only when its workflow clears them.
KeptBy(j) ==
    \A w \in Workers :
        progress'[w][DirOf[j]] < progress[w][DirOf[j]] =>
            pinned[j] = w /\ pc[j] \in {"clear", "clean"}

\* For a task that owns its directory, because a checkpoint is saved by a
\* workflow that had loaded the one before.
THEOREM OwnersKeepCheckpoints ==
    Spec => [][remote \subseteq remote' /\ \A j \in Jobs : Owner(j) => KeptBy(j)]_vars
<1>1. ASSUME IInv, Next PROVE remote \subseteq remote' /\ \A j \in Jobs : Owner(j) => KeptBy(j)
  <2>1. PICK i \in Jobs : Step(i)
    BY <1>1 DEF Next, Step
  <2>2. ASSUME NEW j \in Jobs, Owner(j) PROVE KeptBy(j)
    <3>1. /\ DirOf[j] \in Dirs /\ (Placed(j) => pinned[j] \in Workers) /\ doneB[j] \in Nat
          /\ \A w \in Workers : progress[w][DirOf[j]] \in Nat
      BY <1>1, JobsAssumption DEF IInv, Types, TypeOK
    <3>2. CASE \A w \in Workers : progress'[w][DirOf[j]] = progress[w][DirOf[j]]
      BY <3>1, <3>2 DEF KeptBy
    <3>3. CASE i # j
      BY <1>1, <2>1, <2>2, <3>2, <3>3, AwayStep DEF IInv, Apart
    <3>4. CASE SaveProgress(j)
      <4>1. pinned[j] \in Workers /\ progress[pinned[j]][DirOf[j]] <= doneB[j]
        BY <1>1, <2>2, <3>1, <3>4 DEF SaveProgress, Placed, IInv, Sound
      <4>2. \A w \in Workers : /\ w = pinned[j] => progress'[w][DirOf[j]] = doneB[j]
                               /\ w # pinned[j] => progress'[w][DirOf[j]] = progress[w][DirOf[j]]
        BY <1>1, <3>1, <3>4, <4>1 DEF SaveProgress, IInv, Types, TypeOK
      <4>3. QED BY <3>1, <4>1, <4>2 DEF KeptBy
    <3>5. CASE ClearProgress(j) \/ CleanupStaging(j)
      <4>1. pinned[j] \in Workers /\ pc[j] \in {"clear", "clean"}
        BY <3>1, <3>5 DEF ClearProgress, CleanupStaging, Placed
      <4>2. \A w \in Workers : w # pinned[j] => progress'[w][DirOf[j]] = progress[w][DirOf[j]]
        BY <1>1, <3>1, <3>5, <4>1 DEF ClearProgress, CleanupStaging, IInv, Types, TypeOK
      <4>3. QED BY <3>1, <4>1, <4>2 DEF KeptBy
    <3>6. QED
      BY <2>1, <3>2, <3>3, <3>4, <3>5
         DEF Step, Activity, Dispatch, ReportStarting, ListRepoFiles, ListFails, ReadFilelist,
             LoadProgress, ReportBatch, StartBatch, ListGone, BatchSucceeds, BatchAborts, ReportDone,
             ReportFailed, Cancelled, UpdateRepo, LateStores, LateStops, diskVars
  <2>3. QED BY <1>1, <2>1, <2>2, BosKeeps DEF IInv, Grows
<1>2. IInv /\ [Next]_vars => [remote \subseteq remote' /\ \A j \in Jobs : Owner(j) => KeptBy(j)]_vars
  BY <1>1
<1>3. QED BY WorkflowInvariant, <1>2, PTL DEF Spec

\* The step formula of NeverForgets.
Kept ==
    /\ remote \subseteq remote'
    /\ \A w \in Workers, d \in Dirs :
          progress'[w][d] < progress[w][d] =>
              \E j \in Jobs : DirOf[j] = d /\ pinned[j] = w /\ pc[j] \in {"clear", "clean"}

\* BOS loses nothing, and checkpoints go back only when their task clears them:
\* a directory in which a step changes them is that step's own.
THEOREM WorkflowNeverForgets == ASSUME OwnDirectories PROVE Spec => NeverForgets
<1>1. ASSUME Types, Next, remote \subseteq remote', \A j \in Jobs : Owner(j) => KeptBy(j)
      PROVE  Kept
  <2> SUFFICES ASSUME NEW w \in Workers, NEW d \in Dirs, progress'[w][d] < progress[w][d]
               PROVE  \E j \in Jobs : DirOf[j] = d /\ pinned[j] = w /\ pc[j] \in {"clear", "clean"}
    BY <1>1 DEF Kept
  <2>1. PICK j \in Jobs : Step(j)
    BY <1>1 DEF Next, Step
  <2>2. progress[w][d] \in Nat /\ progress'[w][d] # progress[w][d]
    BY <1>1 DEF Types, TypeOK
  <2>3. UNCHANGED progress \/ \E v, n : progress' = [progress EXCEPT ![v][DirOf[j]] = n]
    BY <2>1
       DEF Step, Activity, Dispatch, ReportStarting, ListRepoFiles, ListFails, ReadFilelist,
           LoadProgress, ReportBatch, StartBatch, ListGone, BatchSucceeds, BatchAborts, SaveProgress,
           ClearProgress, CleanupStaging, ReportDone, ReportFailed, Cancelled, UpdateRepo, LateStores,
           LateStops, diskVars
  <2>4. DirOf[j] = d
    <3>1. PICK v, n : progress' = [progress EXCEPT ![v][DirOf[j]] = n]
      BY <2>2, <2>3
    <3>2. progress \in [Workers -> [Dirs -> Nat]]
      BY <1>1 DEF Types, TypeOK
    <3>3. DirOf[j] # d => progress'[w][d] = progress[w][d]
      BY <3>1, <3>2
    <3>4. QED BY <2>2, <3>3
  <2>5. KeptBy(j)
    BY <1>1 DEF OwnDirectories
  <2>6. QED BY <2>4, <2>5 DEF KeptBy
<1>2. Types /\ [Next]_vars /\ [remote \subseteq remote' /\ \A j \in Jobs : Owner(j) => KeptBy(j)]_vars
        => [Kept]_vars
  BY <1>1
<1>3. QED BY OwnersKeepCheckpoints, WorkflowInit, WorkflowStep, <1>2, PTL DEF Spec, NeverForgets, Kept
=============================================================================

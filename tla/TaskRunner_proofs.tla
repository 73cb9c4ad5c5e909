------------------------ MODULE TaskRunner_proofs ------------------------
(***************************************************************************)
(* Theorems about the runs of a task on one worker, for any files, any     *)
(* directories and any number of runs, cancels, crashes, faults and times  *)
(* that the disk is emptied: no thread outlives its move, a progress file  *)
(* is sound, a staged file goes only once it is stored, and a run that     *)
(* returns has stored its repository - but for the files `Lost`.           *)
(***************************************************************************)
EXTENDS TaskRunner, TLAPS

\* Files that are stored, or Lost; none ever leaves this set.
Safe == Hidden \union skipped \union once

Shape ==
    /\ run \in [chunked : BOOLEAN, remaining : SUBSET Files, batch : SUBSET Files, completed : SUBSET Files]
    /\ mover \in [tarred : BOOLEAN, todo : SUBSET Jobs, roots : SUBSET (Files \union TarFiles), failed : BOOLEAN]
    /\ cancel \in BOOLEAN
    /\ left \in [{"cancels", "crashes", "faults", "pressure"} -> Nat]
    /\ staged \subseteq Files /\ direct \subseteq Files /\ progress \subseteq Files
    /\ skipped \subseteq Files /\ once \subseteq Files
    /\ direct \subseteq once /\ \A s \in Dirs : tars[s] \subseteq once
    /\ TypeOK

\* What a thread has done to the files of its job.
ThreadsSound ==
    /\ \A s \in Dirs : /\ thread[s] = "unpacking" => staged \intersect In(s) \subseteq once
                       /\ thread[s] = "ended" => staged \intersect In(s) = {}
    /\ \A f \in Files : thread[f] = "ended" => f \in once

\* Something will still be done for file f in this move.
Waits(f) ==
    \/ f \in mover.todo \/ f \in mover.roots \/ thread[f] # "none"
    \/ DirOf[f] \in Dirs /\ (DirOf[f] \in mover.todo \/ thread[DirOf[f]] # "none")

\* A move that has neither failed nor been cancelled forgets no staged file.
Covered ==
    /\ pc \in {"submit", "collect", "root"} =>
         cancel \/ mover.failed \/ \A f \in staged : f \in Safe \/ Waits(f)
    /\ pc \in {"collect", "root"} => cancel \/ mover.todo = {}

\* The files of a run are staged, then safe.
BatchSound ==
    /\ pc \in {"move", "submit", "collect", "root"} => run.batch \subseteq staged \union Safe
    /\ pc \in {"save", "clean"} => run.batch \subseteq Safe /\ staged \subseteq Safe
    /\ pc \in {"list", "batch", "save"} => run.chunked
    /\ pc \in {"download", "move", "submit", "collect", "root", "save", "clean"} =>
         IF run.chunked
         THEN Files \ Empty \subseteq run.remaining \union run.completed \union run.batch
         ELSE run.batch = Files
    /\ run.chunked /\ pc \in {"batch", "clean"} => Files \ Empty \subseteq run.remaining \union run.completed
    /\ pc = "done" => Files \ Empty \subseteq Safe

\* The inductive invariant.
IInv == Shape /\ ThreadsSound /\ Covered /\ BatchSound /\ progress \union run.completed \subseteq Safe

-----------------------------------------------------------------------------
\* What is on BOS has been stored.
LEMMA StoredOnce == ASSUME Shape PROVE Stored \subseteq once
  BY DEF Stored, Shape

\* Outside of a move there are no threads.
LEMMA NoThreads ==
    ASSUME Shape, pc \notin {"submit", "collect", "drain"}
    PROVE  thread = NoThread /\ \A u \in Jobs : thread[u] = "none"
  BY DEF Shape, TypeOK, NoThread

\* The names of jobs.
LEMMA JobNames ==
    /\ \A f \in Files : f \in Jobs /\ f \notin Dirs /\ f \notin TarFiles
    /\ \A s \in Dirs : s \in Jobs /\ s \notin Files /\ s \notin TarFiles /\ TarFile(s) \in TarFiles
    /\ \A u \in TarFiles : u \in Jobs /\ u \notin Files /\ u \notin Dirs
    /\ \A f \in Files : DirOf[f] # Root => DirOf[f] \in Dirs
  BY NamesAssumption DEF Jobs, Dirs, TarFiles

\* Before the first run nothing is staged, stored or skipped.
LEMMA RunnerInit == ASSUME Init PROVE IInv
<1>1. run = NoRun /\ mover = NoMove /\ \A u \in Jobs : thread[u] = "none"
  BY DEF Init, NoThread
<1>2. Shape
  BY RunnerAssumption DEF Init, Shape, TypeOK, NoRun, NoMove, NoThread
<1>3. ThreadsSound /\ Covered
  BY <1>1, JobNames DEF Init, ThreadsSound, Covered
<1>4. BatchSound /\ progress \union run.completed \subseteq Safe
  BY DEF Init, BatchSound, NoRun
<1>5. QED BY <1>2, <1>3, <1>4 DEF IInv

-----------------------------------------------------------------------------
\* Around the move.

\* A step at the end of which no thread is left, out of any move: what is left to
\* show of it.
LEMMA MainStep ==
    ASSUME IInv, Shape', thread' = NoThread, Safe \subseteq Safe', progress' \subseteq Safe', run'.completed \subseteq Safe',
           pc' \in {"ready", "list", "batch", "download", "move", "save", "clean", "done"}, BatchSound'
    PROVE  IInv'
<1>1. \A u \in Jobs : thread'[u] = "none"
  BY DEF NoThread
<1>2. ThreadsSound' /\ Covered'
  BY <1>1, JobNames DEF ThreadsSound, Covered
<1>3. QED BY <1>2 DEF IInv

\* What is spent is a number that gets smaller.
LEMMA SpendsOne ==
    ASSUME Shape, NEW what \in {"cancels", "crashes", "faults", "pressure"}, Spend(what)
    PROVE  /\ left' \in [{"cancels", "crashes", "faults", "pressure"} -> Nat]
           /\ left'[what] < left[what]
           /\ \A other \in {"cancels", "crashes", "faults", "pressure"} \ {what} : left'[other] = left[other]
  BY DEF Shape, Spend

\* A run that raises leaves what is stored, and its progress file.
LEMMA RaiseStep ==
    ASSUME IInv, Raise, thread' = NoThread, cancel' \in BOOLEAN,
           UNCHANGED <<direct, tars, progress, skipped, once>>,
           staged' \subseteq Files, spare' \subseteq Dirs,
           left' \in [{"cancels", "crashes", "faults", "pressure"} -> Nat]
    PROVE  IInv'
<1>1. /\ pc' = "ready" /\ run' = NoRun /\ mover' = NoMove
  BY DEF Raise, Goes
<1>2. Shape'
  BY <1>1 DEF IInv, Shape, TypeOK, NoRun, NoMove, NoThread
<1>3. BatchSound' /\ run'.completed = {} /\ Safe' = Safe
  BY <1>1 DEF BatchSound, NoRun, Safe
<1>4. QED BY <1>1, <1>2, <1>3, MainStep DEF IInv

\* A run starts, of the whole repository or in batches.
LEMMA StartInv == ASSUME IInv, Start PROVE IInv'
<1>1. thread = NoThread
  BY NoThreads DEF IInv, Start, Starts
<1>2. \/ run' = [NoRun EXCEPT !.chunked = TRUE, !.batch = {}] /\ pc' = "list"
      \/ run' = [NoRun EXCEPT !.chunked = FALSE, !.batch = Files] /\ pc' = "download"
  <2>1. PICK chunked \in BOOLEAN :
          /\ run' = [NoRun EXCEPT !.chunked = chunked, !.batch = IF chunked THEN {} ELSE Files]
          /\ pc' = IF chunked THEN "list" ELSE "download"
    BY DEF Start, Starts, Goes
  <2>2. CASE chunked = TRUE
    BY <2>1, <2>2, Zenon
  <2>3. CASE chunked = FALSE
    BY <2>1, <2>3, Zenon
  <2>4. QED BY <2>1, <2>2, <2>3
<1>3. \/ run' = [chunked |-> TRUE, remaining |-> {}, batch |-> {}, completed |-> {}] /\ pc' = "list"
      \/ run' = [chunked |-> FALSE, remaining |-> {}, batch |-> Files, completed |-> {}] /\ pc' = "download"
  BY <1>2 DEF NoRun
<1>4. /\ run' \in [chunked : BOOLEAN, remaining : SUBSET Files, batch : SUBSET Files, completed : SUBSET Files]
      /\ run'.remaining = {} /\ run'.completed = {} /\ run'.batch \subseteq Files
      /\ pc' \in {"list", "download"}
  <2>1. CASE run' = [chunked |-> TRUE, remaining |-> {}, batch |-> {}, completed |-> {}] /\ pc' = "list"
    BY <2>1
  <2>2. CASE run' = [chunked |-> FALSE, remaining |-> {}, batch |-> Files, completed |-> {}] /\ pc' = "download"
    BY <2>2
  <2>3. QED BY <1>3, <2>1, <2>2
<1>5. /\ UNCHANGED <<mover, thread, staged, spare, direct, tars, progress, left, skipped, once>>
      /\ cancel' \in BOOLEAN
  <2>1. Starts(FALSE)
    BY DEF Start
  <2>2. cancel' = FALSE
    BY <2>1, Zenon DEF Starts
  <2>3. UNCHANGED <<mover, thread, disk, bos, progress, left, skipped, once>>
    BY <2>1 DEF Starts
  <2>4. cancel' \in BOOLEAN
    BY <2>2
  <2>5. QED BY <2>3, <2>4 DEF disk, bos
<1>6. Shape'
  BY <1>1, <1>4, <1>5 DEF IInv, Shape, TypeOK
<1>7. BatchSound'
  BY <1>3 DEF BatchSound
<1>8. QED BY <1>1, <1>4, <1>5, <1>6, <1>7, MainStep DEF IInv, Safe

\* A run that is refused.
LEMMA RefusedInv == ASSUME IInv, Refused PROVE IInv'
  BY RaiseStep, NoThreads, SpendsOne DEF IInv, Refused, Shape, TypeOK, disk, bos

\* What the progress file names is taken for done, the rest remains.
LEMMA ListInv == ASSUME IInv, List PROVE IInv'
<1>1. thread = NoThread
  BY NoThreads DEF IInv, List
<1>2. \/ run' = [run EXCEPT !.completed = progress, !.remaining = (Files \ Empty) \ progress] /\ UNCHANGED left
      \/ Spend("faults") /\ run' = [run EXCEPT !.remaining = Files \ Empty]
  BY DEF List
<1>3. /\ run'.chunked = run.chunked /\ run'.batch = run.batch
      /\ run'.completed \in {progress, run.completed} /\ Files \ Empty \subseteq run'.remaining \union run'.completed
      /\ run' \in [chunked : BOOLEAN, remaining : SUBSET Files, batch : SUBSET Files, completed : SUBSET Files]
      /\ left' \in [{"cancels", "crashes", "faults", "pressure"} -> Nat]
  BY <1>2, SpendsOne DEF IInv, Shape
<1>4. /\ UNCHANGED <<mover, thread, cancel, staged, spare, direct, tars, progress, skipped, once>>
      /\ pc = "list" /\ pc' = "batch"
  BY DEF List, Goes, disk, bos
<1>5. Shape'
  BY <1>1, <1>3, <1>4 DEF IInv, Shape, TypeOK
<1>6. BatchSound'
  BY <1>3, <1>4 DEF IInv, BatchSound
<1>7. QED BY <1>1, <1>3, <1>4, <1>5, <1>6, MainStep DEF IInv, Safe

\* What is not in the batch remains.
LEMMA TakeBatchInv == ASSUME IInv, TakeBatch PROVE IInv'
<1>1. PICK B \in SUBSET run.remaining : Takes(B, run.remaining \ B)
  BY DEF TakeBatch
<1>2. thread = NoThread /\ pc = "batch"
  BY <1>1, NoThreads DEF IInv, Takes
<1>3. /\ run'.chunked = run.chunked /\ run'.batch = B /\ run'.remaining = run.remaining \ B
      /\ run'.completed = run.completed
      /\ run' \in [chunked : BOOLEAN, remaining : SUBSET Files, batch : SUBSET Files, completed : SUBSET Files]
  BY <1>1 DEF IInv, Shape, Takes
<1>4. /\ left' \in [{"cancels", "crashes", "faults", "pressure"} -> Nat]
      /\ staged' \in {staged, {}} /\ spare' \in {spare, {}}
  BY <1>1, SpendsOne DEF IInv, Shape, Takes, Room, EmptyStaging, disk
<1>5. /\ UNCHANGED <<mover, thread, cancel, direct, tars, progress, skipped, once>> /\ pc' = "download"
  BY <1>1 DEF Takes, Goes, bos
<1>6. Shape'
  BY <1>2, <1>3, <1>4, <1>5 DEF IInv, Shape, TypeOK
<1>7. BatchSound'
  BY <1>2, <1>3, <1>5 DEF IInv, BatchSound
<1>8. QED BY <1>2, <1>3, <1>5, <1>6, <1>7, MainStep DEF IInv, Safe

\* The run ends before its next batch.
LEMMA BatchRaisesInv == ASSUME IInv, BatchRaises PROVE IInv'
<1>1. thread' = NoThread
  BY NoThreads DEF IInv, BatchRaises
<1>2. left' \in [{"cancels", "crashes", "faults", "pressure"} -> Nat] /\ staged' \subseteq Files /\ spare' \subseteq Dirs
  BY SpendsOne DEF IInv, BatchRaises, Shape, TypeOK, EmptyStaging, disk
<1>3. QED BY <1>1, <1>2, RaiseStep DEF IInv, BatchRaises, Shape, bos

\* The batch is staged.
LEMMA DownloadedInv == ASSUME IInv, Downloaded PROVE IInv'
<1>1. thread = NoThread
  BY NoThreads DEF IInv, Downloaded
<1>2. PICK out \in SUBSET (run.batch \ staged) :
        LeavesOut(out) /\ staged' = staged \union (run.batch \ out) /\ skipped' = skipped \union out
  BY DEF Downloaded
<1>3. /\ UNCHANGED <<run, mover, thread, cancel, spare, direct, tars, progress, once>>
      /\ pc = "download" /\ pc' = "move"
  BY DEF Downloaded, Goes, bos
<1>4. left' \in [{"cancels", "crashes", "faults", "pressure"} -> Nat]
  BY <1>2, SpendsOne DEF IInv, LeavesOut, Shape
<1>5. run.batch \subseteq Files
  BY DEF IInv, Shape
<1>6. Shape'
  BY <1>1, <1>2, <1>3, <1>4, <1>5 DEF IInv, Shape, TypeOK
<1>7. BatchSound'
  BY <1>2, <1>3 DEF IInv, BatchSound, Safe
<1>8. Safe \subseteq Safe' /\ progress' \subseteq Safe' /\ run'.completed \subseteq Safe'
  BY <1>2, <1>3 DEF IInv, Safe
<1>9. thread' = NoThread
  BY <1>1, <1>3
<1>10. QED BY <1>3, <1>6, <1>7, <1>8, <1>9, MainStep DEF IInv

\* Only a part is.
LEMMA DownloadFailsInv == ASSUME IInv, DownloadFails PROVE IInv'
<1>1. thread' = NoThread
  BY NoThreads DEF IInv, DownloadFails
<1>2. left' \in [{"cancels", "crashes", "faults", "pressure"} -> Nat] /\ staged' \subseteq Files
  BY SpendsOne DEF IInv, DownloadFails, Shape, TypeOK
<1>3. QED BY <1>1, <1>2, RaiseStep DEF IInv, DownloadFails, Shape, TypeOK, bos

\* The batch is safe, and now it is in the progress file.
LEMMA SaveInv == ASSUME IInv, Save PROVE IInv'
<1>1. thread = NoThread
  BY NoThreads DEF IInv, Save
<1>2. /\ run'.chunked = run.chunked /\ run'.batch = run.batch /\ run'.remaining = run.remaining
      /\ run'.completed = run.completed \union run.batch
      /\ run' \in [chunked : BOOLEAN, remaining : SUBSET Files, batch : SUBSET Files, completed : SUBSET Files]
  BY DEF IInv, Shape, Save
<1>3. /\ progress' \in {progress, run'.completed}
      /\ left' \in [{"cancels", "crashes", "faults", "pressure"} -> Nat]
  BY SpendsOne DEF IInv, Shape, Save
<1>4. /\ UNCHANGED <<mover, thread, cancel, staged, spare, direct, tars, skipped, once>>
      /\ pc = "save" /\ pc' = "clean"
  BY DEF Save, Goes, disk, bos
<1>5. Shape'
  BY <1>1, <1>2, <1>3, <1>4 DEF IInv, Shape, TypeOK
<1>6. BatchSound'
  BY <1>2, <1>4 DEF IInv, BatchSound, Safe
<1>7. run.batch \subseteq Safe /\ Safe' = Safe
  BY <1>4 DEF IInv, BatchSound, Safe
<1>8. QED BY <1>1, <1>2, <1>3, <1>4, <1>5, <1>6, <1>7, MainStep DEF IInv

\* The staging directory is emptied of what is safe.
LEMMA CleanInv == ASSUME IInv, Clean PROVE IInv'
<1>1. thread = NoThread
  BY NoThreads DEF IInv, Clean
<1>2. /\ UNCHANGED <<run, mover, thread, cancel, direct, tars, progress, left, skipped, once>>
      /\ pc = "clean" /\ pc' = (IF run.chunked THEN "batch" ELSE "done") /\ staged' = {} /\ spare' = {}
  BY DEF Clean, Goes, bos, EmptyStaging
<1>3. Shape'
  BY <1>1, <1>2 DEF IInv, Shape, TypeOK
<1>4. BatchSound'
  BY <1>2 DEF IInv, BatchSound, Safe
<1>5. QED BY <1>1, <1>2, <1>3, <1>4, MainStep DEF IInv, Safe

\* Nothing remains: all that is listed is completed, and so it is safe.
LEMMA ClearProgressInv == ASSUME IInv, ClearProgress PROVE IInv'
<1>1. thread = NoThread
  BY NoThreads DEF IInv, ClearProgress
<1>2. /\ UNCHANGED <<run, mover, thread, cancel, staged, spare, direct, tars, skipped, once>>
      /\ pc = "batch" /\ pc' = "done" /\ run.remaining = {}
  BY DEF ClearProgress, Goes, bos, disk
<1>3. progress' \in {progress, {}} /\ left' \in [{"cancels", "crashes", "faults", "pressure"} -> Nat]
  BY SpendsOne DEF IInv, Shape, ClearProgress
<1>4. Shape'
  BY <1>1, <1>2, <1>3 DEF IInv, Shape, TypeOK
<1>5. BatchSound'
  BY <1>2 DEF IInv, BatchSound, Safe
<1>6. QED BY <1>1, <1>2, <1>3, <1>4, <1>5, MainStep DEF IInv, Safe

-----------------------------------------------------------------------------
\* Within the move.

\* Every file that is staged, and not hidden, has a job or is left for last.
LEMMA MoveInv == ASSUME IInv, Move PROVE IInv'
<1>0. Shape /\ thread = NoThread /\ pc = "move" /\ pc' = "submit"
      /\ UNCHANGED <<run, thread, cancel, staged, spare, direct, tars, progress, left, skipped, once>>
  BY NoThreads DEF IInv, Move, Goes, disk, bos
<1>1. CollectFiles \subseteq Files \union TarFiles /\ staged \ Hidden \subseteq CollectFiles
  BY <1>0, JobNames DEF CollectFiles, Shape, TypeOK
<1>2. \A f \in Files : DirOf[f] # Root => DirOf[f] \in Dirs
  BY JobNames
<1>3. PICK tarred \in BOOLEAN :
        mover' = [tarred |-> tarred, failed |-> FALSE,
                  todo |-> IF tarred THEN {DirOf[f] : f \in {u \in CollectFiles : InDir(u)}} ELSE CollectFiles,
                  roots |-> IF tarred THEN {u \in CollectFiles : ~InDir(u)} ELSE {}]
  BY DEF Move
<1>4. CASE tarred = TRUE
  <2>1. mover' = [tarred |-> TRUE, failed |-> FALSE,
                  todo |-> {DirOf[f] : f \in {u \in CollectFiles : InDir(u)}},
                  roots |-> {u \in CollectFiles : ~InDir(u)}]
    BY <1>3, <1>4, Zenon
  <2>2. {DirOf[f] : f \in {u \in CollectFiles : InDir(u)}} \subseteq Dirs
    BY <1>2 DEF InDir
  <2>3. mover' \in [tarred : BOOLEAN, todo : SUBSET Jobs, roots : SUBSET (Files \union TarFiles), failed : BOOLEAN]
    BY <1>1, <2>1, <2>2 DEF Jobs
  <2>4. \A f \in staged : f \in Hidden \/ f \in mover'.roots \/ (DirOf[f] \in Dirs /\ DirOf[f] \in mover'.todo)
    BY <1>0, <1>1, <1>2, <2>1 DEF InDir, Shape
  <2>5. Shape'
    BY <1>0, <2>3 DEF Shape, TypeOK
  <2>6. ThreadsSound' /\ BatchSound'
    BY <1>0 DEF IInv, ThreadsSound, BatchSound, Safe
  <2>7. Covered'
    BY <1>0, <2>4 DEF Covered, Safe, Waits
  <2>8. QED BY <1>0, <2>5, <2>6, <2>7 DEF IInv, Safe
<1>5. CASE tarred = FALSE
  <2>1. mover' = [tarred |-> FALSE, failed |-> FALSE, todo |-> CollectFiles, roots |-> {}]
    BY <1>3, <1>5, Zenon
  <2>2. mover' \in [tarred : BOOLEAN, todo : SUBSET Jobs, roots : SUBSET (Files \union TarFiles), failed : BOOLEAN]
    BY <1>1, <2>1 DEF Jobs
  <2>3. \A f \in staged : f \in Hidden \/ f \in mover'.todo
    BY <1>1, <2>1
  <2>4. Shape'
    BY <1>0, <2>2 DEF Shape, TypeOK
  <2>5. ThreadsSound' /\ BatchSound'
    BY <1>0 DEF IInv, ThreadsSound, BatchSound, Safe
  <2>6. Covered'
    BY <1>0, <2>3 DEF Covered, Safe, Waits
  <2>7. QED BY <1>0, <2>4, <2>5, <2>6 DEF IInv, Safe
<1>6. QED BY <1>4, <1>5

\* A job that is submitted waits in the pool instead.
LEMMA SubmitInv == ASSUME IInv, Submit PROVE IInv'
<1>0. Shape /\ pc = "submit" /\ ~cancel
      /\ UNCHANGED <<pc, run, cancel, staged, spare, direct, tars, progress, left, skipped, once>>
  BY DEF IInv, Submit, disk, bos
<1>1. PICK u \in mover.todo :
        /\ mover' = [mover EXCEPT !.todo = @ \ {u}]
        /\ thread' = [thread EXCEPT ![u] = "queued"]
  BY DEF Submit
<1>2. u \in Jobs
  BY <1>0 DEF Shape
<1>3. /\ thread' \in [Jobs -> {"none", "queued", "packed", "unpacking", "ended", "failed"}]
      /\ thread'[u] = "queued" /\ \A v \in Jobs \ {u} : thread'[v] = thread[v]
  BY <1>0, <1>1, <1>2 DEF Shape, TypeOK
<1>4. /\ mover' \in [tarred : BOOLEAN, todo : SUBSET Jobs, roots : SUBSET (Files \union TarFiles), failed : BOOLEAN]
      /\ mover'.todo = mover.todo \ {u} /\ mover'.roots = mover.roots /\ mover'.failed = mover.failed
  BY <1>0, <1>1 DEF Shape
<1>5. Shape'
  BY <1>0, <1>3, <1>4 DEF Shape, TypeOK
<1>6. ThreadsSound' /\ BatchSound'
  BY <1>0, <1>3, JobNames DEF IInv, ThreadsSound, BatchSound, Safe
<1>7. Covered'
  <2>1. \A f \in staged : f \in Jobs /\ (Waits(f) => Waits(f)')
    BY <1>0, <1>3, <1>4, JobNames DEF Waits, Shape
  <2>2. QED BY <1>0, <1>4, <2>1 DEF IInv, Covered, Safe
<1>8. QED BY <1>0, <1>5, <1>6, <1>7 DEF IInv, Safe

\* All are, or the rest is left out.
LEMMA SubmittedInv == ASSUME IInv, Submitted PROVE IInv'
<1>1. /\ UNCHANGED <<run, mover, thread, cancel, staged, spare, direct, tars, progress, left, skipped, once>>
      /\ pc = "submit" /\ pc' = "collect" /\ (cancel \/ mover.todo = {})
  BY DEF Submitted, Goes, disk, bos
<1>2. QED
  BY <1>1 DEF IInv, Shape, TypeOK, ThreadsSound, Covered, Waits, BatchSound, Safe

\* A step of a thread: the job stays in the pool, what leaves the staging
\* directory is stored, and nothing comes to it.
LEMMA PoolStep ==
    ASSUME IInv, NEW u \in Jobs, thread[u] # "none", Shape', ThreadsSound',
           UNCHANGED <<pc, run, mover, cancel, progress, skipped>>,
           thread'[u] # "none", \A v \in Jobs \ {u} : thread'[v] = thread[v],
           staged' \subseteq staged, staged \ staged' \subseteq once, once \subseteq once'
    PROVE  IInv'
<1>0. pc \in {"submit", "collect", "drain"}
  BY DEF IInv, Shape, TypeOK, NoThread
<1>1. Covered'
  <2>1. \A f \in staged : f \in Files /\ (Waits(f) => Waits(f)')
    BY JobNames DEF IInv, Shape, Waits
  <2>2. QED BY <1>0, <2>1 DEF IInv, Covered, Safe
<1>2. BatchSound'
  BY <1>0 DEF IInv, BatchSound, Safe
<1>3. QED BY <1>1, <1>2 DEF IInv, Safe

\* The threads' steps, one by one.
LEMMA PoolInv == ASSUME IInv, Pool PROVE IInv'
<1>0. Shape /\ UNCHANGED <<pc, run, mover, cancel, progress, skipped>>
  BY DEF IInv, Pool
<1>1. ASSUME NEW s \in Dirs, Pack(s) PROVE IInv'
  <2>1. s \in Jobs
    BY JobNames
  <2>2. Shape'
    BY <1>0, <1>1, <2>1 DEF Shape, TypeOK, Pack, bos, NoThread
  <2>3. ThreadsSound'
    BY <1>0, <1>1, <2>1, JobNames DEF IInv, ThreadsSound, Pack, bos, Shape, TypeOK
  <2>4. QED BY <1>0, <1>1, <2>1, <2>2, <2>3, PoolStep DEF Pack, Shape, TypeOK
<1>2. ASSUME NEW s \in Dirs, StoreTar(s) PROVE IInv'
  <2>1. s \in Jobs
    BY JobNames
  <2>2. tars' = [tars EXCEPT ![s] = staged \intersect In(s)] /\ once' = once \union (staged \intersect In(s))
    BY <1>0, <1>2 DEF StoreTar, Shape, TypeOK
  <2>3. Shape'
    BY <1>0, <1>2, <2>1, <2>2 DEF Shape, TypeOK, StoreTar, disk, NoThread
  <2>4. ThreadsSound'
    BY <1>0, <1>2, <2>1, <2>2, JobNames DEF IInv, ThreadsSound, StoreTar, disk, Shape, TypeOK
  <2>5. QED BY <1>0, <1>2, <2>1, <2>2, <2>3, <2>4, PoolStep DEF StoreTar, Shape, TypeOK, disk
<1>3. ASSUME NEW s \in Dirs, RemovePacked(s) PROVE IInv'
  <2>1. s \in Jobs
    BY JobNames
  <2>2. Shape'
    BY <1>0, <1>3, <2>1 DEF Shape, TypeOK, RemovePacked, bos, NoThread
  <2>3. ThreadsSound'
    BY <1>0, <1>3, <2>1, JobNames DEF IInv, ThreadsSound, RemovePacked, bos, Shape, TypeOK
  <2>4. staged \ staged' \subseteq once
    BY <1>3 DEF IInv, ThreadsSound, RemovePacked
  <2>5. QED BY <1>0, <1>3, <2>1, <2>2, <2>3, <2>4, PoolStep DEF RemovePacked, Shape, TypeOK
<1>4. ASSUME NEW u \in Files \union TarFiles, StoreFile(u) PROVE IInv'
  <2>1. u \in Jobs /\ u \notin Dirs
    BY JobNames
  <2>2. direct' = direct \union ({u} \intersect Files) /\ once' = once \union ({u} \intersect Files)
    BY <1>4 DEF StoreFile, Keeps
  <2>3. Shape'
    BY <1>0, <1>4, <2>1, <2>2 DEF Shape, TypeOK, StoreFile, disk, NoThread
  <2>4. ThreadsSound'
    BY <1>0, <1>4, <2>1, <2>2, JobNames DEF IInv, ThreadsSound, StoreFile, disk, Shape, TypeOK
  <2>5. QED BY <1>0, <1>4, <2>1, <2>2, <2>3, <2>4, PoolStep DEF StoreFile, Shape, TypeOK, disk
<1>5. ASSUME NEW u \in Jobs, JobFails(u) PROVE IInv'
  <2>1. Shape'
    BY <1>0, <1>5, SpendsOne DEF Shape, TypeOK, JobFails, disk, bos, NoThread
  <2>2. ThreadsSound'
    BY <1>0, <1>5, JobNames DEF IInv, ThreadsSound, JobFails, disk, Shape, TypeOK
  <2>3. QED BY <1>0, <1>5, <2>1, <2>2, PoolStep DEF JobFails, Shape, TypeOK, disk
<1>6. QED BY <1>1, <1>2, <1>3, <1>4, <1>5 DEF Pool

\* A job is collected: a file that goes is stored, and one whose job has failed
\* is accounted for by the flag of the move.
LEMMA CollectInv == ASSUME IInv, Collect PROVE IInv'
<1>1. PICK u \in Jobs : Collects(u, u \notin Dirs /\ thread[u] = "ended")
  BY DEF Collect
<1>2. /\ Shape /\ pc = "collect" /\ ~cancel /\ thread[u] \in {"ended", "failed"}
      /\ UNCHANGED <<pc, run, cancel, direct, tars, progress, left, skipped, once>>
      /\ thread' = [thread EXCEPT ![u] = "none"]
      /\ mover' = [mover EXCEPT !.failed = @ \/ thread[u] = "failed"]
  BY <1>1 DEF IInv, Collects, bos
<1>3. /\ mover' \in [tarred : BOOLEAN, todo : SUBSET Jobs, roots : SUBSET (Files \union TarFiles), failed : BOOLEAN]
      /\ mover'.todo = mover.todo /\ mover'.roots = mover.roots
      /\ mover'.failed <=> mover.failed \/ thread[u] = "failed"
  BY <1>2 DEF Shape
<1>4. /\ thread' \in [Jobs -> {"none", "queued", "packed", "unpacking", "ended", "failed"}]
      /\ thread'[u] = "none" /\ \A v \in Jobs \ {u} : thread'[v] = thread[v]
  BY <1>2 DEF Shape, TypeOK
<1>5. /\ staged' \subseteq staged /\ spare' \subseteq spare
      /\ staged \ staged' \subseteq once
      /\ u \in Files /\ thread[u] = "ended" => u \notin staged'
  <2>1. CASE u \notin Dirs /\ thread[u] = "ended"
    <3>1. staged' = staged \ {u} /\ spare' \subseteq spare
      BY <1>1, <2>1 DEF Collects, Unlink
    <3>2. u \in Files => u \in once
      BY <2>1 DEF IInv, ThreadsSound
    <3>3. QED BY <1>2, <3>1, <3>2 DEF Shape
  <2>2. CASE ~(u \notin Dirs /\ thread[u] = "ended")
    BY <1>1, <2>2, JobNames DEF Collects, disk
  <2>3. QED BY <2>1, <2>2
<1>6. Shape'
  BY <1>2, <1>3, <1>4, <1>5 DEF Shape, TypeOK, NoThread
<1>7. ThreadsSound'
  BY <1>2, <1>4, <1>5, JobNames DEF IInv, ThreadsSound
<1>8. BatchSound'
  BY <1>2, <1>5 DEF IInv, BatchSound, Safe
<1>9. Covered'
  <2> SUFFICES ASSUME ~mover.failed, thread[u] # "failed", NEW f \in staged', f \notin Safe
               PROVE  Waits(f)'
    BY <1>2, <1>3 DEF IInv, Covered, Safe
  <2>1. f \in Files /\ Waits(f) /\ f \in staged
    BY <1>2, <1>5 DEF IInv, Covered, Shape
  <2>2. thread[u] = "ended" /\ f # u
    BY <1>2, <1>5, <2>1
  <2>3. u \in Dirs => DirOf[f] # u
    BY <2>1, <2>2 DEF IInv, ThreadsSound, In
  <2>4. QED BY <1>3, <1>4, <2>1, <2>2, <2>3, JobNames DEF Waits
<1>10. QED BY <1>2, <1>6, <1>7, <1>8, <1>9 DEF IInv, Safe

\* The move is given up; what its threads still do keeps them sound.
LEMMA CollectRaisesInv == ASSUME IInv, CollectRaises PROVE IInv'
<1>1. PICK waiting \in SUBSET {u \in Jobs : thread[u] = "queued"} :
        thread' = [u \in Jobs |-> IF u \in waiting THEN "none" ELSE thread[u]]
  BY DEF CollectRaises, Cancelled
<1>2. /\ UNCHANGED <<run, mover, cancel, staged, spare, direct, tars, progress, left, skipped, once>>
      /\ pc' = "drain"
  BY DEF CollectRaises, Cancelled, Goes, disk, bos
<1>3. /\ thread' \in [Jobs -> {"none", "queued", "packed", "unpacking", "ended", "failed"}]
      /\ \A u \in Jobs : thread'[u] \in {"none", thread[u]}
  BY <1>1 DEF IInv, Shape, TypeOK
<1>4. Shape'
  BY <1>2, <1>3 DEF IInv, Shape, TypeOK
<1>5. ThreadsSound' /\ Covered' /\ BatchSound'
  BY <1>2, <1>3, JobNames DEF IInv, ThreadsSound, Covered, BatchSound
<1>6. QED BY <1>2, <1>4, <1>5 DEF IInv, Safe

\* And then the run has failed.
LEMMA DrainedInv == ASSUME IInv, Drained PROVE IInv'
  BY RaiseStep DEF IInv, Drained, Shape, TypeOK, disk, bos

\* All jobs are collected: the files at the top are left.
LEMMA CollectedInv == ASSUME IInv, Collected PROVE IInv'
<1>1. /\ UNCHANGED <<run, mover, thread, cancel, staged, spare, direct, tars, progress, left, skipped, once>>
      /\ pc = "collect" /\ pc' = "root" /\ thread = NoThread
  BY DEF Collected, Goes, disk, bos
<1>2. QED
  BY <1>1 DEF IInv, Shape, TypeOK, ThreadsSound, Covered, Waits, BatchSound, Safe

\* A file at the top is stored and goes, or has failed and stays.
LEMMA MoveRootFileInv == ASSUME IInv, MoveRootFile PROVE IInv'
<1>0. Shape /\ thread = NoThread /\ pc = "root" /\ UNCHANGED <<pc, run, thread, cancel, tars, progress, skipped>>
  BY NoThreads DEF IInv, MoveRootFile
<1>1. PICK u \in mover.roots :
        \/ /\ u \in CollectFiles
           /\ Keeps(u) /\ Unlink(u)
           /\ mover' = [mover EXCEPT !.roots = @ \ {u}]
           /\ UNCHANGED left
        \/ /\ IF u \in CollectFiles THEN Spend("faults") ELSE UNCHANGED left
           /\ mover' = [mover EXCEPT !.roots = @ \ {u}, !.failed = TRUE]
           /\ UNCHANGED <<disk, direct, once>>
  BY DEF MoveRootFile
<1>2. u \in Files \union TarFiles
  BY <1>0 DEF Shape
<1>3. CASE /\ Keeps(u) /\ Unlink(u)
           /\ mover' = [mover EXCEPT !.roots = @ \ {u}]
           /\ UNCHANGED left
  <2>1. /\ direct' = direct \union ({u} \intersect Files) /\ once' = once \union ({u} \intersect Files)
        /\ staged' = staged \ {u} /\ spare' \subseteq spare
    BY <1>3 DEF Keeps, Unlink
  <2>2. /\ mover' \in [tarred : BOOLEAN, todo : SUBSET Jobs, roots : SUBSET (Files \union TarFiles), failed : BOOLEAN]
        /\ mover'.todo = mover.todo /\ mover'.roots = mover.roots \ {u} /\ mover'.failed = mover.failed
    BY <1>0, <1>3 DEF Shape
  <2>3. Shape'
    BY <1>0, <1>3, <2>1, <2>2 DEF Shape, TypeOK
  <2>4. ThreadsSound' /\ BatchSound'
    BY <1>0, <1>2, <2>1, NoThreads, JobNames DEF IInv, ThreadsSound, BatchSound, Safe, Shape
  <2>5. Covered'
    BY <1>0, <2>1, <2>2 DEF IInv, Covered, Safe, Waits
  <2>6. QED BY <1>0, <2>1, <2>3, <2>4, <2>5 DEF IInv, Safe
<1>4. CASE /\ IF u \in CollectFiles THEN Spend("faults") ELSE UNCHANGED left
           /\ mover' = [mover EXCEPT !.roots = @ \ {u}, !.failed = TRUE]
           /\ UNCHANGED <<disk, direct, once>>
  <2>1. left' \in [{"cancels", "crashes", "faults", "pressure"} -> Nat]
    BY <1>0, <1>4, SpendsOne DEF Shape
  <2>2. /\ mover' \in [tarred : BOOLEAN, todo : SUBSET Jobs, roots : SUBSET (Files \union TarFiles), failed : BOOLEAN]
        /\ mover'.todo = mover.todo /\ mover'.failed
    BY <1>0, <1>4 DEF Shape
  <2>3. Shape'
    BY <1>0, <1>4, <2>1, <2>2 DEF Shape, TypeOK, disk
  <2>4. ThreadsSound' /\ BatchSound' /\ Covered'
    BY <1>0, <1>4, <2>2 DEF IInv, ThreadsSound, BatchSound, Covered, Safe, disk
  <2>5. QED BY <1>0, <1>4, <2>3, <2>4 DEF IInv, Safe
<1>5. QED BY <1>1, <1>3, <1>4

\* The run is cancelled before a file at the top.
LEMMA RootRaisesInv == ASSUME IInv, RootRaises PROVE IInv'
  BY RaiseStep, NoThreads DEF IInv, RootRaises, Shape, TypeOK, disk, bos

\* A move that returns has stored all that was staged, or skipped it.
LEMMA MovedInv == ASSUME IInv, Moved PROVE IInv'
<1>0. /\ Shape /\ thread = NoThread /\ pc = "root" /\ mover.roots = {}
      /\ UNCHANGED <<thread, cancel, staged, spare, direct, tars, progress, left, once>>
  BY NoThreads DEF IInv, Moved, Returns, disk, bos
<1>1. CASE mover.failed
  BY <1>0, <1>1, RaiseStep DEF Moved, Returns, Shape, TypeOK
<1>2. CASE ~mover.failed
  <2>1. /\ pc' = (IF run.chunked THEN "save" ELSE "clean") /\ mover' = NoMove /\ run' = run
        /\ skipped' = IF cancel THEN skipped \union (staged \ (Hidden \union Stored)) ELSE skipped
    BY <1>2 DEF Moved, Returns, Goes
  <2>2. staged \subseteq Safe'
    <3>1. CASE cancel
      BY <1>0, <2>1, <3>1, StoredOnce DEF Safe
    <3>2. CASE ~cancel
      <4>1. \A f \in staged : f \in Files /\ ~Waits(f) /\ DirOf[f] \notin mover.todo
        BY <1>0, <3>2, NoThreads, JobNames DEF IInv, Covered, Waits, Shape
      <4>2. QED BY <1>0, <1>2, <2>1, <3>2, <4>1 DEF IInv, Covered, Safe
    <3>3. QED BY <3>1, <3>2
  <2>3. Safe \subseteq Safe' /\ run.batch \subseteq Safe'
    BY <1>0, <2>1, <2>2 DEF IInv, BatchSound, Safe
  <2>4. Shape'
    BY <1>0, <2>1 DEF Shape, TypeOK, NoMove
  <2>5. BatchSound'
    BY <1>0, <2>1, <2>2, <2>3 DEF IInv, BatchSound
  <2>6. QED BY <1>0, <2>1, <2>3, <2>4, <2>5, MainStep DEF IInv
<1>3. QED BY <1>1, <1>2

\* The event is set, which lets a move stop early.
LEMMA CancelInv == ASSUME IInv, Cancel PROVE IInv'
<1>1. /\ UNCHANGED <<pc, run, mover, thread, staged, spare, direct, tars, progress, skipped, once>>
      /\ cancel' /\ cancel' \in BOOLEAN
      /\ left' \in [{"cancels", "crashes", "faults", "pressure"} -> Nat]
  BY SpendsOne DEF IInv, Cancel, disk, bos
<1>2. Shape'
  BY <1>1 DEF IInv, Shape, TypeOK
<1>3. ThreadsSound' /\ Covered' /\ BatchSound'
  BY <1>1 DEF IInv, ThreadsSound, Covered, BatchSound, Safe
<1>4. QED BY <1>1, <1>2, <1>3 DEF IInv, Safe

\* A crash takes the threads with it.
LEMMA CrashInv == ASSUME IInv, Crash PROVE IInv'
<1>1. staged' \subseteq Files /\ left' \in [{"cancels", "crashes", "faults", "pressure"} -> Nat]
  BY SpendsOne DEF IInv, Crash, Shape, TypeOK
<1>2. QED BY <1>1, RaiseStep DEF IInv, Crash, Shape, TypeOK, bos

-----------------------------------------------------------------------------
\* Every step keeps the inductive invariant.
LEMMA RunnerNext == ASSUME IInv, [Next]_vars PROVE IInv'
<1>1. CASE UNCHANGED vars
  BY <1>1 DEF vars, disk, bos, IInv, Shape, TypeOK, NoThread, ThreadsSound, Covered, Waits, BatchSound, Safe
<1>2. CASE Works
  BY <1>2, StartInv, RefusedInv, ListInv, TakeBatchInv, BatchRaisesInv, DownloadedInv, DownloadFailsInv,
     SaveInv, CleanInv, ClearProgressInv, MoveInv, SubmitInv, SubmittedInv, PoolInv, CollectInv,
     CollectRaisesInv, DrainedInv, CollectedInv, MoveRootFileInv, RootRaisesInv, MovedInv DEF Works
<1>3. CASE Cancel
  BY <1>3, CancelInv
<1>4. CASE Crash
  BY <1>4, CrashInv
<1>5. QED BY <1>1, <1>2, <1>3, <1>4 DEF Next

\* The inductive invariant of the runs of a task: what is staged, what the pool's
\* threads have done, and what a batch and a progress file may rely on
\* (_run_chunked of task_runner.py over upload of bos_sdk.py).
THEOREM RunnerInvariant == Spec => []IInv
<1>1. Init => IInv
  BY RunnerInit
<1>2. IInv /\ [Next]_vars => IInv'
  BY RunnerNext
<1>3. QED BY <1>1, <1>2, PTL DEF Spec

\* No thread of the pool outlives its move, whatever ends the move, and each
\* variable keeps to its type (the with blocks of bos_sdk.py).
THEOREM RunnerTypes == Spec => []TypeOK
<1>1. IInv => TypeOK
  BY DEF IInv, Shape
<1>2. QED BY <1>1, RunnerInvariant, PTL

\* No file that a later run skips as completed (task_runner.py:130) is missing
\* on BOS, but for those Lost.
THEOREM RunnerProgressSound == Spec => []ProgressSound
<1>1. IInv => ProgressSound
  BY DEF IInv, ProgressSound, Safe, Lost
<1>2. QED BY <1>1, RunnerInvariant, PTL

\* A run that returns has stored every file of the repository but for those
\* Lost, however many runs failed, were cancelled or died before it.
THEOREM RunnerDoneIsStored == Spec => []DoneIsStored
<1>1. IInv => DoneIsStored
  BY DEF IInv, BatchSound, DoneIsStored, Safe, Lost
<1>2. QED BY <1>1, RunnerInvariant, PTL

-----------------------------------------------------------------------------
\* The pool removes from the staging directory only what has been stored.
LEMMA PoolKeeps == ASSUME IInv, Pool PROVE staged \ staged' \subseteq once'
<1>1. CASE \E s \in Dirs : RemovePacked(s)
  <2>1. PICK s \in Dirs : RemovePacked(s)
    BY <1>1
  <2>2. staged \intersect In(s) \subseteq once /\ staged' = staged \ In(s) /\ once' = once
    BY <2>1 DEF IInv, ThreadsSound, RemovePacked
  <2>3. QED BY <2>2
<1>2. CASE ~(\E s \in Dirs : RemovePacked(s))
  <2>1. staged' = staged
    BY <1>2 DEF Pool, Pack, StoreTar, StoreFile, JobFails, disk
  <2>2. QED BY <2>1
<1>3. QED BY <1>1, <1>2

\* A file that the main thread unlinks after its job has been stored.
LEMMA CollectKeeps == ASSUME IInv, Collect PROVE staged \ staged' \subseteq once'
<1>1. PICK u \in Jobs : Collects(u, u \notin Dirs /\ thread[u] = "ended")
  BY DEF Collect
<1>2. once' = once /\ (staged' = staged \/ (thread[u] = "ended" /\ staged' = staged \ {u}))
  BY <1>1 DEF Collects, Unlink, disk
<1>3. u \in staged /\ thread[u] = "ended" => u \in once
  BY DEF IInv, ThreadsSound, Shape
<1>4. QED BY <1>2, <1>3

\* So has a file at the top that it moves itself.
LEMMA MoveRootFileKeeps == ASSUME IInv, MoveRootFile PROVE staged \ staged' \subseteq once'
<1>1. PICK u \in mover.roots :
        \/ Keeps(u) /\ Unlink(u)
        \/ UNCHANGED <<disk, direct, once>>
  BY DEF MoveRootFile
<1>2. CASE Keeps(u) /\ Unlink(u)
  <2>1. once' = once \union ({u} \intersect Files) /\ staged' = staged \ {u} /\ staged \subseteq Files
    BY <1>2 DEF Keeps, Unlink, IInv, Shape
  <2>2. QED BY <2>1
<1>3. CASE UNCHANGED <<disk, direct, once>>
  BY <1>3 DEF disk
<1>4. QED BY <1>1, <1>2, <1>3

\* Emptying the disk spends pressure.
LEMMA PressureSpent == ASSUME IInv, Spend("pressure") PROVE left'.pressure # left.pressure
<1>1. left.pressure \in Nat /\ left'.pressure < left.pressure
  BY SpendsOne DEF IInv, Shape
<1>2. left'.pressure \in Nat
  BY SpendsOne DEF IInv
<1>3. QED BY <1>1, <1>2

\* Every step that leaves the pressure as it was removes only safe files.
LEMMA StepKeeps ==
    ASSUME IInv, [Next]_vars, left'.pressure = left.pressure
    PROVE  staged \ staged' \subseteq Safe'
<1>1. CASE Pool \/ Collect \/ MoveRootFile
  BY <1>1, PoolKeeps, CollectKeeps, MoveRootFileKeeps DEF Safe
<1>2. CASE Clean
  BY <1>2 DEF IInv, BatchSound, Clean, Safe
<1>3. CASE TakeBatch
  BY <1>3, PressureSpent DEF TakeBatch, Takes, Room, disk
<1>4. CASE BatchRaises
  BY <1>4, PressureSpent DEF BatchRaises, disk
<1>5. CASE Start \/ Refused \/ List \/ Save \/ ClearProgress \/ Move \/ Submit \/ Submitted
  BY <1>5 DEF Start, Starts, Refused, List, Save, ClearProgress, Move, Submit, Submitted, disk
<1>6. CASE CollectRaises \/ Drained \/ Collected \/ RootRaises \/ Moved \/ Cancel \/ UNCHANGED vars
  BY <1>6 DEF CollectRaises, Cancelled, Drained, Collected, RootRaises, Moved, Returns, Cancel, vars, disk
<1>7. CASE Downloaded \/ DownloadFails \/ Crash
  <2>1. staged \subseteq staged'
    <3>1. CASE Downloaded
      BY <3>1 DEF Downloaded
    <3>2. CASE DownloadFails
      BY <3>2 DEF DownloadFails
    <3>3. CASE Crash
      BY <3>3 DEF Crash
    <3>4. QED BY <1>7, <3>1, <3>2, <3>3
  <2>2. QED BY <2>1
<1>8. QED BY <1>1, <1>2, <1>3, <1>4, <1>5, <1>6, <1>7 DEF Next, Works

\* A staged file goes only once it is stored, whatever fails or is cancelled in the
\* middle of the pool's work (_tar_and_upload and upload of bos_sdk.py), unless the
\* disk is emptied under pressure or the file is Lost.
THEOREM RunnerStagedUntilStored == Spec => StagedUntilStored
<1>1. IInv /\ [Next]_vars =>
        [left'.pressure = left.pressure => staged \ staged' \subseteq (Stored \union Lost)']_vars
  <2>1. Safe' \subseteq (Stored \union Lost)'
    BY DEF Safe, Lost
  <2>2. QED BY <2>1, StepKeeps
<1>2. QED BY <1>1, RunnerInvariant, PTL DEF Spec, StagedUntilStored
=============================================================================

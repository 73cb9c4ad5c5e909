--------------------------- MODULE TaskQueue_proofs ---------------------------
(***************************************************************************)
(* Proofs about TaskQueue, for any number of tasks, of requests in         *)
(* progress and of operations: the types of its state, that a deleted task *)
(* stays deleted, and that a pause, once settled, holds.                   *)
(***************************************************************************)
EXTENDS TaskQueue, TLAPS

\* UpdateTypes: update_task_progress keeps the types of the columns.
LEMMA UpdateTypes ==
    ASSUME TypeOK, NEW S, NEW status \in [S -> Statuses], UpdateRows(status)
    PROVE  /\ row' \in [Tasks -> Statuses \union {"none"}]
           /\ stale' \in [Tasks -> BOOLEAN]
BY DEF TypeOK, UpdateRows

\* RowTypes: the same for a single row.
LEMMA RowTypes ==
    ASSUME TypeOK, NEW t, NEW status \in Statuses, UpdateRow(t, status)
    PROVE  /\ row' \in [Tasks -> Statuses \union {"none"}]
           /\ stale' \in [Tasks -> BOOLEAN]
<1>1. [u \in {t} |-> status] \in [{t} -> Statuses]
  OBVIOUS
<1> QED
  BY <1>1, UpdateTypes DEF UpdateRow

\* ReportTypes: so does report_to_dashboard.
LEMMA ReportTypes ==
    ASSUME TypeOK, NEW t, NEW status \in Statuses, Report(t, status)
    PROVE  /\ row' \in [Tasks -> Statuses \union {"none"}]
           /\ stale' \in [Tasks -> BOOLEAN]
BY RowTypes DEF Report, rowVars, TypeOK

\* InitTypes: the initial state has its types.
LEMMA InitTypes == Init => TypeOK
<1> SUFFICES ASSUME Init PROVE TypeOK
  OBVIOUS
<1>1. Idle \in RequestRecord /\ Idle.op = "idle"
  BY DEF Idle, RequestRecord, Awaits
<1>2. Asleep \in SweepRecord
  BY DEF Asleep, SweepRecord
<1> QED
  BY <1>1, <1>2 DEF Init, TypeOK

\* RequestTypes: the steps of a handler keep the types of its local state.
RequestsOK ==
    /\ req \in [Requests -> RequestRecord]
    /\ \A r \in Requests : req[r].op # "idle" => req[r].task \in issued

\* The steps of a handler keep RequestsOK.
LEMMA RequestTypes ==
    ASSUME TypeOK, NEW r \in Requests, NEW pc \in Awaits,
           Goto(r, pc) \/ Return(r), issued' = issued
    PROVE  RequestsOK'
<1>0. req[r] \in RequestRecord
  BY DEF TypeOK
<1>1. CASE Goto(r, pc)
  <2>1. [req[r] EXCEPT !.pc = pc] \in RequestRecord
    BY <1>0 DEF RequestRecord
  <2>2. /\ [req[r] EXCEPT !.pc = pc].op = req[r].op
        /\ [req[r] EXCEPT !.pc = pc].task = req[r].task
    BY <1>0 DEF RequestRecord
  <2>3. req' = [req EXCEPT ![r] = [req[r] EXCEPT !.pc = pc]]
    BY <1>1 DEF Goto
  <2> QED
    BY <2>1, <2>2, <2>3 DEF TypeOK, RequestsOK
<1>2. CASE Return(r)
  <2>1. Idle \in RequestRecord /\ Idle.op = "idle"
    BY DEF Idle, RequestRecord, Awaits
  <2> QED
    BY <1>2, <2>1 DEF TypeOK, Return, RequestsOK
<1> QED
  BY <1>1, <1>2

\* HandleTypes: every step of a request handler keeps the types.
LEMMA HandleTypes ==
    ASSUME TypeOK, NEW r \in Requests, Handle(r)
    PROVE  TypeOK'
<1>0. {"check", "save", "start", "update", "cancel", "delete", "read"} \subseteq Awaits
  BY DEF Awaits
<1>1. CASE CheckDup(r)
  <2>1. RequestsOK'
    BY <1>0, <1>1, RequestTypes DEF CheckDup
  <2> QED
    BY <1>1, <2>1 DEF TypeOK, RequestsOK, CheckDup, rowVars, runVars
<1>2. CASE SaveTask(r)
  <2>1. RequestsOK'
    BY <1>0, <1>2, RequestTypes DEF SaveTask
  <2> QED
    BY <1>2, <2>1 DEF TypeOK, RequestsOK, SaveTask, runVars, Statuses
<1>3. CASE PauseRow(r)
  <2>1. row' \in [Tasks -> Statuses \union {"none"}] /\ stale' \in [Tasks -> BOOLEAN]
    <3>1. CASE UpdateRow(req[r].task, "paused")
      BY <3>1, RowTypes DEF Statuses
    <3>2. CASE UNCHANGED rowVars
      BY <3>2 DEF rowVars, TypeOK
    <3> QED
      BY <1>3, <3>1, <3>2 DEF PauseRow
  <2>2. RequestsOK'
    BY <1>0, <1>3, RequestTypes DEF PauseRow
  <2> QED
    BY <1>3, <2>1, <2>2 DEF TypeOK, RequestsOK, PauseRow, runVars
<1>4. CASE CancelWorkflow(r)
  <2>1. req[r].task \in Tasks
    BY <1>4 DEF TypeOK, CancelWorkflow, At
  <2>2. wf' \in [Tasks -> {"none"} \union Live \union Closed]
    BY <1>4 DEF TypeOK, CancelWorkflow, Live
  <2>3. held' \subseteq Tasks
    BY <1>4, <2>1 DEF TypeOK, CancelWorkflow
  <2>4. RequestsOK'
    BY <1>0, <1>4, RequestTypes DEF CancelWorkflow
  <2> QED
    BY <1>4, <2>2, <2>3, <2>4 DEF TypeOK, RequestsOK, CancelWorkflow, rowVars
<1>5. CASE DeleteRow(r)
  <2>1. RequestsOK'
    BY <1>0, <1>5, RequestTypes DEF DeleteRow
  <2> QED
    BY <1>5, <2>1 DEF TypeOK, RequestsOK, DeleteRow, runVars
<1>6. CASE ReadForRestart(r)
  <2>1. RequestsOK'
    BY <1>0, <1>6, RequestTypes DEF ReadForRestart
  <2>2. held' \subseteq Tasks
    BY <1>6 DEF TypeOK, ReadForRestart
  <2> QED
    BY <1>6, <2>1, <2>2 DEF TypeOK, RequestsOK, ReadForRestart, rowVars, runVars
<1>7. CASE MarkPending(r)
  <2>1. row' \in [Tasks -> Statuses \union {"none"}] /\ stale' \in [Tasks -> BOOLEAN]
    BY <1>7, RowTypes DEF MarkPending, Statuses
  <2>2. RequestsOK'
    BY <1>0, <1>7, RequestTypes DEF MarkPending
  <2> QED
    BY <1>7, <2>1, <2>2 DEF TypeOK, RequestsOK, MarkPending, runVars
<1>8. CASE StartWorkflow(r)
  <2>1. req[r].task \in Tasks
    BY <1>8 DEF TypeOK, StartWorkflow, At
  <2>2. wf' \in [Tasks -> {"none"} \union Live \union Closed] /\ split' \subseteq Tasks
    BY <1>8, <2>1 DEF TypeOK, StartWorkflow, StartExecution, Live
  <2>3. RequestsOK'
    BY <1>0, <1>8, RequestTypes DEF StartWorkflow
  <2> QED
    BY <1>8, <2>2, <2>3 DEF TypeOK, RequestsOK, StartWorkflow, rowVars
<1>9. CASE NoClient(r)
  <2>1. RequestsOK'
    BY <1>0, <1>9, RequestTypes DEF NoClient
  <2> QED
    BY <1>9, <2>1 DEF TypeOK, RequestsOK, NoClient, rowVars, runVars
<1> QED
  BY <1>1, <1>2, <1>3, <1>4, <1>5, <1>6, <1>7, <1>8, <1>9 DEF Handle

\* CallTypes: so does the arrival of a request.
LEMMA CallTypes ==
    ASSUME TypeOK, NEW r \in Requests, NEW op \in Ops, NEW t \in Tasks, Call(r, op, t)
    PROVE  TypeOK'
<1> DEFINE new == [op |-> op, task |-> t, pc |-> FirstStep[op]]
<1>1. op \in AllOps \ {"redispatch", "reset", "skip"}
  BY DEF Call, FirstStep, AllOps
<1>2. FirstStep[op] \in Awaits
  <2>1. op \in {"add", "split", "pause", "resume", "retry", "delete"}
    BY <1>1 DEF AllOps
  <2>2. /\ FirstStep["add"] = "check" /\ FirstStep["split"] = "check"
        /\ FirstStep["pause"] = "update" /\ FirstStep["resume"] = "read"
        /\ FirstStep["retry"] = "read" /\ FirstStep["delete"] = "cancel"
    BY DEF FirstStep
  <2> QED
    BY <2>1, <2>2 DEF Awaits
<1>3. new \in RequestRecord /\ new.task = t
  BY <1>1, <1>2 DEF RequestRecord
<1>4. req' = [req EXCEPT ![r] = new] /\ issued' = issued \union {t}
  BY DEF Call
<1>5. RequestsOK'
  <2> HIDE DEF new
  <2> QED
    BY <1>3, <1>4 DEF TypeOK, RequestsOK
<1> QED
  BY <1>4, <1>5 DEF TypeOK, RequestsOK, Call, rowVars, runVars

\* SweepTypes: so does every step of the reconciler and of the doctor.
LEMMA SweepTypes ==
    ASSUME TypeOK, NEW s \in Sweepers,
           Sweep(s) \/ ListUnreachable
              \/ \E t \in Tasks : SweepStarts(s, t) \/ SweepStartFails(s, t)
    PROVE  TypeOK'
<1>0. sweep[s] \in SweepRecord
  BY DEF TypeOK
<1>1. CASE ReadRows(s)
  BY <1>0, <1>1 DEF TypeOK, ReadRows, SweepRecord, rowVars, runVars
<1>2. CASE ListWorkflows(s)
  <2>1. PICK dead \in SUBSET Tasks, todo \in SUBSET Tasks :
           sweep' = [sweep EXCEPT ![s].pc = "start", ![s].seen = {}, ![s].dead = dead,
                                  ![s].todo = todo]
    BY <1>0, <1>2 DEF ListWorkflows, SweepRecord
  <2>2. sweep' = [sweep EXCEPT ![s] = [sweep[s] EXCEPT !.pc = "start", !.seen = {},
                                                       !.dead = dead, !.todo = todo]]
    BY <2>1 DEF TypeOK
  <2>3. [sweep[s] EXCEPT !.pc = "start", !.seen = {}, !.dead = dead, !.todo = todo]
            \in SweepRecord
    BY <1>0 DEF SweepRecord
  <2> QED
    BY <1>2, <2>2, <2>3 DEF TypeOK, ListWorkflows, rowVars, runVars
<1>3. CASE SweepEnds(s)
  <2>1. row' \in [Tasks -> Statuses \union {"none"}] /\ stale' \in [Tasks -> BOOLEAN]
    <3>1. PICK D, Z :
             UpdateRows([t \in D \union Z |-> IF t \in D THEN "pending" ELSE "revoked"])
      BY <1>3 DEF SweepEnds
    <3>2. [t \in D \union Z |-> IF t \in D THEN "pending" ELSE "revoked"]
             \in [D \union Z -> Statuses]
      BY DEF Statuses
    <3> QED
      BY <3>1, <3>2, UpdateTypes
  <2> QED
    BY <1>0, <1>3, <2>1 DEF TypeOK, SweepEnds, SweepRecord, Asleep, runVars
<1>4. ASSUME NEW t \in Tasks, SweepStarts(s, t) PROVE TypeOK'
  BY <1>0, <1>4 DEF TypeOK, SweepStarts, StartExecution, SweepRecord, rowVars, Live
<1>5. ASSUME NEW t \in Tasks, SweepStartFails(s, t) PROVE TypeOK'
  BY <1>0, <1>5 DEF TypeOK, SweepStartFails, SweepRecord, rowVars, runVars
<1>6. CASE ListUnreachable
  BY <1>6 DEF TypeOK, ListUnreachable, SweepRecord, Asleep, rowVars, runVars
<1> QED
  BY <1>1, <1>2, <1>3, <1>4, <1>5, <1>6 DEF Sweep

\* TaskTypes: so does every step of a workflow, of a report and of time.
LEMMA TaskTypes ==
    ASSUME TypeOK, NEW t \in Tasks,
           WfSteps(t) \/ PostProgress(t) \/ TaskProgress(t) \/ Age(t)
    PROVE  TypeOK'
<1>0. {"downloading", "done", "failed"} \subseteq Statuses
  BY DEF Statuses
<1>1. CASE WfRuns(t)
  BY <1>0, <1>1, ReportTypes DEF TypeOK, WfRuns, Live
<1>2. CASE WfCompletes(t)
  BY <1>0, <1>2, ReportTypes DEF TypeOK, WfCompletes, Closed
<1>3. CASE WfFails(t)
  <2>1. row' \in [Tasks -> Statuses \union {"none"}] /\ stale' \in [Tasks -> BOOLEAN]
    BY <1>0, <1>3, ReportTypes DEF WfFails, rowVars, TypeOK
  <2>2. lingers' \in [Tasks -> BOOLEAN]
    BY <1>3 DEF WfFails, TypeOK
  <2> QED
    BY <1>3, <2>1, <2>2 DEF TypeOK, WfFails, Closed
<1>4. CASE WfCancelled(t)
  <2>1. row' \in [Tasks -> Statuses \union {"none"}] /\ stale' \in [Tasks -> BOOLEAN]
    BY <1>0, <1>4, ReportTypes DEF WfCancelled, rowVars, TypeOK
  <2>2. wf' \in [Tasks -> {"none"} \union Live \union Closed] /\ lingers' \in [Tasks -> BOOLEAN]
    BY <1>4 DEF WfCancelled, TypeOK, Closed
  <2> QED
    BY <1>4, <2>1, <2>2 DEF TypeOK, WfCancelled
<1>5. CASE SplitEnds(t) \/ LingerEnds(t) \/ PostProgress(t)
  BY <1>5 DEF TypeOK, SplitEnds, LingerEnds, PostProgress, rowVars
<1>6. CASE TaskProgress(t)
  <2>1. row' \in [Tasks -> Statuses \union {"none"}] /\ stale' \in [Tasks -> BOOLEAN]
    BY <1>0, <1>6, RowTypes DEF TaskProgress
  <2> QED
    BY <1>6, <2>1 DEF TypeOK, TaskProgress
<1>7. CASE Age(t)
  BY <1>7 DEF TypeOK, Age, runVars
<1> QED
  BY <1>1, <1>2, <1>3, <1>4, <1>5, <1>6, <1>7 DEF WfSteps

\* TypeCorrect: the types of TaskQueue hold in every reachable state.
THEOREM TypeCorrect == Spec => []TypeOK
<1>1. TypeOK /\ [Next]_vars => TypeOK'
  <2> SUFFICES ASSUME TypeOK, [Next]_vars PROVE TypeOK'
    OBVIOUS
  <2>1. CASE UNCHANGED vars
    BY <2>1 DEF TypeOK, vars
  <2>2. CASE Next
    BY <2>2, HandleTypes, CallTypes, SweepTypes, TaskTypes DEF Next, Sweepers
  <2> QED
    BY <2>1, <2>2
<1> QED
  BY InitTypes, <1>1, PTL DEF Spec

-----------------------------------------------------------------------------
\* RowsKept: no row appears in this step.
RowsKept == \A t \in Tasks : row[t] = "none" => row'[t] = "none"

\* UpdateKeeps: update_task_progress is an UPDATE and never inserts a row.
LEMMA UpdateKeeps ==
    ASSUME NEW status, UpdateRows(status)
    PROVE  RowsKept
BY DEF UpdateRows, RowsKept

\* ReportKeeps: report_to_dashboard is such an UPDATE, or writes elsewhere.
LEMMA ReportKeeps ==
    ASSUME NEW t, NEW status, Report(t, status)
    PROVE  RowsKept
BY UpdateKeeps DEF Report, UpdateRow, rowVars, RowsKept

\* SaveInserts: do_save of an add makes at most the row of its own id appear.
LEMMA SaveInserts ==
    ASSUME TypeOK, NEW r \in Requests, SaveTask(r),
           NEW t \in Tasks, row[t] = "none", row'[t] # "none"
    PROVE  At(r, {"add", "split"}, "save") /\ req[r].task = t
BY DEF TypeOK, SaveTask

\* OthersKeep: no other step makes a row appear.
LEMMA OthersKeep ==
    ASSUME TypeOK, [Next]_vars, \A r \in Requests : ~SaveTask(r)
    PROVE  RowsKept
<1>1. CASE UNCHANGED vars
  BY <1>1 DEF RowsKept, vars
<1>2. ASSUME NEW r \in Requests, Handle(r) PROVE RowsKept
  <2>1. CASE CheckDup(r) \/ CancelWorkflow(r) \/ NoClient(r) \/ ReadForRestart(r) \/ StartWorkflow(r)
    BY <2>1 DEF RowsKept, CheckDup, CancelWorkflow, NoClient, ReadForRestart, StartWorkflow, rowVars
  <2>2. CASE PauseRow(r)
    BY <2>2, UpdateKeeps DEF PauseRow, UpdateRow, rowVars, RowsKept
  <2>3. CASE DeleteRow(r)
    BY <2>3 DEF DeleteRow, RowsKept, TypeOK
  <2>4. CASE MarkPending(r)
    BY <2>4, UpdateKeeps DEF MarkPending, UpdateRow
  <2> QED
    BY <1>2, <2>1, <2>2, <2>3, <2>4 DEF Handle
<1>3. ASSUME NEW r \in Requests, NEW op \in Ops, NEW t \in Tasks, Call(r, op, t) PROVE RowsKept
  BY <1>3 DEF Call, rowVars, RowsKept
<1>4. ASSUME NEW s \in Sweepers,
             Sweep(s) \/ ListUnreachable
                \/ \E t \in Tasks : SweepStarts(s, t) \/ SweepStartFails(s, t)
      PROVE  RowsKept
  <2>1. CASE SweepEnds(s)
    BY <2>1, UpdateKeeps DEF SweepEnds, rowVars, RowsKept
  <2> QED
    BY <1>4, <2>1
       DEF Sweep, ReadRows, ListWorkflows, ListUnreachable, SweepStarts, SweepStartFails, rowVars, RowsKept
<1>5. ASSUME NEW t \in Tasks, WfSteps(t) \/ PostProgress(t) \/ TaskProgress(t) \/ Age(t)
      PROVE  RowsKept
  <2>1. CASE WfRuns(t) \/ WfCompletes(t) \/ WfFails(t) \/ WfCancelled(t)
    BY <2>1, ReportKeeps DEF WfRuns, WfCompletes, WfFails, WfCancelled, rowVars, RowsKept
  <2>2. CASE TaskProgress(t)
    BY <2>2, UpdateKeeps DEF TaskProgress, UpdateRow
  <2> QED
    BY <1>5, <2>1, <2>2 DEF WfSteps, SplitEnds, LingerEnds, PostProgress, Age, rowVars, RowsKept
<1> QED
  BY <1>1, <1>2, <1>3, <1>4, <1>5 DEF Next, Sweepers

\* DeletedForGoodTheorem: whatever requests, sweeps, reports and workflows do
\* to each other, only the add that was given an id ever inserts its row.
THEOREM DeletedForGoodTheorem == Spec => DeletedForGood
<1>1. TypeOK /\ [Next]_vars =>
        [\A t \in Tasks : row[t] = "none" /\ row'[t] # "none" =>
            \E r \in Requests : At(r, {"add", "split"}, "save") /\ req[r].task = t]_vars
  <2> SUFFICES ASSUME TypeOK, [Next]_vars,
                      NEW t \in Tasks, row[t] = "none", row'[t] # "none"
               PROVE  \E r \in Requests : At(r, {"add", "split"}, "save") /\ req[r].task = t
    OBVIOUS
  <2>1. PICK r \in Requests : SaveTask(r)
    BY OthersKeep DEF RowsKept
  <2> QED
    BY <2>1, SaveInserts
<1> QED
  BY TypeCorrect, <1>1, PTL DEF Spec, DeletedForGood

-----------------------------------------------------------------------------
\* A request that is to save a new task.
Adding(r) == At(r, {"add", "split"}, "check") \/ At(r, {"add", "split"}, "save")

\* Ids are given to one add each, and that add saves the first row of its id.
NewIds ==
    /\ \A t \in Tasks : row[t] # "none" => t \in issued
    /\ \A r \in Requests : Adding(r) => row[req[r].task] = "none"
    /\ \A r, q \in Requests : Adding(r) /\ Adding(q) /\ req[r].task = req[q].task => r = q

\* Only the arrival of a request makes it one that adds.
AddersKept == \A r \in Requests : Adding(r)' => Adding(r) /\ req'[r].task = req[r].task

\* GotoKeeps: a handler that goes on does not go back to the start of an add.
LEMMA GotoKeeps ==
    ASSUME TypeOK, NEW r \in Requests, NEW pc, Goto(r, pc) \/ Return(r),
           pc \in {"check", "save"} => Adding(r)
    PROVE  AddersKept
<1>1. \A q \in Requests \ {r} : req'[q] = req[q]
  BY DEF TypeOK, Goto, Return
<1>2. CASE Goto(r, pc)
  <2>1. req'[r].op = req[r].op /\ req'[r].task = req[r].task /\ req'[r].pc = pc
    BY <1>2 DEF TypeOK, RequestRecord, Goto
  <2>2. Adding(r)' => Adding(r)
    BY <2>1 DEF Adding, At
  <2>3. \A q \in Requests \ {r} : Adding(q)' => Adding(q)
    BY <1>1 DEF Adding, At
  <2> QED
    BY <1>1, <2>1, <2>2, <2>3 DEF AddersKept
<1>3. CASE Return(r)
  <2>1. req'[r].op = "idle"
    BY <1>3 DEF TypeOK, Return, Idle
  <2>2. ~Adding(r)'
    BY <2>1 DEF Adding, At
  <2>3. \A q \in Requests \ {r} : Adding(q)' => Adding(q)
    BY <1>1 DEF Adding, At
  <2> QED
    BY <1>1, <2>2, <2>3 DEF AddersKept
<1> QED
  BY <1>2, <1>3

\* AddersStay: no step but an arrival makes an add.
LEMMA AddersStay ==
    ASSUME TypeOK, [Next]_vars,
           \A r \in Requests : \A op \in Ops, t \in Tasks : ~Call(r, op, t)
    PROVE  AddersKept /\ issued' = issued
<1>1. CASE UNCHANGED vars
  BY <1>1 DEF AddersKept, Adding, At, vars
<1>2. ASSUME NEW r \in Requests, Handle(r) PROVE AddersKept /\ issued' = issued
  <2>1. CASE CheckDup(r)
    <3>1. Goto(r, "save") \/ Return(r)
      BY <2>1 DEF CheckDup
    <3>2. Adding(r) /\ issued' = issued
      BY <2>1 DEF CheckDup, Adding
    <3> QED
      BY <3>1, <3>2, GotoKeeps
  <2>2. CASE SaveTask(r) \/ MarkPending(r)
    BY <2>2, GotoKeeps DEF SaveTask, MarkPending
  <2>3. CASE PauseRow(r)
    BY <2>3, GotoKeeps DEF PauseRow
  <2>4. CASE CancelWorkflow(r) \/ NoClient(r) \/ DeleteRow(r) \/ StartWorkflow(r)
    BY <2>4, GotoKeeps DEF CancelWorkflow, NoClient, DeleteRow, StartWorkflow
  <2>5. CASE ReadForRestart(r)
    BY <2>5, GotoKeeps DEF ReadForRestart
  <2> QED
    BY <1>2, <2>1, <2>2, <2>3, <2>4, <2>5 DEF Handle
<1>3. CASE UNCHANGED <<req, issued>>
  BY <1>3 DEF AddersKept, Adding, At
<1> QED
  BY <1>1, <1>2, <1>3
     DEF Next, Sweep, ReadRows, ListWorkflows, SweepEnds, ListUnreachable, SweepStarts, SweepStartFails,
         WfSteps, WfRuns, WfCompletes, WfFails, WfCancelled, SplitEnds, LingerEnds, PostProgress,
         TaskProgress, Age

\* NewIdsStep: every step keeps NewIds.
LEMMA NewIdsStep == ASSUME TypeOK, NewIds, [Next]_vars PROVE NewIds'
<1>1. ASSUME NEW r \in Requests, NEW op \in Ops, NEW t \in Tasks, Call(r, op, t) PROVE NewIds'
  <2>1. /\ UNCHANGED row /\ issued' = issued \union {t}
        /\ t \in issued <=> op \notin {"add", "split"}
    BY <1>1 DEF Call, rowVars
  <2>2. /\ req'[r].op = op /\ req'[r].task = t
        /\ \A q \in Requests \ {r} : req'[q] = req[q]
    BY <1>1 DEF Call, TypeOK
  <2>3. \A q \in Requests \ {r} : Adding(q)' => Adding(q) /\ req[q].task \in issued
    BY <2>2 DEF Adding, At, TypeOK
  <2>4. Adding(r)' => t \notin issued /\ row[t] = "none"
    BY <2>1, <2>2 DEF Adding, At, NewIds
  <2> QED
    BY <2>1, <2>2, <2>3, <2>4 DEF NewIds
<1>2. ASSUME \A r \in Requests : \A op \in Ops, t \in Tasks : ~Call(r, op, t) PROVE NewIds'
  <2>1. AddersKept /\ issued' = issued
    BY <1>2, AddersStay
  <2>2. CASE \A r \in Requests : ~SaveTask(r)
    <3>1. RowsKept
      BY <2>2, OthersKeep
    <3>2. \A r \in Requests : Adding(r) => req[r].task \in Tasks
      BY DEF Adding, At, TypeOK
    <3> QED
      BY <2>1, <3>1, <3>2 DEF NewIds, AddersKept, RowsKept
  <2>3. ASSUME NEW r \in Requests, SaveTask(r) PROVE NewIds'
    <3>1. req[r].task \in issued /\ issued \subseteq Tasks /\ Adding(r)
      BY <2>3 DEF SaveTask, At, Adding, TypeOK
    <3>2. \A u \in Tasks : u # req[r].task => row'[u] = row[u]
      BY <2>3 DEF SaveTask, TypeOK
    <3>3. ~Adding(r)'
      <4>1. req'[r].pc = "start"
        BY <2>3 DEF SaveTask, Goto, TypeOK, RequestRecord
      <4> QED
        BY <4>1 DEF Adding, At
    <3>4. \A q \in Requests : Adding(q)' => /\ Adding(q) /\ req'[q].task = req[q].task
                                            /\ req[q].task \in Tasks /\ req[q].task # req[r].task
      BY <2>1, <3>1, <3>3 DEF AddersKept, NewIds, Adding, At, TypeOK
    <3>5. \A t \in Tasks : row'[t] # "none" => t \in issued'
      BY <2>1, <3>1, <3>2 DEF NewIds
    <3> QED
      BY <3>2, <3>4, <3>5 DEF NewIds
  <2> QED
    BY <2>2, <2>3
<1> QED
  BY <1>1, <1>2

\* UpdateElsewhere: an UPDATE of other rows leaves a task's row as it is.
LEMMA UpdateElsewhere ==
    ASSUME TypeOK, NEW t \in Tasks, NEW status, UpdateRows(status), t \notin DOMAIN status
    PROVE  row'[t] = row[t]
BY DEF UpdateRows, TypeOK

\* ReportElsewhere: and so does another task's report.
LEMMA ReportElsewhere ==
    ASSUME TypeOK, NEW t \in Tasks, NEW u, u # t, NEW status,
           Report(u, status) \/ UpdateRow(u, status) \/ UNCHANGED rowVars
    PROVE  row'[t] = row[t]
<1>1. CASE UNCHANGED rowVars
  BY <1>1 DEF rowVars
<1>2. CASE UpdateRow(u, status)
  BY <1>2, UpdateElsewhere DEF UpdateRow
<1> QED
  BY <1>1, <1>2 DEF Report

\* RestKept: a settled pause is kept by a step that leaves the task's row, its
\* workflow, its attempts and what sweeps have read of it.
LEMMA RestKept ==
    ASSUME NEW t \in Tasks, AtRest(t),
           row'[t] = row[t], wf'[t] = wf[t] \/ wf'[t] \notin Live,
           lingers'[t] => lingers[t], post'[t] => post[t],
           \A s \in Sweepers :
              t \notin sweep'[s].seen \union sweep'[s].dead \union sweep'[s].zombies \union sweep'[s].todo
    PROVE  AtRest(t)'
BY DEF AtRest

\* RestOrCommand: what a step does to a settled pause.
LEMMA RestOrCommand ==
    ASSUME TypeOK, NewIds, Next, NEW t \in Tasks, AtRest(t), ~Commanded(t)
    PROVE  AtRest(t)'
<1>0. /\ row[t] = "paused" /\ wf[t] \notin Live /\ ~lingers[t] /\ ~post[t]
      /\ \A s \in Sweepers : t \notin sweep[s].seen /\ t \notin sweep[s].dead
                             /\ t \notin sweep[s].zombies /\ t \notin sweep[s].todo
  BY DEF AtRest
<1>1. ASSUME NEW r \in Requests, Handle(r) PROVE AtRest(t)'
  <2>1. CASE CheckDup(r) \/ NoClient(r) \/ ReadForRestart(r)
    BY <1>0, <2>1, RestKept DEF CheckDup, NoClient, ReadForRestart, rowVars, runVars
  <2>2. CASE SaveTask(r)
    <3>1. req[r].task # t
      BY <1>0, <2>2 DEF SaveTask, NewIds, Adding
    <3>2. row'[t] = row[t]
      BY <2>2, <3>1 DEF SaveTask, TypeOK
    <3> QED
      BY <1>0, <2>2, <3>2, RestKept DEF SaveTask, runVars
  <2>3. CASE PauseRow(r)
    <3>1. row'[t] = row[t]
      BY <1>0, <2>3, ReportElsewhere DEF PauseRow, rowVars
    <3> QED
      BY <1>0, <2>3, <3>1, RestKept DEF PauseRow, runVars
  <2>4. CASE CancelWorkflow(r)
    <3>1. wf'[t] = wf[t]
      BY <1>0, <2>4 DEF CancelWorkflow, TypeOK, Live
    <3> QED
      BY <1>0, <2>4, <3>1, RestKept DEF CancelWorkflow, rowVars
  <2>5. CASE DeleteRow(r)
    <3>1. req[r].task # t
      BY <2>5 DEF DeleteRow, Commanded
    <3>2. row'[t] = row[t]
      BY <2>5, <3>1 DEF DeleteRow, TypeOK
    <3> QED
      BY <1>0, <2>5, <3>2, RestKept DEF DeleteRow, runVars
  <2>6. CASE MarkPending(r)
    <3>1. req[r].task # t
      BY <2>6 DEF MarkPending, Commanded
    <3>2. row'[t] = row[t]
      BY <2>6, <3>1, ReportElsewhere DEF MarkPending
    <3> QED
      BY <1>0, <2>6, <3>2, RestKept DEF MarkPending, runVars
  <2>7. CASE StartWorkflow(r)
    <3>1. wf'[t] = wf[t]
      <4>1. CASE req[r].op = "split" \/ UNCHANGED wf
        BY <2>7, <4>1 DEF StartWorkflow
      <4>2. CASE req[r].op # "split" /\ StartExecution(req[r].task)
        <5>1. req[r].task # t
          BY <2>7, <4>2 DEF StartWorkflow, Commanded, At
        <5> QED
          BY <4>2, <5>1 DEF StartExecution, TypeOK
      <4> QED
        BY <2>7, <4>1, <4>2 DEF StartWorkflow
    <3> QED
      BY <1>0, <2>7, <3>1, RestKept DEF StartWorkflow, rowVars
  <2> QED
    BY <1>1, <2>1, <2>2, <2>3, <2>4, <2>5, <2>6, <2>7 DEF Handle
<1>2. ASSUME NEW r \in Requests, NEW op \in Ops, NEW u \in Tasks, Call(r, op, u) PROVE AtRest(t)'
  BY <1>0, <1>2, RestKept DEF Call, rowVars, runVars
<1>3. ASSUME NEW s \in Sweepers,
             Sweep(s) \/ ListUnreachable
                \/ \E u \in Tasks : SweepStarts(s, u) \/ SweepStartFails(s, u)
      PROVE  AtRest(t)'
  <2>1. sweep \in [Sweepers -> SweepRecord] /\ Asleep.seen = {} /\ Asleep.dead = {}
        /\ Asleep.zombies = {} /\ Asleep.todo = {}
    BY DEF TypeOK, Asleep
  <2> DEFINE Unread == \A q \in Sweepers :
        t \notin sweep'[q].seen \union sweep'[q].dead \union sweep'[q].zombies \union sweep'[q].todo
  <2>2. CASE ReadRows(s)
    <3>1. Unread
      BY <1>0, <2>1, <2>2 DEF ReadRows
    <3> QED
      BY <1>0, <2>2, <3>1, RestKept DEF ReadRows, rowVars, runVars
  <2>3. CASE ListWorkflows(s)
    <3>0. sweep[s] \in SweepRecord
      BY <2>1
    <3>1. /\ sweep'[s].seen = {} /\ sweep'[s].zombies = sweep[s].zombies
          /\ sweep'[s].dead \subseteq sweep[s].dead /\ sweep'[s].todo \subseteq sweep[s].seen
      BY <2>1, <2>3, <3>0 DEF ListWorkflows, SweepRecord
    <3>2. Unread
      BY <1>0, <2>1, <2>3, <3>1 DEF ListWorkflows
    <3> QED
      BY <1>0, <2>3, <3>2, RestKept DEF ListWorkflows, rowVars, runVars
  <2>4. CASE SweepEnds(s)
    <3>1. PICK D \in {{}, sweep[s].dead}, Z \in SUBSET sweep[s].zombies :
             UpdateRows([u \in D \union Z |-> IF u \in D THEN "pending" ELSE "revoked"])
      BY <2>4 DEF SweepEnds
    <3>2. t \notin D \union Z
      BY <1>0
    <3>3. row'[t] = row[t]
      BY <3>1, <3>2, UpdateElsewhere
    <3>4. Unread
      BY <1>0, <2>1, <2>4 DEF SweepEnds
    <3> QED
      BY <1>0, <2>4, <3>3, <3>4, RestKept DEF SweepEnds, runVars
  <2>5. ASSUME NEW u \in Tasks, SweepStarts(s, u) PROVE AtRest(t)'
    <3>1. u # t /\ wf'[t] = wf[t]
      BY <1>0, <2>5 DEF SweepStarts, StartExecution, TypeOK
    <3>2. Unread
      BY <1>0, <2>1, <2>5 DEF SweepStarts, SweepRecord
    <3> QED
      BY <1>0, <2>5, <3>1, <3>2, RestKept DEF SweepStarts, rowVars
  <2>6. ASSUME NEW u \in Tasks, SweepStartFails(s, u) PROVE AtRest(t)'
    <3>1. Unread
      BY <1>0, <2>1, <2>6 DEF SweepStartFails, SweepRecord
    <3> QED
      BY <1>0, <2>6, <3>1, RestKept DEF SweepStartFails, rowVars, runVars
  <2>7. CASE ListUnreachable
    <3>1. Unread
      BY <1>0, <2>1, <2>7 DEF ListUnreachable
    <3> QED
      BY <1>0, <2>7, <3>1, RestKept DEF ListUnreachable, rowVars, runVars
  <2> QED
    BY <1>3, <2>2, <2>3, <2>4, <2>5, <2>6, <2>7 DEF Sweep
<1>4. ASSUME NEW u \in Tasks, WfSteps(u) \/ PostProgress(u) \/ TaskProgress(u) \/ Age(u)
      PROVE  AtRest(t)'
  <2>1. CASE WfRuns(u) \/ WfCompletes(u) \/ WfFails(u) \/ WfCancelled(u)
    <3>1. u # t
      BY <1>0, <2>1 DEF WfRuns, WfCompletes, WfFails, WfCancelled, Live
    <3>2. row'[t] = row[t]
      BY <2>1, <3>1, ReportElsewhere DEF WfRuns, WfCompletes, WfFails, WfCancelled
    <3>3. wf'[t] = wf[t] /\ lingers'[t] = lingers[t] /\ UNCHANGED <<post, sweep>>
      BY <2>1, <3>1 DEF WfRuns, WfCompletes, WfFails, WfCancelled, TypeOK
    <3> QED
      BY <1>0, <3>2, <3>3, RestKept
  <2>2. CASE SplitEnds(u) \/ LingerEnds(u)
    BY <1>0, <2>2, RestKept DEF SplitEnds, LingerEnds, rowVars, TypeOK
  <2>3. CASE PostProgress(u)
    <3>1. u # t /\ post'[t] = post[t]
      BY <1>0, <2>3 DEF PostProgress, Live, TypeOK
    <3> QED
      BY <1>0, <2>3, <3>1, RestKept DEF PostProgress, rowVars
  <2>4. CASE TaskProgress(u)
    <3>1. u # t /\ post'[t] = post[t]
      BY <1>0, <2>4 DEF TaskProgress, TypeOK
    <3>2. row'[t] = row[t]
      BY <2>4, <3>1, ReportElsewhere DEF TaskProgress
    <3> QED
      BY <1>0, <2>4, <3>1, <3>2, RestKept DEF TaskProgress
  <2>5. CASE Age(u)
    BY <1>0, <2>5, RestKept DEF Age, runVars
  <2> QED
    BY <1>4, <2>1, <2>2, <2>3, <2>4, <2>5 DEF WfSteps
<1> QED
  BY <1>1, <1>2, <1>3, <1>4 DEF Next, Sweepers

\* PauseSettlesTheorem: once nothing of the time before it is under way, a pause
\* holds until a user's request ends it.
THEOREM PauseSettlesTheorem == Spec => PauseSettles
<1>1. ASSUME Init PROVE NewIds
  <2>1. \A r \in Requests : req[r].op = "idle"
    BY <1>1 DEF Init, Idle
  <2> QED
    BY <1>1, <2>1 DEF Init, NewIds, Adding, At
<1>2. TypeOK /\ NewIds /\ [Next]_vars => NewIds'
  BY NewIdsStep
<1>3. TypeOK /\ NewIds /\ [Next]_vars =>
        [\A t \in Tasks : AtRest(t) /\ ~AtRest(t)' => Commanded(t)]_vars
  BY RestOrCommand
<1> QED
  BY TypeCorrect, <1>1, <1>2, <1>3, PTL DEF Spec, PauseSettles
=============================================================================

------------------------------ MODULE TaskQueue ------------------------------
(***************************************************************************)
(* The dashboard's task table on S1 and what acts on it: the request       *)
(* handlers of dlm/web/routes/queue.py, the reconciler and the doctor      *)
(* (dlm/web/reconciler.py, dlm/web/routes/doctor.py), and the workers'     *)
(* progress posts (dlm/web/routes/servers.py, dlm/temporal/activities.py). *)
(* A handler loses control at every await; each action below is the code   *)
(* between two awaits.                                                     *)
(*                                                                         *)
(* A workflow is only its execution status here: DownloadWorkflow has what *)
(* it does.  Temporal is external: one open execution per workflow id, a   *)
(* cancellation that the workflow acts on later.                           *)
(***************************************************************************)
EXTENDS Integers, FiniteSets

CONSTANTS
    Tasks,      \* task ids
    RepoOf,     \* the repository of each task
    Requests,   \* requests the web server may have in progress
    SharedDb,   \* DB_PATH of the workers is the dashboard's file
    Ops,        \* the operations that users call
    Faults      \* "start", "cancel": calls to Temporal may fail

AllOps == {"add", "split", "pause", "resume", "retry", "delete", "redispatch", "reset", "skip"}

ASSUME OpsAssumption == Ops \subseteq AllOps
ASSUME CallFaultsAssumption == Faults \subseteq {"start", "cancel"}
ASSUME SharedDbAssumption == SharedDb \in BOOLEAN

VARIABLES
    row,        \* the status column; "none": there is no row
    stale,      \* updated_at is more than DEAD_THRESHOLD ago
    wf,         \* status of the latest execution of workflow dl-<id>
    split,      \* tasks with an open workflow split-download-<id>
    lingers,    \* an activity of a closed workflow still runs
    post,       \* a progress post is on its way to the server
    req,        \* the requests in progress
    sweep,      \* what the reconciler and the doctor have read
    issued,     \* ids that _next_task_id has returned
    held        \* history: the user's last word on the task was a pause

rowVars == <<row, stale>>
runVars == <<wf, split, lingers, post>>
vars == <<row, stale, wf, split, lingers, post, req, sweep, issued, held>>

Live == {"started", "running", "withdrawn", "cancelling"}
Closed == {"completed", "failed", "cancelled"}
Sweepers == {"reconciler", "doctor"}

Idle == [op |-> "idle", task |-> "", pc |-> ""]
Asleep == [pc |-> "asleep", seen |-> {}, dead |-> {}, zombies |-> {}, todo |-> {}]

Init ==
    /\ row = [t \in Tasks |-> "none"]
    /\ stale = [t \in Tasks |-> FALSE]
    /\ wf = [t \in Tasks |-> "none"]
    /\ split = {}
    /\ lingers = [t \in Tasks |-> FALSE]
    /\ post = [t \in Tasks |-> FALSE]
    /\ req = [r \in Requests |-> Idle]
    /\ sweep = [s \in Sweepers |-> Asleep]
    /\ issued = {}
    /\ held = {}

-----------------------------------------------------------------------------
(* dlm/queue/snapshot.py                                                   *)

\* update_task_progress with a status, for each task in the domain of status:
\* an UPDATE, which does nothing where there is no row.
UpdateRows(status) ==
    /\ row' = [t \in Tasks |->
          IF t \in DOMAIN status /\ row[t] # "none" THEN status[t] ELSE row[t]]
    /\ stale' = [t \in Tasks |-> stale[t] /\ t \notin DOMAIN status]

UpdateRow(t, status) == UpdateRows([u \in {t} |-> status])

-----------------------------------------------------------------------------
(* The requests.                                                           *)

Goto(r, pc) == req' = [req EXCEPT ![r].pc = pc]
Return(r) == req' = [req EXCEPT ![r] = Idle]
At(r, ops, pc) == req[r].op \in ops /\ req[r].pc = pc

FirstStep == [add |-> "check", split |-> "check", pause |-> "update",
              resume |-> "read", retry |-> "read", delete |-> "cancel"]

\* A request arrives; an add gets a new id.
Call(r, op, t) ==
    /\ req[r] = Idle /\ op \in Ops \intersect DOMAIN FirstStep
    /\ t \in issued <=> op \notin {"add", "split"}
    /\ req' = [req EXCEPT ![r] = [op |-> op, task |-> t, pc |-> FirstStep[op]]]
    /\ issued' = issued \union {t}
    /\ UNCHANGED <<rowVars, runVars, sweep, held>>

\* check_dup of add_to_queue.
CheckDup(r) ==
    LET t == req[r].task
        dup == \E u \in Tasks : RepoOf[u] = RepoOf[t]
                  /\ row[u] \notin {"none", "failed", "revoked", "done"}
    IN  /\ At(r, {"add", "split"}, "check")
        /\ IF dup THEN Return(r) ELSE Goto(r, "save")
        /\ UNCHANGED <<rowVars, runVars, sweep, issued, held>>

\* do_save of add_to_queue: upsert_task.
SaveTask(r) ==
    /\ At(r, {"add", "split"}, "save")
    /\ row' = [row EXCEPT ![req[r].task] = "pending"]
    /\ stale' = [stale EXCEPT ![req[r].task] = FALSE]
    /\ Goto(r, "start")
    /\ UNCHANGED <<runVars, sweep, issued, held>>

\* do_update of pause_task.
PauseRow(r) ==
    LET t == req[r].task
    IN  /\ At(r, {"pause"}, "update")
        /\ \/ /\ row[t] \in {"downloading", "pending"}
              /\ UpdateRow(t, "paused")
              /\ Goto(r, "cancel")
           \/ /\ row[t] \notin {"downloading", "pending"}
              /\ Return(r)
              /\ UNCHANGED rowVars
        /\ UNCHANGED <<runVars, sweep, issued, held>>

\* cancel_workflow: only dl-<id>.  A cancel that fails is swallowed.
CancelWorkflow(r) ==
    LET t == req[r].task
    IN  /\ At(r, {"pause", "delete"}, "cancel")
        /\ \/ wf' = [wf EXCEPT ![t] =
                  CASE @ = "started" -> "withdrawn" [] @ = "running" -> "cancelling" [] OTHER -> @]
           \/ "cancel" \in Faults /\ wf' = wf
        /\ IF req[r].op = "delete" THEN Goto(r, "delete") ELSE Return(r)
        /\ held' = IF req[r].op = "pause" THEN held \union {t} ELSE held
        /\ UNCHANGED <<rowVars, split, lingers, post, sweep, issued>>

\* Not so a get_client that cannot connect: the request ends with an error, a
\* pause after it changed the row, a delete before.
NoClient(r) ==
    /\ At(r, {"pause", "delete"}, "cancel") /\ "cancel" \in Faults
    /\ Return(r)
    /\ UNCHANGED <<rowVars, runVars, sweep, issued, held>>

\* Mutant of DeleteRow: the row is only marked.
DeleteRowMarked(r) ==
    /\ At(r, {"delete"}, "delete")
    /\ row' = [row EXCEPT ![req[r].task] = "deleted"]
    /\ stale' = [stale EXCEPT ![req[r].task] = FALSE]
    /\ Return(r)
    /\ UNCHANGED <<runVars, sweep, issued, held>>

\* do_delete of delete_from_queue.
DeleteRow(r) ==
    /\ At(r, {"delete"}, "delete")
    /\ row' = [row EXCEPT ![req[r].task] = "none"]
    /\ stale' = [stale EXCEPT ![req[r].task] = FALSE]
    /\ Return(r)
    /\ UNCHANGED <<runVars, sweep, issued, held>>

\* do_get of resume_task and retry_task, and the check of the status.
ReadForRestart(r) ==
    LET t == req[r].task
        allowed == IF req[r].op = "resume" THEN {"paused", "failed", "preempted"}
                   ELSE {"failed", "revoked", "paused"}
    IN  /\ At(r, {"resume", "retry"}, "read")
        /\ IF row[t] \in allowed THEN Goto(r, "update") ELSE Return(r)
        /\ held' = IF row[t] \in allowed THEN held \ {t} ELSE held
        /\ UNCHANGED <<rowVars, runVars, sweep, issued>>

\* do_update of resume_task and retry_task.
MarkPending(r) ==
    /\ At(r, {"resume", "retry"}, "update")
    /\ UpdateRow(req[r].task, "pending")
    /\ Goto(r, "start")
    /\ UNCHANGED <<runVars, sweep, issued, held>>

\* client.start_workflow of dl-<id>: an open execution refuses another.
StartExecution(t) ==
    wf' = [wf EXCEPT ![t] = IF @ \in Live THEN @ ELSE "started"]

\* start_download or start_split_download.  When Temporal refuses or cannot be
\* reached the request ends with an error and the row stays as it is.
StartWorkflow(r) ==
    LET t == req[r].task
    IN  /\ At(r, {"add", "split", "resume", "retry"}, "start")
        /\ \/ req[r].op # "split" /\ StartExecution(t) /\ UNCHANGED split
           \/ req[r].op = "split" /\ split' = split \union {t} /\ UNCHANGED wf
           \/ "start" \in Faults /\ UNCHANGED <<wf, split>>
        /\ Return(r)
        /\ UNCHANGED <<rowVars, lingers, post, sweep, issued, held>>

Handle(r) ==
    \/ CheckDup(r) \/ SaveTask(r) \/ PauseRow(r)
    \/ CancelWorkflow(r) \/ NoClient(r) \/ DeleteRow(r)
    \/ ReadForRestart(r) \/ MarkPending(r) \/ StartWorkflow(r)

-----------------------------------------------------------------------------
(* The reconciler, and fix of the doctor, whose actions are chosen by the  *)
(* caller.  Both work on rows read before they ask Temporal.               *)

\* Mutant of ReadRows: paused rows are taken for downloads too.
ReadPausedRows(s) ==
    /\ sweep[s].pc = "asleep"
    /\ s = "doctor" => Ops \intersect {"redispatch", "reset", "skip"} # {}
    /\ LET seen == {t \in Tasks : row[t] \in {"downloading", "paused"}}
       IN  sweep' = [sweep EXCEPT ![s] =
              [pc |-> "list", seen |-> seen, dead |-> {t \in seen : stale[t]},
               zombies |-> {t \in Tasks : s = "doctor" /\ row[t] = "failed"}, todo |-> {}]]
    /\ UNCHANGED <<rowVars, runVars, req, issued, held>>

ReadRows(s) ==
    /\ sweep[s].pc = "asleep"
    /\ s = "doctor" => Ops \intersect {"redispatch", "reset", "skip"} # {}
    /\ LET seen == {t \in Tasks : row[t] = "downloading"}
       IN  sweep' = [sweep EXCEPT ![s] =
              [pc |-> "list", seen |-> seen, dead |-> {t \in seen : stale[t]},
               zombies |-> {t \in Tasks : s = "doctor" /\ row[t] = "failed"}, todo |-> {}]]
    /\ UNCHANGED <<rowVars, runVars, req, issued, held>>

\* Mutant of ListWorkflows: the query has no ExecutionStatus, so a closed
\* workflow counts as running.
ListAllWorkflows(s) ==
    LET orphans == {t \in sweep[s].seen : wf[t] = "none"}
        doctorOnly(S) == IF s = "doctor" THEN S ELSE {}
    IN  /\ sweep[s].pc = "list"
        /\ \E todo \in {orphans, {}} :
              /\ s = "reconciler" => todo = orphans
              /\ s = "doctor" /\ "redispatch" \notin Ops => todo = {}
              /\ sweep' = [sweep EXCEPT
                    ![s].pc = "start", ![s].seen = {}, ![s].dead = doctorOnly(@),
                    ![s].todo = IF s = "reconciler" THEN todo \intersect sweep[s].dead ELSE todo]
        /\ UNCHANGED <<rowVars, runVars, req, issued, held>>

\* Tasks without an open workflow: the reconciler takes those whose row was
\* stale, the doctor all of them, or none if that action was not asked for.
ListWorkflows(s) ==
    LET orphans == {t \in sweep[s].seen : wf[t] \notin Live}
        doctorOnly(S) == IF s = "doctor" THEN S ELSE {}
    IN  /\ sweep[s].pc = "list"
        /\ \E todo \in {orphans, {}} :
              /\ s = "reconciler" => todo = orphans
              /\ s = "doctor" /\ "redispatch" \notin Ops => todo = {}
              /\ sweep' = [sweep EXCEPT
                    ![s].pc = "start", ![s].seen = {}, ![s].dead = doctorOnly(@),
                    ![s].todo = IF s = "reconciler" THEN todo \intersect sweep[s].dead ELSE todo]
        /\ UNCHANGED <<rowVars, runVars, req, issued, held>>

\* The reconciler cannot ask Temporal: it gives up until its next round.
ListUnreachable ==
    /\ sweep["reconciler"].pc = "list" /\ "start" \in Faults
    /\ sweep' = [sweep EXCEPT !["reconciler"] = Asleep]
    /\ UNCHANGED <<rowVars, runVars, req, issued, held>>

SweepStarts(s, t) ==
    /\ sweep[s].pc = "start" /\ t \in sweep[s].todo
    /\ StartExecution(t)
    /\ sweep' = [sweep EXCEPT ![s].todo = @ \ {t}]
    /\ UNCHANGED <<rowVars, split, lingers, post, req, issued, held>>

SweepStartFails(s, t) ==
    /\ sweep[s].pc = "start" /\ t \in sweep[s].todo
    /\ "start" \in Faults
    /\ sweep' = [sweep EXCEPT ![s].todo = @ \ {t}]
    /\ UNCHANGED <<rowVars, runVars, req, issued, held>>

\* reset_stuck (D) and skip_zombie (Z) of the doctor write to rows as they were
\* read.  Which failed rows have a retry_count of 8 is left open.
SweepEnds(s) ==
    /\ sweep[s].pc = "start" /\ sweep[s].todo = {}
    /\ sweep' = [sweep EXCEPT ![s] = Asleep]
    /\ \E D \in {{}, sweep[s].dead}, Z \in SUBSET sweep[s].zombies :
          /\ D # {} => "reset" \in Ops
          /\ Z # {} => "skip" \in Ops
          /\ UpdateRows([t \in D \union Z |-> IF t \in D THEN "pending" ELSE "revoked"])
    /\ UNCHANGED <<runVars, req, issued, held>>

Sweep(s) == ReadRows(s) \/ ListWorkflows(s) \/ SweepEnds(s)

-----------------------------------------------------------------------------
(* The workflows and their reports.                                        *)

\* report_to_dashboard writes to the database of the host it runs on.
Report(t, status) == IF SharedDb THEN UpdateRow(t, status) ELSE UNCHANGED rowVars

WfRuns(t) ==
    /\ wf[t] = "started"
    /\ wf' = [wf EXCEPT ![t] = "running"]
    /\ Report(t, "downloading")
    /\ UNCHANGED <<split, lingers, post, req, sweep, issued, held>>

WfCompletes(t) ==
    /\ wf[t] = "running"
    /\ wf' = [wf EXCEPT ![t] = "completed"]
    /\ Report(t, "done")
    /\ UNCHANGED <<split, lingers, post, req, sweep, issued, held>>

\* It returns "failed" with a report, or raises without one; an attempt that
\* only lost its heartbeats may run on.
WfFails(t) ==
    /\ wf[t] = "running"
    /\ wf' = [wf EXCEPT ![t] = "failed"]
    /\ \/ Report(t, "failed") /\ UNCHANGED lingers
       \/ lingers' = [lingers EXCEPT ![t] = TRUE] /\ UNCHANGED rowVars
    /\ UNCHANGED <<split, post, req, sweep, issued, held>>

\* The workflow acts on its cancellation; it does not wait for the activity.
\* While it lists the repository, the cancellation is caught like any failure.
\* One that had not made its first report yet has no batch that could run on.
WfCancelled(t) ==
    /\ \/ /\ wf[t] = "cancelling"
          /\ wf' = [wf EXCEPT ![t] = "cancelled"]
          /\ lingers' = [lingers EXCEPT ![t] = TRUE]
          /\ UNCHANGED rowVars
       \/ /\ wf[t] = "cancelling"
          /\ wf' = [wf EXCEPT ![t] = "failed"]
          /\ Report(t, "failed")
          /\ UNCHANGED lingers
       \/ /\ wf[t] = "withdrawn"
          /\ wf' = [wf EXCEPT ![t] = "cancelled"]
          /\ Report(t, "downloading") \/ UNCHANGED rowVars
          /\ UNCHANGED lingers
    /\ UNCHANGED <<split, post, req, sweep, issued, held>>

\* A split workflow reports nothing about its own task, whatever its result.
SplitEnds(t) ==
    /\ t \in split
    /\ split' = split \ {t}
    /\ UNCHANGED <<rowVars, wf, lingers, post, req, sweep, issued, held>>

LingerEnds(t) ==
    /\ lingers[t]
    /\ lingers' = [lingers EXCEPT ![t] = FALSE]
    /\ UNCHANGED <<rowVars, wf, split, post, req, sweep, issued, held>>

\* progress_fn of run_pipeline_batch.
PostProgress(t) ==
    /\ wf[t] \in {"running", "cancelling"} \/ lingers[t]
    /\ ~post[t]
    /\ post' = [post EXCEPT ![t] = TRUE]
    /\ UNCHANGED <<rowVars, wf, split, lingers, req, sweep, issued, held>>

\* Mutant of TaskProgress: the endpoint upserts the task it is told about.
TaskProgressUpserts(t) ==
    /\ post[t]
    /\ post' = [post EXCEPT ![t] = FALSE]
    /\ row' = [row EXCEPT ![t] = "downloading"]
    /\ stale' = [stale EXCEPT ![t] = FALSE]
    /\ UNCHANGED <<wf, split, lingers, req, sweep, issued, held>>

\* task_progress: the post always carries the status "downloading".
TaskProgress(t) ==
    /\ post[t]
    /\ post' = [post EXCEPT ![t] = FALSE]
    /\ UpdateRow(t, "downloading")
    /\ UNCHANGED <<wf, split, lingers, req, sweep, issued, held>>

\* Half an hour passes without a report (looked at only in downloading rows).
Age(t) ==
    /\ row[t] = "downloading" /\ ~stale[t]
    /\ stale' = [stale EXCEPT ![t] = TRUE]
    /\ UNCHANGED <<row, runVars, req, sweep, issued, held>>

WfSteps(t) ==
    WfRuns(t) \/ WfCompletes(t) \/ WfFails(t) \/ WfCancelled(t) \/ SplitEnds(t) \/ LingerEnds(t)

Next ==
    \/ \E r \in Requests : Handle(r) \/ \E op \in Ops, t \in Tasks : Call(r, op, t)
    \/ \E s \in Sweepers : Sweep(s) \/ \E t \in Tasks : SweepStarts(s, t) \/ SweepStartFails(s, t)
    \/ ListUnreachable
    \/ \E t \in Tasks : WfSteps(t) \/ PostProgress(t) \/ TaskProgress(t) \/ Age(t)

Spec == Init /\ [][Next]_vars

\* The event loop runs every handler and the scheduler's loop, time passes,
\* posts arrive, workflows and activities end.  Temporal can be reached again
\* and again.
FairSpec ==
    /\ Spec
    /\ \A r \in Requests : WF_vars(Handle(r))
    /\ WF_vars(Sweep("reconciler")) /\ SF_vars(ListWorkflows("reconciler"))
    /\ \A t \in Tasks :
          /\ SF_vars(SweepStarts("reconciler", t))
          /\ WF_vars(WfSteps(t)) /\ WF_vars(TaskProgress(t)) /\ WF_vars(Age(t))

-----------------------------------------------------------------------------
(* Properties.                                                             *)

Statuses == {"pending", "downloading", "paused", "revoked", "done", "failed"}
Awaits == {"", "check", "save", "start", "update", "cancel", "delete", "read"}
RequestRecord == [op : AllOps \union {"idle"}, task : Tasks \union {""}, pc : Awaits]
SweepRecord ==
    [pc : {"asleep", "list", "start"}, seen : SUBSET Tasks, dead : SUBSET Tasks,
     zombies : SUBSET Tasks, todo : SUBSET Tasks]

TypeOK ==
    /\ row \in [Tasks -> Statuses \union {"none"}]
    /\ stale \in [Tasks -> BOOLEAN]
    /\ wf \in [Tasks -> {"none"} \union Live \union Closed]
    /\ split \subseteq Tasks /\ issued \subseteq Tasks /\ held \subseteq Tasks
    /\ lingers \in [Tasks -> BOOLEAN] /\ post \in [Tasks -> BOOLEAN]
    /\ req \in [Requests -> RequestRecord]
    /\ \A r \in Requests : req[r].op # "idle" => req[r].task \in issued
    /\ sweep \in [Sweepers -> SweepRecord]

\* DeletedForGood: a row appears only when the add that was given its id saves
\* it: no late report, restart or sweep brings back a task that was deleted.
DeletedForGood ==
    [][\A t \in Tasks : row[t] = "none" /\ row'[t] # "none" =>
          \E r \in Requests : At(r, {"add", "split"}, "save") /\ req[r].task = t]_vars

\* OrphanHealed: a task that is "downloading" without a workflow does not stay
\* so (reconcile: no task is left "in 'downloading' forever").
Orphan(t) == row[t] = "downloading" /\ wf[t] \notin Live
OrphanHealed == \A t \in Tasks : Orphan(t) ~> ~Orphan(t)

\* A paused task whose pause has settled: its workflow is closed, no attempt of it
\* runs on, no post is under way, and no sweep has read it as anything else.
AtRest(t) ==
    /\ row[t] = "paused" /\ wf[t] \notin Live
    /\ ~lingers[t] /\ ~post[t]
    /\ \A s \in Sweepers :
          t \notin sweep[s].seen \union sweep[s].dead \union sweep[s].zombies \union sweep[s].todo

\* A request of a user is about to change the task's row, or to start it: also
\* one that was past its row when the task was paused.
Commanded(t) ==
    \E r \in Requests :
        /\ req[r].task = t
        /\ \/ At(r, {"resume", "retry"}, "update") \/ At(r, {"delete"}, "delete")
           \/ At(r, {"add", "resume", "retry"}, "start")

\* PauseSettles: a task whose pause has settled stays as it is until a user's
\* request changes it - whatever the reconciler, the doctor, late reports of
\* its workflow and the requests for other tasks do (pause_task: "Pause a
\* running task").
PauseSettles ==
    [][\A t \in Tasks : AtRest(t) /\ ~AtRest(t)' => Commanded(t)]_vars

\* PausedStaysPaused: no workflow is started for a task the user paused and
\* has not resumed: "Pause a running task (cancels the Temporal workflow)".
PausedStaysPaused == \A t \in held : wf[t] \notin {"started", "running"}
=============================================================================

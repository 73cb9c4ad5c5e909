--------------------------- MODULE WorkerDaemon ---------------------------
(***************************************************************************)
(* dlm/worker/daemon.py and heartbeat.py: one daemon per server polls      *)
(* state.json for tasks dispatched to its server, claims one, runs it, and *)
(* reports how it ended; idle, it takes a task from a longer queue or      *)
(* tries a task again that failed for want of disk.  Its heartbeat thread  *)
(* writes the same object.                                                 *)
(*                                                                         *)
(* A task is numbered by its place in the order of the queue: priority,    *)
(* then creation.  How a run ends is chosen freely: the daemon passes its  *)
(* arguments to TaskRunner in the wrong places (daemon.py:109), and what   *)
(* that does depends on the handler.  The bounds are those of `left`.      *)
(***************************************************************************)
EXTENDS StateStore

CONSTANTS
    Daemons,   \* the servers, each with its daemon
    None,      \* no server, pid or error
    Pids,      \* process ids the machines hand out
    FirstPid,  \* the one each daemon has at first
    Classes,   \* error classes a run may end with
    Bounds     \* how often there is a beat, an end of a daemon, a call that fails or
               \* takes the object for missing, a command, a command that adds a task,
               \* for each of the InitialTasks

Statuses == {"queued", "dispatched", "downloading", "done", "failed", "needs-auth"}

\* RETRY_POLICIES.
MaxRetries == [transient |-> 5, auth |-> 0, not_found |-> 0,
               disk |-> 3, corruption |-> 2, unknown |-> 2]

\* The heartbeat thread of a daemon is a client of its own.
Thread(d) == <<d>>

ASSUME DaemonAssumption ==
    /\ Daemons \union {Thread(d) : d \in Daemons} \subseteq Clients
    /\ Daemons \intersect {Thread(d) : d \in Daemons} = {}
    /\ Classes \subseteq DOMAIN MaxRetries
    /\ FirstPid \in Pids
    /\ \A tasks \in InitialTasks : \A t \in DOMAIN tasks : tasks[t].status # "downloading"
    /\ DOMAIN Bounds = InitialTasks

VARIABLES
    pc,       \* what each daemon is doing
    hold,     \* the task it claims or runs, as it was when it was polled
    todo,     \* zombies it has yet to recover
    pid,      \* its process id
    stop,     \* shutdown_event
    left,     \* how much of Bounds is left
    moved,   \* history: tasks taken from whoever had them, by a daemon or a command
    lapsed    \* history: tasks whose daemon could not say that it gave them up

daemonVars == <<pc, hold, todo, pid, stop, moved, lapsed>>
vars == <<storeVars, daemonVars, left>>

Tasks == DOMAIN store.tasks
Status(t) == store.tasks[t].status
Queue(s) == {t \in Tasks : Status(t) = "dispatched" /\ store.tasks[t].server = s}
NoHold == [task |-> 0, retry |-> 0]
Up(d) == pc[d] # "down"
At(d, where) == pc[d] = where /\ op[d] = "idle"
Goes(d, where) == pc' = [pc EXCEPT ![d] = where]
Spend(what) == left[what] > 0 /\ left' = [left EXCEPT ![what] = @ - 1]

\* update_task of some fields of one task.
Update(d, t, fields) == Call(d, [x \in {t} |-> fields])

\* The call of a daemon raises.
Raises(d) ==
    /\ op[d] # "idle"
    /\ \/ Refused(d) /\ UNCHANGED left
       \/ Fails(d) /\ Spend("faults")

Returns(d) == Put(d) /\ UNCHANGED left

\* The tasks of a set that the object says are being downloaded then.
LeftDownloading(T) == {t \in T \intersect Tasks : Status(t)' = "downloading"}

-----------------------------------------------------------------------------
(* Start, and recovery of what a previous instance left.                   *)

StartsWith(d, p, zombies) ==
    /\ pc[d] = "down"
    /\ pid' = [pid EXCEPT ![d] = p]
    /\ todo' = [todo EXCEPT ![d] = zombies]
    /\ Goes(d, IF zombies = {} THEN "poll" ELSE "recover")
    /\ stop' = [stop EXCEPT ![d] = FALSE]
    /\ UNCHANGED <<storeVars, hold, left, moved>>

Downloading(d) == {t \in Tasks : Status(t) = "downloading" /\ store.tasks[t].server = d}
OfOtherPid(T, p) == {t \in T : store.tasks[t].pid # p}

\* Mutants of Start: nothing is recovered; tasks of any status are recovered.
StartOnly(d) == \E p \in Pids : StartsWith(d, p, {}) /\ UNCHANGED lapsed
StartAfresh(d) ==
    \E p \in Pids :
        /\ StartsWith(d, p, OfOtherPid({t \in Tasks : store.tasks[t].server = d}, p))
        /\ UNCHANGED lapsed

\* A task is a zombie if it has another pid than the daemon.
Start(d) ==
    \E p \in Pids :
        /\ StartsWith(d, p, OfOtherPid(Downloading(d), p))
        /\ lapsed' = lapsed \union (Downloading(d) \ OfOtherPid(Downloading(d), p))

\* The load of the recovery fails, and it is skipped, or takes the object for
\* missing.
StartBlind(d) ==
    /\ pc[d] = "down" /\ Spend("faults")
    /\ \E p \in Pids : pid' = [pid EXCEPT ![d] = p]
    /\ lapsed' = lapsed \union Downloading(d)
    /\ Goes(d, "poll")
    /\ stop' = [stop EXCEPT ![d] = FALSE]
    /\ UNCHANGED <<storeVars, hold, todo, moved>>

RecoverZombie(d) ==
    /\ At(d, "recover")
    /\ \E t \in todo[d] :
         /\ Update(d, t, [status |-> "dispatched", pid |-> None])
         /\ todo' = [todo EXCEPT ![d] = @ \ {t}]
    /\ Goes(d, "zombie")
    /\ UNCHANGED <<hold, pid, stop, left, moved, lapsed>>

\* An exception ends the recovery, whatever zombies are left.
ZombieAnswered(d) ==
    /\ pc[d] = "zombie"
    /\ \/ /\ Returns(d)
          /\ Goes(d, IF todo[d] = {} THEN "poll" ELSE "recover")
          /\ UNCHANGED <<todo, lapsed>>
       \/ /\ Raises(d)
          /\ lapsed' = lapsed \union LeftDownloading(todo[d] \union DOMAIN want[d])
          /\ todo' = [todo EXCEPT ![d] = {}]
          /\ Goes(d, "poll")
    /\ UNCHANGED <<hold, pid, stop, moved>>

-----------------------------------------------------------------------------
(* Poll, steal, claim.                                                     *)

\* _execute_task does not look at the task again before it claims it.
Claim(d, task, retry) ==
    /\ Update(d, task, [status |-> "downloading", pid |-> pid[d], err |-> None])
    /\ hold' = [hold EXCEPT ![d] = [task |-> task, retry |-> retry]]
    /\ Goes(d, "claim")

\* Mutant of Poll: any server's tasks are taken.
PollAny(d) ==
    /\ At(d, "poll") /\ ~stop[d]
    /\ \E t \in Tasks : Status(t) = "dispatched" /\ Claim(d, t, store.tasks[t].retry)
    /\ UNCHANGED <<todo, pid, stop, left, moved, lapsed>>

\* _poll_for_task: the first of the daemon's queue, or a look elsewhere.
Poll(d) ==
    /\ At(d, "poll") /\ ~stop[d]
    /\ IF Queue(d) = {}
       THEN Goes(d, "steal") /\ UNCHANGED <<storeVars, hold>>
       ELSE \E t \in Queue(d) :
              (\A u \in Queue(d) : t <= u) /\ Claim(d, t, store.tasks[t].retry)
    /\ UNCHANGED <<todo, pid, stop, left, moved, lapsed>>

\* The load of the poll takes the object for missing: there is no task.
PollBlind(d) ==
    /\ At(d, "poll") /\ ~stop[d] /\ Spend("faults")
    /\ Goes(d, "steal")
    /\ UNCHANGED <<storeVars, hold, todo, pid, stop, moved, lapsed>>

\* _try_steal_task, which loads the object again: the last task of the longest
\* of the other queues, if that has more than one.
Steal(d) ==
    /\ At(d, "steal")
    /\ LET others == Daemons \ {d}
           long == {s \in others : Cardinality(Queue(s)) > 1}
       IN  IF long = {}
           THEN Goes(d, "poll") /\ UNCHANGED <<storeVars, hold, moved>>
           ELSE \E s \in long : \E t \in Queue(s) :
                  /\ \A r \in others : Cardinality(Queue(r)) <= Cardinality(Queue(s))
                  /\ \A u \in Queue(s) : u <= t
                  /\ Update(d, t, [server |-> d])
                  /\ hold' = [hold EXCEPT ![d] = [task |-> t, retry |-> store.tasks[t].retry]]
                  /\ moved' = moved \union {t}
                  /\ Goes(d, "stealing")
    /\ UNCHANGED <<todo, pid, stop, left, lapsed>>

StealAnswered(d) ==
    /\ pc[d] = "stealing"
    /\ \/ Returns(d) /\ Goes(d, "take") /\ UNCHANGED hold
       \/ Raises(d) /\ Goes(d, "poll") /\ hold' = [hold EXCEPT ![d] = NoHold]
    /\ UNCHANGED <<todo, pid, stop, moved, lapsed>>

Take(d) ==
    /\ At(d, "take")
    /\ Claim(d, hold[d].task, hold[d].retry)
    /\ UNCHANGED <<todo, pid, stop, left, moved, lapsed>>

\* A claim that fails is logged; the put may have been carried out.
ClaimAnswered(d) ==
    /\ pc[d] = "claim"
    /\ \/ Returns(d) /\ Goes(d, "run") /\ UNCHANGED <<hold, lapsed>>
       \/ /\ Raises(d)
          /\ Goes(d, "poll")
          /\ lapsed' = lapsed \union LeftDownloading({hold[d].task})
          /\ hold' = [hold EXCEPT ![d] = NoHold]
    /\ UNCHANGED <<todo, pid, stop, moved>>

-----------------------------------------------------------------------------
(* The run and its report.                                                 *)

Report(d, fields, where) ==
    /\ Update(d, hold[d].task, fields)
    /\ Goes(d, where)
    /\ UNCHANGED <<hold, todo, pid, stop, left, moved, lapsed>>

RunSucceeds(d) == At(d, "run") /\ Report(d, [status |-> "done"], "report")

\* A TaskError: tried again as often as its class allows, counted from the copy
\* of the task that was polled.
RunFails(d) ==
    /\ At(d, "run")
    /\ \E k \in Classes :
         LET again == hold[d].retry < MaxRetries[k]
         IN  Report(d, IF again
                       THEN [status |-> "dispatched", err |-> k, retry |-> hold[d].retry + 1]
                       ELSE [status |-> IF k = "auth" THEN "needs-auth" ELSE "failed", err |-> k],
                    "fail")

\* Another exception, also of the report that the run succeeded.
RunBreaks(d) ==
    /\ At(d, "run") \/ At(d, "broken")
    /\ \E k \in Classes : Report(d, [status |-> "failed", err |-> k], "fail")

\* The report of a success is inside the try: if it raises, the task has failed.
SuccessAnswered(d) ==
    /\ pc[d] = "report"
    /\ \/ /\ Returns(d)
          /\ Goes(d, "poll")
          /\ hold' = [hold EXCEPT ![d] = NoHold]
          /\ UNCHANGED lapsed
       \/ /\ Raises(d)
          /\ Goes(d, "broken")
          /\ lapsed' = lapsed \union {hold[d].task}
          /\ UNCHANGED hold
    /\ UNCHANGED <<todo, pid, stop, moved>>

\* Mutant of FailureAnswered: current_runner is kept.
FailureForgotten(d) ==
    /\ pc[d] = "fail"
    /\ Returns(d)
    /\ Goes(d, "poll")
    /\ UNCHANGED <<hold, todo, pid, stop, moved, lapsed>>

\* The report of a failure is not: the loop goes on, and the task stays as it is.
FailureAnswered(d) ==
    /\ pc[d] = "fail"
    /\ \/ Returns(d) /\ UNCHANGED lapsed
       \/ Raises(d) /\ lapsed' = lapsed \union LeftDownloading({hold[d].task})
    /\ Goes(d, "poll")
    /\ hold' = [hold EXCEPT ![d] = NoHold]
    /\ UNCHANGED <<todo, pid, stop, moved>>

-----------------------------------------------------------------------------
(* Maintenance, heartbeats, and the end of a daemon.                       *)

\* _maintenance, when there is nothing to do or the disk was too full to take a
\* task: one task that failed for want of disk is tried again.
Maintain(d) ==
    /\ At(d, "poll") /\ ~stop[d]
    /\ \E t \in Tasks :
         /\ store.tasks[t].server = d /\ Status(t) = "failed"
         /\ store.tasks[t].err = "disk" /\ store.tasks[t].retry < 3
         /\ Update(d, t, [status |-> "dispatched", err |-> None, retry |-> store.tasks[t].retry + 1])
    /\ Goes(d, "maintain")
    /\ UNCHANGED <<hold, todo, pid, stop, left, moved, lapsed>>

MaintainAnswered(d) ==
    /\ pc[d] = "maintain"
    /\ Returns(d) \/ Raises(d)
    /\ Goes(d, "poll")
    /\ UNCHANGED <<hold, todo, pid, stop, moved, lapsed>>

\* HeartbeatThread.run, which ignores any exception.
Beat(d) ==
    /\ Up(d) /\ Spend("beats")
    /\ Call(Thread(d), NoChange)
    /\ UNCHANGED daemonVars

BeatAnswered(d) ==
    /\ Returns(Thread(d)) \/ Raises(Thread(d))
    /\ UNCHANGED daemonVars

\* SIGTERM: the loop ends after the task in hand.  A runner is cancelled through
\* a cancel_event that is a string, which raises wherever the daemon is: a run
\* ends with that exception, a report in progress is lost.
Signal(d) ==
    /\ Up(d) /\ ~stop[d] /\ Spend("ends")
    /\ stop' = [stop EXCEPT ![d] = TRUE]
    /\ IF pc[d] \in {"report", "fail"}
       THEN /\ Abandon({d}) \/ Put(d)
            /\ Goes(d, IF pc[d] = "report" THEN "broken" ELSE "poll")
            /\ hold' = [hold EXCEPT ![d] = IF pc[d] = "report" THEN @ ELSE NoHold]
            /\ lapsed' = lapsed \union {hold[d].task}
       ELSE UNCHANGED <<storeVars, pc, hold, lapsed>>
    /\ UNCHANGED <<todo, pid, moved>>

\* The process is gone, and with it the heartbeat thread.
Gone(d) ==
    /\ Abandon({d, Thread(d)})
    /\ Goes(d, "down")
    /\ hold' = [hold EXCEPT ![d] = NoHold]
    /\ todo' = [todo EXCEPT ![d] = {}]
    /\ UNCHANGED <<pid, stop, moved, lapsed>>

Stop(d) == At(d, "poll") /\ stop[d] /\ Gone(d) /\ UNCHANGED left
Crash(d) == Up(d) /\ Spend("ends") /\ Gone(d)

-----------------------------------------------------------------------------

\* The call of a daemon or its thread gets on, without an answer yet.
CallGoesOn(d) ==
    /\ \E c \in {d, Thread(d)} : Load(c, "object") \/ Compare(c, "object")
    /\ UNCHANGED <<daemonVars, left>>

\* It takes the object for missing, and goes on.
CallMisled(d) ==
    /\ Spend("faults")
    /\ \E c \in {d, Thread(d)} : Load(c, "missing") \/ Compare(c, "missing")
    /\ UNCHANGED daemonVars

\* What a daemon does without being asked.
Works(d) ==
    \/ Start(d) \/ RecoverZombie(d) \/ ZombieAnswered(d)
    \/ Poll(d) \/ Steal(d) \/ StealAnswered(d) \/ Take(d) \/ ClaimAnswered(d)
    \/ RunSucceeds(d) \/ RunFails(d) \/ RunBreaks(d) \/ SuccessAnswered(d) \/ FailureAnswered(d)
    \/ Maintain(d) \/ MaintainAnswered(d) \/ Stop(d)

Daemon(d) ==
    \/ Works(d) \/ CallGoesOn(d) \/ CallMisled(d) \/ StartBlind(d) \/ PollBlind(d)
    \/ Beat(d) \/ BeatAnswered(d) \/ Signal(d) \/ Crash(d)

\* The daemons have been started on an object in which nothing is downloading.
Init ==
    /\ StoreInit
    /\ pc = [d \in Daemons |-> "poll"]
    /\ hold = [d \in Daemons |-> NoHold]
    /\ todo = [d \in Daemons |-> {}]
    /\ pid = [d \in Daemons |-> FirstPid]
    /\ stop = [d \in Daemons |-> FALSE]
    /\ left = Bounds[store.tasks]
    /\ moved = {} /\ lapsed = {}

\* A daemon that is down is started again, a run ends, BOS answers every call,
\* and the disk is not too full at every poll.
DaemonFairness ==
    \A d \in Daemons :
        /\ WF_vars(Works(d)) /\ WF_vars(CallGoesOn(d))
        /\ WF_vars(BeatAnswered(d)) /\ SF_vars(Poll(d))
=============================================================================

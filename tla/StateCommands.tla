--------------------------- MODULE StateCommands ---------------------------
(***************************************************************************)
(* The commands that write state.json beside the daemons: dlm add,         *)
(* dispatch, retry, sync, doctor, verify and ls --size, and the            *)
(* dashboard's /dispatch and /storage/register.  Each loads the object,    *)
(* makes its SSH calls, and saves its copy without comparing versions.     *)
(* What it decides depends on its copy alone, so that it decides when it   *)
(* saves.  dlm ls may take its copy from the cache file.                   *)
(*                                                                         *)
(* What the servers answer over SSH (whether a queue has the repository,   *)
(* whether the append worked, what the log says, what is stuck or missing) *)
(* and which server is the least loaded are external, so every outcome is  *)
(* possible.  A command that would save nothing is Quit.                   *)
(***************************************************************************)
EXTENDS WorkerDaemon

CONSTANTS
    Operators,   \* whoever runs commands
    Repos,       \* repositories
    MaxTasks     \* the most tasks there can be in the object

TaskRecord == [repo : Repos, status : Statuses, server : Daemons \union {None},
               pid : Pids \union {None}, retry : Nat, err : Classes \union {None}]

\* What state.json holds: tasks numbered as they were added.
StateData(tasks) == \E n \in 0..MaxTasks : tasks \in [1..n -> TaskRecord]

ASSUME CommandAssumption ==
    /\ Operators \subseteq Clients /\ MaxTasks \in Nat
    /\ Operators \intersect (Daemons \union {Thread(d) : d \in Daemons}) = {}
    /\ \A tasks \in InitialTasks : StateData(tasks)

Mine(c) == copy[c].tasks
In(c, statuses) == {t \in DOMAIN Mine(c) : Mine(c)[t].status \in statuses}
NonEmpty(T) == SUBSET T \ {{}}

\* next_task_id: one more than there are tasks.
NextId(c) == Cardinality(DOMAIN Mine(c)) + 1

NewTask(repo, status, server) ==
    [repo |-> repo, status |-> status, server |-> server, pid |-> None, retry |-> 0, err |-> None]

-----------------------------------------------------------------------------

Begin(c) ==
    /\ LoadToSave(c, "object") \/ LoadToSave(c, "cache")
    /\ Spend("commands")
    /\ UNCHANGED daemonVars

\* The load takes the object for missing: the command works on no tasks.
BeginMisled(c) ==
    /\ LoadToSave(c, "missing")
    /\ left["commands"] > 0 /\ left["faults"] > 0
    /\ left' = [left EXCEPT !["commands"] = @ - 1, !["faults"] = @ - 1]
    /\ UNCHANGED daemonVars

\* The command saves; it takes the tasks of `over` from whoever has them.
Saves(c, change, over) ==
    /\ Save(c, change)
    /\ moved' = moved \union over
    /\ UNCHANGED <<pc, hold, todo, pid, stop, left, lapsed>>

Appends(c, task) ==
    /\ Spend("adds") /\ NextId(c) <= MaxTasks
    /\ Save(c, [t \in {NextId(c)} |-> task])
    /\ UNCHANGED daemonVars

\* A repository may be added unless the first task of it has one of the five
\* statuses add_cmd looks for; a task appended to a server's queue is dispatched.
Add(c) ==
    \E r \in Repos, server \in Daemons \union {None}, status \in {"queued", "dispatched"} :
         LET same == {t \in DOMAIN Mine(c) : Mine(c)[t].repo = r}
         IN  /\ \A t \in same : (\A u \in same : t <= u) => Mine(c)[t].status = "needs-auth"
             /\ status = "dispatched" => server # None
             /\ Appends(c, NewTask(r, status, server))

\* dispatch_cmd and dispatch_queued: those of the queued tasks whose append works.
Dispatch(c) ==
    \E T \in NonEmpty(In(c, {"queued"})) : \E server \in [T -> Daemons] :
        /\ \A t \in T : Mine(c)[t].server \in {None, server[t]}
        /\ Saves(c, [t \in T |-> [status |-> "dispatched", server |-> server[t]]], {})

\* A task found in the server's queue is dispatched as it is, one that is
\* appended is one retry further on.  error_class is kept.
Redispatched(c, T, appended, server) ==
    [t \in T |->
        IF t \in appended
        THEN [status |-> "dispatched", server |-> server[t], retry |-> Mine(c)[t].retry + 1]
        ELSE [status |-> "dispatched", server |-> server[t]]]

\* retry_cmd, of failed tasks.
Retry(c) ==
    \E T \in NonEmpty(In(c, {"failed"})) : \E appended \in SUBSET T, server \in [T -> Daemons] :
        Saves(c, Redispatched(c, T, appended, server), {})

\* retry --force, of a task of any status.
ForceRetry(c) ==
    \E t \in DOMAIN Mine(c) : \E appended \in SUBSET {t}, server \in [{t} -> Daemons] :
        Saves(c, Redispatched(c, {t}, appended, server), {t})

\* doctor --apply, of tasks a server says are stuck.
Doctor(c) ==
    \E T \in NonEmpty(DOMAIN Mine(c)) : \E server \in [T -> Daemons] :
        Saves(c, Redispatched(c, T, T, server), T)

\* sync --update: what a server's log and process list say of its tasks.
Sync(c) ==
    LET open == {t \in In(c, Statuses \ {"done", "needs-auth"}) : Mine(c)[t].server # None}
    IN  \E T \in NonEmpty(open) : \E said \in [T -> {"done", "failed", "downloading"}] :
            /\ \A t \in T : said[t] # Mine(c)[t].status
            /\ Saves(c, [t \in T |-> [status |-> said[t]]], T)

\* verify --fix: tasks of a status, done unless --status says otherwise, whose
\* data is not on their server.
Verify(c) ==
    \E s \in Statuses : \E T \in NonEmpty({t \in In(c, {s}) : Mine(c)[t].server # None}) :
        Saves(c, [t \in T |-> [status |-> "failed"]], T)

\* register_bos_data: a task for data that is there already.
Register(c) ==
    \E r \in Repos :
         /\ \A t \in DOMAIN Mine(c) : Mine(c)[t].repo # r
         /\ Appends(c, NewTask(r, "done", None))

\* ls --size or --refresh: the sizes of the tasks it knows are set, and the rest
\* is saved as it was in its copy.
ListSizes(c) == DOMAIN Mine(c) # {} /\ Saves(c, NoChange, {})

\* Nothing to save, or the command is interrupted.
Quit(c) ==
    /\ op[c] = "work"
    /\ Abandon({c})
    /\ UNCHANGED <<daemonVars, left>>

\* All commands but ls load with use_cache=False.
Decides(c) ==
    /\ look[c] # "cache"
    /\ \/ Add(c) \/ Dispatch(c) \/ Retry(c) \/ ForceRetry(c) \/ Doctor(c)
       \/ Sync(c) \/ Verify(c) \/ Register(c)

Command(c) ==
    Begin(c) \/ BeginMisled(c) \/ Decides(c) \/ ListSizes(c) \/ Quit(c)

Next == (\E d \in Daemons : Daemon(d)) \/ (\E c \in Operators : Command(c))

Spec == Init /\ [][Next]_vars

FairSpec == Spec /\ DaemonFairness

-----------------------------------------------------------------------------
(* Properties.                                                             *)

\* TypeOK: state.json is a list of tasks with fields of these kinds, and every
\* daemon is at one of the places of its loop.
TypeOK ==
    /\ StateData(store.tasks)
    /\ \A d \in Daemons :
         /\ hold[d].task \in 0..MaxTasks /\ pid[d] \in Pids \union {None}
         /\ (hold[d].task = 0) = (pc[d] \in {"down", "recover", "zombie", "poll", "steal", "maintain"})

\* A task taken over, or whose daemon failed to say what became of it.
Excused(t) == raced \/ t \in moved \union lapsed

\* NoOrphan: a task that is downloading on a server whose daemon is past its
\* recovery is held by a daemon ("Recover zombie tasks left in 'downloading' by
\* previous daemon instance", daemon.py:48): no crash or restart leaves it to
\* nobody, unless a report was refused, a pid came again, or a command said so.
NoOrphan ==
    \A t \in Tasks : LET s == store.tasks[t].server IN
        (Status(t) = "downloading" /\ s \in Daemons /\ pc[s] \notin {"down", "recover", "zombie"})
            => (\E d \in Daemons : hold[d].task = t) \/ Excused(t)

\* OneRunner: two daemons never run one task, although a claim looks neither at
\* the status nor at the server of the task, unless it was stolen, or a command
\* took it from a daemon.
OneRunner ==
    \A d, e \in Daemons :
        d # e /\ pc[d] = "run" /\ pc[e] = "run" /\ hold[d].task = hold[e].task
            => Excused(hold[d].task)

\* DoneIsFinal: a task that is done stays in the object and done, whatever the
\* daemons do with copies they polled before, unless it is taken over by a
\* command or stolen, the report of the success was refused, or the maintenance
\* of a daemon still had it as failed when a command had it tried again.
DoneIsFinal ==
    [][\A t \in Tasks : Status(t) = "done" =>
            \/ t \in Tasks' /\ Status(t)' = "done"
            \/ Excused(t)'
            \/ \E d \in Daemons : pc[d] = "maintain" /\ t \in DOMAIN want[d]]_vars

\* Settles: a task in the queue of a server with a daemon is done or has failed
\* in the end, with every retry its class allows, every restart and every
\* maintenance in between ("Will retry task", daemon.py:140).
Settles ==
    \A t \in 1..MaxTasks :
        (t \in Tasks /\ Status(t) = "dispatched")
            ~> (Excused(t) \/ (t \in Tasks /\ Status(t) \in {"done", "failed", "needs-auth"}))
=============================================================================

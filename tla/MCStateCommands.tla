-------------------------- MODULE MCStateCommands --------------------------
(* Two servers with their daemons, and one operator.                       *)
EXTENDS StateCommands

CONSTANTS w1, w2, alice, r1, r2

OneDaemon == {w1}
TwoDaemons == {w1, w2}
OneOperator == {alice}
OneDaemonClients == {w1, alice, Thread(w1)}
AllClients == {w1, w2, alice, Thread(w1), Thread(w2)}
OneRepo == {r1}
TwoRepos == {r1, r2}

Dispatched(repo, server, retry) == [NewTask(repo, "dispatched", server) EXCEPT !.retry = retry]

\* Two tasks in one queue at the end of their retries; one task that may still
\* be tried again; one that is done; one that waits to be dispatched.
OneQueue == [t \in 1..2 |-> Dispatched(IF t = 1 THEN r1 ELSE r2, w1, 3)]
OneTask == [t \in 1..1 |-> Dispatched(r1, w1, 2)]
OneDone == [t \in 1..1 |-> NewTask(r1, "done", w1)]
OneQueued == [t \in 1..1 |-> [NewTask(r1, "queued", None) EXCEPT !.retry = 3]]
StateTasks == {OneQueue, OneTask, OneDone, OneQueued}
DaemonTasks == {OneTask}

OnePid == {1}
TwoPids == {1, 2}
OneClass == {"disk"}
TwoClasses == {"disk", "auth"}
NoBounds == [beats |-> 0, ends |-> 0, faults |-> 0, commands |-> 0, adds |-> 0]
StateBounds == [tasks \in StateTasks |->
    CASE tasks = OneQueue -> [NoBounds EXCEPT !.ends = 1]
      [] tasks = OneTask -> [NoBounds EXCEPT !.commands = 1]
      [] tasks = OneDone -> [NoBounds EXCEPT !.commands = 1, !.adds = 1, !.beats = 1]
      [] tasks = OneQueued -> [NoBounds EXCEPT !.commands = 1, !.beats = 1, !.faults = 2]]
DaemonBounds == [tasks \in DaemonTasks |->
    [NoBounds EXCEPT !.beats = 1, !.ends = 2, !.faults = 1]]
=============================================================================

---------------------------- MODULE AtomicStore ----------------------------
(***************************************************************************)
(* What update_task and update_heartbeat of dlm/core/state.py promise:     *)
(* "Atomically update a single task's fields".  A client asks for a        *)
(* change, and the object changes in one step from what it is to what it   *)
(* is with that change and the next version.  The promise ends when the    *)
(* store breaks.                                                           *)
(***************************************************************************)
EXTENDS Integers

CONSTANTS
    Clients,
    Whole     \* the change of a command, which writes the whole object

VARIABLES
    state,    \* the object: a version, and what is stored of each task
    asked,    \* the fields each client asked to set, per task
    broken    \* the promise has ended

abstractVars == <<state, asked, broken>>

\* A record with some fields replaced.
Override(old, new) ==
    [k \in DOMAIN old \union DOMAIN new |-> IF k \in DOMAIN new THEN new[k] ELSE old[k]]

\* The tasks with the fields of a change set, or with a new task.
Applied(tasks, change) ==
    [t \in DOMAIN tasks \union DOMAIN change |->
        IF t \notin DOMAIN change THEN tasks[t]
        ELSE IF t \in DOMAIN tasks THEN Override(tasks[t], change[t]) ELSE change[t]]

\* The object after a change.
Updated(s, change) == [version |-> s.version + 1, tasks |-> Applied(s.tasks, change)]

Ask == UNCHANGED <<state, broken>>

\* A client's change is carried out.
Serve(c) ==
    /\ ~broken /\ asked[c] # Whole
    /\ state' = Updated(state, asked[c])
    /\ UNCHANGED broken

\* A command writes the object, without losing a task.
Rewrite(c) ==
    /\ ~broken /\ asked[c] = Whole
    /\ state'.version = state.version + 1
    /\ DOMAIN state.tasks \subseteq DOMAIN state'.tasks
    /\ UNCHANGED broken

Break == broken' = TRUE

AtomicNext == Ask \/ Break \/ \E c \in Clients : Serve(c) \/ Rewrite(c)

AtomicSpec == ~broken /\ [][AtomicNext]_abstractVars
=============================================================================

----------------------- MODULE StateCommands_proofs -----------------------
(***************************************************************************)
(* The daemons, their heartbeat threads and the commands together, for any *)
(* number of servers, tasks, commands, crashes and failures of BOS.        *)
(*                                                                         *)
(* The inductive invariant says of every task that a daemon has in hand -  *)
(* it claims, runs or reports it, or is to recover it - that the object    *)
(* has it as the daemon's own and not over (Owned), and of every task that *)
(* is downloading that its daemon has it in hand, or is down (Tracked).    *)
(* The places of the daemons (Placed), what their calls ask for (Asks) and *)
(* the types (Typed) carry both through the steps of a call.  A step of a  *)
(* daemon is shown to keep the daemon's own part first (StepOf), and then  *)
(* everybody else's (StepKeeps); a command leaves the daemons where they   *)
(* are and spares the tasks it does not take over (Spared).                *)
(***************************************************************************)
EXTENDS StateCommands, StateStore_proofs, FiniteSetTheorems

-----------------------------------------------------------------------------
(* The inductive invariant of the system.                                  *)

Asking == {"zombie", "stealing", "claim", "report", "fail", "maintain"}
Places == Asking \union {"down", "recover", "poll", "steal", "take", "run", "broken"}
Unheld == {"down", "recover", "zombie", "poll", "steal", "maintain"}

\* The status a daemon asks for, by the place where it waits for the answer.
Asked ==
    [zombie |-> {"dispatched"}, maintain |-> {"dispatched"}, claim |-> {"downloading"},
     report |-> {"done"}, fail |-> {"dispatched", "failed", "needs-auth"}]

\* Some fields of a task.
Fields(f) ==
    /\ DOMAIN f \subseteq {"repo", "status", "server", "pid", "retry", "err"}
    /\ "repo" \in DOMAIN f => f.repo \in Repos
    /\ "status" \in DOMAIN f => f.status \in Statuses
    /\ "server" \in DOMAIN f => f.server \in Daemons \union {None}
    /\ "pid" \in DOMAIN f => f.pid \in Pids \union {None}
    /\ "retry" \in DOMAIN f => f.retry \in Nat
    /\ "err" \in DOMAIN f => f.err \in Classes \union {None}

\* A steal changes a task's server, every other call of a daemon its status.
Asks(d) ==
    \A t \in DOMAIN want[d] :
        /\ Fields(want[d][t])
        /\ IF pc[d] = "stealing"
           THEN "status" \notin DOMAIN want[d][t]
           ELSE /\ "status" \in DOMAIN want[d][t] /\ "server" \notin DOMAIN want[d][t]
                /\ want[d][t].status \in Asked[pc[d]]

\* What the place of a daemon says of its call and of the task it holds.
Placed(d) ==
    /\ pc[d] \in Places
    /\ IF pc[d] \in Asking
       THEN op[d] \in {"load", "compare", "put"}
       ELSE op[d] = "idle" /\ DOMAIN want[d] = {}
    /\ pc[d] \in {"stealing", "claim", "report", "fail"} => DOMAIN want[d] = {hold[d].task}
    /\ hold[d].task \in 0..MaxTasks /\ hold[d].retry \in Nat
    /\ hold[d].task = 0 <=> pc[d] \in Unheld
    /\ pc[d] \in {"stealing", "take"} => hold[d].task \in moved
    /\ todo[d] # {} => pc[d] \in {"recover", "zombie"}
    /\ todo[d] \subseteq 1..MaxTasks
    /\ pid[d] \in Pids

\* A heartbeat changes no task; commands only load and save.
Threads == {Thread(d) : d \in Daemons}
OtherCalls ==
    /\ \A c \in Threads : op[c] # "work" /\ DOMAIN want[c] = {}
    /\ \A c \in Operators : op[c] \in {"idle", "work"}
    /\ \A c \in Clients \ (Daemons \union Threads \union Operators) : op[c] = "idle"

\* The object, and every copy and cache of it, holds tasks; a call changes some
\* of them.
Typed ==
    /\ StateData(store.tasks)
    /\ \A c \in Clients :
         /\ StateData(cache[c].tasks)
         /\ op[c] \in {"compare", "put", "work"} => StateData(copy[c].tasks)
         /\ op[c] \in {"compare", "put"} => DOMAIN want[c] \subseteq DOMAIN copy[c].tasks

\* Daemon d has task t in hand: it holds it, or is to recover it.
Own(d, t) ==
    \/ t # 0 /\ hold[d].task = t
    \/ t \in todo[d]
    \/ pc[d] = "zombie" /\ t \in DOMAIN want[d]

\* The object says so too.
Live(d, t) ==
    t \in Tasks /\ store.tasks[t].server = d /\ Status(t) \in {"dispatched", "downloading"}

\* A task in hand is the daemon's own in the object, and no run is over.
Owned == \A d \in Daemons : \A t \in 1..MaxTasks : Own(d, t) /\ ~Excused(t) => Live(d, t)

\* A task that is downloading is in hand, or its daemon is down.
Downloads(d, t) == t \in Tasks /\ Status(t) = "downloading" /\ store.tasks[t].server = d
Tracked ==
    \A d \in Daemons : \A t \in 1..MaxTasks :
        Downloads(d, t) /\ ~Excused(t) => pc[d] = "down" \/ Own(d, t)

Shape ==
    /\ IInv /\ Typed /\ OtherCalls
    /\ \A d \in Daemons : Placed(d) /\ Asks(d)
    /\ DOMAIN pc = Daemons /\ DOMAIN hold = Daemons /\ DOMAIN todo = Daemons /\ DOMAIN pid = Daemons

SystemInv == Shape /\ Owned /\ Tracked

-----------------------------------------------------------------------------
(* Tasks and changes of tasks.                                             *)

\* Fields that are set in a record leave a record of the same kind.
LEMMA OverrideRecord ==
    ASSUME NEW old \in TaskRecord, NEW f, Fields(f)
    PROVE  /\ Override(old, f) \in TaskRecord
           /\ Override(old, f).status = IF "status" \in DOMAIN f THEN f.status ELSE old.status
           /\ Override(old, f).server = IF "server" \in DOMAIN f THEN f.server ELSE old.server
<1> DEFINE names == {"repo", "status", "server", "pid", "retry", "err"}
           new(k) == IF k \in DOMAIN f THEN f[k] ELSE old[k]
<1>1. DOMAIN old = names
  BY DEF TaskRecord
<1>2. DOMAIN old \union DOMAIN f = names
  BY <1>1 DEF Fields
<1>3. Override(old, f) = [k \in names |-> new(k)]
  BY <1>2 DEF Override
<1>4. /\ new("repo") \in Repos /\ new("status") \in Statuses
      /\ new("server") \in Daemons \union {None} /\ new("pid") \in Pids \union {None}
      /\ new("retry") \in Nat /\ new("err") \in Classes \union {None}
  BY DEF Fields, TaskRecord
<1> HIDE DEF new
<1>5. [k \in names |-> new(k)] =
        [repo |-> new("repo"), status |-> new("status"), server |-> new("server"),
         pid |-> new("pid"), retry |-> new("retry"), err |-> new("err")]
  OBVIOUS
<1>6. Override(old, f) \in TaskRecord
  BY <1>3, <1>4, <1>5 DEF TaskRecord
<1>7. Override(old, f).status = new("status") /\ Override(old, f).server = new("server")
  BY <1>3
<1>8. QED BY <1>6, <1>7 DEF new

\* A change of some tasks leaves the others, and what it does not name.
LEMMA AppliedData ==
    ASSUME NEW tasks, StateData(tasks), NEW change, DOMAIN change \subseteq DOMAIN tasks,
           \A t \in DOMAIN change : Fields(change[t])
    PROVE  LET new == Applied(tasks, change) IN
           /\ StateData(new) /\ DOMAIN new = DOMAIN tasks
           /\ \A t \in DOMAIN tasks \ DOMAIN change : new[t] = tasks[t]
           /\ \A t \in DOMAIN change :
                /\ new[t].status = IF "status" \in DOMAIN change[t] THEN change[t].status ELSE tasks[t].status
                /\ new[t].server = IF "server" \in DOMAIN change[t] THEN change[t].server ELSE tasks[t].server
<1> DEFINE new == Applied(tasks, change)
<1>1. PICK n \in 0..MaxTasks : tasks \in [1..n -> TaskRecord]
  BY DEF StateData
<1>2. DOMAIN tasks = 1..n /\ DOMAIN tasks \union DOMAIN change = 1..n
  BY <1>1
<1>3. new = [t \in 1..n |-> IF t \notin DOMAIN change THEN tasks[t] ELSE Override(tasks[t], change[t])]
  BY <1>2 DEF Applied
<1>4. \A t \in 1..n : tasks[t] \in TaskRecord
  BY <1>1
<1>5. \A t \in 1..n : t \in DOMAIN change => Override(tasks[t], change[t]) \in TaskRecord
  BY <1>4, OverrideRecord
<1>6. new \in [1..n -> TaskRecord]
  BY <1>3, <1>4, <1>5
<1>7. StateData(new) /\ DOMAIN new = DOMAIN tasks
  BY <1>2, <1>6 DEF StateData
<1>8. \A t \in DOMAIN change : t \in 1..n /\ new[t] = Override(tasks[t], change[t])
  BY <1>2, <1>3
<1>9. \A t \in DOMAIN change :
        /\ new[t].status = IF "status" \in DOMAIN change[t] THEN change[t].status ELSE tasks[t].status
        /\ new[t].server = IF "server" \in DOMAIN change[t] THEN change[t].server ELSE tasks[t].server
  <2> SUFFICES ASSUME NEW t \in DOMAIN change
               PROVE  /\ new[t].status = IF "status" \in DOMAIN change[t] THEN change[t].status ELSE tasks[t].status
                      /\ new[t].server = IF "server" \in DOMAIN change[t] THEN change[t].server ELSE tasks[t].server
    OBVIOUS
  <2> HIDE DEF new
  <2>1. Fields(change[t])
    OBVIOUS
  <2>3. t \in 1..n /\ new[t] = Override(tasks[t], change[t])
    BY <1>8
  <2>4. tasks[t] \in TaskRecord
    BY <1>4, <2>3
  <2>2. QED BY <2>1, <2>3, <2>4, OverrideRecord
<1>10. \A t \in DOMAIN tasks \ DOMAIN change : new[t] = tasks[t]
  BY <1>2, <1>3
<1>11. QED BY <1>7, <1>9, <1>10

\* A task appended gets the next number.
LEMMA AppliedAppend ==
    ASSUME NEW tasks, StateData(tasks), NEW task \in TaskRecord, Cardinality(DOMAIN tasks) + 1 <= MaxTasks
    PROVE  LET id == Cardinality(DOMAIN tasks) + 1
               new == Applied(tasks, [t \in {id} |-> task])
           IN  /\ StateData(new) /\ id \in 1..MaxTasks /\ id \notin DOMAIN tasks
               /\ DOMAIN new = DOMAIN tasks \union {id} /\ new[id] = task
               /\ \A t \in DOMAIN tasks : new[t] = tasks[t]
<1> DEFINE id == Cardinality(DOMAIN tasks) + 1
           new == Applied(tasks, [t \in {id} |-> task])
<1>1. PICK n \in 0..MaxTasks : tasks \in [1..n -> TaskRecord]
  BY DEF StateData
<1>2. n \in Nat /\ MaxTasks \in Nat
  BY CommandAssumption
<1>3. id = n + 1
  <2>1. DOMAIN tasks = 1..n
    BY <1>1
  <2>2. Cardinality(1..n) = n
    BY <1>2, FS_Interval
  <2>3. QED BY <2>1, <2>2
<1>4. DOMAIN tasks \union {id} = 1..(n + 1) /\ id \notin DOMAIN tasks /\ DOMAIN tasks = 1..n
  BY <1>1, <1>2, <1>3
<1>5. new = [t \in 1..(n + 1) |-> IF t # id THEN tasks[t] ELSE task]
  <2> HIDE DEF id
  <2>1. DOMAIN [t \in {id} |-> task] = {id} /\ [t \in {id} |-> task][id] = task
    OBVIOUS
  <2>2. QED BY <1>4, <2>1 DEF Applied
<1> HIDE DEF id, new
<1>6. \A t \in 1..(n + 1) : new[t] \in TaskRecord
  BY <1>1, <1>4, <1>5
<1>7. new \in [1..(n + 1) -> TaskRecord] /\ n + 1 \in 0..MaxTasks /\ id \in 1..MaxTasks
  <2>1. id <= MaxTasks
    BY DEF id
  <2>2. QED BY <1>2, <1>3, <1>5, <1>6, <2>1
<1>8. StateData(new)
  BY <1>7 DEF StateData
<1>9. QED BY <1>4, <1>5, <1>7, <1>8 DEF id, new

-----------------------------------------------------------------------------
(* Daemons, threads and commands use the store by its operations only.     *)

\* The operations of the store, but for the save of a command.
Plain ==
    \/ \E c \in Clients :
         \/ Put(c) \/ Refused(c) \/ Fails(c)
         \/ \E how \in {"object", "missing"} : Load(c, how) \/ Compare(c, how)
         \/ \E how \in {"object", "missing", "cache"} : LoadToSave(c, how)
         \/ \E change : Call(c, change)
    \/ \E C \in SUBSET Clients : Abandon(C)

\* They are steps of the store.
LEMMA PlainIsStep == ASSUME Plain PROVE StoreNext
  BY DEF Plain, StoreNext, StoreStep

\* A daemon and its thread are clients, and not the same one.
LEMMA DaemonsAreClients ==
    ASSUME NEW d \in Daemons
    PROVE  /\ d \in Clients /\ Thread(d) \in Clients /\ Thread(d) \in Threads /\ Thread(d) \notin Daemons
           /\ d \notin Threads /\ d \notin Operators /\ Thread(d) \notin Operators
  BY DaemonAssumption, CommandAssumption DEF Threads

\* Operators are neither daemons nor threads.
LEMMA OperatorsAreClients ==
    ASSUME NEW c \in Operators PROVE c \in Clients /\ c \notin Daemons /\ c \notin Threads
  BY CommandAssumption DEF Threads

\* The tasks of the object are numbered.
LEMMA TasksAreNumbers == ASSUME NEW tasks, StateData(tasks) PROVE DOMAIN tasks \subseteq 1..MaxTasks
  BY CommandAssumption DEF StateData

-----------------------------------------------------------------------------
(* The store keeps its types.                                              *)

\* A call that is about to be put sets fields of tasks.
LEMMA WantsFields ==
    ASSUME Shape, NEW c \in Clients, op[c] = "put"
    PROVE  \A t \in DOMAIN want[c] : Fields(want[c][t])
<1>1. CASE c \in Daemons
  BY <1>1 DEF Shape, Asks
<1>2. CASE c \in Threads
  BY <1>2 DEF Shape, OtherCalls
<1>3. CASE c \notin Daemons \union Threads
  BY <1>3 DEF Shape, OtherCalls
<1>4. QED BY <1>1, <1>2, <1>3

\* A put of tasks keeps the types.
LEMMA StoredTyped ==
    ASSUME Shape, NEW c \in Clients, NEW change, Stored(c, change), Over({c}),
           UNCHANGED cache \/ cache' = [cache EXCEPT ![c] = store'],
           StateData(Applied(copy[c].tasks, change))
    PROVE  Typed'
<1>1. store'.tasks = Applied(copy[c].tasks, change)
  BY DEF Stored, Updated
<1>2. /\ \A e \in Clients \ {c} : op'[e] = op[e] /\ want'[e] = want[e] /\ copy'[e] = copy[e]
      /\ op'[c] = "idle"
  BY OverShape DEF Shape
<1>3. StateData(store'.tasks)
  BY <1>1
<1>4. \A e \in Clients : StateData(cache'[e].tasks)
  BY <1>3 DEF Shape, Typed, IInv, StoreShape, StateData
<1>5. QED BY <1>2, <1>3, <1>4 DEF Shape, Typed, StateData

\* What a load returns holds tasks, the state for a missing object none.
LEMMA SeenTyped ==
    ASSUME Shape, NEW c \in Clients, NEW how \in {"object", "missing", "cache"}
    PROVE  StateData(Seen(c, how).tasks)
<1>1. CASE how = "missing"
  <2>1. Seen(c, how).tasks = NoChange
    BY <1>1 DEF Seen, InitialState
  <2>2. 1..0 = {} /\ 0 \in 0..MaxTasks
    BY CommandAssumption
  <2>3. NoChange \in [1..0 -> TaskRecord]
    BY <2>2 DEF NoChange
  <2>4. QED BY <2>1, <2>2, <2>3 DEF StateData
<1>2. CASE how # "missing"
  <2>1. Seen(c, how) = store \/ Seen(c, how) = cache[c]
    BY <1>2 DEF Seen
  <2>2. QED BY <2>1 DEF Shape, Typed
<1>3. QED BY <1>1, <1>2

\* Every operation of the store keeps the types.
LEMMA PlainTyped == ASSUME Shape, Plain PROVE Typed'
<1>1. ASSUME NEW c \in Clients, NEW change, Call(c, change) PROVE Typed'
  BY <1>1 DEF Call, Shape, Typed, StateData, IInv, StoreShape
<1>2. ASSUME NEW c \in Clients, NEW how \in {"object", "missing"}, Load(c, how) PROVE Typed'
  <2>1. /\ op' = [op EXCEPT ![c] = "compare"] /\ copy' = [copy EXCEPT ![c] = Seen(c, how)]
        /\ UNCHANGED <<store, want, cache>> /\ DOMAIN want[c] \subseteq DOMAIN Seen(c, how).tasks
    BY <1>2 DEF Load
  <2>2. StateData(Seen(c, how).tasks)
    BY SeenTyped
  <2>3. QED BY <2>1, <2>2 DEF Shape, Typed, StateData, IInv, StoreShape
<1>3. ASSUME NEW c \in Clients, NEW how \in {"object", "missing"}, Compare(c, how) PROVE Typed'
  <2>1. CASE Seen(c, how).version = copy[c].version
    BY <1>3, <2>1 DEF Compare, Shape, Typed, StateData, IInv, StoreShape
  <2>2. CASE Seen(c, how).version # copy[c].version
    BY <1>3, <2>2 DEF Compare, Shape, Typed, StateData, IInv, StoreShape
  <2>3. QED BY <2>1, <2>2
<1>4. ASSUME NEW c \in Clients, Put(c) PROVE Typed'
  <2>0. op[c] = "put" /\ Stored(c, want[c]) /\ Over({c}) /\ UNCHANGED cache
    BY <1>4 DEF Put
  <2>1. StateData(copy[c].tasks) /\ DOMAIN want[c] \subseteq DOMAIN copy[c].tasks
    BY <2>0 DEF Shape, Typed
  <2>2. \A t \in DOMAIN want[c] : Fields(want[c][t])
    BY <2>0, WantsFields
  <2>3. StateData(Applied(copy[c].tasks, want[c]))
    BY <2>1, <2>2, AppliedData
  <2>4. QED BY <2>0, <2>3, StoredTyped
<1>5. ASSUME NEW C \in SUBSET Clients, Abandon(C) PROVE Typed'
  <2>1. \A c \in Clients : \/ op'[c] = "idle"
                           \/ op'[c] = op[c] /\ want'[c] = want[c] /\ copy'[c] = copy[c]
    BY <1>5, OverShape DEF Abandon, Shape
  <2>2. QED BY <1>5, <2>1 DEF Abandon, Shape, Typed, StateData
<1>6. ASSUME NEW c \in Clients, NEW how \in {"object", "missing", "cache"}, LoadToSave(c, how) PROVE Typed'
  <2>1. /\ op' = [op EXCEPT ![c] = "work"] /\ copy' = [copy EXCEPT ![c] = Seen(c, how)]
        /\ cache' = [cache EXCEPT ![c] = Seen(c, how)] /\ want' = [want EXCEPT ![c] = Whole]
        /\ UNCHANGED store
    BY <1>6 DEF LoadToSave
  <2>2. StateData(Seen(c, how).tasks)
    BY SeenTyped
  <2>3. QED BY <2>1, <2>2 DEF Shape, Typed, StateData, IInv, StoreShape
<1>7. QED
  BY <1>1, <1>2, <1>3, <1>4, <1>5, <1>6 DEF Plain, Refused, Fails

-----------------------------------------------------------------------------
(* What the answer of a call does to the tasks.                            *)

\* The put of daemon d's call, as far as properties tell tasks apart.
Changes(d) ==
    /\ Tasks' = Tasks
    /\ \A t \in Tasks \ DOMAIN want[d] : store'.tasks[t] = store.tasks[t]
    /\ \A t \in DOMAIN want[d] :
         /\ t \in Tasks
         /\ IF pc[d] = "stealing"
            THEN Status(t)' = Status(t)
            ELSE Status(t)' \in Asked[pc[d]] /\ store'.tasks[t].server = store.tasks[t].server

\* A client is idle then, and nobody else's call has changed.
Answered(c) ==
    /\ op'[c] = "idle" /\ DOMAIN want'[c] = {}
    /\ \A e \in Clients \ {c} : op'[e] = op[e] /\ want'[e] = want[e]
    /\ raced => raced'

\* A put that does not race is of the object as it is.
LEMMA PutsStore ==
    ASSUME IInv, NEW c \in Clients, Committed(c), NEW change, Stored(c, change), ~raced'
    PROVE  ~raced /\ copy[c] = store /\ store'.tasks = Applied(store.tasks, change)
  BY DEF IInv, StoreShape, LastLook, Stored, Updated

\* The put of a daemon.
LEMMA DaemonPuts ==
    ASSUME Shape, NEW d \in Daemons, op[d] = "put", Stored(d, want[d])
    PROVE  raced' \/ Changes(d)
<1> SUFFICES ASSUME ~raced' PROVE Changes(d)
  OBVIOUS
<1>1. copy[d] = store /\ store'.tasks = Applied(store.tasks, want[d])
  BY PutsStore, DaemonsAreClients DEF Shape, Committed
<1>2. StateData(store.tasks) /\ DOMAIN want[d] \subseteq DOMAIN store.tasks
  BY <1>1, DaemonsAreClients DEF Shape, Typed
<1>3. Asks(d)
  BY DEF Shape
<1>4. \A t \in DOMAIN want[d] : Fields(want[d][t])
  BY <1>3 DEF Asks
<1> DEFINE new == Applied(store.tasks, want[d])
<1>5. /\ DOMAIN new = DOMAIN store.tasks
      /\ \A t \in DOMAIN store.tasks \ DOMAIN want[d] : new[t] = store.tasks[t]
      /\ \A t \in DOMAIN want[d] :
           /\ new[t].status = IF "status" \in DOMAIN want[d][t] THEN want[d][t].status ELSE store.tasks[t].status
           /\ new[t].server = IF "server" \in DOMAIN want[d][t] THEN want[d][t].server ELSE store.tasks[t].server
  BY <1>2, <1>4, AppliedData
<1> HIDE DEF new
<1>6. store'.tasks = new
  BY <1>1 DEF new
<1>7. QED BY <1>2, <1>3, <1>5, <1>6 DEF Changes, Tasks, Status, Asks

\* The put of a heartbeat changes no task.
LEMMA ThreadPuts ==
    ASSUME Shape, NEW d \in Daemons, op[Thread(d)] = "put", Stored(Thread(d), want[Thread(d)])
    PROVE  raced' \/ store'.tasks = store.tasks
<1> SUFFICES ASSUME ~raced' PROVE store'.tasks = store.tasks
  OBVIOUS
<1>1. store'.tasks = Applied(store.tasks, want[Thread(d)])
  BY PutsStore, DaemonsAreClients DEF Shape, Committed
<1>2. DOMAIN want[Thread(d)] = {}
  BY DaemonsAreClients DEF Shape, OtherCalls
<1>3. PICK n \in 0..MaxTasks : store.tasks \in [1..n -> TaskRecord]
  BY DEF Shape, Typed, StateData
<1>4. Applied(store.tasks, want[Thread(d)]) = [t \in 1..n |-> store.tasks[t]]
  BY <1>2, <1>3 DEF Applied
<1>5. QED BY <1>1, <1>3, <1>4

\* What Over leaves of a client's call.
LEMMA OverAnswers ==
    ASSUME Shape, NEW c \in Clients, Over({c}), raced => raced' PROVE Answered(c)
<1>1. want'[c] = NoChange
  BY DEF Over
<1>2. DOMAIN want'[c] = {}
  BY <1>1 DEF NoChange
<1>3. QED BY <1>2, OverShape DEF Answered, Shape

\* A call returns: it has put its change.
LEMMA ReturnsAnswers ==
    ASSUME Shape, NEW d \in Daemons, Returns(d) PROVE Answered(d) /\ (raced' \/ Changes(d))
  BY DaemonsAreClients, OverAnswers, DaemonPuts DEF Returns, Put, Stored

\* A call raises: it may have put its change.
LEMMA RaisesAnswers ==
    ASSUME Shape, NEW d \in Daemons, Raises(d)
    PROVE  Answered(d) /\ (raced' \/ store'.tasks = store.tasks \/ Changes(d))
<1>1. CASE Abandon({d})
  BY <1>1, DaemonsAreClients, OverAnswers DEF Abandon
<1>2. CASE Put(d)
  BY <1>2, DaemonsAreClients, OverAnswers, DaemonPuts DEF Put, Stored
<1>3. QED BY <1>1, <1>2 DEF Raises, Refused, Fails

\* The same of a heartbeat.
LEMMA BeatAnswers ==
    ASSUME Shape, NEW d \in Daemons, Returns(Thread(d)) \/ Raises(Thread(d))
    PROVE  Answered(Thread(d)) /\ (raced' \/ store'.tasks = store.tasks)
<1>1. CASE Abandon({Thread(d)})
  BY <1>1, DaemonsAreClients, OverAnswers DEF Abandon
<1>2. CASE Put(Thread(d))
  BY <1>2, DaemonsAreClients, OverAnswers, ThreadPuts DEF Put, Stored
<1>3. QED BY <1>1, <1>2 DEF Raises, Refused, Fails, Returns

\* A call begins.
LEMMA UpdateBegins ==
    ASSUME Shape, NEW d \in Daemons, NEW t, NEW fields, Update(d, t, fields)
    PROVE  /\ op'[d] = "load" /\ DOMAIN want'[d] = {t} /\ want'[d][t] = fields
           /\ \A e \in Clients \ {d} : op'[e] = op[e] /\ want'[e] = want[e]
           /\ UNCHANGED <<store, raced>>
<1>1. /\ want' = [want EXCEPT ![d] = [x \in {t} |-> fields]] /\ op' = [op EXCEPT ![d] = "load"]
      /\ UNCHANGED <<store, raced>>
  BY DEF Update, Call
<1>2. want'[d] = [x \in {t} |-> fields]
  BY <1>1, DaemonsAreClients DEF Shape, IInv, StoreShape
<1>3. DOMAIN want'[d] = {t} /\ want'[d][t] = fields
  BY <1>2
<1>4. QED BY <1>1, <1>3, DaemonsAreClients DEF Shape, IInv, StoreShape

-----------------------------------------------------------------------------
(* Steps of one daemon.                                                    *)

\* The other daemons, the commands and the other calls stay as they are, and
\* nothing that excuses a task is forgotten.
Frame(d) ==
    /\ \A c \in Clients \ {d} :
         \/ op'[c] = op[c] /\ want'[c] = want[c]
         \/ c = Thread(d) /\ op'[c] # "work" /\ DOMAIN want'[c] = {}
    /\ \A e \in Daemons \ {d} : pc'[e] = pc[e] /\ hold'[e] = hold[e] /\ todo'[e] = todo[e] /\ pid'[e] = pid[e]
    /\ DOMAIN pc' = Daemons /\ DOMAIN hold' = Daemons /\ DOMAIN todo' = Daemons /\ DOMAIN pid' = Daemons
    /\ moved \subseteq moved' /\ lapsed \subseteq lapsed' /\ (raced => raced')

\* Daemon d has its tasks in hand after the step.
Keeps(d) ==
    \A t \in 1..MaxTasks : ~Excused(t)' =>
        /\ Own(d, t)' => Live(d, t)'
        /\ Downloads(d, t)' => pc'[d] = "down" \/ Own(d, t)'

\* What is to show of a step of daemon d.
StepOf(d) ==
    /\ Frame(d) /\ Placed(d)' /\ Asks(d)'
    /\ raced' \/ store'.tasks = store.tasks \/ Changes(d)
    /\ Keeps(d)

\* A task that is excused stays so.
LEMMA ExcusedStays ==
    ASSUME NEW t, moved \subseteq moved', lapsed \subseteq lapsed', raced => raced', ~Excused(t)'
    PROVE  ~Excused(t) /\ ~raced' /\ t \notin moved' /\ t \notin lapsed'
  BY DEF Excused

\* What is put in a daemon's name does not take another's task.
LEMMA OthersKeep ==
    ASSUME SystemInv, NEW d \in Daemons, NEW e \in Daemons \ {d}, NEW t \in 1..MaxTasks, ~Excused(t),
           store'.tasks = store.tasks \/ Changes(d)
    PROVE  /\ Own(e, t) => Live(e, t)'
           /\ Downloads(e, t)' => Downloads(e, t)
<1>1. CASE store'.tasks = store.tasks
  BY <1>1 DEF SystemInv, Owned, Live, Downloads, Tasks, Status
<1>2. CASE Changes(d)
  <2>1. CASE t \notin DOMAIN want[d]
    BY <1>2, <2>1 DEF Changes, SystemInv, Owned, Live, Downloads, Tasks, Status
  <2>2. CASE t \in DOMAIN want[d]
    <3>1. Placed(d)
      BY DEF SystemInv, Shape
    <3>2. pc[d] \in Asking
      BY <2>2, <3>1 DEF Placed
    <3>3. CASE pc[d] = "stealing"
      <4>1. t \in moved
        BY <2>2, <3>1, <3>3 DEF Placed
      <4>2. QED BY <4>1 DEF Excused
    <3>4. CASE pc[d] = "maintain"
      <4>1. Tasks' = Tasks /\ t \in Tasks /\ Status(t)' = "dispatched" /\ store'.tasks[t].server = store.tasks[t].server
        BY <1>2, <2>2, <3>4 DEF Changes, Asked
      <4>2. QED BY <4>1 DEF SystemInv, Owned, Live, Downloads, Status
    <3>5. CASE pc[d] \in {"zombie", "claim", "report", "fail"}
      <4>1. Own(d, t)
        BY <2>2, <3>1, <3>5 DEF Placed, Own
      <4>2. store.tasks[t].server = d /\ t \in Tasks
        BY <4>1 DEF SystemInv, Owned, Live
      <4>3. ~Own(e, t)
        BY <4>2 DEF SystemInv, Owned, Live
      <4>4. store'.tasks[t].server = d
        BY <1>2, <2>2, <3>5, <4>2 DEF Changes
      <4>5. QED BY <4>3, <4>4 DEF Downloads
    <3>6. QED BY <3>2, <3>3, <3>4, <3>5 DEF Asking
  <2>3. QED BY <2>1, <2>2
<1>3. QED BY <1>1, <1>2

\* A step of a daemon keeps the invariant.
LEMMA StepKeeps ==
    ASSUME SystemInv, NEW d \in Daemons, Plain \/ UNCHANGED storeVars, StepOf(d)
    PROVE  SystemInv'
<1>1. IInv'
  BY PlainIsStep, StoreStepIInv DEF SystemInv, Shape
<1>2. Typed'
  <2>1. CASE UNCHANGED storeVars
    BY <2>1 DEF storeVars, SystemInv, Shape, Typed, StateData
  <2>2. QED BY <2>1, PlainTyped DEF SystemInv
<1>3. OtherCalls'
  BY DaemonsAreClients, OperatorsAreClients DEF SystemInv, Shape, OtherCalls, StepOf, Frame, Threads
<1>4. ASSUME NEW e \in Daemons PROVE Placed(e)' /\ Asks(e)'
  <2>1. CASE e = d
    BY <2>1 DEF StepOf
  <2>2. CASE e # d
    <3>1. e \in Clients \ {d} /\ e # Thread(d)
      BY <2>2, DaemonsAreClients
    <3>2. /\ op'[e] = op[e] /\ want'[e] = want[e] /\ pc'[e] = pc[e]
          /\ hold'[e] = hold[e] /\ todo'[e] = todo[e] /\ pid'[e] = pid[e] /\ moved \subseteq moved'
      BY <2>2, <3>1 DEF StepOf, Frame
    <3>3. Placed(e) /\ Asks(e)
      BY DEF SystemInv, Shape
    <3>4. QED BY <3>2, <3>3 DEF Placed, Asks
  <2>3. QED BY <2>1, <2>2
<1>5. Shape'
  BY <1>1, <1>2, <1>3, <1>4 DEF Shape, StepOf, Frame
<1>6. ASSUME NEW e \in Daemons, NEW t \in 1..MaxTasks, ~Excused(t)'
      PROVE  (Own(e, t)' => Live(e, t)') /\ (Downloads(e, t)' => pc'[e] = "down" \/ Own(e, t)')
  <2>1. CASE e = d
    BY <1>6, <2>1 DEF StepOf, Keeps
  <2>2. CASE e # d
    <3>1. ~Excused(t) /\ ~raced'
      BY <1>6, ExcusedStays DEF StepOf, Frame
    <3>2. (Own(e, t) => Live(e, t)') /\ (Downloads(e, t)' => Downloads(e, t))
      BY <2>2, <3>1, OthersKeep DEF StepOf
    <3>3. e \in Clients \ {d} /\ e # Thread(d)
      BY <2>2, DaemonsAreClients
    <3>4. (Own(e, t)' <=> Own(e, t)) /\ pc'[e] = pc[e]
      BY <2>2, <3>3 DEF StepOf, Frame, Own
    <3>5. QED BY <3>1, <3>2, <3>4 DEF SystemInv, Tracked
  <2>3. QED BY <2>1, <2>2
<1>7. Owned' /\ Tracked'
  BY <1>6 DEF Owned, Tracked
<1>8. QED BY <1>5, <1>7 DEF SystemInv

-----------------------------------------------------------------------------
(* Start, recovery.                                                        *)

\* A daemon that starts has in hand what it finds downloading of another pid;
\* the rest has lapsed.
LEMMA StartStep == ASSUME SystemInv, NEW d \in Daemons, Start(d) PROVE StepOf(d)
<1>0. Placed(d) /\ Asks(d) /\ pc[d] = "down" /\ DOMAIN want[d] = {} /\ op[d] = "idle" /\ hold[d].task = 0
  BY DEF SystemInv, Shape, Placed, Start, StartsWith, Asking, Unheld
<1>1. PICK p \in Pids :
        /\ StartsWith(d, p, OfOtherPid(Downloading(d), p))
        /\ lapsed' = lapsed \union (Downloading(d) \ OfOtherPid(Downloading(d), p))
  BY DEF Start
<1> DEFINE zombies == OfOtherPid(Downloading(d), p)
<1>2. zombies \subseteq Downloading(d) /\ Downloading(d) \subseteq 1..MaxTasks
  BY TasksAreNumbers DEF OfOtherPid, Downloading, Tasks, SystemInv, Shape, Typed
<1> HIDE DEF zombies
<1>3. /\ UNCHANGED storeVars /\ hold' = hold /\ moved' = moved
      /\ todo' = [todo EXCEPT ![d] = zombies] /\ pid' = [pid EXCEPT ![d] = p]
      /\ pc' = [pc EXCEPT ![d] = IF zombies = {} THEN "poll" ELSE "recover"]
      /\ lapsed' = lapsed \union (Downloading(d) \ zombies)
  BY <1>1 DEF StartsWith, Goes, zombies
<1>4. pc'[d] \in {"poll", "recover"} /\ (zombies # {} => pc'[d] = "recover") /\ todo'[d] = zombies /\ pid'[d] = p
  BY <1>3 DEF SystemInv, Shape
<1>5. Frame(d)
  BY <1>3 DEF Frame, storeVars, SystemInv, Shape
<1>6. Placed(d)' /\ Asks(d)'
  BY <1>0, <1>2, <1>3, <1>4 DEF Placed, Asks, Places, Asking, Unheld, storeVars
<1>7. Keeps(d)
  <2> SUFFICES ASSUME NEW t \in 1..MaxTasks, ~Excused(t)'
               PROVE  /\ Own(d, t)' => Live(d, t)'
                      /\ Downloads(d, t)' => Own(d, t)'
    BY DEF Keeps
  <2>1. Own(d, t)' <=> t \in zombies
    BY <1>0, <1>3, <1>4 DEF Own
  <2>2. Live(d, t)' <=> Live(d, t)
    BY <1>3 DEF storeVars, Live, Tasks, Status
  <2>3. t \in Downloading(d) => Live(d, t)
    BY DEF Downloading, Live
  <2>4. Downloads(d, t)' => t \in Downloading(d)
    BY <1>3 DEF storeVars, Downloads, Downloading, Tasks, Status
  <2>5. t \notin lapsed'
    BY DEF Excused
  <2>6. QED BY <1>2, <1>3, <2>1, <2>2, <2>3, <2>4, <2>5
<1>8. QED BY <1>3, <1>5, <1>6, <1>7 DEF StepOf, storeVars

\* Without its recovery, all that is downloading has lapsed.
LEMMA StartBlindStep == ASSUME SystemInv, NEW d \in Daemons, StartBlind(d) PROVE StepOf(d)
<1>0. Placed(d) /\ Asks(d) /\ pc[d] = "down" /\ DOMAIN want[d] = {} /\ op[d] = "idle" /\ hold[d].task = 0 /\ todo[d] = {}
  BY DEF SystemInv, Shape, Placed, StartBlind, Asking, Unheld
<1>1. /\ UNCHANGED <<storeVars, hold, todo, moved>> /\ lapsed' = lapsed \union Downloading(d)
      /\ pc' = [pc EXCEPT ![d] = "poll"] /\ \E p \in Pids : pid' = [pid EXCEPT ![d] = p]
  BY DEF StartBlind, Goes
<1>2. pc'[d] = "poll" /\ pid'[d] \in Pids
  BY <1>1 DEF SystemInv, Shape
<1>3. Frame(d)
  BY <1>1 DEF Frame, storeVars, SystemInv, Shape
<1>4. Placed(d)' /\ Asks(d)'
  BY <1>0, <1>1, <1>2 DEF Placed, Asks, Places, Asking, Unheld, storeVars
<1>5. Keeps(d)
  <2> SUFFICES ASSUME NEW t \in 1..MaxTasks, ~Excused(t)'
               PROVE  ~Own(d, t)' /\ ~Downloads(d, t)'
    BY DEF Keeps
  <2>1. ~Own(d, t)'
    BY <1>0, <1>1, <1>2 DEF Own
  <2>2. Downloads(d, t)' => t \in Downloading(d)
    BY <1>1 DEF storeVars, Downloads, Downloading, Tasks, Status
  <2>3. t \notin lapsed'
    BY DEF Excused
  <2>4. QED BY <1>1, <2>1, <2>2, <2>3
<1>6. QED BY <1>1, <1>3, <1>4, <1>5 DEF StepOf, storeVars

\* A call that begins changes no task; what was in hand must be so still.
LEMMA BeginsKeeps ==
    ASSUME SystemInv, NEW d \in Daemons, UNCHANGED <<store, raced>>, lapsed' = lapsed, moved \subseteq moved',
           pc[d] # "down", \A t \in 1..MaxTasks : t \in moved' \/ (Own(d, t)' <=> Own(d, t))
    PROVE  Keeps(d)
<1> SUFFICES ASSUME NEW t \in 1..MaxTasks, ~Excused(t)'
             PROVE  /\ Own(d, t)' => Live(d, t)'
                    /\ Downloads(d, t)' => Own(d, t)'
  BY DEF Keeps
<1>1. ~Excused(t) /\ t \notin moved'
  BY DEF Excused
<1>2. QED BY <1>1 DEF SystemInv, Owned, Tracked, Live, Downloads, Tasks, Status

\* The first part of an update: the daemon waits for its answer.
LEMMA UpdateFrame ==
    ASSUME SystemInv, NEW d \in Daemons, NEW t, NEW fields, Update(d, t, fields),
           \E where : Goes(d, where),
           hold' = hold \/ (\E h : hold' = [hold EXCEPT ![d] = h]),
           todo' = todo \/ (\E z : todo' = [todo EXCEPT ![d] = z]),
           pid' = pid, moved \subseteq moved', lapsed' = lapsed
    PROVE  Frame(d)
<1>1. \A e \in Clients \ {d} : op'[e] = op[e] /\ want'[e] = want[e]
  BY UpdateBegins DEF SystemInv
<1>2. UNCHANGED raced
  BY UpdateBegins DEF SystemInv
<1>3. QED BY <1>1, <1>2 DEF Frame, Goes, SystemInv, Shape

\* A zombie stays in hand while its daemon waits for the answer.
LEMMA RecoverZombieStep == ASSUME SystemInv, NEW d \in Daemons, RecoverZombie(d) PROVE StepOf(d)
<1>0. Placed(d) /\ pc[d] = "recover" /\ DOMAIN want[d] = {} /\ hold[d].task = 0
  BY DEF SystemInv, Shape, Placed, RecoverZombie, At, Asking, Unheld
<1> DEFINE fields == [status |-> "dispatched", pid |-> None]
<1>1. PICK z \in todo[d] : Update(d, z, fields) /\ todo' = [todo EXCEPT ![d] = @ \ {z}]
  BY DEF RecoverZombie
<1>2. /\ UNCHANGED <<hold, pid, moved, lapsed>> /\ pc' = [pc EXCEPT ![d] = "zombie"]
      /\ pc'[d] = "zombie" /\ todo'[d] = todo[d] \ {z}
  BY <1>1 DEF RecoverZombie, Goes, SystemInv, Shape
<1>3. Fields(fields) /\ fields.status = "dispatched" /\ "status" \in DOMAIN fields /\ "server" \notin DOMAIN fields
  BY DEF Fields, Statuses
<1> HIDE DEF fields
<1>4. op'[d] = "load" /\ DOMAIN want'[d] = {z} /\ want'[d][z] = fields /\ UNCHANGED <<store, raced>>
  BY <1>1, UpdateBegins DEF SystemInv
<1>5. Frame(d)
  BY <1>1, <1>2, UpdateFrame DEF Goes
<1>6. Placed(d)' /\ Asks(d)'
  BY <1>0, <1>2, <1>3, <1>4 DEF Placed, Asks, Places, Asking, Unheld, Asked
<1>7. Keeps(d)
  <2>1. \A t \in 1..MaxTasks : Own(d, t)' <=> Own(d, t)
    BY <1>0, <1>1, <1>2, <1>4 DEF Own
  <2>2. QED BY <1>0, <1>2, <1>4, <2>1, BeginsKeeps
<1>8. QED BY <1>4, <1>5, <1>6, <1>7 DEF StepOf

\* The answer of a call: the daemon goes to another place, with what it holds
\* or with nothing.
LEMMA AnswerFrame ==
    ASSUME SystemInv, NEW d \in Daemons, Answered(d),
           \E where : Goes(d, where),
           hold' = hold \/ hold' = [hold EXCEPT ![d] = NoHold],
           todo' = todo \/ todo' = [todo EXCEPT ![d] = {}],
           pid' = pid, moved \subseteq moved', lapsed \subseteq lapsed'
    PROVE  Frame(d)
  BY DEF Frame, Goes, Answered, SystemInv, Shape

\* What an answer leaves of a daemon's own tasks.
LEMMA AnswerKeeps ==
    ASSUME SystemInv, NEW d \in Daemons, NEW t \in 1..MaxTasks, ~Excused(t),
           store'.tasks = store.tasks \/ Changes(d), pc[d] # "down"
    PROVE  /\ t \notin DOMAIN want[d] => /\ Own(d, t) => Live(d, t)'
                                         /\ Downloads(d, t)' => Own(d, t)
           /\ Downloads(d, t)' /\ pc[d] \in {"claim", "report", "fail", "zombie"} => Own(d, t)
<1>1. ASSUME t \notin DOMAIN want[d] \/ store'.tasks = store.tasks
      PROVE  (Own(d, t) => Live(d, t)') /\ (Downloads(d, t)' => Own(d, t))
  BY <1>1 DEF SystemInv, Owned, Tracked, Live, Downloads, Changes, Tasks, Status
<1>2. t \in DOMAIN want[d] /\ pc[d] \in {"claim", "report", "fail", "zombie"} => Own(d, t)
  BY DEF SystemInv, Shape, Placed, Own
<1>3. CASE t \in DOMAIN want[d]
  BY <1>2, <1>3
<1>4. CASE t \notin DOMAIN want[d]
  BY <1>1, <1>4
<1>5. QED BY <1>3, <1>4

\* A zombie that is recovered is not downloading any more; one that is not has lapsed.
LEMMA ZombieAnsweredStep == ASSUME SystemInv, NEW d \in Daemons, ZombieAnswered(d) PROVE StepOf(d)
<1>0. Placed(d) /\ Asks(d) /\ pc[d] = "zombie" /\ hold[d].task = 0 /\ UNCHANGED <<hold, pid, moved>>
  BY DEF SystemInv, Shape, Placed, ZombieAnswered, Unheld
<1>1. CASE Returns(d) /\ Goes(d, IF todo[d] = {} THEN "poll" ELSE "recover") /\ UNCHANGED <<todo, lapsed>>
  <2>1. Answered(d) /\ (raced' \/ Changes(d))
    BY <1>1, ReturnsAnswers DEF SystemInv
  <2>2. Frame(d)
    BY <1>0, <1>1, <2>1, AnswerFrame
  <2>3. pc'[d] \in {"poll", "recover"} /\ (todo[d] # {} => pc'[d] = "recover")
    BY <1>1 DEF Goes, SystemInv, Shape
  <2>4. Placed(d)' /\ Asks(d)'
    BY <1>0, <1>1, <2>1, <2>3 DEF Placed, Asks, Answered, Places, Asking, Unheld
  <2>5. Keeps(d)
    <3> SUFFICES ASSUME NEW t \in 1..MaxTasks, ~Excused(t)'
                 PROVE  /\ Own(d, t)' => Live(d, t)'
                        /\ Downloads(d, t)' => Own(d, t)'
      BY DEF Keeps
    <3>1. ~Excused(t) /\ ~raced' /\ Changes(d)
      BY <1>0, <1>1, <2>1, ExcusedStays DEF Answered, Excused
    <3>2. Own(d, t)' <=> t \in todo[d]
      BY <1>0, <1>1, <2>3 DEF Own
    <3>3. CASE t \in DOMAIN want[d]
      <4>1. Status(t)' = "dispatched" /\ t \in Tasks' /\ store'.tasks[t].server = store.tasks[t].server
        BY <1>0, <3>1, <3>3 DEF Changes, Asked
      <4>2. Own(d, t)
        BY <1>0, <3>3 DEF Own
      <4>3. QED BY <3>1, <4>1, <4>2 DEF SystemInv, Owned, Live, Downloads, Status
    <3>4. CASE t \notin DOMAIN want[d]
      <4>1. Own(d, t) <=> t \in todo[d]
        BY <1>0, <3>4 DEF Own
      <4>2. QED BY <1>0, <3>1, <3>2, <3>4, <4>1, AnswerKeeps
    <3>5. QED BY <3>3, <3>4
  <2>6. QED BY <2>1, <2>2, <2>4, <2>5 DEF StepOf
<1>2. CASE /\ Raises(d) /\ Goes(d, "poll") /\ todo' = [todo EXCEPT ![d] = {}]
           /\ lapsed' = lapsed \union LeftDownloading(todo[d] \union DOMAIN want[d])
  <2>1. Answered(d) /\ (raced' \/ store'.tasks = store.tasks \/ Changes(d))
    BY <1>2, RaisesAnswers DEF SystemInv
  <2>2. Frame(d)
    BY <1>0, <1>2, <2>1, AnswerFrame
  <2>3. pc'[d] = "poll" /\ todo'[d] = {}
    BY <1>2 DEF Goes, SystemInv, Shape
  <2>4. Placed(d)' /\ Asks(d)'
    BY <1>0, <2>1, <2>3 DEF Placed, Asks, Answered, Places, Asking, Unheld
  <2>5. Keeps(d)
    <3> SUFFICES ASSUME NEW t \in 1..MaxTasks, ~Excused(t)'
                 PROVE  ~Own(d, t)' /\ ~Downloads(d, t)'
      BY DEF Keeps
    <3>1. ~Excused(t) /\ ~raced' /\ t \notin lapsed'
      BY <1>0, <1>2, <2>1, ExcusedStays DEF Answered
    <3>2. ~Own(d, t)'
      BY <1>0, <2>3 DEF Own
    <3>3. SUFFICES ASSUME Downloads(d, t)' PROVE FALSE
      BY <3>2
    <3>4. Own(d, t)
      BY <1>0, <2>1, <3>1, <3>3, AnswerKeeps
    <3>5. t \in (todo[d] \union DOMAIN want[d]) \intersect Tasks /\ Status(t)' = "downloading"
      BY <1>0, <3>1, <3>3, <3>4 DEF Own, SystemInv, Owned, Live, Downloads
    <3>6. QED BY <1>2, <3>1, <3>5 DEF LeftDownloading
  <2>6. QED BY <2>1, <2>2, <2>4, <2>5 DEF StepOf
<1>3. QED BY <1>1, <1>2 DEF ZombieAnswered

-----------------------------------------------------------------------------
(* Poll, steal, claim.                                                     *)

\* A task that is claimed is in hand: it was the daemon's own, dispatched to it
\* in the object, or taken over.
LEMMA ClaimStep ==
    ASSUME SystemInv, NEW d \in Daemons, NEW z \in 1..MaxTasks, NEW retry \in Nat, Claim(d, z, retry),
           pc[d] \in {"poll", "take"}, pc[d] = "take" => hold[d].task = z,
           pc[d] = "poll" => Live(d, z),
           UNCHANGED <<todo, pid, moved, lapsed>>
    PROVE  StepOf(d)
<1>0. Placed(d) /\ DOMAIN want[d] = {} /\ todo[d] = {} /\ z # 0 /\ z \in 0..MaxTasks
  BY CommandAssumption DEF SystemInv, Shape, Placed, Asking
<1> DEFINE fields == [status |-> "downloading", pid |-> pid[d], err |-> None]
<1>1. /\ Update(d, z, fields) /\ pc' = [pc EXCEPT ![d] = "claim"]
      /\ hold' = [hold EXCEPT ![d] = [task |-> z, retry |-> retry]]
  BY DEF Claim, Goes
<1>2. pc'[d] = "claim" /\ hold'[d].task = z /\ hold'[d].retry = retry
  BY <1>1 DEF SystemInv, Shape
<1>3. Fields(fields) /\ fields.status = "downloading" /\ "status" \in DOMAIN fields /\ "server" \notin DOMAIN fields
  BY <1>0 DEF Fields, Statuses, Placed
<1> HIDE DEF fields
<1>4. op'[d] = "load" /\ DOMAIN want'[d] = {z} /\ want'[d][z] = fields /\ UNCHANGED <<store, raced>>
  BY <1>1, UpdateBegins DEF SystemInv
<1>5. Frame(d)
  BY <1>1, UpdateFrame DEF Goes
<1>6. Placed(d)' /\ Asks(d)'
  BY <1>0, <1>2, <1>3, <1>4 DEF Placed, Asks, Places, Asking, Unheld, Asked
<1>7. Keeps(d)
  <2>1. CASE pc[d] = "take"
    <3>1. \A t \in 1..MaxTasks : Own(d, t)' <=> Own(d, t)
      BY <1>0, <1>2, <2>1 DEF Own
    <3>2. QED BY <1>4, <2>1, <3>1, BeginsKeeps
  <2>2. CASE pc[d] = "poll"
    <3> SUFFICES ASSUME NEW t \in 1..MaxTasks, ~Excused(t)'
                 PROVE  /\ Own(d, t)' => Live(d, t)'
                        /\ Downloads(d, t)' => Own(d, t)'
      BY DEF Keeps
    <3>1. Own(d, t)' <=> t = z
      BY <1>0, <1>2 DEF Own
    <3>2. ~Own(d, t) /\ ~Excused(t)
      BY <1>0, <1>4, <2>2 DEF Own, Placed, Unheld, Excused
    <3>3. ~Downloads(d, t)
      BY <2>2, <3>2 DEF SystemInv, Tracked
    <3>4. (Live(d, t)' <=> Live(d, t)) /\ (Downloads(d, t)' <=> Downloads(d, t))
      BY <1>4 DEF Live, Downloads, Tasks, Status
    <3>5. QED BY <2>2, <3>1, <3>3, <3>4
  <2>3. QED BY <2>1, <2>2
<1>8. QED BY <1>4, <1>5, <1>6, <1>7 DEF StepOf

\* A step of the daemon's loop that leaves the store alone.
LEMMA QuietStep ==
    ASSUME SystemInv, NEW d \in Daemons, UNCHANGED <<storeVars, hold, todo, pid, moved, lapsed>>,
           NEW where \in {"poll", "steal"}, Goes(d, where), pc[d] \in {"poll", "steal"}
    PROVE  StepOf(d)
<1>0. Placed(d) /\ Asks(d) /\ pc'[d] = where /\ pc' = [pc EXCEPT ![d] = where]
  BY DEF SystemInv, Shape, Goes
<1>1. Frame(d)
  BY <1>0 DEF Frame, storeVars, SystemInv, Shape
<1>2. Placed(d)' /\ Asks(d)'
  BY <1>0 DEF Placed, Asks, Places, Asking, Unheld, storeVars
<1>3. Keeps(d)
  <2>1. \A t \in 1..MaxTasks : Own(d, t)' <=> Own(d, t)
    BY <1>0 DEF Own, storeVars
  <2>2. QED BY <2>1, BeginsKeeps DEF storeVars
<1>4. QED BY <1>1, <1>2, <1>3 DEF StepOf, storeVars

\* The first of the daemon's queue is its own.
LEMMA PollStep == ASSUME SystemInv, NEW d \in Daemons, Poll(d) PROVE StepOf(d)
<1>1. pc[d] = "poll" /\ UNCHANGED <<todo, pid, moved, lapsed>>
  BY DEF Poll, At
<1>2. CASE Queue(d) = {}
  BY <1>1, <1>2, QuietStep DEF Poll
<1>3. CASE Queue(d) # {}
  <2>1. PICK t \in Queue(d) : Claim(d, t, store.tasks[t].retry)
    BY <1>3 DEF Poll
  <2>2. Live(d, t) /\ t \in 1..MaxTasks /\ store.tasks[t] \in TaskRecord
    BY TasksAreNumbers DEF Queue, Live, Tasks, SystemInv, Shape, Typed, StateData
  <2>3. store.tasks[t].retry \in Nat
    BY <2>2 DEF TaskRecord
  <2>4. QED BY <1>1, <2>1, <2>2, <2>3, ClaimStep
<1>4. QED BY <1>2, <1>3

\* A poll that finds no object leaves everything alone.
LEMMA PollBlindStep == ASSUME SystemInv, NEW d \in Daemons, PollBlind(d) PROVE StepOf(d)
  BY QuietStep DEF PollBlind, At

\* A task that is stolen is taken over.
LEMMA StealStep == ASSUME SystemInv, NEW d \in Daemons, Steal(d) PROVE StepOf(d)
<1>0. Placed(d) /\ pc[d] = "steal" /\ DOMAIN want[d] = {} /\ todo[d] = {} /\ UNCHANGED <<todo, pid, lapsed>>
  BY DEF SystemInv, Shape, Placed, Steal, At, Asking
<1>1. CASE Goes(d, "poll") /\ UNCHANGED <<storeVars, hold, moved>>
  BY <1>0, <1>1, QuietStep
<1>2. ASSUME NEW s \in Daemons, NEW z \in Queue(s), Update(d, z, [server |-> d]),
             hold' = [hold EXCEPT ![d] = [task |-> z, retry |-> store.tasks[z].retry]],
             moved' = moved \union {z}, Goes(d, "stealing")
      PROVE  StepOf(d)
  <2>1. z \in 1..MaxTasks /\ store.tasks[z] \in TaskRecord
    BY TasksAreNumbers DEF Queue, Tasks, SystemInv, Shape, Typed, StateData
  <2>2. store.tasks[z].retry \in Nat /\ z # 0 /\ z \in 0..MaxTasks
    BY <2>1, CommandAssumption DEF TaskRecord
  <2>3. pc'[d] = "stealing" /\ hold'[d].task = z /\ hold'[d].retry = store.tasks[z].retry
    BY <1>2 DEF Goes, SystemInv, Shape
  <2> DEFINE fields == [server |-> d]
  <2>4. Fields(fields) /\ "status" \notin DOMAIN fields
    BY DEF Fields
  <2> HIDE DEF fields
  <2>5. op'[d] = "load" /\ DOMAIN want'[d] = {z} /\ want'[d][z] = fields /\ UNCHANGED <<store, raced>>
    BY <1>2, UpdateBegins DEF SystemInv, fields
  <2>6. Frame(d)
    BY <1>0, <1>2, UpdateFrame
  <2>7. Placed(d)' /\ Asks(d)'
    BY <1>0, <1>2, <2>2, <2>3, <2>4, <2>5 DEF Placed, Asks, Places, Asking, Unheld
  <2>8. Keeps(d)
    <3>1. \A t \in 1..MaxTasks : t \in moved' \/ (Own(d, t)' <=> Own(d, t))
      BY <1>0, <1>2, <2>3 DEF Own, Placed, Unheld
    <3>2. QED BY <1>0, <1>2, <2>5, <3>1, BeginsKeeps
  <2>9. QED BY <2>5, <2>6, <2>7, <2>8 DEF StepOf
<1>3. QED BY <1>1, <1>2 DEF Steal

\* An answer after which the daemon holds the tasks it did, or none: none of
\* the unexcused ones it lets go is downloading.
LEMMA AnswerStep ==
    ASSUME SystemInv, NEW d \in Daemons, Answered(d), raced' \/ store'.tasks = store.tasks \/ Changes(d),
           pc[d] \in {"stealing", "claim", "report", "fail", "maintain"},
           NEW where \in {"poll", "take", "run", "broken"}, Goes(d, where),
           UNCHANGED <<todo, pid>>, moved \subseteq moved', lapsed \subseteq lapsed',
           IF where = "poll" THEN hold' = [hold EXCEPT ![d] = NoHold] \/ (pc[d] = "maintain" /\ hold' = hold)
                             ELSE hold' = hold /\ pc[d] # "maintain",
           where = "take" => pc[d] = "stealing",
           \A t \in 1..MaxTasks : ~Excused(t)' =>
               /\ hold[d].task = t /\ where # "poll" => Live(d, t)'
               /\ hold[d].task = t /\ where = "poll" => ~Downloads(d, t)'
    PROVE  StepOf(d)
<1>0. Placed(d) /\ todo[d] = {} /\ 0 \in 0..MaxTasks
  BY CommandAssumption DEF SystemInv, Shape, Placed
<1>1. Frame(d)
  BY AnswerFrame
<1>2. pc'[d] = where /\ todo'[d] = {}
  BY <1>0 DEF Goes, SystemInv, Shape
<1>3. IF where = "poll" THEN hold'[d].task = 0 /\ hold'[d].retry \in Nat ELSE hold'[d] = hold[d]
  BY <1>0 DEF SystemInv, Shape, NoHold, Placed, Unheld
<1>4. Placed(d)' /\ Asks(d)'
  BY <1>0, <1>2, <1>3 DEF Placed, Asks, Answered, Places, Asking, Unheld
<1>5. Keeps(d)
  <2> SUFFICES ASSUME NEW t \in 1..MaxTasks, ~Excused(t)'
               PROVE  /\ Own(d, t)' => Live(d, t)'
                      /\ Downloads(d, t)' => Own(d, t)'
    BY DEF Keeps
  <2>1. t # 0
    OBVIOUS
  <2>2. Own(d, t)' <=> hold[d].task = t /\ where # "poll"
    BY <1>2, <1>3, <2>1 DEF Own
  <2>3. Own(d, t) <=> hold[d].task = t
    BY <1>0, <2>1 DEF Own
  <2>4. ~Excused(t) /\ ~raced' /\ t \notin moved
    BY ExcusedStays DEF Answered
  <2>5. Downloads(d, t)' => Own(d, t)
    <3>1. CASE t \notin DOMAIN want[d]
      BY <2>4, <3>1, AnswerKeeps
    <3>2. CASE t \in DOMAIN want[d] /\ pc[d] = "maintain"
      BY <2>4, <3>2, AnswerKeeps DEF Changes, Downloads, Asked, Status, Tasks, SystemInv, Tracked
    <3>3. CASE t \in DOMAIN want[d] /\ pc[d] # "maintain"
      BY <1>0, <2>3, <3>3 DEF Placed
    <3>4. QED BY <3>1, <3>2, <3>3
  <2>6. QED BY <2>2, <2>3, <2>5
<1>6. QED BY <1>1, <1>4, <1>5 DEF StepOf

\* What is stolen is excused, whatever the answer.
LEMMA StealAnsweredStep == ASSUME SystemInv, NEW d \in Daemons, StealAnswered(d) PROVE StepOf(d)
<1>1. pc[d] = "stealing" /\ UNCHANGED <<todo, pid, moved, lapsed>> /\ hold[d].task \in moved
  BY DEF StealAnswered, SystemInv, Shape, Placed
<1>2. Answered(d) /\ (raced' \/ store'.tasks = store.tasks \/ Changes(d))
  BY ReturnsAnswers, RaisesAnswers DEF StealAnswered, SystemInv
<1>3. \A t \in 1..MaxTasks : ~Excused(t)' => hold[d].task # t
  BY <1>1 DEF Excused
<1>4. QED BY <1>1, <1>2, <1>3, AnswerStep DEF StealAnswered

\* The daemon claims what it has stolen.
LEMMA TakeStep == ASSUME SystemInv, NEW d \in Daemons, Take(d) PROVE StepOf(d)
<1>1. /\ pc[d] = "take" /\ UNCHANGED <<todo, pid, moved, lapsed>> /\ Placed(d)
      /\ Claim(d, hold[d].task, hold[d].retry)
  BY DEF Take, At, SystemInv, Shape
<1>2. hold[d].task \in 1..MaxTasks /\ hold[d].retry \in Nat
  BY <1>1, CommandAssumption DEF Placed, Unheld
<1>3. QED BY <1>1, <1>2, ClaimStep

\* A claim that was put is a task that is downloading, on its server.
LEMMA ClaimAnsweredStep == ASSUME SystemInv, NEW d \in Daemons, ClaimAnswered(d) PROVE StepOf(d)
<1>0. Placed(d) /\ pc[d] = "claim" /\ UNCHANGED <<todo, pid, moved>> /\ DOMAIN want[d] = {hold[d].task}
  BY DEF ClaimAnswered, SystemInv, Shape, Placed
<1>1. CASE Returns(d) /\ Goes(d, "run") /\ UNCHANGED <<hold, lapsed>>
  <2>1. Answered(d) /\ (raced' \/ Changes(d))
    BY <1>1, ReturnsAnswers DEF SystemInv
  <2>2. ASSUME NEW t \in 1..MaxTasks, ~Excused(t)', hold[d].task = t PROVE Live(d, t)'
    <3>1. Changes(d) /\ ~Excused(t)
      BY <1>0, <1>1, <2>1, <2>2, ExcusedStays DEF Answered
    <3>2. Own(d, t)
      BY <2>2 DEF Own
    <3>3. store.tasks[t].server = d
      BY <3>1, <3>2 DEF SystemInv, Owned, Live
    <3>4. QED BY <1>0, <2>2, <3>1, <3>3 DEF Changes, Asked, Live
  <2>3. QED BY <1>0, <1>1, <2>1, <2>2, AnswerStep
<1>2. CASE /\ Raises(d) /\ Goes(d, "poll") /\ hold' = [hold EXCEPT ![d] = NoHold]
           /\ lapsed' = lapsed \union LeftDownloading({hold[d].task})
  <2>1. Answered(d) /\ (raced' \/ store'.tasks = store.tasks \/ Changes(d))
    BY <1>2, RaisesAnswers DEF SystemInv
  <2>2. ASSUME NEW t \in 1..MaxTasks, ~Excused(t)', hold[d].task = t PROVE ~Downloads(d, t)'
    <3>1. ~Excused(t) /\ t \notin LeftDownloading({hold[d].task})
      BY <1>0, <1>2, <2>1, <2>2, ExcusedStays DEF Answered
    <3>2. t \in Tasks
      BY <2>2, <3>1 DEF Own, SystemInv, Owned, Live
    <3>3. QED BY <2>2, <3>1, <3>2 DEF LeftDownloading, Downloads
  <2>3. QED BY <1>0, <1>2, <2>1, <2>2, AnswerStep
<1>3. QED BY <1>1, <1>2 DEF ClaimAnswered

-----------------------------------------------------------------------------
(* The run and its report.                                                 *)

\* A report that begins: the task stays in hand.
LEMMA ReportStep ==
    ASSUME SystemInv, NEW d \in Daemons, NEW fields, NEW where \in {"report", "fail"}, Report(d, fields, where),
           pc[d] \in {"run", "broken"}, Fields(fields), "status" \in DOMAIN fields, "server" \notin DOMAIN fields,
           fields.status \in Asked[where]
    PROVE  StepOf(d)
<1>0. Placed(d) /\ DOMAIN want[d] = {} /\ todo[d] = {} /\ UNCHANGED <<hold, todo, pid, moved, lapsed>>
  BY DEF SystemInv, Shape, Placed, Report, Asking
<1>1. Update(d, hold[d].task, fields) /\ Goes(d, where) /\ pc'[d] = where
  BY DEF Report, Goes, SystemInv, Shape
<1>2. /\ op'[d] = "load" /\ DOMAIN want'[d] = {hold[d].task} /\ want'[d][hold[d].task] = fields
      /\ UNCHANGED <<store, raced>>
  BY <1>1, UpdateBegins DEF SystemInv
<1>3. Frame(d)
  BY <1>0, <1>1, UpdateFrame
<1>4. Placed(d)' /\ Asks(d)'
  BY <1>0, <1>1, <1>2 DEF Placed, Asks, Places, Asking, Unheld
<1>5. Keeps(d)
  <2>1. \A t \in 1..MaxTasks : Own(d, t)' <=> Own(d, t)
    BY <1>0, <1>1 DEF Own
  <2>2. QED BY <1>0, <1>2, <2>1, BeginsKeeps
<1>6. QED BY <1>2, <1>3, <1>4, <1>5 DEF StepOf

\* Whatever a run ends with.
LEMMA RunStep ==
    ASSUME SystemInv, NEW d \in Daemons, RunSucceeds(d) \/ RunFails(d) \/ RunBreaks(d) PROVE StepOf(d)
<1>0. hold[d].retry + 1 \in Nat
  BY DEF SystemInv, Shape, Placed
<1>1. CASE RunSucceeds(d)
  <2> DEFINE fields == [status |-> "done"]
  <2>1. Report(d, fields, "report") /\ pc[d] = "run"
    BY <1>1 DEF RunSucceeds, At
  <2>2. Fields(fields) /\ "status" \in DOMAIN fields /\ "server" \notin DOMAIN fields /\ fields.status \in Asked["report"]
    BY DEF Fields, Statuses, Asked
  <2> HIDE DEF fields
  <2>3. QED BY <2>1, <2>2, ReportStep
<1>2. ASSUME NEW k \in Classes, pc[d] \in {"run", "broken"},
             NEW status \in {"failed", "needs-auth"}, Report(d, [status |-> status, err |-> k], "fail")
      PROVE  StepOf(d)
  <2> DEFINE fields == [status |-> status, err |-> k]
  <2>1. Fields(fields) /\ "status" \in DOMAIN fields /\ "server" \notin DOMAIN fields /\ fields.status \in Asked["fail"]
    BY DEF Fields, Statuses, Asked
  <2> HIDE DEF fields
  <2>2. Report(d, fields, "fail")
    BY <1>2 DEF fields
  <2>3. QED BY <1>2, <2>1, <2>2, ReportStep
<1>3. ASSUME NEW k \in Classes, pc[d] = "run",
             Report(d, [status |-> "dispatched", err |-> k, retry |-> hold[d].retry + 1], "fail")
      PROVE  StepOf(d)
  <2> DEFINE fields == [status |-> "dispatched", err |-> k, retry |-> hold[d].retry + 1]
  <2>1. Fields(fields) /\ "status" \in DOMAIN fields /\ "server" \notin DOMAIN fields /\ fields.status \in Asked["fail"]
    BY <1>0 DEF Fields, Statuses, Asked
  <2> HIDE DEF fields
  <2>2. Report(d, fields, "fail")
    BY <1>3 DEF fields
  <2>3. QED BY <1>3, <2>1, <2>2, ReportStep
<1>4. CASE RunFails(d)
  <2>1. PICK k \in Classes :
          Report(d, IF hold[d].retry < MaxRetries[k]
                    THEN [status |-> "dispatched", err |-> k, retry |-> hold[d].retry + 1]
                    ELSE [status |-> IF k = "auth" THEN "needs-auth" ELSE "failed", err |-> k], "fail")
    BY <1>4 DEF RunFails
  <2>2. pc[d] = "run"
    BY <1>4 DEF RunFails, At
  <2>3. CASE hold[d].retry < MaxRetries[k]
    BY <1>3, <2>1, <2>2, <2>3
  <2>4. CASE ~(hold[d].retry < MaxRetries[k]) /\ k = "auth"
    <3>1. Report(d, [status |-> "needs-auth", err |-> k], "fail")
      BY <2>1, <2>4
    <3>2. QED BY <1>2, <2>2, <3>1
  <2>5. CASE ~(hold[d].retry < MaxRetries[k]) /\ k # "auth"
    <3>1. Report(d, [status |-> "failed", err |-> k], "fail")
      BY <2>1, <2>5
    <3>2. QED BY <1>2, <2>2, <3>1
  <2>6. QED BY <2>3, <2>4, <2>5
<1>5. CASE RunBreaks(d)
  <2>1. PICK k \in Classes : Report(d, [status |-> "failed", err |-> k], "fail")
    BY <1>5 DEF RunBreaks
  <2>2. pc[d] \in {"run", "broken"}
    BY <1>5 DEF RunBreaks, At
  <2>3. QED BY <1>2, <2>1, <2>2
<1>6. QED BY <1>1, <1>4, <1>5

\* A task whose success was put is done; one whose report was refused has lapsed.
LEMMA SuccessAnsweredStep == ASSUME SystemInv, NEW d \in Daemons, SuccessAnswered(d) PROVE StepOf(d)
<1>0. /\ Placed(d) /\ pc[d] = "report" /\ UNCHANGED <<todo, pid, moved>> /\ DOMAIN want[d] = {hold[d].task}
      /\ hold[d].task \in 1..MaxTasks
  BY CommandAssumption DEF SuccessAnswered, SystemInv, Shape, Placed, Unheld
<1>1. CASE Returns(d) /\ Goes(d, "poll") /\ hold' = [hold EXCEPT ![d] = NoHold] /\ UNCHANGED lapsed
  <2>1. Answered(d) /\ (raced' \/ Changes(d))
    BY <1>1, ReturnsAnswers DEF SystemInv
  <2>2. ASSUME NEW t \in 1..MaxTasks, ~Excused(t)', hold[d].task = t PROVE ~Downloads(d, t)'
    <3>1. Changes(d)
      BY <2>1, <2>2 DEF Excused
    <3>2. Status(t)' = "done"
      BY <1>0, <2>2, <3>1 DEF Changes, Asked
    <3>3. QED BY <3>2 DEF Downloads
  <2>3. QED BY <1>0, <1>1, <2>1, <2>2, AnswerStep
<1>2. CASE Raises(d) /\ Goes(d, "broken") /\ lapsed' = lapsed \union {hold[d].task} /\ UNCHANGED hold
  <2>1. Answered(d) /\ (raced' \/ store'.tasks = store.tasks \/ Changes(d))
    BY <1>2, RaisesAnswers DEF SystemInv
  <2>2. \A t \in 1..MaxTasks : ~Excused(t)' => hold[d].task # t
    BY <1>2 DEF Excused
  <2>3. QED BY <1>0, <1>2, <2>1, <2>2, AnswerStep
<1>3. QED BY <1>1, <1>2 DEF SuccessAnswered

\* A failure that was put has ended the download; one that was refused has lapsed.
LEMMA FailureAnsweredStep == ASSUME SystemInv, NEW d \in Daemons, FailureAnswered(d) PROVE StepOf(d)
<1>0. /\ Placed(d) /\ pc[d] = "fail" /\ UNCHANGED <<todo, pid, moved>> /\ DOMAIN want[d] = {hold[d].task}
      /\ Goes(d, "poll") /\ hold' = [hold EXCEPT ![d] = NoHold]
  BY DEF FailureAnswered, SystemInv, Shape, Placed
<1>1. CASE Returns(d) /\ UNCHANGED lapsed
  <2>1. Answered(d) /\ (raced' \/ Changes(d))
    BY <1>1, ReturnsAnswers DEF SystemInv
  <2>2. ASSUME NEW t \in 1..MaxTasks, ~Excused(t)', hold[d].task = t PROVE ~Downloads(d, t)'
    <3>1. Changes(d)
      BY <2>1, <2>2 DEF Excused
    <3>2. Status(t)' # "downloading"
      BY <1>0, <2>2, <3>1 DEF Changes, Asked
    <3>3. QED BY <3>2 DEF Downloads
  <2>3. QED BY <1>0, <1>1, <2>1, <2>2, AnswerStep
<1>2. CASE Raises(d) /\ lapsed' = lapsed \union LeftDownloading({hold[d].task})
  <2>1. Answered(d) /\ (raced' \/ store'.tasks = store.tasks \/ Changes(d))
    BY <1>2, RaisesAnswers DEF SystemInv
  <2>2. ASSUME NEW t \in 1..MaxTasks, ~Excused(t)', hold[d].task = t PROVE ~Downloads(d, t)'
    <3>1. ~Excused(t) /\ t \notin LeftDownloading({hold[d].task})
      BY <1>0, <1>2, <2>1, <2>2, ExcusedStays DEF Answered
    <3>2. t \in Tasks
      BY <2>2, <3>1 DEF Own, SystemInv, Owned, Live
    <3>3. QED BY <2>2, <3>1, <3>2 DEF LeftDownloading, Downloads
  <2>3. QED BY <1>0, <1>2, <2>1, <2>2, AnswerStep
<1>3. QED BY <1>1, <1>2 DEF FailureAnswered

-----------------------------------------------------------------------------
(* Maintenance, heartbeats, and the end of a daemon.                       *)

\* The maintenance holds no task.
LEMMA MaintainStep == ASSUME SystemInv, NEW d \in Daemons, Maintain(d) PROVE StepOf(d)
<1>0. /\ Placed(d) /\ pc[d] = "poll" /\ DOMAIN want[d] = {} /\ UNCHANGED <<hold, todo, pid, moved, lapsed>>
      /\ Goes(d, "maintain") /\ pc'[d] = "maintain"
  BY DEF SystemInv, Shape, Placed, Maintain, At, Asking, Goes
<1>1. PICK z \in Tasks :
        Update(d, z, [status |-> "dispatched", err |-> None, retry |-> store.tasks[z].retry + 1])
  BY DEF Maintain
<1> DEFINE fields == [status |-> "dispatched", err |-> None, retry |-> store.tasks[z].retry + 1]
<1>2. store.tasks[z] \in TaskRecord
  BY DEF Tasks, SystemInv, Shape, Typed, StateData
<1>3. store.tasks[z].retry + 1 \in Nat
  BY <1>2 DEF TaskRecord
<1>4. Fields(fields) /\ "status" \in DOMAIN fields /\ "server" \notin DOMAIN fields /\ fields.status = "dispatched"
  BY <1>3 DEF Fields, Statuses
<1> HIDE DEF fields
<1>5. op'[d] = "load" /\ DOMAIN want'[d] = {z} /\ want'[d][z] = fields /\ UNCHANGED <<store, raced>>
  BY <1>1, UpdateBegins DEF SystemInv, fields
<1>6. Frame(d)
  BY <1>0, <1>1, UpdateFrame
<1>7. Placed(d)' /\ Asks(d)'
  BY <1>0, <1>4, <1>5 DEF Placed, Asks, Places, Asking, Unheld, Asked
<1>8. Keeps(d)
  <2>1. \A t \in 1..MaxTasks : Own(d, t)' <=> Own(d, t)
    BY <1>0 DEF Own
  <2>2. QED BY <1>0, <1>5, <2>1, BeginsKeeps
<1>9. QED BY <1>5, <1>6, <1>7, <1>8 DEF StepOf

\* Its answer changes nothing in hand.
LEMMA MaintainAnsweredStep == ASSUME SystemInv, NEW d \in Daemons, MaintainAnswered(d) PROVE StepOf(d)
<1>1. pc[d] = "maintain" /\ Goes(d, "poll") /\ UNCHANGED <<hold, todo, pid, moved, lapsed>> /\ hold[d].task = 0
  BY DEF MaintainAnswered, SystemInv, Shape, Placed, Unheld
<1>2. Answered(d) /\ (raced' \/ store'.tasks = store.tasks \/ Changes(d))
  BY ReturnsAnswers, RaisesAnswers DEF MaintainAnswered, SystemInv
<1>3. \A t \in 1..MaxTasks : hold[d].task # t
  BY <1>1
<1>4. QED BY <1>1, <1>2, <1>3, AnswerStep

\* A step that leaves the daemon where it is, with its call.
LEMMA ElsewhereStep ==
    ASSUME SystemInv, NEW d \in Daemons, UNCHANGED <<pc, hold, todo, pid, moved, lapsed>>,
           \A c \in Clients \ {d} : \/ op'[c] = op[c] /\ want'[c] = want[c]
                                    \/ c = Thread(d) /\ op'[c] # "work" /\ DOMAIN want'[c] = {},
           want'[d] = want[d], op'[d] = op[d] \/ (pc[d] \in Asking /\ op'[d] \in {"load", "compare", "put"}),
           raced => raced', raced' \/ store'.tasks = store.tasks
    PROVE  StepOf(d)
<1>1. Frame(d)
  BY DEF Frame, SystemInv, Shape
<1>2. Placed(d)' /\ Asks(d)'
  <2>1. Placed(d) /\ Asks(d)
    BY DEF SystemInv, Shape
  <2>2. QED BY <2>1 DEF Placed, Asks
<1>3. Keeps(d)
  <2> SUFFICES ASSUME NEW t \in 1..MaxTasks, ~Excused(t)'
               PROVE  /\ Own(d, t)' => Live(d, t)'
                      /\ Downloads(d, t)' => pc'[d] = "down" \/ Own(d, t)'
    BY DEF Keeps
  <2>1. ~Excused(t) /\ ~raced'
    BY ExcusedStays
  <2>2. Own(d, t)' <=> Own(d, t)
    BY DEF Own
  <2>3. (Live(d, t)' <=> Live(d, t)) /\ (Downloads(d, t)' <=> Downloads(d, t))
    BY <2>1 DEF Live, Downloads, Tasks, Status
  <2>4. QED BY <2>1, <2>2, <2>3 DEF SystemInv, Owned, Tracked
<1>4. QED BY <1>1, <1>2, <1>3 DEF StepOf

\* Loads and comparisons, and the whole of a heartbeat, are elsewhere.
LEMMA CallStep ==
    ASSUME SystemInv, NEW d \in Daemons, CallGoesOn(d) \/ CallMisled(d) \/ Beat(d) \/ BeatAnswered(d)
    PROVE  StepOf(d)
<1>0. UNCHANGED <<pc, hold, todo, pid, moved, lapsed>> /\ Placed(d)
  BY DEF CallGoesOn, CallMisled, Beat, BeatAnswered, daemonVars, SystemInv, Shape
<1>1. ASSUME NEW c \in {d, Thread(d)}, NEW how, Load(c, how) \/ Compare(c, how) PROVE StepOf(d)
  <2>1. c \in Clients /\ op[c] \in {"load", "compare"} /\ UNCHANGED <<store, want, raced>>
    BY <1>1, DaemonsAreClients DEF Load, Compare
  <2>2. op'[c] \in {"load", "compare", "put"} /\ \A e \in Clients \ {c} : op'[e] = op[e]
    <3>1. \E to \in {"load", "compare", "put"} : op' = [op EXCEPT ![c] = to]
      BY <1>1 DEF Load, Compare
    <3>2. QED BY <2>1, <3>1 DEF SystemInv, Shape, IInv, StoreShape
  <2>3. CASE c = d
    <3>1. pc[d] \in Asking
      BY <1>0, <2>1, <2>3 DEF Placed
    <3>2. QED BY <1>0, <2>1, <2>2, <2>3, <3>1, ElsewhereStep
  <2>4. CASE c = Thread(d)
    <3>1. DOMAIN want[c] = {} /\ op'[d] = op[d]
      BY <2>2, <2>4, DaemonsAreClients DEF SystemInv, Shape, OtherCalls
    <3>2. QED BY <1>0, <2>1, <2>2, <2>4, <3>1, ElsewhereStep
  <2>5. QED BY <2>3, <2>4
<1>2. CASE CallGoesOn(d) \/ CallMisled(d)
  BY <1>1, <1>2 DEF CallGoesOn, CallMisled
<1>3. CASE Beat(d)
  <2>1. /\ op' = [op EXCEPT ![Thread(d)] = "load"] /\ want' = [want EXCEPT ![Thread(d)] = NoChange]
        /\ UNCHANGED <<store, raced>>
    BY <1>3 DEF Beat, Call
  <2>2. Thread(d) \in Clients /\ d \in Clients /\ d # Thread(d)
    BY DaemonsAreClients
  <2>3. op'[Thread(d)] = "load" /\ want'[Thread(d)] = NoChange /\ op'[d] = op[d] /\ want'[d] = want[d]
    BY <2>1, <2>2 DEF SystemInv, Shape, IInv, StoreShape
  <2>4. DOMAIN want'[Thread(d)] = {}
    BY <2>3 DEF NoChange
  <2>5. \A c \in Clients \ {Thread(d)} : op'[c] = op[c] /\ want'[c] = want[c]
    BY <2>1, <2>2 DEF SystemInv, Shape, IInv, StoreShape
  <2>6. QED BY <1>0, <2>1, <2>3, <2>4, <2>5, ElsewhereStep
<1>4. CASE BeatAnswered(d)
  <2>1. Answered(Thread(d)) /\ (raced' \/ store'.tasks = store.tasks)
    BY <1>4, BeatAnswers DEF BeatAnswered, SystemInv
  <2>2. d \in Clients /\ d # Thread(d)
    BY DaemonsAreClients
  <2>3. QED BY <1>0, <2>1, <2>2, ElsewhereStep DEF Answered
<1>5. QED BY <1>2, <1>3, <1>4

\* A signal in the middle of a report: the task has lapsed.
LEMMA SignalStep == ASSUME SystemInv, NEW d \in Daemons, Signal(d) PROVE StepOf(d)
<1>0. UNCHANGED <<todo, pid, moved>>
  BY DEF Signal
<1>1. CASE pc[d] \in {"report", "fail"}
  <2>1. /\ Abandon({d}) \/ Put(d)
        /\ Goes(d, IF pc[d] = "report" THEN "broken" ELSE "poll")
        /\ hold' = [hold EXCEPT ![d] = IF pc[d] = "report" THEN @ ELSE NoHold]
        /\ lapsed' = lapsed \union {hold[d].task}
    BY <1>1 DEF Signal
  <2>2. Answered(d) /\ (raced' \/ store'.tasks = store.tasks \/ Changes(d))
    <3>1. CASE Abandon({d})
      BY <3>1, DaemonsAreClients, OverAnswers DEF Abandon, SystemInv
    <3>2. CASE Put(d)
      BY <3>2, DaemonsAreClients, OverAnswers, DaemonPuts DEF Put, Stored, SystemInv
    <3>3. QED BY <2>1, <3>1, <3>2
  <2>3. \A t \in 1..MaxTasks : ~Excused(t)' => hold[d].task # t
    BY <2>1 DEF Excused
  <2>4. CASE pc[d] = "report"
    <3>1. hold' = [hold EXCEPT ![d] = @] /\ Goes(d, "broken")
      BY <2>1, <2>4
    <3>2. Placed(d)' /\ Asks(d)' /\ Frame(d)
      BY <1>0, <2>1, <2>2, <2>4, <3>1 DEF Answered, Goes, Placed, Asks, Asking, Places, Unheld, Frame, SystemInv, Shape
    <3>3. Keeps(d)
      <4> SUFFICES ASSUME NEW t \in 1..MaxTasks, ~Excused(t)'
                   PROVE  ~Own(d, t)' /\ ~Downloads(d, t)'
        BY DEF Keeps
      <4>1. ~Own(d, t) /\ ~Own(d, t)'
        BY <1>0, <2>3, <2>4, <3>1 DEF Own, Goes, SystemInv, Shape, Placed
      <4>2. ~Excused(t) /\ ~raced'
        BY <1>0, <2>1, <2>2, ExcusedStays DEF Answered
      <4>3. QED BY <2>2, <2>4, <4>1, <4>2, AnswerKeeps
    <3>4. QED BY <2>2, <3>2, <3>3 DEF StepOf
  <2>5. CASE pc[d] = "fail"
    <3>1. hold' = [hold EXCEPT ![d] = NoHold] /\ Goes(d, "poll")
      BY <2>1, <2>5
    <3>2. QED BY <1>0, <2>1, <2>2, <2>3, <2>5, <3>1, AnswerStep
  <2>6. QED BY <1>1, <2>4, <2>5
<1>2. CASE pc[d] \notin {"report", "fail"}
  <2>1. UNCHANGED <<storeVars, pc, hold, lapsed>>
    BY <1>2 DEF Signal
  <2>2. QED BY <1>0, <2>1, ElsewhereStep DEF storeVars
<1>3. QED BY <1>1, <1>2

\* A daemon that is gone has nothing in hand.
LEMMA GoneStep == ASSUME SystemInv, NEW d \in Daemons, Gone(d) PROVE StepOf(d)
<1>1. /\ Abandon({d, Thread(d)}) /\ pc' = [pc EXCEPT ![d] = "down"] /\ hold' = [hold EXCEPT ![d] = NoHold]
      /\ todo' = [todo EXCEPT ![d] = {}] /\ UNCHANGED <<pid, moved, lapsed>>
  BY DEF Gone, Goes
<1>2. /\ pc'[d] = "down" /\ hold'[d] = NoHold /\ todo'[d] = {}
      /\ hold'[d].task = 0 /\ hold'[d].retry = 0 /\ 0 \in 0..MaxTasks
  BY <1>1, CommandAssumption DEF SystemInv, Shape, NoHold
<1>3. UNCHANGED <<store, raced>> /\ {d, Thread(d)} \in SUBSET Clients /\ Over({d, Thread(d)})
  BY <1>1, DaemonsAreClients DEF Abandon
<1>4. /\ op'[d] = "idle" /\ op'[Thread(d)] = "idle" /\ want'[d] = NoChange /\ want'[Thread(d)] = NoChange
      /\ \A c \in Clients \ {d, Thread(d)} : op'[c] = op[c] /\ want'[c] = want[c]
  BY <1>3 DEF Over
<1>5. DOMAIN want'[d] = {} /\ DOMAIN want'[Thread(d)] = {}
  BY <1>4 DEF NoChange
<1>6. Frame(d)
  BY <1>1, <1>3, <1>4, <1>5 DEF Frame, SystemInv, Shape
<1>7. Placed(d)' /\ Asks(d)'
  <2>1. pid'[d] \in Pids
    BY <1>1 DEF SystemInv, Shape, Placed
  <2>2. QED BY <1>2, <1>4, <1>5, <2>1 DEF Placed, Asks, Places, Asking, Unheld
<1>8. Keeps(d)
  BY <1>2, <1>5 DEF Keeps, Own
<1>9. QED BY <1>3, <1>6, <1>7, <1>8 DEF StepOf

\* All steps of a daemon.
LEMMA DaemonStep == ASSUME SystemInv, NEW d \in Daemons, Daemon(d) PROVE StepOf(d)
<1>1. CASE Works(d)
  BY <1>1, StartStep, RecoverZombieStep, ZombieAnsweredStep, PollStep, StealStep, StealAnsweredStep, TakeStep,
     ClaimAnsweredStep, RunStep, SuccessAnsweredStep, FailureAnsweredStep, MaintainStep, MaintainAnsweredStep,
     GoneStep DEF Works, Stop
<1>2. QED BY <1>1, CallStep, StartBlindStep, PollBlindStep, SignalStep, GoneStep DEF Daemon, Crash

-----------------------------------------------------------------------------
(* Every step of a daemon is plain.                                        *)

\* A call of a client that raises is an operation of the store.
LEMMA RaisesIsPlain == ASSUME NEW c \in Clients, Raises(c) PROVE Plain
  BY DEF Raises, Plain

\* So is one that returns.
LEMMA ReturnsIsPlain == ASSUME NEW c \in Clients, Returns(c) PROVE Plain
  BY DEF Returns, Plain

\* And one that begins.
LEMMA UpdateIsPlain ==
    ASSUME NEW c \in Clients, NEW t, NEW fields, Update(c, t, fields) PROVE Plain
  BY DEF Update, Plain

\* A claim is an update of the store.
LEMMA ClaimIsPlain ==
    ASSUME NEW c \in Clients, NEW t, NEW retry, Claim(c, t, retry) PROVE Plain
<1>1. Update(c, t, [status |-> "downloading", pid |-> pid[c], err |-> None])
  BY DEF Claim
<1>2. QED BY <1>1, UpdateIsPlain

\* So is the report of a result.
LEMMA ReportIsPlain ==
    ASSUME NEW c \in Clients, NEW fields, NEW where, Report(c, fields, where) PROVE Plain
<1>1. Update(c, hold[c].task, fields)
  BY DEF Report
<1>2. QED BY <1>1, UpdateIsPlain

\* When a daemon goes, its calls and those of its thread end where they are.
LEMMA GoneIsPlain == ASSUME NEW d \in Daemons, Gone(d) PROVE Plain
<1>1. {d, Thread(d)} \in SUBSET Clients
  BY DaemonsAreClients
<1>2. Abandon({d, Thread(d)})
  BY DEF Gone
<1>3. QED BY <1>1, <1>2 DEF Plain

\* What a daemon does by itself.
LEMMA WorksIsPlain ==
    ASSUME NEW d \in Daemons, Works(d) PROVE Plain \/ UNCHANGED storeVars
<1> USE DaemonsAreClients
<1>1. CASE Start(d)
  BY <1>1 DEF Start, StartsWith
<1>2. CASE RecoverZombie(d)
  BY <1>2, UpdateIsPlain DEF RecoverZombie
<1>3. CASE ZombieAnswered(d)
  BY <1>3, RaisesIsPlain, ReturnsIsPlain DEF ZombieAnswered
<1>4. CASE Poll(d)
  <2>1. UNCHANGED storeVars \/ \E t \in Queue(d) : Claim(d, t, store.tasks[t].retry)
    BY <1>4 DEF Poll
  <2>2. QED BY <2>1, ClaimIsPlain
<1>5. CASE Steal(d)
  <2>1. UNCHANGED storeVars \/ \E t : Update(d, t, [server |-> d])
    BY <1>5 DEF Steal
  <2>2. QED BY <2>1, UpdateIsPlain
<1>6. CASE StealAnswered(d)
  BY <1>6, RaisesIsPlain, ReturnsIsPlain DEF StealAnswered
<1>7. CASE Take(d)
  BY <1>7, ClaimIsPlain DEF Take
<1>8. CASE ClaimAnswered(d)
  BY <1>8, RaisesIsPlain, ReturnsIsPlain DEF ClaimAnswered
<1>9. CASE RunSucceeds(d) \/ RunFails(d) \/ RunBreaks(d)
  <2>1. \E fields, where : Report(d, fields, where)
    BY <1>9 DEF RunSucceeds, RunFails, RunBreaks
  <2>2. QED BY <2>1, ReportIsPlain
<1>10. CASE SuccessAnswered(d)
  BY <1>10, RaisesIsPlain, ReturnsIsPlain DEF SuccessAnswered
<1>11. CASE FailureAnswered(d)
  BY <1>11, RaisesIsPlain, ReturnsIsPlain DEF FailureAnswered
<1>12. CASE Maintain(d)
  BY <1>12, UpdateIsPlain DEF Maintain
<1>13. CASE MaintainAnswered(d)
  BY <1>13, RaisesIsPlain, ReturnsIsPlain DEF MaintainAnswered
<1>14. CASE Stop(d)
  BY <1>14, GoneIsPlain DEF Stop
<1>15. QED
  BY <1>1, <1>2, <1>3, <1>4, <1>5, <1>6, <1>7, <1>8, <1>9, <1>10, <1>11, <1>12, <1>13, <1>14 DEF Works

\* What is done to a daemon, and by its thread.
LEMMA DaemonIsPlain ==
    ASSUME NEW d \in Daemons, Daemon(d) PROVE Plain \/ UNCHANGED storeVars
<1> USE DaemonsAreClients
<1>1. CASE CallGoesOn(d) \/ CallMisled(d)
  BY <1>1 DEF CallGoesOn, CallMisled, Plain
<1>2. CASE StartBlind(d) \/ PollBlind(d)
  BY <1>2 DEF StartBlind, PollBlind
<1>3. CASE Beat(d)
  BY <1>3 DEF Beat, Plain
<1>4. CASE BeatAnswered(d)
  BY <1>4, RaisesIsPlain, ReturnsIsPlain DEF BeatAnswered
<1>5. CASE Signal(d)
  <2>1. CASE Abandon({d})
    BY <2>1 DEF Plain
  <2>2. CASE Put(d)
    BY <2>2 DEF Plain
  <2>3. CASE UNCHANGED storeVars
    BY <2>3
  <2>4. QED BY <1>5, <2>1, <2>2, <2>3 DEF Signal
<1>6. CASE Crash(d)
  BY <1>6, GoneIsPlain DEF Crash
<1>7. QED
  BY <1>1, <1>2, <1>3, <1>4, <1>5, <1>6, WorksIsPlain DEF Daemon

\* A step of a daemon keeps the invariant.
LEMMA DaemonKeeps == ASSUME SystemInv, NEW d \in Daemons, Daemon(d) PROVE SystemInv'
  BY DaemonIsPlain, DaemonStep, StepKeeps

-----------------------------------------------------------------------------
(* Commands.                                                               *)

\* What a command has changed in its copy: it has given tasks other fields, and
\* taken over those it did not find queued or failed; or it has appended a task
\* nobody has yet.
Altered(c, change, over) ==
    /\ DOMAIN change \subseteq DOMAIN Mine(c)
    /\ \A t \in DOMAIN change :
         /\ Fields(change[t]) /\ "status" \in DOMAIN change[t]
         /\ \/ t \in over
            \/ Mine(c)[t].status \in {"queued", "failed"} /\ change[t].status = "dispatched"
Added(c, change) ==
    /\ NextId(c) <= MaxTasks
    /\ \E task \in TaskRecord : /\ task.status \in {"queued", "dispatched", "done"}
                                /\ change = [t \in {NextId(c)} |-> task]

\* A save of a command.
Saving(c) ==
    \/ \E change, over : Altered(c, change, over) /\ Saves(c, change, over)
    \/ \E change : Added(c, change) /\ Save(c, change) /\ UNCHANGED daemonVars

\* A new task has the types of tasks.
LEMMA NewTaskType ==
    ASSUME NEW r \in Repos, NEW s \in Statuses, NEW server \in Daemons \union {None}
    PROVE  NewTask(r, s, server) \in TaskRecord /\ NewTask(r, s, server).status = s
  BY DEF NewTask, TaskRecord

\* Tasks that are dispatched again, appended to a queue or found in it.
LEMMA RedispatchedFields ==
    ASSUME Shape, NEW c \in Operators, op[c] = "work", NEW T, T \subseteq DOMAIN Mine(c), NEW appended,
           NEW server \in [T -> Daemons]
    PROVE  LET change == Redispatched(c, T, appended, server) IN
           /\ DOMAIN change = T
           /\ \A t \in T : /\ Fields(change[t]) /\ "status" \in DOMAIN change[t]
                           /\ change[t].status = "dispatched"
<1>1. StateData(Mine(c))
  BY OperatorsAreClients DEF Shape, Typed, Mine
<1>2. \A t \in T : Mine(c)[t] \in TaskRecord
  BY <1>1 DEF StateData
<1>3. \A t \in T : Mine(c)[t].retry + 1 \in Nat
  BY <1>2 DEF TaskRecord
<1>4. QED BY <1>3 DEF Redispatched, Fields, Statuses

\* Every command is an operation of the store, or saves such a change.
LEMMA CommandIs ==
    ASSUME Shape, NEW c \in Operators, Command(c)
    PROVE  \/ Saving(c)
           \/ Abandon({c}) /\ UNCHANGED daemonVars
           \/ \E how \in {"object", "missing", "cache"} : LoadToSave(c, how) /\ UNCHANGED daemonVars
<1>1. ASSUME NEW change, NEW over, Saves(c, change, over), op[c] = "work" => Altered(c, change, over)
      PROVE  Saving(c)
  BY <1>1 DEF Saves, Save, Saving
<1>2. ASSUME NEW task \in TaskRecord, task.status \in {"queued", "dispatched", "done"}, Appends(c, task)
      PROVE  Saving(c)
  BY <1>2 DEF Appends, Saving, Added
<1>3. CASE Begin(c) \/ BeginMisled(c)
  BY <1>3 DEF Begin, BeginMisled
<1>4. CASE Quit(c)
  BY <1>4 DEF Quit
<1>5. CASE Add(c)
  <2>1. PICK r \in Repos, server \in Daemons \union {None}, status \in {"queued", "dispatched"} :
          Appends(c, NewTask(r, status, server))
    BY <1>5 DEF Add
  <2>2. QED BY <1>2, <2>1, NewTaskType DEF Statuses
<1>6. CASE Register(c)
  <2>1. PICK r \in Repos : Appends(c, NewTask(r, "done", None))
    BY <1>6 DEF Register
  <2>2. QED BY <1>2, <2>1, NewTaskType DEF Statuses
<1>7. CASE Dispatch(c)
  <2>0. PICK T \in NonEmpty(In(c, {"queued"})) : \E server \in [T -> Daemons] :
          Saves(c, [t \in T |-> [status |-> "dispatched", server |-> server[t]]], {})
    BY <1>7 DEF Dispatch
  <2>1. PICK server \in [T -> Daemons] :
          Saves(c, [t \in T |-> [status |-> "dispatched", server |-> server[t]]], {})
    BY <2>0
  <2>2. T \subseteq DOMAIN Mine(c) /\ \A t \in T : Mine(c)[t].status = "queued"
    BY DEF NonEmpty, In
  <2>3. Altered(c, [t \in T |-> [status |-> "dispatched", server |-> server[t]]], {})
    BY <2>2 DEF Altered, Fields, Statuses
  <2>4. QED BY <1>1, <2>1, <2>3
<1>8. CASE Retry(c)
  <2>0. PICK T \in NonEmpty(In(c, {"failed"})) : \E appended \in SUBSET T, server \in [T -> Daemons] :
          Saves(c, Redispatched(c, T, appended, server), {})
    BY <1>8 DEF Retry
  <2>1. PICK appended \in SUBSET T, server \in [T -> Daemons] : Saves(c, Redispatched(c, T, appended, server), {})
    BY <2>0
  <2>2. T \subseteq DOMAIN Mine(c) /\ \A t \in T : Mine(c)[t].status = "failed"
    BY DEF NonEmpty, In
  <2>3. op[c] = "work" => Altered(c, Redispatched(c, T, appended, server), {})
    BY <2>2, RedispatchedFields DEF Altered
  <2>4. QED BY <1>1, <2>1, <2>3
<1>9. CASE ForceRetry(c)
  <2>0. PICK t \in DOMAIN Mine(c) : \E appended \in SUBSET {t}, server \in [{t} -> Daemons] :
          Saves(c, Redispatched(c, {t}, appended, server), {t})
    BY <1>9 DEF ForceRetry
  <2>1. PICK appended \in SUBSET {t}, server \in [{t} -> Daemons] : Saves(c, Redispatched(c, {t}, appended, server), {t})
    BY <2>0
  <2>2. op[c] = "work" => Altered(c, Redispatched(c, {t}, appended, server), {t})
    BY RedispatchedFields DEF Altered
  <2>3. QED BY <1>1, <2>1, <2>2
<1>10. CASE Doctor(c)
  <2>0. PICK T \in NonEmpty(DOMAIN Mine(c)) : \E server \in [T -> Daemons] :
          Saves(c, Redispatched(c, T, T, server), T)
    BY <1>10 DEF Doctor
  <2>1. PICK server \in [T -> Daemons] : Saves(c, Redispatched(c, T, T, server), T)
    BY <2>0
  <2>2. T \subseteq DOMAIN Mine(c)
    BY DEF NonEmpty
  <2>3. op[c] = "work" => Altered(c, Redispatched(c, T, T, server), T)
    BY <2>2, RedispatchedFields DEF Altered
  <2>4. QED BY <1>1, <2>1, <2>3
<1>11. CASE Sync(c)
  <2>0. PICK T \in SUBSET DOMAIN Mine(c) : \E said \in [T -> {"done", "failed", "downloading"}] :
          Saves(c, [t \in T |-> [status |-> said[t]]], T)
    BY <1>11 DEF Sync, NonEmpty, In
  <2>1. PICK said \in [T -> {"done", "failed", "downloading"}] : Saves(c, [t \in T |-> [status |-> said[t]]], T)
    BY <2>0
  <2>2. Altered(c, [t \in T |-> [status |-> said[t]]], T)
    BY DEF Altered, Fields, Statuses
  <2>3. QED BY <1>1, <2>1, <2>2
<1>12. CASE Verify(c)
  <2>1. PICK T \in SUBSET DOMAIN Mine(c) : Saves(c, [t \in T |-> [status |-> "failed"]], T)
    BY <1>12 DEF Verify, NonEmpty, In
  <2>2. Altered(c, [t \in T |-> [status |-> "failed"]], T)
    BY DEF Altered, Fields, Statuses
  <2>3. QED BY <1>1, <2>1, <2>2
<1>13. CASE ListSizes(c)
  <2>1. Saves(c, NoChange, {}) /\ DOMAIN NoChange = {}
    BY <1>13 DEF ListSizes, NoChange
  <2>2. Altered(c, NoChange, {})
    BY <2>1 DEF Altered
  <2>3. QED BY <1>1, <2>1, <2>2
<1>14. QED
  BY <1>3, <1>4, <1>5, <1>6, <1>7, <1>8, <1>9, <1>10, <1>11, <1>12, <1>13 DEF Command, Decides

\* What a command's save leaves of the tasks, unless it takes them over: those
\* queued or failed may be dispatched, and there may be new ones.
Spared ==
    /\ Tasks \subseteq Tasks'
    /\ \A t \in Tasks :
         \/ store'.tasks[t] = store.tasks[t]
         \/ t \in moved'
         \/ Status(t) \in {"queued", "failed"} /\ Status(t)' = "dispatched"
    /\ \A t \in Tasks' \ Tasks : Status(t)' \in {"queued", "dispatched", "done"}

\* A command that has loaded the object has tasks.
LEMMA MineTyped == ASSUME Shape, NEW c \in Operators, op[c] = "work" PROVE StateData(Mine(c))
  BY OperatorsAreClients DEF Shape, Typed, Mine

\* A save of changed tasks.
LEMMA SavesEffect ==
    ASSUME Shape, NEW c \in Operators, NEW change, NEW over, Altered(c, change, over), Saves(c, change, over)
    PROVE  Typed' /\ (raced' \/ Spared)
<1>1. /\ op[c] = "work" /\ Stored(c, change) /\ Over({c}) /\ over \subseteq moved'
      /\ UNCHANGED cache \/ cache' = [cache EXCEPT ![c] = store']
  BY DEF Saves, Save
<1>2. StateData(Mine(c)) /\ DOMAIN change \subseteq DOMAIN Mine(c) /\ \A t \in DOMAIN change : Fields(change[t])
  BY <1>1, MineTyped DEF Altered
<1> DEFINE new == Applied(Mine(c), change)
<1>3. /\ StateData(new) /\ DOMAIN new = DOMAIN Mine(c)
      /\ \A t \in DOMAIN Mine(c) \ DOMAIN change : new[t] = Mine(c)[t]
      /\ \A t \in DOMAIN change :
           new[t].status = IF "status" \in DOMAIN change[t] THEN change[t].status ELSE Mine(c)[t].status
  BY <1>2, AppliedData
<1>4. Typed'
  BY <1>1, <1>3, StoredTyped, OperatorsAreClients DEF Mine
<1>5. ASSUME ~raced' PROVE Spared
  <2>1. Mine(c) = store.tasks /\ store'.tasks = new
    BY <1>1, <1>5, PutsStore, OperatorsAreClients DEF Shape, Committed, Mine
  <2> HIDE DEF new
  <2>2. Tasks' = Tasks /\ Tasks = DOMAIN Mine(c)
    BY <1>3, <2>1 DEF Tasks
  <2>3. ASSUME NEW t \in Tasks
        PROVE  \/ store'.tasks[t] = store.tasks[t]
               \/ t \in moved'
               \/ Status(t) \in {"queued", "failed"} /\ Status(t)' = "dispatched"
    <3>1. CASE t \in DOMAIN change
      <4>1. Status(t)' = change[t].status /\ Status(t) = Mine(c)[t].status
        BY <1>3, <2>1, <3>1 DEF Status, Altered
      <4>2. QED BY <1>1, <3>1, <4>1 DEF Altered
    <3>2. CASE t \notin DOMAIN change
      BY <1>3, <2>1, <2>2, <2>3, <3>2
    <3>3. QED BY <3>1, <3>2
  <2>4. QED BY <2>2, <2>3 DEF Spared
<1>6. QED BY <1>4, <1>5

\* A save of an appended task.
LEMMA AppendsEffect ==
    ASSUME Shape, NEW c \in Operators, NEW change, Added(c, change), Save(c, change)
    PROVE  Typed' /\ (raced' \/ Spared)
<1>1. /\ op[c] = "work" /\ Stored(c, change) /\ Over({c}) /\ NextId(c) <= MaxTasks
      /\ UNCHANGED cache \/ cache' = [cache EXCEPT ![c] = store']
  BY DEF Save, Added
<1>2. PICK task \in TaskRecord : /\ task.status \in {"queued", "dispatched", "done"}
                                 /\ change = [t \in {NextId(c)} |-> task]
  BY DEF Added
<1>3. StateData(Mine(c))
  BY <1>1, MineTyped
<1> DEFINE new == Applied(Mine(c), change)
<1>4. /\ StateData(new) /\ NextId(c) \notin DOMAIN Mine(c)
      /\ DOMAIN new = DOMAIN Mine(c) \union {NextId(c)} /\ new[NextId(c)] = task
      /\ \A t \in DOMAIN Mine(c) : new[t] = Mine(c)[t]
  <2>1. change = [t \in {Cardinality(DOMAIN Mine(c)) + 1} |-> task] /\ Cardinality(DOMAIN Mine(c)) + 1 <= MaxTasks
    BY <1>1, <1>2 DEF NextId
  <2>2. QED BY <1>3, <2>1, AppliedAppend DEF NextId
<1>5. Typed'
  BY <1>1, <1>4, StoredTyped, OperatorsAreClients DEF Mine
<1>6. ASSUME ~raced' PROVE Spared
  <2>1. Mine(c) = store.tasks /\ store'.tasks = new
    BY <1>1, <1>6, PutsStore, OperatorsAreClients DEF Shape, Committed, Mine
  <2> HIDE DEF new
  <2>2. QED BY <1>2, <1>4, <2>1 DEF Spared, Tasks, Status
<1>7. QED BY <1>5, <1>6

\* Both, with what they leave of the daemons and of the other calls.
LEMMA SavingEffect ==
    ASSUME Shape, NEW c \in Operators, Saving(c)
    PROVE  /\ Typed' /\ Answered(c) /\ (raced' \/ Spared)
           /\ UNCHANGED <<pc, hold, todo, pid, lapsed>> /\ moved \subseteq moved'
<1>1. ASSUME NEW change, Save(c, change) PROVE Answered(c)
  BY <1>1, OperatorsAreClients, OverAnswers DEF Save, Stored
<1>2. ASSUME NEW change, NEW over, Altered(c, change, over), Saves(c, change, over)
      PROVE  Answered(c) /\ UNCHANGED <<pc, hold, todo, pid, lapsed>> /\ moved \subseteq moved'
  BY <1>1, <1>2 DEF Saves
<1>3. QED BY <1>1, <1>2, SavesEffect, AppendsEffect DEF Saving, daemonVars

\* A step that leaves the daemons and their calls as they are.
LEMMA DaemonsStay ==
    ASSUME SystemInv, IInv', Typed', NEW c \in Operators,
           op'[c] \in {"idle", "work"}, \A e \in Clients \ {c} : op'[e] = op[e] /\ want'[e] = want[e],
           UNCHANGED <<pc, hold, todo, pid, lapsed>>, moved \subseteq moved', raced => raced',
           raced' \/ store'.tasks = store.tasks \/ Spared
    PROVE  SystemInv'
<1>1. OtherCalls'
  BY DaemonsAreClients, OperatorsAreClients DEF SystemInv, Shape, OtherCalls, Threads
<1>2. ASSUME NEW d \in Daemons PROVE Placed(d)' /\ Asks(d)'
  <2>1. op'[d] = op[d] /\ want'[d] = want[d]
    BY DaemonsAreClients, OperatorsAreClients
  <2>2. Placed(d) /\ Asks(d)
    BY DEF SystemInv, Shape
  <2>3. QED BY <2>1, <2>2 DEF Placed, Asks
<1>3. Shape'
  BY <1>1, <1>2 DEF Shape, SystemInv
<1>4. ASSUME NEW d \in Daemons, NEW t \in 1..MaxTasks, ~Excused(t)'
      PROVE  (Own(d, t)' => Live(d, t)') /\ (Downloads(d, t)' => pc'[d] = "down" \/ Own(d, t)')
  <2>1. ~Excused(t) /\ ~raced' /\ t \notin moved'
    BY <1>4, ExcusedStays
  <2>2. want'[d] = want[d]
    BY DaemonsAreClients, OperatorsAreClients
  <2>3. Own(d, t)' <=> Own(d, t)
    BY <2>2 DEF Own
  <2>4. (Own(d, t) => Live(d, t)) /\ (Downloads(d, t) => pc[d] = "down" \/ Own(d, t))
    BY <2>1 DEF SystemInv, Owned, Tracked
  <2>5. (Live(d, t) => Live(d, t)') /\ (Downloads(d, t)' => Downloads(d, t))
    <3>1. CASE store'.tasks = store.tasks
      BY <3>1 DEF Live, Downloads, Tasks, Status
    <3>2. CASE Spared
      BY <2>1, <3>2 DEF Spared, Live, Downloads, Tasks, Status
    <3>3. QED BY <2>1, <3>1, <3>2
  <2>6. QED BY <2>3, <2>4, <2>5
<1>5. QED BY <1>3, <1>4 DEF SystemInv, Owned, Tracked

\* A step of a command keeps the invariant.
LEMMA CommandKeeps == ASSUME SystemInv, NEW c \in Operators, Command(c) PROVE SystemInv'
<1>1. c \in Clients
  BY OperatorsAreClients
<1>2. CASE Saving(c)
  <2>1. \E change : Save(c, change)
    BY <1>2 DEF Saving, Saves
  <2>2. IInv'
    BY <1>1, <2>1, StoreStepIInv DEF StoreNext, StoreStep, SystemInv, Shape
  <2>3. /\ Typed' /\ Answered(c) /\ (raced' \/ Spared)
        /\ UNCHANGED <<pc, hold, todo, pid, lapsed>> /\ moved \subseteq moved'
    BY <1>2, SavingEffect DEF SystemInv
  <2>4. QED BY <2>2, <2>3, DaemonsStay DEF Answered
<1>3. CASE /\ UNCHANGED daemonVars
           /\ Abandon({c}) \/ \E how \in {"object", "missing", "cache"} : LoadToSave(c, how)
  <2>1. Plain
    BY <1>1, <1>3 DEF Plain
  <2>2. IInv' /\ Typed'
    BY <2>1, PlainIsStep, PlainTyped, StoreStepIInv DEF SystemInv, Shape
  <2>3. UNCHANGED <<store, raced>> /\ op'[c] \in {"idle", "work"}
    BY <1>1, <1>3 DEF LoadToSave, Abandon, Over, SystemInv, Shape, IInv, StoreShape
  <2>4. \A e \in Clients \ {c} : op'[e] = op[e] /\ want'[e] = want[e]
    BY <1>1, <1>3 DEF LoadToSave, Abandon, Over, SystemInv, Shape, IInv, StoreShape
  <2>5. QED BY <1>3, <2>2, <2>3, <2>4, DaemonsStay DEF daemonVars
<1>4. QED BY <1>2, <1>3, CommandIs DEF SystemInv

-----------------------------------------------------------------------------
(* The invariant and what follows from it.                                 *)

\* At first nothing is in hand, and nothing is downloading.
LEMMA InitKeeps == ASSUME Init PROVE SystemInv
<1>1. IInv
  BY StoreInitIInv DEF Init
<1>2. PICK tasks \in InitialTasks : store = [version |-> 2, tasks |-> tasks]
  BY DEF Init, StoreInit
<1>3. StateData(store.tasks) /\ \A t \in Tasks : Status(t) # "downloading"
  BY <1>2, CommandAssumption, DaemonAssumption DEF Tasks, Status
<1>4. \A c \in Clients : op[c] = "idle" /\ want[c] = NoChange /\ DOMAIN want[c] = {} /\ cache[c] = store
  BY DEF Init, StoreInit, NoChange
<1>5. Typed /\ OtherCalls
  BY <1>3, <1>4, DaemonsAreClients, OperatorsAreClients DEF Typed, OtherCalls, Threads
<1>6. \A d \in Daemons : pc[d] = "poll" /\ hold[d] = NoHold /\ todo[d] = {} /\ pid[d] = FirstPid
  BY DEF Init
<1>7. \A d \in Daemons : Placed(d) /\ Asks(d)
  BY <1>4, <1>6, DaemonsAreClients, DaemonAssumption, CommandAssumption
     DEF Placed, Asks, Places, Asking, Unheld, NoHold
<1>8. Shape
  BY <1>1, <1>5, <1>7 DEF Shape, Init
<1>9. Owned
  BY <1>6 DEF Owned, Own, NoHold
<1>10. Tracked
  BY <1>3 DEF Tracked, Downloads
<1>11. QED BY <1>8, <1>9, <1>10 DEF SystemInv

\* Nothing changes.
LEMMA StutterKeeps == ASSUME SystemInv, UNCHANGED vars PROVE SystemInv'
<1>1. UNCHANGED <<store, want, op, copy, tries, look, cache, raced, pc, hold, todo, pid, moved, lapsed>>
  BY DEF vars, storeVars, daemonVars
<1>2. IInv'
  BY StoreStepIInv DEF SystemInv, Shape, vars
<1>3. Typed' /\ OtherCalls'
  BY <1>1 DEF SystemInv, Shape, Typed, StateData, OtherCalls
<1>4. \A d \in Daemons : Placed(d)' /\ Asks(d)'
  BY <1>1 DEF SystemInv, Shape, Placed, Asks
<1>5. Owned' /\ Tracked'
  BY <1>1 DEF SystemInv, Owned, Tracked, Own, Live, Downloads, Excused, Tasks, Status
<1>6. QED BY <1>1, <1>2, <1>3, <1>4, <1>5 DEF SystemInv, Shape

\* The invariant of the system.
THEOREM SystemInvariant == Spec => []SystemInv
<1>1. SystemInv /\ [Next]_vars => SystemInv'
  BY DaemonKeeps, CommandKeeps, StutterKeeps DEF Next
<1>2. QED BY <1>1, InitKeeps, PTL DEF Spec

\* state.json is a list of tasks with fields of the declared kinds whatever the
\* daemons, their threads and the commands do to it, races included, and every
\* daemon is at a place of run()'s loop, holding a task exactly where
\* _execute_task has one (daemon.py:32-64, 90-160).
THEOREM SystemTypes == Spec => []TypeOK
<1>1. SystemInv => TypeOK
  <2> SUFFICES ASSUME SystemInv PROVE TypeOK
    OBVIOUS
  <2>1. ASSUME NEW d \in Daemons
        PROVE  /\ hold[d].task \in 0..MaxTasks /\ pid[d] \in Pids \union {None}
               /\ (hold[d].task = 0) = (pc[d] \in {"down", "recover", "zombie", "poll", "steal", "maintain"})
    BY DEF SystemInv, Shape, Placed, Unheld
  <2>2. QED BY <2>1 DEF TypeOK, SystemInv, Shape, Typed
<1>2. QED BY <1>1, SystemInvariant, PTL

\* A task is left downloading with nobody to run it only if a report was lost,
\* a pid came again, a command said so, or a put raced or did not look: recovery
\* (_recover_zombie_tasks, daemon.py:162-179) finds all others, whatever crashes.
THEOREM SystemNoOrphan == Spec => []NoOrphan
<1>1. SystemInv => NoOrphan
  <2> SUFFICES ASSUME SystemInv, NEW t \in Tasks, Status(t) = "downloading",
                      store.tasks[t].server \in Daemons,
                      pc[store.tasks[t].server] \notin {"down", "recover", "zombie"}, ~Excused(t)
               PROVE  \E d \in Daemons : hold[d].task = t
    BY DEF NoOrphan
  <2> DEFINE s == store.tasks[t].server
  <2>1. t \in 1..MaxTasks
    BY TasksAreNumbers DEF SystemInv, Shape, Typed, Tasks
  <2>2. Downloads(s, t)
    BY DEF Downloads
  <2>3. Own(s, t)
    BY <2>1, <2>2 DEF SystemInv, Tracked
  <2>4. todo[s] = {}
    BY DEF SystemInv, Shape, Placed
  <2>5. QED BY <2>3, <2>4 DEF Own
<1>2. QED BY <1>1, SystemInvariant, PTL

\* A claim looks neither at the status nor at the server of the task
\* (_execute_task, daemon.py:95-105), and still no two daemons run one task
\* that was not stolen, or taken over by a command, until a put races or comes
\* from a client that did not look.
THEOREM SystemOneRunner == Spec => []OneRunner
<1>1. SystemInv => OneRunner
  <2> SUFFICES ASSUME SystemInv, NEW d \in Daemons, NEW e \in Daemons, d # e, pc[d] = "run", pc[e] = "run",
                      hold[d].task = hold[e].task, ~Excused(hold[d].task)
               PROVE  FALSE
    BY DEF OneRunner
  <2>1. hold[d].task \in 1..MaxTasks
    BY CommandAssumption DEF SystemInv, Shape, Placed, Unheld
  <2>2. Own(d, hold[d].task) /\ Own(e, hold[d].task)
    BY <2>1 DEF Own
  <2>3. QED BY <2>1, <2>2 DEF SystemInv, Owned, Live
<1>2. QED BY <1>1, SystemInvariant, PTL

-----------------------------------------------------------------------------
(* What is done stays done.                                                *)

\* That a task that is done stays so in a step.
Done(t) == t \in Tasks /\ Status(t) = "done"

\* A daemon changes a task that is done only in its maintenance.
LEMMA DaemonDone ==
    ASSUME SystemInv, NEW d \in Daemons, Daemon(d), NEW t \in Tasks, Done(t), ~Excused(t)',
           ~(pc[d] = "maintain" /\ t \in DOMAIN want[d])
    PROVE  Done(t)'
<1>1. StepOf(d)
  BY DaemonStep
<1>2. ~Excused(t) /\ ~raced' /\ t \notin moved'
  BY <1>1, ExcusedStays DEF StepOf, Frame
<1>3. CASE store'.tasks = store.tasks
  BY <1>3 DEF Done, Tasks, Status
<1>4. CASE Changes(d)
  <2>1. CASE t \notin DOMAIN want[d]
    BY <1>4, <2>1 DEF Changes, Done, Tasks, Status
  <2>2. CASE t \in DOMAIN want[d]
    <3>1. Placed(d)
      BY DEF SystemInv, Shape
    <3>2. pc[d] \in Asking \ {"maintain"}
      BY <2>2, <3>1 DEF Placed
    <3>3. CASE pc[d] = "stealing"
      BY <1>4, <2>2, <3>3 DEF Changes, Done
    <3>4. CASE pc[d] \in {"zombie", "claim", "report", "fail"}
      <4>1. Own(d, t)
        BY <2>2, <3>1, <3>4 DEF Placed, Own, Unheld
      <4>2. t \in 1..MaxTasks
        BY TasksAreNumbers DEF SystemInv, Shape, Typed, Tasks
      <4>3. Live(d, t)
        BY <1>2, <4>1, <4>2 DEF SystemInv, Owned
      <4>4. QED BY <4>3 DEF Live, Done
    <3>5. QED BY <3>2, <3>3, <3>4 DEF Asking
  <2>3. QED BY <2>1, <2>2
<1>5. QED BY <1>1, <1>2, <1>3, <1>4 DEF StepOf

\* A command changes a task that is done only if it takes it over.
LEMMA CommandDone ==
    ASSUME SystemInv, NEW c \in Operators, Command(c), NEW t \in Tasks, Done(t), ~Excused(t)'
    PROVE  Done(t)'
<1>1. ~raced' /\ t \notin moved'
  BY DEF Excused
<1>2. CASE Saving(c)
  <2>1. Spared
    BY <1>1, <1>2, SavingEffect DEF SystemInv
  <2>2. QED BY <1>1, <2>1 DEF Spared, Done, Tasks, Status
<1>3. ASSUME NEW how, LoadToSave(c, how) \/ Abandon({c}) PROVE Done(t)'
  BY <1>3 DEF LoadToSave, Abandon, Done, Tasks, Status
<1>4. QED BY <1>2, <1>3, CommandIs DEF SystemInv

\* A late claim, recovery or report never reopens a task that is done
\* (update_task sets the fields it is given, whatever the task has become,
\* state.py:81-100): only a command that takes the task over, a steal, a success
\* that was not reported, a maintenance that was under way, or a put that races or
\* is not of the object can.
THEOREM SystemDoneIsFinal == Spec => DoneIsFinal
<1> DEFINE Stays(t) == \/ t \in Tasks' /\ Status(t)' = "done"
                       \/ Excused(t)'
                       \/ \E d \in Daemons : pc[d] = "maintain" /\ t \in DOMAIN want[d]
           Step == \A t \in Tasks : Status(t) = "done" => Stays(t)
<1>1. SystemInv /\ [Next]_vars => [Step]_vars
  <2> SUFFICES ASSUME SystemInv, Next, NEW t \in Tasks, Status(t) = "done", ~Excused(t)',
                      \A d \in Daemons : ~(pc[d] = "maintain" /\ t \in DOMAIN want[d])
               PROVE  t \in Tasks' /\ Status(t)' = "done"
    OBVIOUS
  <2>1. Done(t)
    BY DEF Done
  <2>2. Done(t)'
    BY <2>1, DaemonDone, CommandDone DEF Next
  <2>3. QED BY <2>2 DEF Done
<1>2. QED BY <1>1, SystemInvariant, PTL DEF Spec, DoneIsFinal

-----------------------------------------------------------------------------
(* What is proved of the store holds of the system.                        *)

\* Daemons, threads and commands use the object by the operations of
\* StateManager only (load, save, save_with_lock, update_task and
\* update_heartbeat, state.py): the system is a store with its clients.
THEOREM SystemUsesStore == Spec => StoreSpec
<1>1. Init => StoreInit
  BY DEF Init
<1>2. SystemInv /\ [Next]_vars => [StoreNext]_storeVars
  <2>1. CASE UNCHANGED vars
    BY <2>1 DEF vars
  <2>2. ASSUME NEW d \in Daemons, Daemon(d) PROVE [StoreNext]_storeVars
    BY <2>2, DaemonIsPlain, PlainIsStep
  <2>3. ASSUME SystemInv, NEW c \in Operators, Command(c) PROVE StoreNext
    <3>1. c \in Clients
      BY OperatorsAreClients
    <3>2. CASE Saving(c)
      BY <3>1, <3>2 DEF Saving, Saves, StoreNext, StoreStep
    <3>3. CASE Abandon({c}) \/ \E how \in {"object", "missing", "cache"} : LoadToSave(c, how)
      BY <3>1, <3>3 DEF StoreNext, StoreStep
    <3>4. QED BY <2>3, <3>2, <3>3, CommandIs DEF SystemInv
  <2>4. QED
    BY <2>1, <2>2, <2>3 DEF Next
<1>3. QED BY <1>1, <1>2, SystemInvariant, PTL DEF Spec, StoreSpec

\* With daemons and commands at work, whoever has looked at the object and is
\* about to put it has it as it is, until a put comes between, or from dlm ls with
\* its cache or a load that took the object for missing (state.py:49-52, 70-79).
THEOREM SystemLastLook == Spec => []LastLook
  BY SystemUsesStore, VersionsNameContents, PTL

\* And until such a put the daemons' updates are atomic, and no task that a
\* command added is lost (update_task, state.py:81-100).
THEOREM SystemIsAtomic == Spec => AtomicStoreSpec
  BY SystemUsesStore, StoreIsAtomic, PTL
=============================================================================

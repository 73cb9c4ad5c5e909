---------------------------- MODULE StateStore -----------------------------
(***************************************************************************)
(* dlm/core/state.py: state.json, one object in BOS that every daemon,     *)
(* heartbeat thread and command reads and writes as a whole.  An update    *)
(* loads the object, loads it again to compare the versions, and puts it.  *)
(* A command loads it, works for as long as its SSH calls take, and puts   *)
(* it without comparing anything.  Each call to BOS is a step.             *)
(*                                                                         *)
(* A load need not show the object: any error that mentions 404, NoSuchKey *)
(* or "does not exist" stands for an empty state, and a load from the      *)
(* cache file shows what this machine loaded or saved up to a minute ago.  *)
(* The caches of the servers, which nobody saves from, are left out.  BOS  *)
(* is external: get and put of an object are atomic, and a put whose       *)
(* answer is lost may have been carried out.                               *)
(***************************************************************************)
EXTENDS Integers, FiniteSets

CONSTANTS
    Clients,     \* whoever has a call of the state manager in progress
    InitialTasks,\* what the tasks in the object may be at first
    Whole,       \* in `want`: a command works on the whole object
    MaxTries     \* max_retries of update_task and update_heartbeat

ASSUME StoreAssumption == MaxTries \in Nat \ {0}

VARIABLES
    store,    \* state.json: version and tasks
    want,     \* the change each client's call is to make
    op,       \* where its call is
    copy,     \* the object it has loaded
    tries,    \* attempts its call has begun
    look,     \* what it took for the object: the object, nothing, or the cache
    cache,    \* the cache file of whoever runs commands
    raced     \* history: a put came between another client's last look and its
              \* put, or from a client that had not looked at the object

storeVars == <<store, want, op, copy, tries, look, cache, raced>>

Override(old, new) ==
    [k \in DOMAIN old \union DOMAIN new |-> IF k \in DOMAIN new THEN new[k] ELSE old[k]]

\* setattr of the fields of a change, or append of a new task.
Applied(tasks, change) ==
    [t \in DOMAIN tasks \union DOMAIN change |->
        IF t \notin DOMAIN change THEN tasks[t]
        ELSE IF t \in DOMAIN tasks THEN Override(tasks[t], change[t]) ELSE change[t]]

Updated(s, change) == [version |-> s.version + 1, tasks |-> Applied(s.tasks, change)]

NoChange == [t \in {} |-> 0]
NoCopy == [version |-> 0, tasks |-> NoChange]

\* _initial_state, for an object that is thought missing.
InitialState == [version |-> 1, tasks |-> NoChange]

\* What load returns: the object, the state for none, or the cache.
Seen(c, how) ==
    CASE how = "object" -> store
      [] how = "missing" -> InitialState
      [] how = "cache" -> cache[c]

\* A client has looked at the object for the last time before its put.
Committed(c) == op[c] \in {"put", "work"}

-----------------------------------------------------------------------------
(* update_task and update_heartbeat.  A client's call ends in the step of  *)
(* the store that answers it; a crash just after is one of the client.     *)

\* The call begins.
Call(c, change) ==
    /\ op[c] = "idle" /\ change # Whole
    /\ want' = [want EXCEPT ![c] = change]
    /\ op' = [op EXCEPT ![c] = "load"]
    /\ tries' = [tries EXCEPT ![c] = 1]
    /\ UNCHANGED <<store, copy, look, cache, raced>>

\* load(use_cache=False), of the object or of what is thought missing.
Load(c, how) ==
    /\ op[c] = "load"
    /\ DOMAIN want[c] \subseteq DOMAIN Seen(c, how).tasks
    /\ op' = [op EXCEPT ![c] = "compare"]
    /\ copy' = [copy EXCEPT ![c] = Seen(c, how)]
    /\ look' = [look EXCEPT ![c] = how]
    /\ UNCHANGED <<store, want, tries, cache, raced>>

\* Mutant of Compare: save_with_lock compares nothing.
CompareNothing(c, how) ==
    /\ op[c] = "compare"
    /\ op' = [op EXCEPT ![c] = "put"]
    /\ UNCHANGED <<store, want, copy, tries, look, cache, raced>>

\* The load of save_with_lock finds the version as it was, or another: then the
\* call starts again, as long as it has attempts left.
Compare(c, how) ==
    /\ op[c] = "compare"
    /\ IF Seen(c, how).version = copy[c].version
       THEN /\ op' = [op EXCEPT ![c] = "put"]
            /\ look' = [look EXCEPT ![c] = IF how = "object" THEN @ ELSE how]
            /\ UNCHANGED <<tries, copy>>
       ELSE /\ tries[c] < MaxTries
            /\ op' = [op EXCEPT ![c] = "load"]
            /\ tries' = [tries EXCEPT ![c] = @ + 1]
            /\ copy' = [copy EXCEPT ![c] = NoCopy]
            /\ look' = [look EXCEPT ![c] = "object"]
    /\ UNCHANGED <<store, want, cache, raced>>

\* The call of a client ends, or the client: what it has loaded is gone.
Over(C) ==
    /\ op' = [c \in Clients |-> IF c \in C THEN "idle" ELSE op[c]]
    /\ want' = [c \in Clients |-> IF c \in C THEN NoChange ELSE want[c]]
    /\ copy' = [c \in Clients |-> IF c \in C THEN NoCopy ELSE copy[c]]
    /\ tries' = [c \in Clients |-> IF c \in C THEN 0 ELSE tries[c]]
    /\ look' = [c \in Clients |-> IF c \in C THEN "object" ELSE look[c]]

Abandon(C) == Over(C) /\ UNCHANGED <<store, cache, raced>>

\* put_object replaces the object by the client's copy with a change, and gives
\* it the version after the copy's.
Stored(c, change) ==
    /\ store' = Updated(copy[c], change)
    /\ raced' = (raced \/ look[c] # "object" \/ \E d \in Clients \ {c} : Committed(d))

\* save, from save_with_lock: the call returns.
Put(c) == op[c] = "put" /\ Stored(c, want[c]) /\ Over({c}) /\ UNCHANGED cache

\* The call raises: ValueError for a task that is gone, OptimisticLockError.
Refused(c) ==
    /\ \/ op[c] = "load" /\ ~(DOMAIN want[c] \subseteq DOMAIN store.tasks)
       \/ op[c] = "compare" /\ store.version # copy[c].version /\ tries[c] = MaxTries
    /\ Abandon({c})

\* BOS cannot be reached: RuntimeError from a load, or the client's error from
\* the put, which may have been carried out.  Neither is retried.  So it is with
\* a load that takes the object for missing, for a task that is to be updated
\* (ValueError), or in the last attempt (OptimisticLockError).
Fails(c) ==
    \/ op[c] \in {"load", "compare", "put"} /\ Abandon({c})
    \/ Put(c)

-----------------------------------------------------------------------------
(* load and save of the commands.                                          *)

\* A command loads the object it will save, or what it takes for it, and works
\* on that.  A cache file that is too old is not looked at.
LoadToSave(c, how) ==
    /\ op[c] = "idle"
    /\ op' = [op EXCEPT ![c] = "work"]
    /\ want' = [want EXCEPT ![c] = Whole]
    /\ copy' = [copy EXCEPT ![c] = Seen(c, how)]
    /\ look' = [look EXCEPT ![c] = how]
    /\ cache' = [cache EXCEPT ![c] = Seen(c, how)]
    /\ UNCHANGED <<store, tries, raced>>

\* save, with the changes the command has made: nothing is compared.  If the
\* answer of the put is lost, the cache file stays as it is.
Save(c, change) ==
    /\ op[c] = "work" /\ Stored(c, change) /\ Over({c})
    /\ UNCHANGED cache \/ cache' = [cache EXCEPT ![c] = store']

-----------------------------------------------------------------------------
(* The store with any clients.                                             *)

\* The object has been saved before; a command was run on it a moment ago.
StoreInit ==
    /\ \E tasks \in InitialTasks : store = [version |-> 2, tasks |-> tasks]
    /\ want = [c \in Clients |-> NoChange]
    /\ op = [c \in Clients |-> "idle"]
    /\ copy = [c \in Clients |-> NoCopy]
    /\ tries = [c \in Clients |-> 0]
    /\ look = [c \in Clients |-> "object"]
    /\ cache = [c \in Clients |-> store]
    /\ raced = FALSE

StoreStep(c) ==
    \/ Put(c) \/ Refused(c) \/ Fails(c)
    \/ \E how \in {"object", "missing"} : Load(c, how) \/ Compare(c, how)
    \/ \E how \in {"object", "missing", "cache"} : LoadToSave(c, how)
    \/ \E change : Call(c, change) \/ Save(c, change)

StoreNext ==
    \/ \E c \in Clients : StoreStep(c)
    \/ \E C \in SUBSET Clients : Abandon(C)

StoreSpec == StoreInit /\ [][StoreNext]_storeVars

-----------------------------------------------------------------------------
(* Properties.                                                             *)

\* AtomicStoreSpec: as long as no put falls between another client's last look
\* at the object and its put, and none comes from a client that took the object
\* for missing or worked from its cache, every write is an atomic update of the
\* object as it is ("Atomically update a single task's fields", update_task), and
\* no task is lost: the comparison of versions detects every change before the
\* last look.
AS == INSTANCE AtomicStore WITH state <- store, asked <- want, broken <- raced
AtomicStoreSpec == AS!AtomicSpec

\* LastLook: a version names one content: until a put has come between a look
\* and a put, or from a client that had not looked, whoever has looked at the
\* object and holds a copy of its version holds the object, and is about to put
\* nothing else; and an update of a task never comes of a load that took the
\* object for missing, as the one of a heartbeat may.
LastLook ==
    /\ ~raced => \A c \in Clients : look[c] = "object" =>
        /\ op[c] \in {"compare", "put", "work"} =>
              /\ copy[c].version <= store.version
              /\ copy[c].version = store.version => copy[c] = store
        /\ Committed(c) => copy[c] = store
    /\ \A c \in Clients : op[c] = "put" /\ look[c] # "object" => DOMAIN want[c] = {}
=============================================================================

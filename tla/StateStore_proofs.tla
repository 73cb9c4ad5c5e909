------------------------- MODULE StateStore_proofs -------------------------
(***************************************************************************)
(* Two theorems about the optimistic locking of dlm/core/state.py, for any *)
(* clients, changes, number of attempts, crashes and failures of BOS, and  *)
(* loads that take the object for missing or come from a cache: versions   *)
(* tell contents apart until a put races or comes from a client that did   *)
(* not look, and until then every write is atomic.                         *)
(***************************************************************************)
EXTENDS StateStore, TLAPS

\* The shape of the variables, and what a client's place says of its change: the
\* state for a missing object has a version no object has.
StoreShape ==
    /\ op \in [Clients -> {"idle", "load", "compare", "put", "work"}]
    /\ DOMAIN want = Clients
    /\ DOMAIN copy = Clients
    /\ look \in [Clients -> {"object", "missing", "cache"}]
    /\ DOMAIN cache = Clients
    /\ raced \in BOOLEAN
    /\ store.version \in Int /\ store.version >= 2
    /\ \A c \in Clients :
         /\ copy[c].version \in Int
         /\ cache[c].version \in Int /\ cache[c].version >= 1
         /\ op[c] \in {"compare", "put", "work"} => copy[c].version >= 1
         /\ op[c] \in {"compare", "put"} /\ look[c] = "object" => copy[c].version >= 2
         /\ op[c] \in {"compare", "put"} /\ look[c] # "object" => DOMAIN want[c] = {}
         /\ op[c] \in {"load", "compare", "put"} => want[c] # Whole
         /\ op[c] = "work" => want[c] = Whole

IInv == StoreShape /\ LastLook

-----------------------------------------------------------------------------

\* Initially every client is idle.
LEMMA StoreInitIInv == ASSUME StoreInit PROVE IInv
<1>1. StoreShape
  <2>1. store.version = 2
    BY DEF StoreInit
  <2>2. \A c \in Clients : copy[c].version \in Int /\ op[c] = "idle" /\ cache[c].version = 2
    BY <2>1 DEF StoreInit, NoCopy
  <2>3. look \in [Clients -> {"object", "missing", "cache"}] /\ DOMAIN cache = Clients
    BY DEF StoreInit
  <2>4. /\ op \in [Clients -> {"idle", "load", "compare", "put", "work"}]
        /\ DOMAIN want = Clients /\ DOMAIN copy = Clients /\ raced \in BOOLEAN
    BY DEF StoreInit
  <2>5. QED BY <2>1, <2>2, <2>3, <2>4 DEF StoreShape
<1>2. LastLook
  BY DEF StoreInit, LastLook, Committed
<1>3. QED BY <1>1, <1>2 DEF IInv

\* What Over leaves: the clients of C idle, the others as they are.
LEMMA OverShape ==
    ASSUME NEW C \in SUBSET Clients, IInv, Over(C)
    PROVE  /\ op' \in [Clients -> {"idle", "load", "compare", "put", "work"}]
           /\ DOMAIN want' = Clients
           /\ DOMAIN copy' = Clients
           /\ look' \in [Clients -> {"object", "missing", "cache"}]
           /\ \A c \in C : op'[c] = "idle" /\ copy'[c] = NoCopy
           /\ \A c \in Clients \ C : /\ op'[c] = op[c] /\ want'[c] = want[c]
                                     /\ copy'[c] = copy[c] /\ look'[c] = look[c]
  BY DEF Over, IInv, StoreShape

\* A client's call, or the client, ends without a put.
LEMMA AbandonIInv ==
    ASSUME NEW C \in SUBSET Clients, IInv, Abandon(C)
    PROVE  IInv'
<1>1. Over(C) /\ UNCHANGED <<store, cache, raced>>
  BY DEF Abandon
<1>2. StoreShape'
  BY <1>1, OverShape DEF IInv, StoreShape, NoCopy
<1>3. LastLook'
  BY <1>1, OverShape DEF IInv, StoreShape, LastLook, Committed
<1>4. QED BY <1>2, <1>3 DEF IInv

\* A put: if it races, `raced` says so; if not, everybody else's copy is of an
\* older version than the one it makes.
LEMMA StoredIInv ==
    ASSUME NEW c \in Clients, NEW change, IInv, Committed(c), Stored(c, change), Over({c}),
           UNCHANGED cache \/ cache' = [cache EXCEPT ![c] = store']
    PROVE  IInv'
<1>1. store'.version = copy[c].version + 1
  BY DEF Stored, Updated
<1>2. StoreShape'
  <2>1. raced' \in BOOLEAN
    BY DEF Stored, IInv, StoreShape
  <2>2. store'.version \in Int /\ store'.version >= 2
    BY <1>1 DEF IInv, StoreShape, Committed
  <2>3. /\ DOMAIN cache' = Clients
        /\ \A d \in Clients : cache'[d].version \in Int /\ cache'[d].version >= 1
    BY <2>2 DEF IInv, StoreShape
  <2>4. QED BY <2>1, <2>2, <2>3, OverShape DEF IInv, StoreShape, NoCopy
<1>3. LastLook'
  <2>0. \A d \in Clients : op'[d] = "put" /\ look'[d] # "object" => DOMAIN want'[d] = {}
    BY <1>2 DEF StoreShape
  <2>1. SUFFICES ASSUME ~raced', NEW d \in Clients, look'[d] = "object"
                 PROVE  /\ op'[d] \in {"compare", "put", "work"} =>
                              /\ copy'[d].version <= store'.version
                              /\ copy'[d].version = store'.version => copy'[d] = store'
                        /\ Committed(d)' => copy'[d] = store'
    BY <2>0 DEF LastLook
  <2>2. ~raced /\ look[c] = "object" /\ \A e \in Clients \ {c} : ~Committed(e)
    BY <2>1 DEF Stored, IInv, StoreShape
  <2>3. copy[c] = store
    BY <2>2 DEF IInv, LastLook
  <2>4. CASE d = c
    BY <2>4, OverShape DEF Committed
  <2>5. CASE d # c
    <3>1. op'[d] = op[d] /\ copy'[d] = copy[d] /\ look[d] = "object"
      BY <2>1, <2>5, OverShape
    <3>2. ~Committed(d)' /\ (op'[d] \in {"compare", "put", "work"} => op[d] = "compare")
      BY <2>2, <2>5, <3>1 DEF Committed
    <3>3. op[d] = "compare" => copy[d].version <= store.version
      BY <2>2, <3>1 DEF IInv, LastLook
    <3>4. store.version \in Int /\ copy[d].version \in Int
      BY DEF IInv, StoreShape
    <3>5. QED BY <1>1, <2>3, <3>1, <3>2, <3>3, <3>4
  <2>6. QED BY <2>4, <2>5
<1>4. QED BY <1>2, <1>3 DEF IInv

\* Every step keeps it.
LEMMA StoreStepIInv == ASSUME IInv, [StoreNext]_storeVars PROVE IInv'
<1> USE DEF IInv
<1>1. ASSUME NEW c \in Clients, NEW change, Call(c, change) PROVE IInv'
  <2>1. StoreShape'
    BY <1>1 DEF Call, StoreShape
  <2>2. LastLook'
    BY <1>1 DEF Call, StoreShape, LastLook, Committed
  <2>3. QED BY <2>1, <2>2
<1>2. ASSUME NEW c \in Clients, NEW how \in {"object", "missing"}, Load(c, how) PROVE IInv'
  <2>0. /\ op' = [op EXCEPT ![c] = "compare"] /\ copy' = [copy EXCEPT ![c] = Seen(c, how)]
        /\ look' = [look EXCEPT ![c] = how] /\ UNCHANGED <<store, want, cache, raced>>
        /\ op[c] = "load" /\ DOMAIN want[c] \subseteq DOMAIN Seen(c, how).tasks
    BY <1>2 DEF Load
  <2>1. CASE how = "object"
    <3>1. Seen(c, how) = store
      BY <2>1 DEF Seen
    <3>2. StoreShape'
      BY <2>0, <2>1, <3>1 DEF StoreShape
    <3>3. LastLook'
      BY <2>0, <2>1, <3>1 DEF StoreShape, LastLook, Committed
    <3>4. QED BY <3>2, <3>3
  <2>2. CASE how = "missing"
    <3>1. Seen(c, how).version = 1 /\ DOMAIN Seen(c, how).tasks = {}
      BY <2>2 DEF Seen, InitialState, NoChange
    <3>2. StoreShape'
      BY <2>0, <2>2, <3>1 DEF StoreShape
    <3>3. LastLook'
      BY <2>0, <2>2 DEF StoreShape, LastLook, Committed
    <3>4. QED BY <3>2, <3>3
  <2>3. QED BY <2>1, <2>2
<1>3. ASSUME NEW c \in Clients, NEW how \in {"object", "missing"}, Compare(c, how) PROVE IInv'
  <2>1. CASE Seen(c, how).version = copy[c].version
    <3>1. /\ op' = [op EXCEPT ![c] = "put"] /\ UNCHANGED <<copy, store, want, cache, raced>>
          /\ look' = [look EXCEPT ![c] = IF how = "object" THEN look[c] ELSE how]
      BY <1>3, <2>1 DEF Compare
    <3>2. op[c] = "compare"
      BY <1>3 DEF Compare
    <3>3. CASE how = "object"
      <4>1. look' = look /\ store.version = copy[c].version
        BY <2>1, <3>1, <3>3 DEF StoreShape, Seen
      <4>2. StoreShape'
        BY <3>1, <3>2, <4>1 DEF StoreShape
      <4>3. ~raced /\ look[c] = "object" => copy[c] = store
        BY <3>2, <4>1 DEF LastLook
      <4>4. LastLook'
        BY <3>1, <3>2, <4>1, <4>2, <4>3 DEF StoreShape, LastLook, Committed
      <4>5. QED BY <4>2, <4>4
    <3>4. CASE how = "missing"
      <4>1. copy[c].version = 1 /\ look' = [look EXCEPT ![c] = "missing"]
        BY <2>1, <3>1, <3>4 DEF Seen, InitialState
      <4>2. DOMAIN want[c] = {}
        BY <3>2, <4>1 DEF StoreShape
      <4>3. StoreShape'
        BY <3>1, <3>2, <4>1, <4>2 DEF StoreShape
      <4>4. LastLook'
        BY <3>1, <4>1, <4>2 DEF StoreShape, LastLook, Committed
      <4>5. QED BY <4>3, <4>4
    <3>5. QED BY <3>3, <3>4
  <2>2. CASE Seen(c, how).version # copy[c].version
    <3>1. /\ op' = [op EXCEPT ![c] = "load"]
          /\ copy' = [copy EXCEPT ![c] = NoCopy]
          /\ look' = [look EXCEPT ![c] = "object"]
          /\ UNCHANGED <<store, want, cache, raced>>
          /\ op[c] = "compare"
      BY <1>3, <2>2 DEF Compare
    <3>2. StoreShape'
      BY <3>1 DEF StoreShape, NoCopy
    <3>3. LastLook'
      BY <3>1 DEF StoreShape, LastLook, Committed
    <3>4. QED BY <3>2, <3>3
  <2>3. QED BY <2>1, <2>2
<1>4. ASSUME NEW c \in Clients, Put(c) PROVE IInv'
  BY <1>4, StoredIInv DEF Put, Committed
<1>5. ASSUME NEW c \in Clients, Refused(c) PROVE IInv'
  <2>1. Abandon({c})
    BY <1>5 DEF Refused
  <2>2. QED BY <2>1, AbandonIInv
<1>6. ASSUME NEW c \in Clients, Fails(c) PROVE IInv'
  <2>1. CASE Abandon({c})
    BY <2>1, AbandonIInv
  <2>2. CASE Put(c)
    BY <1>4, <2>2
  <2>3. QED BY <1>6, <2>1, <2>2 DEF Fails
<1>7. ASSUME NEW c \in Clients, NEW how \in {"object", "missing", "cache"}, LoadToSave(c, how) PROVE IInv'
  <2>1. /\ op' = [op EXCEPT ![c] = "work"] /\ copy' = [copy EXCEPT ![c] = Seen(c, how)]
        /\ want' = [want EXCEPT ![c] = Whole] /\ look' = [look EXCEPT ![c] = how]
        /\ cache' = [cache EXCEPT ![c] = Seen(c, how)] /\ UNCHANGED <<store, raced>>
    BY <1>7 DEF LoadToSave
  <2>2. Seen(c, how).version \in Int /\ Seen(c, how).version >= 1 /\ (how = "object" => Seen(c, how) = store)
    BY DEF Seen, InitialState, StoreShape
  <2>3. StoreShape'
    BY <2>1, <2>2 DEF StoreShape
  <2>4. LastLook'
    BY <2>1, <2>2 DEF StoreShape, LastLook, Committed
  <2>5. QED BY <2>3, <2>4
<1>8. ASSUME NEW c \in Clients, NEW change, Save(c, change) PROVE IInv'
  BY <1>8, StoredIInv DEF Save, Committed
<1>9. ASSUME NEW C \in SUBSET Clients, Abandon(C) PROVE IInv'
  BY <1>9, AbandonIInv
<1>10. CASE UNCHANGED storeVars
  <2>1. StoreShape'
    BY <1>10 DEF storeVars, StoreShape
  <2>2. LastLook'
    BY <1>10 DEF storeVars, LastLook, Committed
  <2>3. QED BY <2>1, <2>2
<1>11. QED
  BY <1>1, <1>2, <1>3, <1>4, <1>5, <1>6, <1>7, <1>8, <1>9, <1>10 DEF StoreNext, StoreStep

\* Every reachable state of the store has the invariant.
THEOREM StoreInvariant == StoreSpec => []IInv
<1>1. StoreInit => IInv
  BY StoreInitIInv
<1>2. IInv /\ [StoreNext]_storeVars => IInv'
  BY StoreStepIInv
<1>3. QED BY <1>1, <1>2, PTL DEF StoreSpec

\* A version names one content until a put comes between another client's last
\* look and its put, or from a client that did not look at the object; and no
\* update of a task is made from a load that took it for missing
\* (save_with_lock, state.py:70-79; the fallback of load, state.py:49-52).
THEOREM VersionsNameContents == StoreSpec => []LastLook
<1>1. IInv => LastLook
  BY DEF IInv
<1>2. QED BY <1>1, StoreInvariant, PTL

-----------------------------------------------------------------------------
(* The store implements AtomicStore.                                       *)

\* A put without a race is an atomic update, one with a race breaks the store.
LEMMA StoredIsAtomic ==
    ASSUME NEW c \in Clients, NEW change, IInv, Committed(c), Stored(c, change),
           \/ want[c] # Whole /\ change = want[c]
           \/ want[c] = Whole
    PROVE  AS!AtomicNext
<1>1. CASE raced'
  BY <1>1 DEF AS!AtomicNext, AS!Break
<1>2. CASE ~raced'
  <2>1. ~raced /\ look[c] = "object" /\ UNCHANGED raced
    BY <1>2 DEF Stored, IInv, StoreShape
  <2>2. store' = Updated(store, change)
    BY <2>1 DEF Stored, IInv, LastLook
  <2>3. CASE want[c] # Whole
    <3>1. store' = AS!Updated(store, want[c])
      BY <2>2, <2>3 DEF Updated, Applied, Override, AS!Updated, AS!Applied, AS!Override
    <3>2. AS!Serve(c)
      BY <2>1, <2>3, <3>1 DEF AS!Serve
    <3>3. QED BY <3>2 DEF AS!AtomicNext
  <2>4. CASE want[c] = Whole
    <3>1. store'.version = store.version + 1 /\ DOMAIN store.tasks \subseteq DOMAIN store'.tasks
      BY <2>2 DEF Updated, Applied
    <3>2. AS!Rewrite(c)
      BY <2>1, <2>4, <3>1 DEF AS!Rewrite
    <3>3. QED BY <3>2 DEF AS!AtomicNext
  <2>5. QED BY <2>3, <2>4
<1>3. QED BY <1>1, <1>2

\* Every step of the store is one of AtomicStore.
LEMMA StoreStepIsAtomic ==
    ASSUME IInv, [StoreNext]_storeVars
    PROVE  [AS!AtomicNext]_AS!abstractVars
<1>1. ASSUME NEW c \in Clients, NEW change, Call(c, change) PROVE AS!AtomicNext
  BY <1>1 DEF Call, AS!AtomicNext, AS!Ask
<1>2. ASSUME NEW c \in Clients, NEW how, Load(c, how) \/ Compare(c, how) \/ LoadToSave(c, how) PROVE AS!AtomicNext
  BY <1>2 DEF Load, Compare, LoadToSave, AS!AtomicNext, AS!Ask
<1>3. ASSUME NEW C \in SUBSET Clients, Abandon(C) PROVE AS!AtomicNext
  BY <1>3 DEF Abandon, AS!AtomicNext, AS!Ask
<1>4. ASSUME NEW c \in Clients, Put(c) PROVE AS!AtomicNext
  <2>1. want[c] # Whole
    BY <1>4 DEF Put, IInv, StoreShape
  <2>2. QED BY <1>4, <2>1, StoredIsAtomic DEF Put, Committed
<1>5. ASSUME NEW c \in Clients, Refused(c) PROVE AS!AtomicNext
  BY <1>3, <1>5 DEF Refused
<1>6. ASSUME NEW c \in Clients, Fails(c) PROVE AS!AtomicNext
  <2>1. CASE Abandon({c})
    BY <1>3, <2>1
  <2>2. CASE Put(c)
    BY <1>4, <2>2
  <2>3. QED BY <1>6, <2>1, <2>2 DEF Fails
<1>7. ASSUME NEW c \in Clients, NEW change, Save(c, change) PROVE AS!AtomicNext
  <2>1. want[c] = Whole
    BY <1>7 DEF Save, IInv, StoreShape
  <2>2. QED BY <1>7, <2>1, StoredIsAtomic DEF Save, Committed
<1>8. CASE UNCHANGED storeVars
  BY <1>8 DEF storeVars, AS!abstractVars
<1>9. QED
  BY <1>1, <1>2, <1>3, <1>4, <1>5, <1>6, <1>7, <1>8 DEF StoreNext, StoreStep

\* The store implements its abstract specification: as long as no put races or
\* comes from a client that did not look, update_task and update_heartbeat are
\* atomic (state.py:81-116).
THEOREM StoreIsAtomic == StoreSpec => AtomicStoreSpec
<1>1. StoreInit => ~raced
  BY DEF StoreInit
<1>2. IInv /\ [StoreNext]_storeVars => [AS!AtomicNext]_AS!abstractVars
  BY StoreStepIsAtomic
<1>3. QED
  BY <1>1, <1>2, StoreInvariant, PTL DEF StoreSpec, AtomicStoreSpec, AS!AtomicSpec
=============================================================================

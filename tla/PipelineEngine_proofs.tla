------------------------ MODULE PipelineEngine_proofs ------------------------
(***************************************************************************)
(* TLAPS proofs about PipelineEngine, for every batch of files, sizes and  *)
(* limits of the chunks, queue size, disk, pipe and set of injected faults.*)
(***************************************************************************)
EXTENDS PipelineEngine, FiniteSetTheorems, WellFoundedInduction, TLAPS

-----------------------------------------------------------------------------
(* _make_chunks: Bytes and Plan are recursive functions, so what they are for *)
(* every batch is proved by induction over its length.                       *)

\* Induction, with a set for the predicate.
LEMMA SetInduction ==
    ASSUME NEW T \in SUBSET Nat, 0 \in T, \A n \in T : n + 1 \in T PROVE T = Nat
<1> SUFFICES ASSUME Nat \ T # {} PROVE FALSE
  OBVIOUS
<1>1. PICK m \in Nat \ T : \A n \in Nat \ T : ~(<<n, m>> \in OpToRel(<, Nat))
  BY NatLessThanWellFounded, WFMin
<1>2. \A n \in Nat \ T : ~(n < m)
  BY <1>1 DEF OpToRel
<1>3. m # 0 /\ m - 1 \in Nat /\ m - 1 < m /\ m = (m - 1) + 1
  OBVIOUS
<1>4. m - 1 \in T
  BY <1>2, <1>3
<1>5. QED BY <1>3, <1>4

\* s are the states of a loop of N turns.
LoopRun(N, V, v, turn, s) ==
    s \in [0..N -> V] /\ s[0] = v /\ \A n \in 1..N : s[n] = turn[n][s[n - 1]]

\* A loop each of whose turns maps its state to another has a run.
LEMMA LoopRuns ==
    ASSUME NEW N \in Nat, NEW V, NEW v \in V, NEW turn \in [1..N -> [V -> V]]
    PROVE  \E s : LoopRun(N, V, v, turn, s)
<1> USE DEF LoopRun
<1> DEFINE Runs(n) == \E s \in [0..n -> V] : s[0] = v /\ \A k \in 1..n : s[k] = turn[k][s[k - 1]]
           T == {n \in Nat : n <= N => Runs(n)}
<1>1. 0 \in T
  <2> DEFINE t == [k \in 0..0 |-> v]
  <2>1. t \in [0..0 -> V] /\ t[0] = v
    OBVIOUS
  <2> HIDE DEF t
  <2>2. Runs(0)
    BY <2>1
  <2>3. QED BY <2>2
<1>2. ASSUME NEW n \in T PROVE n + 1 \in T
  <2> SUFFICES ASSUME n + 1 <= N PROVE Runs(n + 1)
    OBVIOUS
  <2>1. n \in Nat /\ n <= N /\ n + 1 \in 1..N
    OBVIOUS
  <2>2. PICK s \in [0..n -> V] : s[0] = v /\ \A k \in 1..n : s[k] = turn[k][s[k - 1]]
    BY <2>1
  <2> DEFINE t == [k \in 0..n + 1 |-> IF k = n + 1 THEN turn[n + 1][s[n]] ELSE s[k]]
  <2>3. t \in [0..n + 1 -> V] /\ t[n + 1] = turn[n + 1][s[n]] /\ \A k \in 0..n : t[k] = s[k]
    <3>1. s[n] \in V /\ turn[n + 1] \in [V -> V]
      BY <2>1
    <3>2. turn[n + 1][s[n]] \in V
      BY <3>1
    <3>3. QED BY <2>1, <3>2
  <2> HIDE DEF t
  <2>4. \A k \in 1..n + 1 : t[k] = turn[k][t[k - 1]]
    <3> TAKE k \in 1..n + 1
    <3>1. CASE k = n + 1
      <4>1. k - 1 = n /\ n \in 0..n
        BY <2>1, <3>1
      <4>2. QED BY <2>3, <3>1, <4>1
    <3>2. CASE k # n + 1
      <4>1. k \in 1..n /\ k \in 0..n /\ k - 1 \in 0..n
        BY <2>1, <3>2
      <4>2. QED BY <2>2, <2>3, <4>1
    <3>3. QED BY <3>1, <3>2
  <2>5. t[0] = v
    BY <2>1, <2>2, <2>3
  <2>6. QED BY <2>3, <2>4, <2>5
<1>3. T = Nat
  <2> HIDE DEF T
  <2>1. T \in SUBSET Nat
    BY DEF T
  <2>2. QED BY <1>1, <1>2, <2>1, SetInduction
<1>4. N \in T
  BY <1>3
<1>5. QED BY <1>4

\* What the constants say of the batch.
LEMMA BatchFacts ==
    /\ Len(Batch) \in Nat /\ Size \in [Files -> Nat]
    /\ \A n \in 1..Len(Batch) : Batch[n] \in Files /\ Size[Batch[n]] \in Nat
    /\ \A n, k \in 1..Len(Batch) : Batch[n] = Batch[k] => n = k
<1>1. Len(Batch) \in Nat /\ \A n \in 1..Len(Batch) : Batch[n] \in Files
  BY BatchAssumption
<1>2. QED BY <1>1, BatchAssumption

\* The sums of which Bytes takes the last one.
SumsOf(S, s) ==
    s = [n \in 0..Len(Batch) |->
            IF n = 0 THEN 0
            ELSE IF Batch[n] \in S THEN s[n - 1] + Size[Batch[n]] ELSE s[n - 1]]
Sums(S) == CHOOSE s : SumsOf(S, s)

LEMMA BytesIs == ASSUME NEW S PROVE Bytes(S) = Sums(S)[Len(Batch)]
BY DEF Bytes, Sums, SumsOf

LEMMA SumsExist == ASSUME NEW S PROVE SumsOf(S, Sums(S))
<1> DEFINE N == Len(Batch)
           turn == [n \in 1..N |-> [x \in Nat |-> IF Batch[n] \in S THEN x + Size[Batch[n]] ELSE x]]
<1>1. N \in Nat /\ turn \in [1..N -> [Nat -> Nat]]
  BY BatchFacts
<1>a. \A n \in 1..N, x \in Nat : turn[n][x] = IF Batch[n] \in S THEN x + Size[Batch[n]] ELSE x
  OBVIOUS
<1> HIDE DEF turn, N
<1>2. PICK s : s \in [0..N -> Nat] /\ s[0] = 0 /\ \A n \in 1..N : s[n] = turn[n][s[n - 1]]
  <2>1. \E s : LoopRun(N, Nat, 0, turn, s)
    BY <1>1, LoopRuns
  <2>2. QED BY <2>1 DEF LoopRun
<1>3. \A n \in 0..N : s[n] = IF n = 0 THEN 0
                           ELSE IF Batch[n] \in S THEN s[n - 1] + Size[Batch[n]] ELSE s[n - 1]
  <2> TAKE n \in 0..N
  <2>1. CASE n = 0
    BY <1>2, <2>1
  <2>2. CASE n # 0
    <3>1. n \in 1..N /\ n - 1 \in 0..N
      BY <1>1, <2>2
    <3>2. s[n - 1] \in Nat
      BY <1>2, <3>1
    <3>3. QED BY <1>2, <1>a, <2>2, <3>1, <3>2
  <2>3. QED BY <2>1, <2>2
<1>4. s = [n \in 0..N |-> s[n]]
  BY <1>2
<1>5. SumsOf(S, s)
  BY <1>3, <1>4 DEF SumsOf, N
<1>6. QED BY <1>5 DEF Sums

LEMMA SumsAt ==
    ASSUME NEW S
    PROVE  /\ Sums(S)[0] = 0
           /\ \A n \in 1..Len(Batch) :
                Sums(S)[n] = IF Batch[n] \in S THEN Sums(S)[n - 1] + Size[Batch[n]] ELSE Sums(S)[n - 1]
<1> DEFINE s == Sums(S)
<1>1. SumsOf(S, s)
  BY SumsExist
<1> HIDE DEF s
<1>2. \A n \in 0..Len(Batch) : s[n] = IF n = 0 THEN 0
                           ELSE IF Batch[n] \in S THEN s[n - 1] + Size[Batch[n]] ELSE s[n - 1]
  BY <1>1 DEF SumsOf
<1>3. s[0] = 0 /\ \A n \in 1..Len(Batch) :
                s[n] = IF Batch[n] \in S THEN s[n - 1] + Size[Batch[n]] ELSE s[n - 1]
  BY <1>2, BatchFacts
<1>4. QED BY <1>3 DEF s

\* The files of two sets that have none in common occupy what those of each do.
LEMMA BytesOfUnion ==
    ASSUME NEW S, NEW R, S \intersect R = {}
    PROVE  /\ Bytes(S) \in Nat /\ Bytes(R) \in Nat /\ Bytes(S \union R) = Bytes(S) + Bytes(R)
<1> DEFINE a == Sums(S)
           b == Sums(R)
           c == Sums(S \union R)
           T == {n \in Nat : n <= Len(Batch) => a[n] \in Nat /\ b[n] \in Nat /\ c[n] = a[n] + b[n]}
<1>0. /\ a[0] = 0 /\ b[0] = 0 /\ c[0] = 0
      /\ \A n \in 1..Len(Batch) : a[n] = IF Batch[n] \in S THEN a[n - 1] + Size[Batch[n]] ELSE a[n - 1]
      /\ \A n \in 1..Len(Batch) : b[n] = IF Batch[n] \in R THEN b[n - 1] + Size[Batch[n]] ELSE b[n - 1]
      /\ \A n \in 1..Len(Batch) :
            c[n] = IF Batch[n] \in S \union R THEN c[n - 1] + Size[Batch[n]] ELSE c[n - 1]
  BY SumsAt
<1> HIDE DEF a, b, c
<1>1. 0 \in T
  BY <1>0
<1>2. ASSUME NEW n \in T PROVE n + 1 \in T
  <2> SUFFICES ASSUME n + 1 <= Len(Batch)
               PROVE  a[n + 1] \in Nat /\ b[n + 1] \in Nat /\ c[n + 1] = a[n + 1] + b[n + 1]
    OBVIOUS
  <2>1. /\ n \in Nat /\ n + 1 \in 1..Len(Batch) /\ (n + 1) - 1 = n
        /\ a[n] \in Nat /\ b[n] \in Nat /\ c[n] = a[n] + b[n]
    BY BatchFacts
  <2>2. Size[Batch[n + 1]] \in Nat
    BY <2>1, BatchFacts
  <2>3. /\ a[n + 1] = IF Batch[n + 1] \in S THEN a[n] + Size[Batch[n + 1]] ELSE a[n]
        /\ b[n + 1] = IF Batch[n + 1] \in R THEN b[n] + Size[Batch[n + 1]] ELSE b[n]
        /\ c[n + 1] = IF Batch[n + 1] \in S \union R THEN c[n] + Size[Batch[n + 1]] ELSE c[n]
    <3> DEFINE m == n + 1
    <3>1. m \in 1..Len(Batch) /\ m - 1 = n
      BY <2>1
    <3> HIDE DEF m
    <3>2. /\ a[m] = IF Batch[m] \in S THEN a[n] + Size[Batch[m]] ELSE a[n]
          /\ b[m] = IF Batch[m] \in R THEN b[n] + Size[Batch[m]] ELSE b[n]
          /\ c[m] = IF Batch[m] \in S \union R THEN c[n] + Size[Batch[m]] ELSE c[n]
      BY <1>0, <3>1
    <3>3. QED BY <3>2 DEF m
  <2>4. ~(Batch[n + 1] \in S /\ Batch[n + 1] \in R)
    OBVIOUS
  <2>5. QED BY <2>1, <2>2, <2>3, <2>4
<1>3. T = Nat
  <2> HIDE DEF T
  <2>1. T \in SUBSET Nat
    BY DEF T
  <2>2. QED BY <1>1, <1>2, <2>1, SetInduction
<1>4. Len(Batch) \in T
  BY <1>3, BatchFacts
<1>5. a[Len(Batch)] \in Nat /\ b[Len(Batch)] \in Nat /\ c[Len(Batch)] = a[Len(Batch)] + b[Len(Batch)]
  BY <1>4, BatchFacts
<1>6. QED BY <1>5, BytesIs DEF a, b, c

\* No files occupy nothing, and one its size.
LEMMA BytesOfOne == Bytes({}) = 0 /\ \A f \in Files : Bytes({f}) = Size[f]
<1>1. Bytes({}) = 0
  <2> DEFINE none == {}
             b == Bytes(none)
  <2>1. none \intersect none = {} /\ none \union none = none
    OBVIOUS
  <2>2. b \in Nat /\ b = b + b
    <3> HIDE DEF none
    <3>1. Bytes(none) \in Nat /\ Bytes(none \union none) = Bytes(none) + Bytes(none)
      BY <2>1, BytesOfUnion
    <3>2. QED BY <2>1, <3>1
  <2>3. b = 0
    <3> HIDE DEF b
    <3>1. QED BY <2>2
  <2>4. QED BY <2>3
<1>2. ASSUME NEW k \in 1..Len(Batch) PROVE Bytes({Batch[k]}) = Size[Batch[k]]
  <2> DEFINE s == Sums({Batch[k]})
             T == {n \in Nat : n <= Len(Batch) => s[n] = IF n >= k THEN Size[Batch[k]] ELSE 0}
  <2>0. s[0] = 0 /\ \A n \in 1..Len(Batch) :
            s[n] = IF Batch[n] \in {Batch[k]} THEN s[n - 1] + Size[Batch[n]] ELSE s[n - 1]
    BY SumsAt
  <2> HIDE DEF s
  <2>1. 0 \in T
    BY <2>0
  <2>2. ASSUME NEW n \in T PROVE n + 1 \in T
    <3> SUFFICES ASSUME n + 1 <= Len(Batch)
                 PROVE  s[n + 1] = IF n + 1 >= k THEN Size[Batch[k]] ELSE 0
      OBVIOUS
    <3> DEFINE m == n + 1
    <3>1. n \in Nat /\ m \in 1..Len(Batch) /\ m - 1 = n /\ s[n] = IF n >= k THEN Size[Batch[k]] ELSE 0
      BY BatchFacts
    <3>2. m >= k <=> n >= k \/ m = k
      BY <3>1
    <3>3. m = k => ~(n >= k)
      BY <3>1
    <3>4. Batch[m] \in {Batch[k]} <=> m = k
      BY <3>1, BatchFacts
    <3>5. Size[Batch[k]] \in Nat
      BY BatchFacts
    <3> HIDE DEF m
    <3>6. s[m] = IF m = k THEN s[n] + Size[Batch[m]] ELSE s[n]
      BY <2>0, <3>1, <3>4
    <3>7. s[m] = IF m >= k THEN Size[Batch[k]] ELSE 0
      BY <3>1, <3>2, <3>3, <3>5, <3>6
    <3>8. QED BY <3>7 DEF m
  <2>3. T = Nat
    <3> HIDE DEF T
    <3>1. T \in SUBSET Nat
      BY DEF T
    <3>2. QED BY <2>1, <2>2, <3>1, SetInduction
  <2>4. Len(Batch) \in T
    BY <2>3, BatchFacts
  <2>5. s[Len(Batch)] = Size[Batch[k]]
    BY <2>4, BatchFacts
  <2>6. QED BY <2>5, BytesIs DEF s
<1>3. QED BY <1>1, <1>2 DEF Files

\* More files occupy no less.
LEMMA BytesMonotone == ASSUME NEW S, NEW R, S \subseteq R PROVE Bytes(S) <= Bytes(R)
<1>1. S \union (R \ S) = R /\ S \intersect (R \ S) = {}
  OBVIOUS
<1>2. Bytes(S) \in Nat /\ Bytes(R \ S) \in Nat /\ Bytes(R) = Bytes(S) + Bytes(R \ S)
  BY <1>1, BytesOfUnion
<1>3. QED BY <1>2

\* A turn of the loop.
Plans == [chunks : Seq(SUBSET Files), current : SUBSET Files, bytes : Nat]
Turn(plan, f) ==
    IF Full(plan, f)
    THEN [chunks |-> Append(plan.chunks, plan.current), current |-> {f}, bytes |-> Size[f]]
    ELSE [chunks |-> plan.chunks, current |-> plan.current \union {f},
          bytes |-> plan.bytes + Size[f]]
NoPlan == [chunks |-> <<>>, current |-> {}, bytes |-> 0]

LEMMA TurnTyped == ASSUME NEW plan \in Plans, NEW f \in Files PROVE Turn(plan, f) \in Plans
<1>1. Size[f] \in Nat
  BY BatchFacts
<1>2. Append(plan.chunks, plan.current) \in Seq(SUBSET Files)
  BY DEF Plans
<1>3. plan.current \union {f} \in SUBSET Files /\ plan.bytes + Size[f] \in Nat
  BY <1>1 DEF Plans
<1>4. plan.chunks \in Seq(SUBSET Files)
  BY DEF Plans
<1>5. QED BY <1>1, <1>2, <1>3, <1>4 DEF Plans, Turn

PlanOf(s) ==
    s = [n \in 0..Len(Batch) |->
            IF n = 0 THEN [chunks |-> <<>>, current |-> {}, bytes |-> 0]
            ELSE LET plan == s[n - 1]
                     f == Batch[n]
                 IN  IF Full(plan, f)
                     THEN [chunks |-> Append(plan.chunks, plan.current), current |-> {f}, bytes |-> Size[f]]
                     ELSE [chunks |-> plan.chunks, current |-> plan.current \union {f},
                           bytes |-> plan.bytes + Size[f]]]

LEMMA PlanExists == PlanOf(Plan)
<1> DEFINE N == Len(Batch)
           turn == [n \in 1..N |-> [plan \in Plans |-> Turn(plan, Batch[n])]]
<1>1. N \in Nat /\ turn \in [1..N -> [Plans -> Plans]] /\ NoPlan \in Plans
  <2>1. \A n \in 1..N, plan \in Plans : Turn(plan, Batch[n]) \in Plans
    BY BatchFacts, TurnTyped
  <2>2. NoPlan \in Plans
    BY DEF NoPlan, Plans
  <2>3. QED BY <2>1, <2>2, BatchFacts
<1>a. \A n \in 1..N, plan \in Plans : turn[n][plan] = Turn(plan, Batch[n])
  OBVIOUS
<1> HIDE DEF turn, N
<1>2. PICK s : s \in [0..N -> Plans] /\ s[0] = NoPlan /\ \A n \in 1..N : s[n] = turn[n][s[n - 1]]
  <2>1. \E s : LoopRun(N, Plans, NoPlan, turn, s)
    BY <1>1, LoopRuns
  <2>2. QED BY <2>1 DEF LoopRun
<1>3. \A n \in 0..N : s[n] = IF n = 0 THEN NoPlan ELSE Turn(s[n - 1], Batch[n])
  <2> TAKE n \in 0..N
  <2>1. CASE n = 0
    BY <1>2, <2>1
  <2>2. CASE n # 0
    <3>1. n \in 1..N /\ n - 1 \in 0..N
      BY <1>1, <2>2
    <3>2. s[n - 1] \in Plans
      BY <1>2, <3>1
    <3>3. QED BY <1>2, <1>a, <2>2, <3>1, <3>2
  <2>3. QED BY <2>1, <2>2
<1>4. s = [n \in 0..N |-> IF n = 0 THEN NoPlan ELSE Turn(s[n - 1], Batch[n])]
  <2>1. s = [n \in 0..N |-> s[n]]
    BY <1>2
  <2>2. QED BY <1>3, <2>1
<1>5. PlanOf(s)
  BY <1>4 DEF PlanOf, N, NoPlan, Turn
<1>6. Plan = CHOOSE p : PlanOf(p)
  BY DEF Plan, PlanOf
<1>7. QED BY <1>5, <1>6

\* Plan is the loop of _make_chunks.
LEMMA PlanTurns ==
    Plan[0] = NoPlan /\ \A n \in 1..Len(Batch) : Plan[n] = Turn(Plan[n - 1], Batch[n])
<1> DEFINE p == Plan
<1>1. PlanOf(p)
  BY PlanExists
<1> HIDE DEF p
<1>2. p = [n \in 0..Len(Batch) |-> IF n = 0 THEN NoPlan ELSE Turn(p[n - 1], Batch[n])]
  BY <1>1 DEF PlanOf, NoPlan, Turn
<1>3. \A n \in 0..Len(Batch) : p[n] = IF n = 0 THEN NoPlan ELSE Turn(p[n - 1], Batch[n])
  BY <1>2
<1>4. p[0] = NoPlan /\ \A n \in 1..Len(Batch) : p[n] = Turn(p[n - 1], Batch[n])
  BY <1>3, BatchFacts
<1>5. QED BY <1>4 DEF p

\* A chunk within the limits: of one file, or of few and small ones.
WithinLimits(chunk) ==
    /\ chunk # {} /\ chunk \subseteq Files /\ IsFiniteSet(chunk)
    /\ Cardinality(chunk) <= ChunkMaxFiles
    /\ Bytes(chunk) <= ChunkMaxBytes \/ \E f \in Files : chunk = {f}

\* After n turns the first n files are in the chunks and in the current one,
\* each once.
PlanFacts(plan, n) ==
    /\ plan \in Plans
    /\ plan.bytes = Bytes(plan.current)
    /\ n > 0 => WithinLimits(plan.current)
    /\ plan.current \subseteq {Batch[k] : k \in 1..n}
    /\ \A i \in 1..Len(plan.chunks) :
          /\ WithinLimits(plan.chunks[i]) /\ plan.chunks[i] \subseteq {Batch[k] : k \in 1..n}
          /\ plan.chunks[i] \intersect plan.current = {}
    /\ \A i, j \in 1..Len(plan.chunks) : i # j => plan.chunks[i] \intersect plan.chunks[j] = {}
    /\ \A k \in 1..n : Batch[k] \in plan.current \/ \E i \in 1..Len(plan.chunks) : Batch[k] \in plan.chunks[i]

LEMMA PlanStep ==
    ASSUME NEW n \in Nat, n + 1 \in 1..Len(Batch), NEW plan, PlanFacts(plan, n), n = 0 => plan.current = {}
    PROVE  PlanFacts(Turn(plan, Batch[n + 1]), n + 1)
<1> DEFINE f == Batch[n + 1]
           new == Turn(plan, f)
           Seen(k) == {Batch[i] : i \in 1..k}
<1>1. f \in Files /\ Size[f] \in Nat /\ f \notin Seen(n) /\ Seen(n + 1) = Seen(n) \union {f}
  <2>1. \A i \in 1..n : i \in 1..Len(Batch) /\ i # n + 1
    BY BatchFacts
  <2>2. f \notin Seen(n)
    BY <2>1, BatchFacts
  <2>3. 1..(n + 1) = 1..n \union {n + 1}
    OBVIOUS
  <2>4. Seen(n + 1) = Seen(n) \union {f}
    BY <2>3
  <2>5. QED BY <2>2, <2>4, BatchFacts
<1>2. /\ plan \in Plans /\ plan.bytes = Bytes(plan.current) /\ plan.current \subseteq Seen(n)
      /\ \A i \in 1..Len(plan.chunks) :
          /\ WithinLimits(plan.chunks[i]) /\ plan.chunks[i] \subseteq Seen(n)
          /\ plan.chunks[i] \intersect plan.current = {}
      /\ \A i, j \in 1..Len(plan.chunks) : i # j => plan.chunks[i] \intersect plan.chunks[j] = {}
      /\ \A x \in Seen(n) : x \in plan.current \/ \E i \in 1..Len(plan.chunks) : x \in plan.chunks[i]
      /\ plan.current # {} => WithinLimits(plan.current)
      /\ Len(plan.chunks) \in Nat
  <2>1. plan.current # {} => n > 0
    OBVIOUS
  <2>2. Len(plan.chunks) \in Nat
    BY DEF PlanFacts, Plans
  <2>3. QED BY <2>1, <2>2 DEF PlanFacts
<1>3. new \in Plans
  BY <1>1, <1>2, TurnTyped
<1>4. WithinLimits({f})
  <2>1. IsFiniteSet({f}) /\ Cardinality({f}) = 1
    BY FS_Singleton
  <2>2. QED BY <1>1, <2>1, LimitsAssumption DEF WithinLimits
<1>5. Bytes({f}) = Size[f]
  BY <1>1, BytesOfOne
<1> DEFINE NewFacts ==
        /\ new.bytes = Bytes(new.current)
        /\ WithinLimits(new.current)
        /\ new.current \subseteq Seen(n + 1)
        /\ \A i \in 1..Len(new.chunks) :
              /\ WithinLimits(new.chunks[i]) /\ new.chunks[i] \subseteq Seen(n + 1)
              /\ new.chunks[i] \intersect new.current = {}
        /\ \A i, j \in 1..Len(new.chunks) : i # j => new.chunks[i] \intersect new.chunks[j] = {}
        /\ \A x \in Seen(n + 1) : x \in new.current \/ \E i \in 1..Len(new.chunks) : x \in new.chunks[i]
<1>6. ASSUME Full(plan, f) PROVE NewFacts
  <2>1. /\ new.current = {f} /\ new.bytes = Size[f]
        /\ new.chunks = Append(plan.chunks, plan.current)
    BY <1>6 DEF Turn
  <2> DEFINE m == Len(plan.chunks)
  <2>2. /\ m \in Nat /\ Len(new.chunks) = m + 1 /\ new.chunks[m + 1] = plan.current
        /\ \A i \in 1..m : new.chunks[i] = plan.chunks[i]
        /\ 1..Len(new.chunks) = 1..m \union {m + 1}
    BY <1>2, <2>1 DEF Plans
  <2>3. plan.current # {}
    BY <1>6 DEF Full
  <2> HIDE DEF f, new, Seen, m
  <2>4. \A i \in 1..Len(new.chunks) :
              /\ WithinLimits(new.chunks[i]) /\ new.chunks[i] \subseteq Seen(n + 1)
              /\ new.chunks[i] \intersect new.current = {}
    <3> TAKE i \in 1..Len(new.chunks)
    <3>1. WithinLimits(new.chunks[i]) /\ new.chunks[i] \subseteq Seen(n)
      BY <1>2, <2>2, <2>3 DEF m
    <3>2. QED BY <1>1, <2>1, <3>1
  <2>5. \A i, j \in 1..Len(new.chunks) : i # j => new.chunks[i] \intersect new.chunks[j] = {}
    <3> TAKE i, j \in 1..Len(new.chunks)
    <3>1. CASE i \in 1..m /\ j \in 1..m
      BY <1>2, <2>2, <3>1 DEF m
    <3>2. CASE i = m + 1 /\ j \in 1..m
      BY <1>2, <2>2, <3>2 DEF m
    <3>3. CASE i \in 1..m /\ j = m + 1
      BY <1>2, <2>2, <3>3 DEF m
    <3>4. CASE i = m + 1 /\ j = m + 1
      BY <3>4
    <3>5. QED BY <2>2, <3>1, <3>2, <3>3, <3>4
  <2>6. \A x \in Seen(n + 1) : x \in new.current \/ \E i \in 1..Len(new.chunks) : x \in new.chunks[i]
    <3> TAKE x \in Seen(n + 1)
    <3>1. CASE x = f
      BY <2>1, <3>1
    <3>2. CASE x \in plan.current
      BY <2>2, <3>2
    <3>3. CASE \E i \in 1..m : x \in plan.chunks[i]
      BY <2>2, <3>3
    <3>4. QED BY <1>1, <1>2, <3>1, <3>2, <3>3 DEF m
  <2>7. new.bytes = Bytes(new.current) /\ WithinLimits(new.current) /\ new.current \subseteq Seen(n + 1)
    BY <1>1, <1>4, <1>5, <2>1
  <2>8. QED BY <2>4, <2>5, <2>6, <2>7
<1>7. ASSUME ~Full(plan, f) PROVE NewFacts
  <2>1. /\ new.current = plan.current \union {f} /\ new.bytes = plan.bytes + Size[f]
        /\ new.chunks = plan.chunks
    BY <1>2, <1>7 DEF Turn, Plans
  <2>2. f \notin plan.current
    BY <1>1, <1>2
  <2>3. new.bytes = Bytes(new.current)
    <3>1. plan.current \intersect {f} = {}
      BY <2>2
    <3>2. Bytes(plan.current \union {f}) = Bytes(plan.current) + Bytes({f})
      BY <3>1, BytesOfUnion
    <3>3. QED BY <1>2, <1>5, <2>1, <3>2
  <2>4. WithinLimits(new.current)
    <3>1. CASE plan.current = {}
      <4>1. new.current = {f}
        BY <2>1, <3>1
      <4>2. QED BY <1>4, <4>1
    <3>2. CASE plan.current # {}
      <4>1. /\ plan.bytes + Size[f] <= ChunkMaxBytes /\ ~(Cardinality(plan.current) >= ChunkMaxFiles)
            /\ WithinLimits(plan.current)
        <5>1. plan.bytes \in Nat
          BY <1>2 DEF Plans
        <5>2. QED BY <1>1, <1>2, <1>7, <3>2, <5>1, LimitsAssumption DEF Full
      <4>2. IsFiniteSet(plan.current) /\ Cardinality(plan.current) \in Nat
        BY <4>1, FS_CardinalityType DEF WithinLimits
      <4>3. IsFiniteSet(plan.current \union {f})
            /\ Cardinality(plan.current \union {f}) = Cardinality(plan.current) + 1
        BY <2>2, <4>2, FS_AddElement
      <4>4. Cardinality(new.current) <= ChunkMaxFiles
        BY <2>1, <4>1, <4>2, <4>3, LimitsAssumption
      <4>5. Bytes(new.current) <= ChunkMaxBytes
        BY <2>1, <2>3, <4>1
      <4>6. new.current # {} /\ new.current \subseteq Files
        BY <1>1, <2>1, <4>1 DEF WithinLimits
      <4>7. QED BY <2>1, <4>3, <4>4, <4>5, <4>6 DEF WithinLimits
    <3>3. QED BY <3>1, <3>2
  <2> HIDE DEF f, new, Seen
  <2>5. \A i \in 1..Len(new.chunks) :
              /\ WithinLimits(new.chunks[i]) /\ new.chunks[i] \subseteq Seen(n + 1)
              /\ new.chunks[i] \intersect new.current = {}
    BY <1>1, <1>2, <2>1
  <2>6. \A i, j \in 1..Len(new.chunks) : i # j => new.chunks[i] \intersect new.chunks[j] = {}
    BY <1>2, <2>1
  <2>7. \A x \in Seen(n + 1) : x \in new.current \/ \E i \in 1..Len(new.chunks) : x \in new.chunks[i]
    BY <1>1, <1>2, <2>1
  <2>8. new.current \subseteq Seen(n + 1)
    BY <1>1, <1>2, <2>1
  <2>9. QED BY <2>3, <2>4, <2>5, <2>6, <2>7, <2>8
<1>8. NewFacts
  BY <1>6, <1>7
<1>9. \A k \in 1..n + 1 : Batch[k] \in Seen(n + 1)
  OBVIOUS
<1> HIDE DEF new
<1>10. QED BY <1>3, <1>8, <1>9 DEF PlanFacts, new

LEMMA PlanLoop == \A n \in 0..Len(Batch) : PlanFacts(Plan[n], n) /\ (n = 0 => Plan[n].current = {})
<1> DEFINE Good(n) == PlanFacts(Plan[n], n) /\ (n = 0 => Plan[n].current = {})
           T == {n \in Nat : n <= Len(Batch) => Good(n)}
<1>1. 0 \in T
  <2>1. Plan[0] = NoPlan
    BY PlanTurns
  <2>2. /\ NoPlan \in Plans /\ NoPlan.current = {} /\ NoPlan.bytes = 0
        /\ NoPlan.chunks = <<>> /\ Len(NoPlan.chunks) = 0
    BY DEF NoPlan, Plans
  <2>3. PlanFacts(NoPlan, 0)
    BY <2>2, BytesOfOne DEF PlanFacts
  <2>4. Good(0)
    BY <2>1, <2>2, <2>3
  <2>5. QED BY <2>4
<1>2. ASSUME NEW n \in T PROVE n + 1 \in T
  <2> SUFFICES ASSUME n + 1 <= Len(Batch) PROVE Good(n + 1)
    OBVIOUS
  <2>1. n \in Nat /\ n + 1 \in 1..Len(Batch) /\ Good(n) /\ (n + 1) - 1 = n /\ n + 1 # 0
    BY BatchFacts
  <2>2. PlanFacts(Turn(Plan[n], Batch[n + 1]), n + 1)
    BY <2>1, PlanStep
  <2>3. Plan[n + 1] = Turn(Plan[n], Batch[n + 1])
    BY <2>1, PlanTurns
  <2>4. QED BY <2>1, <2>2, <2>3
<1>3. T = Nat
  <2> HIDE DEF T
  <2>1. T \in SUBSET Nat
    BY DEF T
  <2>2. QED BY <1>1, <1>2, <2>1, SetInduction
<1> HIDE DEF Good
<1>4. \A n \in 0..Len(Batch) : Good(n)
  BY <1>3, BatchFacts
<1>5. QED BY <1>4 DEF Good

\* _make_chunks cuts the batch into chunks that hold every file once.
THEOREM ChunksPartition ==
    /\ Chunks \in Seq(SUBSET Files)
    /\ UNION {Chunks[i] : i \in 1..Len(Chunks)} = Files
    /\ \A i, j \in 1..Len(Chunks) : i # j => Chunks[i] \intersect Chunks[j] = {}
    /\ \A i \in 1..Len(Chunks) : WithinLimits(Chunks[i])
<1> DEFINE plan == Plan[Len(Batch)]
           m == Len(plan.chunks)
<1>1. PlanFacts(plan, Len(Batch)) /\ (Len(Batch) = 0 => plan.current = {})
  BY PlanLoop, BatchFacts
<1>2. Chunks = IF plan.current = {} THEN plan.chunks ELSE Append(plan.chunks, plan.current)
  BY DEF Chunks
<1> HIDE DEF plan
<1>3. plan.chunks \in Seq(SUBSET Files) /\ plan.current \in SUBSET Files /\ m \in Nat
  BY <1>1 DEF PlanFacts, Plans
<1>4. plan.current # {} => WithinLimits(plan.current)
  <2>1. plan.current # {} => Len(Batch) > 0
    BY <1>1, BatchFacts
  <2>2. QED BY <1>1, <2>1 DEF PlanFacts
<1>5. \A x \in Files : x \in plan.current \/ \E i \in 1..m : x \in plan.chunks[i]
  BY <1>1 DEF PlanFacts, Files
<1>6. /\ \A i \in 1..m : WithinLimits(plan.chunks[i]) /\ plan.chunks[i] \intersect plan.current = {}
      /\ \A i, j \in 1..m : i # j => plan.chunks[i] \intersect plan.chunks[j] = {}
  BY <1>1 DEF PlanFacts
<1>7. CASE plan.current = {}
  <2>1. Chunks = plan.chunks
    BY <1>2, <1>7
  <2>2. \A x \in Files : \E i \in 1..Len(Chunks) : x \in Chunks[i]
    BY <1>5, <1>7, <2>1
  <2>3. \A i \in 1..Len(Chunks) : Chunks[i] \subseteq Files
    BY <1>3, <2>1
  <2>4. UNION {Chunks[i] : i \in 1..Len(Chunks)} = Files
    BY <2>2, <2>3
  <2>5. QED BY <1>3, <1>6, <2>1, <2>4
<1>8. CASE plan.current # {}
  <2>1. Chunks = Append(plan.chunks, plan.current)
    BY <1>2, <1>8
  <2>2. /\ Chunks \in Seq(SUBSET Files) /\ Len(Chunks) = m + 1 /\ Chunks[m + 1] = plan.current
        /\ \A i \in 1..m : Chunks[i] = plan.chunks[i]
        /\ 1..Len(Chunks) = 1..m \union {m + 1}
    BY <1>3, <2>1
  <2> HIDE DEF m
  <2>3. \A x \in Files : \E i \in 1..Len(Chunks) : x \in Chunks[i]
    BY <1>5, <2>2
  <2>4. \A i \in 1..Len(Chunks) : Chunks[i] \subseteq Files
    BY <2>2
  <2>5. UNION {Chunks[i] : i \in 1..Len(Chunks)} = Files
    BY <2>3, <2>4
  <2>6. \A i \in 1..Len(Chunks) : WithinLimits(Chunks[i])
    BY <1>4, <1>6, <1>8, <2>2
  <2>7. \A i, j \in 1..Len(Chunks) : i # j => Chunks[i] \intersect Chunks[j] = {}
    <3> TAKE i, j \in 1..Len(Chunks)
    <3>1. CASE i \in 1..m /\ j \in 1..m
      BY <1>6, <2>2, <3>1
    <3>2. CASE i = m + 1 /\ j \in 1..m
      BY <1>6, <2>2, <3>2
    <3>3. CASE i \in 1..m /\ j = m + 1
      BY <1>6, <2>2, <3>3
    <3>4. CASE i = m + 1 /\ j = m + 1
      BY <3>4
    <3>5. QED BY <2>2, <3>1, <3>2, <3>3, <3>4
  <2>8. QED BY <2>2, <2>5, <2>6, <2>7
<1>9. QED BY <1>7, <1>8

-----------------------------------------------------------------------------
(* The engine's invariant.                                                   *)

\* The tuples of variables that UNCHANGED names.
USE DEF diskVars, runVars, prodVars, procVars, consVars, upVars, lateVars

\* Every chunk consists of files of the batch, and what a chunk contains is
\* contained in no other.
LEMMA ChunkFacts ==
    /\ NumChunks \in Nat
    /\ \A i \in ChunkIds : Chunks[i] \subseteq Files
    /\ \A i, j \in ChunkIds : i # j => Chunks[i] \intersect Chunks[j] = {}
    /\ None \notin ChunkIds
<1>1. /\ Len(Chunks) \in Nat
      /\ \A i \in 1..Len(Chunks) : Chunks[i] \subseteq Files
      /\ \A i, j \in 1..Len(Chunks) : i # j => Chunks[i] \intersect Chunks[j] = {}
  BY ChunksPartition
<1>2. QED BY <1>1 DEF NumChunks, ChunkIds, None

\* Taking one more chunk adds exactly its files to the files taken, and they are new.
LEMMA TakeOneMore ==
    ASSUME NEW k \in Nat, k + 1 \in ChunkIds
    PROVE  /\ UNION {Chunks[i] : i \in 1..(k + 1)}
                = (UNION {Chunks[i] : i \in 1..k}) \union Chunks[k + 1]
           /\ Chunks[k + 1] \intersect (UNION {Chunks[i] : i \in 1..k}) = {}
<1>1. 1..(k + 1) = 1..k \union {k + 1}
  OBVIOUS
<1>2. 1..k \subseteq ChunkIds /\ k + 1 \notin 1..k
  BY ChunkFacts DEF ChunkIds
<1>3. \A i \in 1..k : Chunks[i] \intersect Chunks[k + 1] = {}
  BY <1>2, ChunkFacts
<1> QED
  BY <1>1, <1>3

\* All chunks together are the whole batch.
LEMMA AllTaken == UNION {Chunks[i] : i \in 1..NumChunks} = Files
BY ChunksPartition DEF NumChunks

\* A new engine satisfies the invariant.
LEMMA InitIInv == Init => IInv
<1> SUFFICES ASSUME Init PROVE IInv
  OBVIOUS
<1> USE ChunkFacts, BoundsAssumption DEF Init
<1>1. TypeOK
  <2>1. next \in 1..(NumChunks + 1) /\ pipe \in 0..PipeCapacity /\ attempt \in Nat
    OBVIOUS
  <2>2. queue \in Seq({None} \union ChunkIds)
    OBVIOUS
  <2>3. taken \in {None} \union ChunkIds
    BY DEF None
  <2> QED
    BY <2>1, <2>2, <2>3 DEF TypeOK, RunStates
<1>2. QueueShape /\ ProducerState
  BY DEF QueueShape, ProducerState
<1>3. UploadState
  BY DEF UploadState, TakenFiles
<1>4. QueuedIsStaged /\ InFlight /\ NothingInFlight
  BY DEF QueuedIsStaged, InFlight, NothingInFlight
<1>5. OnlyErrorsFail /\ Accounted /\ NoLoss /\ ProcessReaped
  BY DEF OnlyErrorsFail, Accounted, NoLoss, ProcessReaped
<1> QED
  BY <1>1, <1>2, <1>3, <1>4, <1>5 DEF IInv

\* Steps of the producer.
LEMMA ProducerIInv ==
    ASSUME IInv, Producer PROVE IInv'
<1> USE ChunkFacts, BoundsAssumption, FaultsAssumption DEF IInv, ChunkIds, None
<1>1. CASE Pause
  BY <1>1 DEF Pause, TypeOK, QueueShape, ProducerState, UploadState, TakenFiles,
     QueuedIsStaged, InFlight, NothingInFlight, OnlyErrorsFail, Accounted, NoLoss, ProcessReaped
<1>2. CASE Wake
  BY <1>2 DEF Wake, TypeOK, QueueShape, ProducerState, UploadState, TakenFiles,
     QueuedIsStaged, InFlight, NothingInFlight, OnlyErrorsFail, Accounted, NoLoss, ProcessReaped
<1>3. CASE StartDownload
  <2> USE <1>3 DEF StartDownload
  <2>1. TypeOK'
    <3>1. pipe' \in 0..PipeCapacity
      OBVIOUS
    <3>2. proc' \in BOOLEAN /\ hurt' \in BOOLEAN
      BY Zenon
    <3> QED
      BY <3>1, <3>2 DEF TypeOK
  <2>2. QueueShape'
    BY DEF QueueShape, TypeOK, ProducerState
  <2>3. ProducerState'
    BY DEF ProducerState, QueueShape, TypeOK
  <2>4. UploadState'
    BY DEF UploadState, TakenFiles, TypeOK
  <2>5. QueuedIsStaged'
    BY DEF QueuedIsStaged, TypeOK, QueueShape, UploadState, TakenFiles
  <2>6. InFlight'
    BY DEF InFlight, TypeOK, UploadState, QueuedIsStaged
  <2>7. NothingInFlight'
    BY DEF NothingInFlight, UploadState
  <2>8. OnlyErrorsFail'
    BY DEF OnlyErrorsFail
  <2>9. Accounted'
    BY DEF Accounted
  <2>10. NoLoss'
    BY DEF NoLoss
  <2>11. ProcessReaped'
    BY DEF ProcessReaped
  <2> QED
    BY <2>1, <2>2, <2>3, <2>4, <2>5, <2>6, <2>7, <2>8, <2>9, <2>10, <2>11
<1>4. CASE PutChunk
  <2> USE <1>4 DEF PutChunk
  <2>1. next \in ChunkIds /\ Len(queue) = next - 1 - taken
    BY DEF ProducerState, QueueShape, TypeOK
  <2>2. TypeOK'
    BY <2>1 DEF TypeOK
  <2>3. QueueShape'
    BY <2>1 DEF QueueShape, TypeOK
  <2>4. ProducerState'
    BY <2>1 DEF ProducerState
  <2>5. UploadState'
    BY DEF UploadState, TakenFiles
  <2>6. QueuedIsStaged'
    BY <2>1 DEF QueuedIsStaged, TypeOK
  <2>7. InFlight' /\ NothingInFlight' /\ OnlyErrorsFail' /\ Accounted' /\ NoLoss' /\ ProcessReaped'
    BY DEF InFlight, NothingInFlight, OnlyErrorsFail, Accounted, NoLoss, ProcessReaped
  <2> QED
    BY <2>2, <2>3, <2>4, <2>5, <2>6, <2>7
<1>5. CASE LoopOver
  BY <1>5 DEF LoopOver, TypeOK, QueueShape, ProducerState, UploadState, TakenFiles,
     QueuedIsStaged, InFlight, NothingInFlight, OnlyErrorsFail, Accounted, NoLoss, ProcessReaped
<1>6. CASE PutNone
  BY <1>6 DEF PutNone, TypeOK, QueueShape, ProducerState, UploadState, TakenFiles,
     QueuedIsStaged, InFlight, NothingInFlight, OnlyErrorsFail, Accounted, NoLoss, ProcessReaped
<1> QED
  BY <1>1, <1>2, <1>3, <1>4, <1>5, <1>6 DEF Producer

\* Steps of the consumer between two uploads.
LEMMA ConsumerIInv ==
    ASSUME IInv, Consumer PROVE IInv'
<1> USE ChunkFacts, BoundsAssumption, FaultsAssumption DEF IInv, ChunkIds, None
<1>1. CASE GetChunk
  <2> USE <1>1 DEF GetChunk
  <2>a. Len(queue) \in Nat /\ Len(queue) > 0 /\ Head(queue) = queue[1]
    BY DEF TypeOK
  <2>b. next - 1 - taken > 0
    BY <2>a DEF QueueShape, TypeOK
  <2>c. Head(queue) = taken + 1
    BY <2>a, <2>b DEF QueueShape, TypeOK
  <2>d. taken \in Nat /\ taken + 1 \in ChunkIds /\ taken + 1 <= next - 1
    BY <2>b DEF TypeOK
  <2>e. Chunks[taken + 1] \subseteq staged \union skipped /\ Chunks[taken + 1] \subseteq Files
    BY <2>d DEF QueuedIsStaged
  <2>f. /\ waiting' = Chunks[taken + 1] \intersect staged /\ taken' = taken + 1
        /\ failed' = failed \union (Chunks[taken + 1] \ staged)
        /\ UNCHANGED <<staged, remote, run, errors, skipped>>
    BY <2>c
  <2>g. TakenFiles' = TakenFiles \union Chunks[taken + 1]
        /\ Chunks[taken + 1] \intersect TakenFiles = {}
    BY <2>d, <2>f, TakeOneMore DEF TakenFiles
  <2>h. queue' \in Seq({None} \union ChunkIds) /\ Len(queue') = Len(queue) - 1
        /\ \A i \in 1..Len(queue') : queue'[i] = queue[i + 1]
    BY <2>a DEF TypeOK
  <2>i. waiting \union inThread \union landed = {}
    BY DEF NothingInFlight
  <2>1. TypeOK'
    BY <2>d, <2>e, <2>f, <2>h DEF TypeOK, RunStates
  <2>2. QueueShape'
    <3>1. Len(queue') = IF prod = "stopped" THEN next - 1 - taken' + 1 ELSE next - 1 - taken'
      BY <2>d, <2>f, <2>h DEF QueueShape, TypeOK
    <3>2. \A i \in 1..(next - 1 - taken') : queue'[i] = taken' + i
      BY <2>d, <2>f, <2>h DEF QueueShape, TypeOK
    <3>3. prod = "stopped" => queue'[next - 1 - taken' + 1] = None
      BY <2>d, <2>f, <2>h DEF QueueShape, TypeOK
    <3> QED
      BY <3>1, <3>2, <3>3, <2>d, <2>f DEF QueueShape
  <2>3. ProducerState'
    BY DEF ProducerState
  <2>4. UploadState'
    <3>1. /\ UNCHANGED <<inThread, landed, uploaded>> /\ cons' = "upload" /\ run = "running"
          /\ uploaded \union failed = TakenFiles /\ uploaded \intersect failed = {}
          /\ inThread = {} /\ landed = {}
      BY <2>i DEF UploadState
    <3>2. QED BY <3>1, <2>d, <2>f, <2>g DEF UploadState
  <2>5. QueuedIsStaged'
    BY <2>d, <2>f DEF QueuedIsStaged, TypeOK
  <2>6. InFlight' /\ NothingInFlight'
    BY <2>e, <2>f DEF InFlight, NothingInFlight
  <2>7. OnlyErrorsFail' /\ Accounted' /\ NoLoss' /\ ProcessReaped'
    BY <2>e, <2>f DEF OnlyErrorsFail, Accounted, NoLoss, ProcessReaped
  <2> QED
    BY <2>1, <2>2, <2>3, <2>4, <2>5, <2>6, <2>7
<1>2. CASE GetNone
  <2> USE <1>2 DEF GetNone
  <2>a. queue' \in Seq({None} \union ChunkIds)
    BY DEF TypeOK
  <2>1. TypeOK'
    BY <2>a DEF TypeOK
  <2>2. QueueShape'
    BY DEF TypeOK, QueueShape
  <2>3. ProducerState'
    BY DEF ProducerState
  <2>4. UploadState'
    BY DEF UploadState, TakenFiles
  <2>5. QueuedIsStaged' /\ InFlight' /\ NothingInFlight'
    BY DEF QueuedIsStaged, InFlight, NothingInFlight
  <2>6. OnlyErrorsFail' /\ Accounted' /\ NoLoss' /\ ProcessReaped'
    BY DEF OnlyErrorsFail, Accounted, NoLoss, ProcessReaped
  <2> QED
    BY <2>1, <2>2, <2>3, <2>4, <2>5, <2>6
<1>3. CASE FinishChunk
  BY <1>3 DEF FinishChunk, TypeOK, QueueShape, ProducerState, UploadState, TakenFiles,
     QueuedIsStaged, InFlight, NothingInFlight, OnlyErrorsFail, Accounted, NoLoss, ProcessReaped
<1> QED
  BY <1>1, <1>2, <1>3 DEF Consumer

\* Steps of one upload.
LEMMA UploadIInv ==
    ASSUME IInv, NEW f \in Files, StartThread(f) \/ ThreadStores(f) \/ UploadFails(f) \/ Unlink(f) \/ UnlinkFails(f)
    PROVE  IInv'
<1> USE ChunkFacts, BoundsAssumption, FaultsAssumption DEF IInv, ChunkIds, None
<1>1. CASE StartThread(f)
  BY <1>1 DEF StartThread, TypeOK, QueueShape, ProducerState, UploadState, TakenFiles,
     QueuedIsStaged, InFlight, NothingInFlight, OnlyErrorsFail, Accounted, NoLoss, ProcessReaped
<1>2. CASE ThreadStores(f)
  BY <1>2 DEF ThreadStores, TypeOK, QueueShape, ProducerState, UploadState, TakenFiles,
     QueuedIsStaged, InFlight, NothingInFlight, OnlyErrorsFail, Accounted, NoLoss, ProcessReaped
<1>3. CASE UploadFails(f)
  BY <1>3 DEF UploadFails, TypeOK, QueueShape, ProducerState, UploadState, TakenFiles,
     QueuedIsStaged, InFlight, NothingInFlight, OnlyErrorsFail, Accounted, NoLoss, ProcessReaped
<1>4. CASE Unlink(f)
  <2> USE <1>4 DEF Unlink
  <2>1. TypeOK' /\ QueueShape' /\ ProducerState'
    BY DEF TypeOK, QueueShape, ProducerState
  <2>2. UploadState'
    BY DEF UploadState, TakenFiles
  <2>3. cons = "upload" /\ taken \in ChunkIds /\ f \in Chunks[taken]
    BY DEF UploadState, NothingInFlight, TypeOK
  <2>4. QueuedIsStaged'
    <3>1. ASSUME NEW i \in (taken + 1)..(next - 1) PROVE f \notin Chunks[i]
      BY <2>3, <3>1 DEF TypeOK
    <3>2. prod = "put" => f \notin Chunks[next]
      BY <2>3 DEF TypeOK, ProducerState, QueueShape
    <3> QED
      BY <3>1, <3>2 DEF QueuedIsStaged
  <2>5. InFlight'
    BY DEF InFlight, UploadState
  <2>6. NothingInFlight'
    BY DEF NothingInFlight
  <2>7. OnlyErrorsFail' /\ Accounted' /\ NoLoss' /\ ProcessReaped'
    BY DEF OnlyErrorsFail, Accounted, NoLoss, ProcessReaped
  <2> QED
    BY <2>1, <2>2, <2>4, <2>5, <2>6, <2>7
<1>5. CASE UnlinkFails(f)
  BY <1>5 DEF UnlinkFails, TypeOK, QueueShape, ProducerState, UploadState, TakenFiles,
     QueuedIsStaged, InFlight, NothingInFlight, OnlyErrorsFail, Accounted, NoLoss, ProcessReaped
<1> QED
  BY <1>1, <1>2, <1>3, <1>4, <1>5

\* The download process and what outlives an attempt.
LEMMA HfFileIInv ==
    ASSUME IInv, NEW f \in Files, HfFile(f) \/ GhostStores(f) \/ GhostFails(f) \/ OrphanWrites(f)
    PROVE  IInv'
<1> USE ChunkFacts, BoundsAssumption, FaultsAssumption DEF IInv, ChunkIds, None
<1>1. CASE HfFile(f)
  BY <1>1 DEF HfFile, TypeOK, QueueShape, ProducerState, UploadState, TakenFiles,
     QueuedIsStaged, InFlight, NothingInFlight, OnlyErrorsFail, Accounted, NoLoss, ProcessReaped
<1>2. CASE GhostStores(f)
  BY <1>2 DEF GhostStores, TypeOK, QueueShape, ProducerState, UploadState, TakenFiles,
     QueuedIsStaged, InFlight, NothingInFlight, OnlyErrorsFail, Accounted, NoLoss, ProcessReaped
<1>3. CASE GhostFails(f)
  BY <1>3 DEF GhostFails, TypeOK, QueueShape, ProducerState, UploadState, TakenFiles,
     QueuedIsStaged, InFlight, NothingInFlight, OnlyErrorsFail, Accounted, NoLoss, ProcessReaped
<1>4. CASE OrphanWrites(f)
  BY <1>4 DEF OrphanWrites, TypeOK, QueueShape, ProducerState, UploadState, TakenFiles,
     QueuedIsStaged, InFlight, NothingInFlight, OnlyErrorsFail, Accounted, NoLoss, ProcessReaped
<1> QED
  BY <1>1, <1>2, <1>3, <1>4

\* The download process ends.
LEMMA DownloadEndsIInv ==
    ASSUME IInv, DownloadOk \/ DownloadFails PROVE IInv'
<1> USE ChunkFacts, BoundsAssumption, FaultsAssumption DEF IInv, ChunkIds, None
<1>1. CASE DownloadOk
  <2> USE <1>1 DEF DownloadOk
  <2>a. next \in ChunkIds /\ Chunks[next] \subseteq Files
    BY DEF TypeOK, ProducerState
  <2>b. skipped \subseteq skipped' /\ skipped' \subseteq Files /\ Chunks[next] \subseteq staged \union skipped'
    BY <2>a DEF TypeOK
  <2>1. TypeOK' /\ QueueShape' /\ ProducerState' /\ UploadState'
    BY <2>b DEF TypeOK, QueueShape, ProducerState, UploadState, TakenFiles
  <2>2. QueuedIsStaged' /\ InFlight' /\ NothingInFlight'
    BY <2>b DEF QueuedIsStaged, InFlight, NothingInFlight
  <2>3. OnlyErrorsFail' /\ Accounted' /\ NoLoss' /\ ProcessReaped'
    BY <2>b DEF OnlyErrorsFail, Accounted, NoLoss, ProcessReaped
  <2> QED
    BY <2>1, <2>2, <2>3
<1>2. CASE DownloadFails
  BY <1>2 DEF DownloadFails, TypeOK, QueueShape, ProducerState, UploadState, TakenFiles,
     QueuedIsStaged, InFlight, NothingInFlight, OnlyErrorsFail, Accounted, NoLoss, ProcessReaped
<1> QED
  BY <1>1, <1>2

\* The run returns, is cancelled or is lost.
LEMMA RunEndsIInv ==
    ASSUME IInv, RunReturns \/ Cancel \/ ProducerCancelled \/ ConsumerCancelled \/ RunCancelled \/ Crash PROVE IInv'
<1> USE ChunkFacts, BoundsAssumption, FaultsAssumption DEF IInv, ChunkIds, None
<1>1. CASE RunReturns
  <2> USE <1>1 DEF RunReturns
  <2>1. TypeOK'
    BY DEF TypeOK, RunStates
  <2>2. QueueShape' /\ ProducerState' /\ UploadState' /\ QueuedIsStaged'
    BY DEF QueueShape, ProducerState, UploadState, QueuedIsStaged
  <2>3. waiting \union inThread \union landed = {}
    BY DEF NothingInFlight
  <2>4. InFlight' /\ NothingInFlight' /\ OnlyErrorsFail'
    BY <2>3 DEF InFlight, NothingInFlight, OnlyErrorsFail
  <2>5. ASSUME ~prodError PROVE TakenFiles = Files
    <3>1. next = NumChunks + 1
      BY <2>5 DEF ProducerState
    <3>2. taken = NumChunks
      BY <3>1 DEF QueueShape, TypeOK
    <3> QED
      BY <3>2, AllTaken DEF TakenFiles
  <2>6. ASSUME ~prodError PROVE uploaded \union failed = Files
    BY <2>3, <2>5, <2>6 DEF UploadState
  <2>7. Accounted'
    BY <2>6 DEF Accounted, UploadState, InFlight
  <2>8. NoLoss'
    BY <2>6 DEF NoLoss, OnlyErrorsFail, InFlight
  <2>9. ProcessReaped'
    BY DEF ProcessReaped, ProducerState
  <2> QED
    BY <2>1, <2>2, <2>4, <2>7, <2>8, <2>9
<1>2. CASE Cancel
  <2> USE <1>2 DEF Cancel
  <2>1. TypeOK'
    BY DEF TypeOK, RunStates, ProducerState
  <2>2. QueueShape'
    BY DEF QueueShape, TypeOK, ProducerState
  <2>3. ProducerState'
    BY DEF ProducerState, QueueShape, TypeOK
  <2>4. UploadState'
    BY DEF UploadState, TakenFiles, TypeOK
  <2>5. QueuedIsStaged'
    BY DEF QueuedIsStaged, TypeOK, QueueShape, UploadState, TakenFiles
  <2>6. InFlight'
    BY DEF InFlight, TypeOK, UploadState, QueuedIsStaged
  <2>7. NothingInFlight'
    BY DEF NothingInFlight, UploadState
  <2>8. OnlyErrorsFail'
    BY DEF OnlyErrorsFail
  <2>9. Accounted'
    BY DEF Accounted
  <2>10. NoLoss'
    BY DEF NoLoss
  <2>11. ProcessReaped'
    BY DEF ProcessReaped
  <2> QED
    BY <2>1, <2>2, <2>3, <2>4, <2>5, <2>6, <2>7, <2>8, <2>9, <2>10, <2>11
<1>3. CASE ProducerCancelled
  BY <1>3 DEF ProducerCancelled, TypeOK, QueueShape, ProducerState, UploadState, TakenFiles,
     QueuedIsStaged, InFlight, NothingInFlight, OnlyErrorsFail, Accounted, NoLoss, ProcessReaped
<1>4. CASE ConsumerCancelled
  BY <1>4 DEF ConsumerCancelled, TypeOK, QueueShape, ProducerState, UploadState, TakenFiles,
     QueuedIsStaged, InFlight, NothingInFlight, OnlyErrorsFail, Accounted, NoLoss, ProcessReaped
<1>5. CASE RunCancelled
  <2> USE <1>5 DEF RunCancelled
  <2>1. TypeOK'
    BY DEF TypeOK, RunStates, ProducerState
  <2>2. QueueShape'
    BY DEF QueueShape, TypeOK, ProducerState
  <2>3. ProducerState'
    BY DEF ProducerState, QueueShape, TypeOK
  <2>4. UploadState'
    BY DEF UploadState, TakenFiles, TypeOK
  <2>5. QueuedIsStaged'
    BY DEF QueuedIsStaged, TypeOK, QueueShape, UploadState, TakenFiles
  <2>6. InFlight'
    BY DEF InFlight, TypeOK, UploadState, QueuedIsStaged
  <2>7. NothingInFlight'
    BY DEF NothingInFlight, UploadState
  <2>8. OnlyErrorsFail'
    BY DEF OnlyErrorsFail
  <2>9. Accounted'
    BY DEF Accounted
  <2>10. NoLoss'
    BY DEF NoLoss
  <2>11. ProcessReaped'
    BY DEF ProcessReaped
  <2> QED
    BY <2>1, <2>2, <2>3, <2>4, <2>5, <2>6, <2>7, <2>8, <2>9, <2>10, <2>11
<1>6. CASE Crash
  <2> USE <1>6 DEF Crash
  <2>1. TypeOK'
    <3>1. orphans' \subseteq Files
      BY DEF TypeOK, ProducerState
    <3> QED
      BY <3>1 DEF TypeOK, RunStates
  <2>2. QueueShape'
    BY DEF QueueShape, TypeOK, ProducerState
  <2>3. ProducerState'
    BY DEF ProducerState, QueueShape, TypeOK
  <2>4. UploadState'
    BY DEF UploadState, TakenFiles, TypeOK
  <2>5. QueuedIsStaged'
    BY DEF QueuedIsStaged, TypeOK, QueueShape, UploadState, TakenFiles
  <2>6. InFlight'
    BY DEF InFlight, TypeOK, UploadState, QueuedIsStaged
  <2>7. NothingInFlight'
    BY DEF NothingInFlight, UploadState
  <2>8. OnlyErrorsFail'
    BY DEF OnlyErrorsFail
  <2>9. Accounted'
    BY DEF Accounted
  <2>10. NoLoss'
    BY DEF NoLoss
  <2>11. ProcessReaped'
    BY DEF ProcessReaped
  <2> QED
    BY <2>1, <2>2, <2>3, <2>4, <2>5, <2>6, <2>7, <2>8, <2>9, <2>10, <2>11
<1> QED
  BY <1>1, <1>2, <1>3, <1>4, <1>5, <1>6

\* A new attempt, and steps of the environment.
LEMMA RestIInv ==
    ASSUME IInv, Retry \/ OrphanDies \/ OthersUseDisk PROVE IInv'
<1> USE ChunkFacts, BoundsAssumption, FaultsAssumption DEF IInv, ChunkIds, None
<1>1. CASE Retry
  <2> USE <1>1 DEF Retry, Fresh
  <2>1. TypeOK'
    <3>1. next' \in 1..(NumChunks + 1) /\ pipe' \in 0..PipeCapacity /\ attempt' \in Nat
      BY DEF TypeOK
    <3>2. queue' \in Seq({None} \union ChunkIds) /\ taken' \in {None} \union ChunkIds
      OBVIOUS
    <3> QED
      BY <3>1, <3>2 DEF TypeOK, RunStates
  <2>2. QueueShape' /\ ProducerState'
    BY DEF QueueShape, ProducerState
  <2>3. UploadState'
    BY DEF UploadState, TakenFiles
  <2>4. QueuedIsStaged' /\ InFlight' /\ NothingInFlight'
    BY DEF QueuedIsStaged, InFlight, NothingInFlight
  <2>5. OnlyErrorsFail' /\ Accounted' /\ NoLoss' /\ ProcessReaped'
    BY DEF OnlyErrorsFail, Accounted, NoLoss, ProcessReaped
  <2> QED
    BY <2>1, <2>2, <2>3, <2>4, <2>5
<1>2. CASE OrphanDies
  BY <1>2 DEF OrphanDies, TypeOK, QueueShape, ProducerState, UploadState, TakenFiles,
     QueuedIsStaged, InFlight, NothingInFlight, OnlyErrorsFail, Accounted, NoLoss, ProcessReaped
<1>3. CASE OthersUseDisk
  BY <1>3 DEF OthersUseDisk, TypeOK, QueueShape, ProducerState, UploadState, TakenFiles,
     QueuedIsStaged, InFlight, NothingInFlight, OnlyErrorsFail, Accounted, NoLoss, ProcessReaped
<1> QED
  BY <1>1, <1>2, <1>3

\* Every step preserves the invariant.
LEMMA NextIInv == IInv /\ [Next]_vars => IInv'
<1> SUFFICES ASSUME IInv, [Next]_vars PROVE IInv'
  OBVIOUS
<1>1. CASE Producer
  BY <1>1, ProducerIInv
<1>2. CASE Hf
  BY <1>2, HfFileIInv, DownloadEndsIInv DEF Hf
<1>3. CASE Consumer
  BY <1>3, ConsumerIInv
<1>4. CASE \E f \in Files : Upload(f)
  BY <1>4, UploadIInv DEF Upload
<1>5. CASE RunReturns \/ Cancel \/ ProducerCancelled \/ ConsumerCancelled \/ RunCancelled \/ Crash
  BY <1>5, RunEndsIInv
<1>6. CASE Retry \/ OrphanDies \/ OthersUseDisk
  BY <1>6, RestIInv
<1>7. CASE Late
  BY <1>7, HfFileIInv, RestIInv DEF Late
<1>8. CASE UNCHANGED vars
  BY <1>8 DEF vars, IInv, TypeOK, QueueShape, ProducerState, UploadState, TakenFiles,
     QueuedIsStaged, InFlight, NothingInFlight, OnlyErrorsFail, Accounted, NoLoss, ProcessReaped
<1> QED
  BY <1>1, <1>2, <1>3, <1>4, <1>5, <1>6, <1>7, <1>8 DEF Next

-----------------------------------------------------------------------------
\* The inductive invariant holds in every reachable state, for every list of
\* chunks, queue size, disk, pipe and set of faults.
THEOREM Invariance == Spec => []IInv
BY InitIInv, NextIInv, PTL DEF Spec

\* PipelineEngine.run that reports "done" has counted every file of the batch
\* exactly once, and what it counted as uploaded is in BOS.
THEOREM AccountedTheorem == Spec => []Accounted
<1>1. IInv => Accounted
  BY DEF IInv
<1> QED
  BY <1>1, Invariance, PTL

\* A batch that PipelineEngine.run reports "done" is in BOS but for files whose
\* upload raised, whatever cancellations, crashes and retries came before.
THEOREM NoLossTheorem == Spec => []NoLoss
<1>1. IInv => NoLoss
  BY DEF IInv
<1> QED
  BY <1>1, Invariance, PTL

\* No `hf` process of an engine outlives PipelineEngine.run.
THEOREM ProcessReapedTheorem == Spec => []ProcessReaped
<1>1. IInv => ProcessReaped
  BY DEF IInv
<1> QED
  BY <1>1, Invariance, PTL

-----------------------------------------------------------------------------
(* The reserve of free disk.                                               *)

\* Once a download has begun there is room for the whole of its chunk beside
\* what is staged.  A process that outlives its engine comes from a crash, and
\* the engine that it disturbs is that of a later attempt.
RoomForChunk ==
    /\ attempt >= 1
    /\ orphans # {} => "crash" \in Faults /\ (attempt > 1 \/ run = "lost")
    /\ run \notin {"running", "cancelling"} => ~proc
    /\ proc /\ (attempt = 1 \/ "crash" \notin Faults) /\ (\A f \in Chunks[next] : Size[f] <= DiskFreeMin)
         => Bytes(staged \union Chunks[next]) <= DiskCapacity

LEMMA BytesAreNat == ASSUME NEW S PROVE Bytes(S) \in Nat
<1>1. S \intersect {} = {}
  OBVIOUS
<1>2. QED BY <1>1, BytesOfUnion

\* The reserve is enough for a chunk that is not one file larger than it.
LEMMA ChunkFits ==
    ASSUME NEW i \in ChunkIds, \A f \in Chunks[i] : Size[f] <= DiskFreeMin
    PROVE  Bytes(Chunks[i]) <= DiskFreeMin
<1>1. WithinLimits(Chunks[i])
  BY ChunksPartition DEF ChunkIds, NumChunks
<1>2. CASE Bytes(Chunks[i]) <= ChunkMaxBytes
  BY <1>2, BytesAreNat, BoundsAssumption, LimitsAssumption
<1>3. CASE \E f \in Files : Chunks[i] = {f}
  BY <1>3, BytesOfOne
<1>4. QED BY <1>1, <1>2, <1>3 DEF WithinLimits

\* A step that goes on with the same chunk, or with none, and stages no other file.
LEMMA RoomStays ==
    ASSUME IInv, RoomForChunk, UNCHANGED <<next, attempt>>, orphans' \subseteq orphans, proc' => proc,
           run' = run \/ (run \in {"running", "cancelling"} /\ (run' = "cancelling" \/ ~proc')),
           proc' /\ (attempt = 1 \/ "crash" \notin Faults)
             => staged' \union Chunks[next] \subseteq staged \union Chunks[next]
    PROVE  RoomForChunk'
<1>1. ASSUME proc', attempt = 1 \/ "crash" \notin Faults, \A f \in Chunks[next] : Size[f] <= DiskFreeMin
      PROVE  Bytes(staged' \union Chunks[next]) <= DiskCapacity
  <2>1. Bytes(staged' \union Chunks[next]) <= Bytes(staged \union Chunks[next])
    BY <1>1, BytesMonotone
  <2>2. Bytes(staged \union Chunks[next]) \in Nat /\ Bytes(staged' \union Chunks[next]) \in Nat
    BY BytesAreNat
  <2>3. Bytes(staged \union Chunks[next]) <= DiskCapacity
    BY <1>1 DEF RoomForChunk
  <2>4. QED BY <2>1, <2>2, <2>3, BoundsAssumption
<1>2. QED BY <1>1 DEF RoomForChunk

\* The producer looks at the free disk before it starts a download.
LEMMA RoomAtStart == ASSUME IInv, RoomForChunk, StartDownload PROVE RoomForChunk'
<1>1. /\ next \in ChunkIds /\ DiskFree >= DiskFreeMin /\ run = "running"
      /\ UNCHANGED <<staged, next, attempt, orphans, run>>
  BY DEF StartDownload, IInv, TypeOK, ChunkIds
<1>2. ASSUME \A f \in Chunks[next] : Size[f] <= DiskFreeMin
      PROVE  Bytes(staged \union Chunks[next]) <= DiskCapacity
  <2>1. Bytes(Chunks[next]) <= DiskFreeMin
    BY <1>1, <1>2, ChunkFits
  <2>2. /\ Bytes(staged) \in Nat /\ Bytes(Chunks[next] \ staged) \in Nat /\ Bytes(Chunks[next]) \in Nat
        /\ Bytes(Chunks[next] \ staged) <= Bytes(Chunks[next])
    BY BytesAreNat, BytesMonotone
  <2>3. Bytes(staged \union Chunks[next]) = Bytes(staged) + Bytes(Chunks[next] \ staged)
    <3>1. /\ staged \union (Chunks[next] \ staged) = staged \union Chunks[next]
          /\ staged \intersect (Chunks[next] \ staged) = {}
      OBVIOUS
    <3>2. QED BY <3>1, BytesOfUnion
  <2>4. DiskCapacity - Bytes(staged) - others >= DiskFreeMin /\ others \in Nat
    BY <1>1, BoundsAssumption DEF DiskFree, IInv, TypeOK
  <2>5. QED BY <2>1, <2>2, <2>3, <2>4, BoundsAssumption
<1>3. QED BY <1>1, <1>2 DEF RoomForChunk

\* Every step keeps the room.
LEMMA RoomStep == IInv /\ RoomForChunk /\ [Next]_vars => RoomForChunk'
<1> SUFFICES ASSUME IInv, RoomForChunk, [Next]_vars PROVE RoomForChunk'
  OBVIOUS
<1>1. CASE Pause \/ Wake \/ LoopOver \/ PutNone
  BY <1>1, RoomStays DEF Pause, Wake, LoopOver, PutNone
<1>2. CASE StartDownload
  BY <1>2, RoomAtStart
<1>3. CASE PutChunk
  BY <1>3 DEF PutChunk, RoomForChunk, IInv, ProducerState
<1>4. CASE DownloadOk \/ DownloadFails
  BY <1>4, RoomStays DEF DownloadOk, DownloadFails
<1>5. ASSUME NEW f \in Files, HfFile(f) PROVE RoomForChunk'
  BY <1>5, RoomStays DEF HfFile
<1>6. CASE Consumer
  BY <1>6, RoomStays DEF Consumer, GetChunk, GetNone, FinishChunk
<1>7. ASSUME NEW f \in Files, Upload(f) PROVE RoomForChunk'
  BY <1>7, RoomStays DEF Upload, StartThread, ThreadStores, UploadFails, Unlink, UnlinkFails
<1>8. CASE RunReturns
  <2>1. ~proc
    BY <1>8 DEF RunReturns, IInv, ProducerState
  <2>2. QED BY <1>8, <2>1, RoomStays DEF RunReturns
<1>9. CASE Cancel \/ ProducerCancelled \/ ConsumerCancelled \/ RunCancelled
  BY <1>9, RoomStays DEF Cancel, ProducerCancelled, ConsumerCancelled, RunCancelled
<1>10. CASE Crash
  BY <1>10 DEF Crash, RoomForChunk
<1>11. CASE Retry
  BY <1>11 DEF Retry, Fresh, RoomForChunk, IInv, TypeOK
<1>12. ASSUME NEW f \in Files, GhostStores(f) \/ GhostFails(f) PROVE RoomForChunk'
  BY <1>12, RoomStays DEF GhostStores, GhostFails
<1>13. ASSUME NEW f \in Files, OrphanWrites(f) PROVE RoomForChunk'
  <2>1. ~(proc /\ (attempt = 1 \/ "crash" \notin Faults))
    BY <1>13 DEF OrphanWrites, RoomForChunk, IInv, TypeOK
  <2>2. QED BY <1>13, <2>1, RoomStays DEF OrphanWrites
<1>14. CASE OrphanDies \/ OthersUseDisk
  BY <1>14, RoomStays DEF OrphanDies, OthersUseDisk
<1>15. CASE UNCHANGED vars
  BY <1>15, RoomStays DEF vars
<1>16. QED
  BY <1>1, <1>2, <1>3, <1>4, <1>5, <1>6, <1>7, <1>8, <1>9, <1>10, <1>11, <1>12, <1>13, <1>14, <1>15
  DEF Next, Producer, Hf, Late

\* The check of DISK_FREE_MIN_GB before a chunk (_producer, pipeline.py:94)
\* leaves room for all of the chunk that _make_chunks has cut, whatever uploads
\* fail and stay in staging, unless the chunk is one file larger than the
\* reserve or somebody else uses the disk.
THEOREM DownloadFitsTheorem == Spec => []DownloadFits
<1>1. Init => RoomForChunk
  BY DEF Init, RoomForChunk
<1>2. IInv /\ RoomForChunk /\ [Next]_vars => RoomForChunk'
  BY RoomStep
<1>3. IInv /\ RoomForChunk => DownloadFits
  <2> SUFFICES ASSUME IInv, RoomForChunk, proc, \A f \in Chunks[next] : Size[f] <= DiskFreeMin,
                      others = 0, attempt = 1 \/ "crash" \notin Faults
               PROVE  Bytes(Chunks[next] \ staged) <= DiskFree
    BY DEF DownloadFits
  <2>1. Bytes(staged \union Chunks[next]) <= DiskCapacity
    BY DEF RoomForChunk
  <2>2. /\ Bytes(staged) \in Nat /\ Bytes(Chunks[next] \ staged) \in Nat
        /\ Bytes(staged \union (Chunks[next] \ staged)) = Bytes(staged) + Bytes(Chunks[next] \ staged)
    <3>1. staged \intersect (Chunks[next] \ staged) = {}
      OBVIOUS
    <3>2. QED BY <3>1, BytesOfUnion
  <2>3. staged \union (Chunks[next] \ staged) = staged \union Chunks[next]
    OBVIOUS
  <2>4. Bytes(staged) + Bytes(Chunks[next] \ staged) <= DiskCapacity
    BY <2>1, <2>2, <2>3
  <2>5. DiskFree = DiskCapacity - Bytes(staged)
    BY <2>2, BoundsAssumption DEF DiskFree
  <2>6. QED BY <2>2, <2>4, <2>5, BoundsAssumption
<1>4. QED BY <1>1, <1>2, <1>3, Invariance, PTL DEF Spec

-----------------------------------------------------------------------------
(* Nobody waits for nobody.                                                *)

\* A download that is not complete can go on, fails, or waits for a reader.
LEMMA DownloadCanGoOn ==
    ASSUME IInv, run = "running", prod = "download"
    PROVE  HfCanStep \/ (proc /\ pipe = PipeCapacity /\ ~(Chunks[next] \subseteq staged))
<1> DEFINE left == Chunks[next] \ staged
<1>1. proc /\ next \in ChunkIds /\ left \subseteq Files /\ pipe \in 0..PipeCapacity
  BY ChunkFacts DEF IInv, ProducerState, TypeOK, ChunkIds
<1>2. CASE left = {}
  BY <1>2 DEF HfCanStep
<1>3. CASE left # {} /\ pipe = PipeCapacity
  BY <1>1, <1>3
<1>4. CASE left # {} /\ pipe < PipeCapacity
  <2>1. PICK f \in left : TRUE
    BY <1>4
  <2>2. Size[f] = Bytes({f}) /\ Bytes({f}) <= Bytes(left)
    BY <1>1, <2>1, BytesOfOne, BytesMonotone
  <2>3. Size[f] \in Nat /\ Bytes(left) \in Nat /\ DiskFree \in Int
    BY <1>1, <2>1, BatchFacts, BytesAreNat, BoundsAssumption DEF DiskFree, IInv, TypeOK
  <2>4. DiskFree < Bytes(left) \/ Size[f] <= DiskFree
    BY <2>2, <2>3
  <2>5. QED BY <1>4, <2>1, <2>4 DEF HfCanStep
<1>5. QED BY <1>1, <1>2, <1>3, <1>4, BoundsAssumption

\* Producer, `hf`, queue, consumer and upload threads never all wait for each
\* other: while a run is pending one of them can go on, unless the producer
\* waits for disk or `hf` for a reader of its output, with all else done.
THEOREM NeverStuckTheorem == Spec => []NeverStuck
<1>1. IInv => NeverStuck
  <2> SUFFICES ASSUME IInv, run = "running", ~ProducerCanStep, ~ConsumerCanStep, ~HfCanStep
               PROVE  (prod = "stopped" /\ cons = "stopped") \/ Starved \/ Jammed
    BY DEF NeverStuck
  <2>1. /\ prod \in {"check", "sleep", "download", "put", "end", "stopped"}
        /\ cons \in {"get", "upload", "stopped"}
        /\ queue \in Seq({None} \union ChunkIds) /\ Len(queue) \in Nat
        /\ next \in Nat /\ taken \in Nat /\ taken <= next - 1 /\ NumChunks \in Nat
    BY ChunkFacts DEF IInv, TypeOK, ProducerState, QueueShape, ChunkIds, None
  <2>2. cons # "upload"
    <3> SUFFICES ASSUME cons = "upload" PROVE FALSE
      OBVIOUS
    <3>1. landed = {} /\ inThread = {}
      BY DEF ConsumerCanStep
    <3>2. Cardinality(inThread \union landed) = 0
      BY <3>1, FS_EmptySet
    <3>3. QED BY <3>2, BoundsAssumption DEF ConsumerCanStep
  <2>3. cons = "get" => queue = <<>>
    BY DEF ConsumerCanStep
  <2>4. cons = "stopped" => prod = "stopped"
    BY DEF IInv, QueueShape
  <2>5. prod \notin {"put", "end"}
    <3> SUFFICES ASSUME prod \in {"put", "end"} PROVE FALSE
      OBVIOUS
    <3>1. queue = <<>> /\ Len(queue) = 0
      BY <2>1, <2>2, <2>3, <2>4
    <3>2. QED BY <3>1, BoundsAssumption DEF ProducerCanStep
  <2>6. prod = "stopped" => cons = "stopped"
    <3> SUFFICES ASSUME prod = "stopped", cons # "stopped" PROVE FALSE
      OBVIOUS
    <3>1. Len(queue) = next - 1 - taken + 1
      BY DEF IInv, QueueShape
    <3>2. Len(queue) = 0
      BY <2>1, <2>2, <2>3
    <3>3. QED BY <2>1, <3>1, <3>2
  <2>7. CASE prod \in {"check", "sleep"}
    <3>1. cons = "get" /\ queue = <<>>
      BY <2>1, <2>2, <2>3, <2>4, <2>7
    <3>2. next <= NumChunks /\ ~(DiskFree >= DiskFreeMin)
      BY <2>1, <2>7 DEF ProducerCanStep
    <3>3. DiskFree \in Int /\ DiskFreeMin \in Nat
      BY BytesAreNat, BoundsAssumption DEF DiskFree, IInv, TypeOK
    <3>4. QED BY <2>7, <3>1, <3>2, <3>3 DEF Starved
  <2>8. CASE prod = "download"
    <3>1. cons = "get" /\ queue = <<>>
      BY <2>1, <2>2, <2>3, <2>4, <2>8
    <3>2. QED BY <2>8, <3>1, DownloadCanGoOn DEF Jammed
  <2>9. QED BY <2>1, <2>5, <2>6, <2>7, <2>8
<1>2. QED BY Invariance, <1>1, PTL

-----------------------------------------------------------------------------
(* The engine implements StagedCopy.                                       *)

\* A new engine starts where StagedCopy does.
LEMMA InitStagedCopy == Init => SC!Init
BY DEF Init, SC!Init, Phase

\* A step that moves neither file nor outcome is a stuttering step of StagedCopy.
LEMMA Stutter ==
    ASSUME UNCHANGED <<staged, remote, failed>>, Phase' = Phase
    PROVE  [SC!Next]_SC!vars
BY DEF SC!vars

\* Every step of the engine is a step of StagedCopy, or moves none of its variables.
LEMMA StepStagedCopy == IInv /\ [Next]_vars => [SC!Next]_SC!vars
<1> SUFFICES ASSUME IInv, [Next]_vars PROVE [SC!Next]_SC!vars
  OBVIOUS
<1> USE DEF Phase
<1>1. CASE Producer
  BY <1>1, Stutter DEF Producer, Pause, Wake, StartDownload, PutChunk, LoopOver, PutNone
<1>2. CASE DownloadOk \/ DownloadFails \/ GetNone \/ FinishChunk
  BY <1>2, Stutter DEF DownloadOk, DownloadFails, GetNone, FinishChunk
<1>3. CASE GetChunk
  <2> DEFINE lacking == Chunks[Head(queue)] \ staged
  <2>1. Head(queue) \in ChunkIds
    BY <1>3, ChunkFacts DEF GetChunk, IInv, TypeOK, ChunkIds
  <2>2. lacking \subseteq Files
    BY <2>1, ChunkFacts
  <2>3. SC!GiveUp(lacking)
    BY <1>3 DEF GetChunk, SC!GiveUp
  <2> QED
    BY <2>2, <2>3 DEF SC!Next
<1>4. ASSUME NEW f \in Files, Upload(f) PROVE [SC!Next]_SC!vars
  <2>1. CASE StartThread(f)
    BY <2>1, Stutter DEF StartThread
  <2>2. CASE ThreadStores(f)
    <3>1. SC!Store(f)
      BY <2>2 DEF ThreadStores, SC!Store, IInv, InFlight
    <3> QED
      BY <3>1 DEF SC!Next
  <2>3. CASE UploadFails(f) \/ UnlinkFails(f)
    <3>1. SC!GiveUp({f})
      BY <2>3 DEF UploadFails, UnlinkFails, SC!GiveUp
    <3> QED
      BY <3>1 DEF SC!Next
  <2>4. CASE Unlink(f)
    <3>1. SC!Drop(f)
      BY <2>4 DEF Unlink, SC!Drop, IInv, InFlight
    <3> QED
      BY <3>1 DEF SC!Next
  <2> QED
    BY <1>4, <2>1, <2>2, <2>3, <2>4 DEF Upload
<1>5. ASSUME NEW f \in Files, HfFile(f) \/ OrphanWrites(f) PROVE [SC!Next]_SC!vars
  <2>1. SC!Fetch(f)
    BY <1>5 DEF HfFile, OrphanWrites, SC!Fetch
  <2> QED
    BY <2>1 DEF SC!Next
<1>6. ASSUME NEW f \in Files, GhostStores(f) PROVE [SC!Next]_SC!vars
  <2>1. CASE f \in staged
    <3>1. SC!Store(f)
      BY <1>6, <2>1 DEF GhostStores, SC!Store
    <3> QED
      BY <3>1 DEF SC!Next
  <2>2. CASE f \notin staged
    <3>1. remote' = remote
      BY <1>6, <2>2 DEF GhostStores, IInv, InFlight
    <3> QED
      BY <1>6, <3>1, Stutter DEF GhostStores
  <2> QED
    BY <2>1, <2>2
<1>7. CASE (\E f \in Files : GhostFails(f)) \/ OrphanDies \/ OthersUseDisk
  BY <1>7, Stutter DEF GhostFails, OrphanDies, OthersUseDisk
<1>8. CASE RunReturns
  <2>1. SC!Complete \/ SC!Break
    <3>1. CASE prodError
      BY <1>8, <3>1 DEF RunReturns, SC!Break
    <3>2. CASE ~prodError
      <4>1. run' = "done" /\ uploaded' = uploaded /\ failed' = failed /\ remote' = remote
        BY <1>8, <3>2 DEF RunReturns
      <4>2. Accounted'
        BY <1>8, RunEndsIInv DEF IInv
      <4>3. Files \subseteq remote \union failed
        BY <4>1, <4>2 DEF Accounted
      <4> QED
        BY <1>8, <4>1, <4>3 DEF RunReturns, SC!Complete
    <3> QED
      BY <3>1, <3>2
  <2> QED
    BY <2>1 DEF SC!Next
<1>9. CASE Cancel \/ ProducerCancelled \/ ConsumerCancelled
  BY <1>9, Stutter DEF Cancel, ProducerCancelled, ConsumerCancelled
<1>10. CASE RunCancelled \/ Crash
  <2>1. SC!Break
    BY <1>10 DEF RunCancelled, Crash, SC!Break
  <2> QED
    BY <2>1 DEF SC!Next
<1>11. CASE Retry
  <2>1. SC!Reopen
    BY <1>11 DEF Retry, Fresh, SC!Reopen
  <2> QED
    BY <2>1 DEF SC!Next
<1>12. CASE UNCHANGED vars
  BY <1>12, Stutter DEF vars
<1> QED
  BY <1>1, <1>2, <1>3, <1>4, <1>5, <1>6, <1>7, <1>8, <1>9, <1>10, <1>11, <1>12
  DEF Next, Hf, Consumer, Late

\* The engine implements StagedCopy: a staged file disappears only once BOS has
\* it, and "done" is reported only when every file is stored or was given up.
THEOREM Refinement == Spec => StagedCopySpec
<1>1. Init => SC!Init
  BY InitStagedCopy
<1>2. IInv /\ [Next]_vars => [SC!Next]_SC!vars
  BY StepStagedCopy
<1> QED
  BY <1>1, <1>2, Invariance, PTL DEF Spec, StagedCopySpec, SC!Spec
=============================================================================

------------------------ MODULE SplitWorkflow_proofs ------------------------
(***************************************************************************)
(* Theorems about SplitDownloadWorkflow, for any list of files, sizes,     *)
(* number of children and workers: its partition hands out every file      *)
(* once; the sizes it reports are those of the parts; no part exceeds      *)
(* another by more than its smallest file; and a child works on no file of *)
(* another part, though all of them share one staging directory, which     *)
(* each may remove under the others.                                       *)
(***************************************************************************)
EXTENDS SplitWorkflow, DownloadWorkflow_proofs, WellFoundedInduction

Files == FilesOf(FileList)

\* The list, sorted.
Sorted ==
    /\ order \in Seq(Files) /\ FilesOf(order) = Files
    /\ \A k, n \in 1..Len(order) : order[k] = order[n] => k = n
    /\ \A k, n \in 1..Len(order) : k < n => size[order[k]] >= size[order[n]]

PartsTyped ==
    /\ at \in 0..Len(order)
    /\ parts \in [1..WorkerCount -> Seq(Files)]
    /\ sums \in [1..WorkerCount -> Nat]

\* The first n files of the list, and no others, stand in the parts, each once.
Handed(n) ==
    /\ \A k \in 1..n : \E p \in 1..WorkerCount : \E i \in 1..Len(parts[p]) : parts[p][i] = order[k]
    /\ \A p \in 1..WorkerCount : \A i \in 1..Len(parts[p]) : \E k \in 1..n : parts[p][i] = order[k]
    /\ \A p, q \in 1..WorkerCount : \A i \in 1..Len(parts[p]), k \in 1..Len(parts[q]) :
          parts[p][i] = parts[q][k] => p = q /\ i = k

Balanced ==
    \A p, q \in 1..WorkerCount : \A i \in 1..Len(parts[p]) : sums[p] - sums[q] <= size[parts[p][i]]

Partitioned == Sorted /\ PartsTyped /\ Handed(at) /\ Balanced

\* Until the parts are written no child is started; a split that got no list
\* never has any.
Before == parent \in {"list", "partition", "chunk"} \/ parts = <<>>
Fresh == \A j \in Jobs : pc[j] = "idle" /\ batch[j] = {} /\ late[j] = {}

\* What is in the directory that the children share: the parts, or nothing.
Shared ==
    /\ host \in Workers
    /\ \A p \in 1..WorkerCount : lists[host][Dir][p] \in {NoList, parts[p]}

\* A child reads its part from there.
Own(j) ==
    /\ pc[j] # "list"
    /\ pc[j] # "idle" => pinned[j] = host
    /\ batch[j] \union late[j] \subseteq FilesOf(parts[PartOf[j]])

SplitInv ==
    /\ Types
    /\ size \in [Files -> Nat]
    /\ parent \in {"list", "partition"} => parts = <<>>
    /\ parent \in {"partition", "chunk"} => host \in Workers
    /\ parent = "partition" => lists[host][Dir][0] = FileList
    /\ parent \in {"chunk", "start", "wait", "done"} => parts # <<>>
    /\ parts # <<>> => Partitioned
    /\ Before => Fresh
    /\ ~Before => Shared /\ \A j \in Jobs : Own(j)


-----------------------------------------------------------------------------
\* A non-empty set of naturals has a smallest member.
LEMMA SmallestOfNaturals ==
    ASSUME NEW T \in SUBSET Nat, T # {} PROVE \E m \in T : \A n \in T : m <= n
<1>1. PICK m \in T : \A n \in T : ~(<<n, m>> \in OpToRel(<, Nat))
  BY NatLessThanWellFounded, WFMin
<1>2. \A n \in T : ~(n < m)
  BY <1>1 DEF OpToRel
<1>3. QED BY <1>2

\* A set of naturals that holds 0 and the successor of each of its members
\* holds all: induction, with a set for the predicate.
LEMMA SetInduction ==
    ASSUME NEW T \in SUBSET Nat, 0 \in T, \A n \in T : n + 1 \in T PROVE T = Nat
<1> SUFFICES ASSUME Nat \ T # {} PROVE FALSE
  OBVIOUS
<1>1. Nat \ T \in SUBSET Nat
  OBVIOUS
<1>2. PICK m \in Nat \ T : \A n \in Nat \ T : m <= n
  BY <1>1, SmallestOfNaturals
<1>3. m # 0 /\ m - 1 \in Nat /\ m = (m - 1) + 1
  OBVIOUS
<1>4. m - 1 \in T
  BY <1>2, <1>3
<1>5. QED BY <1>3, <1>4

\* index(min(...)) finds a chunk, and none is smaller.
LEMMA SmallestFacts ==
    ASSUME NEW n \in Nat \ {0}, NEW s \in [1..n -> Nat]
    PROVE  Smallest(s) \in 1..n /\ \A k \in 1..n : s[Smallest(s)] <= s[k]
<1> DEFINE Values == {s[k] : k \in 1..n}
<1>1. PICK m \in Values : \A x \in Values : m <= x
  <2>1. Values \in SUBSET Nat /\ s[1] \in Values
    OBVIOUS
  <2> HIDE DEF Values
  <2>2. QED BY <2>1, SmallestOfNaturals
<1> DEFINE At == {k \in 1..n : s[k] = m}
<1>2. PICK i \in At : \A k \in At : i <= k
  <2>1. At \in SUBSET Nat /\ At # {}
    BY <1>1
  <2>2. QED BY <2>1, SmallestOfNaturals
<1>3. i \in DOMAIN s /\ \A k \in DOMAIN s : s[i] < s[k] \/ (s[i] = s[k] /\ i <= k)
  <2>1. i \in 1..n /\ s[i] = m /\ \A k \in 1..n : s[k] \in Nat /\ m <= s[k] /\ (s[k] = m => i <= k)
    BY <1>1, <1>2
  <2>2. QED BY <2>1
<1>4. Smallest(s) \in DOMAIN s /\ \A k \in DOMAIN s :
        s[Smallest(s)] < s[k] \/ (s[Smallest(s)] = s[k] /\ Smallest(s) <= k)
  BY <1>3 DEF Smallest
<1>5. QED BY <1>4

\* What the assumptions say of the parts, the directory and the files.
LEMMA SplitConstants ==
    /\ WorkerCount \in Nat \ {0} /\ Parts = 0..WorkerCount
    /\ Dir \in Dirs /\ \A j \in Jobs : DirOf[j] = Dir /\ PartOf[j] \in 1..WorkerCount
    /\ FileList \in Seq(Files) /\ Files \subseteq AllFiles
    /\ \A k, n \in 1..Len(FileList) : FileList[k] = FileList[n] => k = n
<1>1. WorkerCount \in Nat \ {0}
  BY JobsAssumption, SplitAssumption, FS_CardinalityType, FS_EmptySet DEF WorkerCount
<1>2. \A j \in Jobs : DirOf[j] = Dir /\ PartOf[j] \in 1..WorkerCount
  BY SplitAssumption DEF Bijection, Injection
<1>3. Dir \in Dirs
  BY <1>2, JobsAssumption, SplitAssumption
<1>4. /\ FileList \in Seq(Files) /\ Files \subseteq AllFiles
      /\ \A k, n \in 1..Len(FileList) : FileList[k] = FileList[n] => k = n
  <2>1. FileList \in Seq(AllFiles)
    BY SplitAssumption DEF FileList, Listing, Repositories
  <2>2. QED BY <2>1, SplitAssumption DEF Files, FilesOf, IsInjective
<1>5. QED BY <1>1, <1>2, <1>3, <1>4 DEF Parts, WorkerCount

-----------------------------------------------------------------------------
(* The size of a part: TotalSize is a recursive function, so what it is for  *)
(* every part is proved by induction over the length of the part.            *)

\* s holds the sizes of the first files of a part, summed up.
PartialSums(sz, part, s) ==
    s = [i \in 0..Len(part) |-> IF i = 0 THEN 0 ELSE s[i - 1] + sz[part[i]]]
Total(sz, part) == (CHOOSE s : PartialSums(sz, part, s))[Len(part)]

LEMMA TotalSizeIs == \A part : TotalSize(part) = Total(size, part)
BY DEF TotalSize, Total, PartialSums

Accumulates(sz, part, s) == s[0] = 0 /\ \A i \in 1..Len(part) : s[i] = s[i - 1] + sz[part[i]]

\* What the equation of the sums says of its values.
LEMMA PartialSumsAt ==
    ASSUME NEW sz, NEW part \in Seq(Files), NEW s, PartialSums(sz, part, s)
    PROVE  Accumulates(sz, part, s)
<1>1. Len(part) \in Nat
  OBVIOUS
<1>2. \A i \in 0..Len(part) : s[i] = IF i = 0 THEN 0 ELSE s[i - 1] + sz[part[i]]
  BY DEF PartialSums
<1>3. QED BY <1>1, <1>2 DEF Accumulates

\* There are such sums for every part.
LEMMA PartialSumsExist ==
    ASSUME NEW sz \in [Files -> Nat], NEW part \in Seq(Files)
    PROVE  \E s : PartialSums(sz, part, s)
<1> DEFINE Upto(n, s) == s = [i \in 0..n |-> IF i = 0 THEN 0 ELSE s[i - 1] + sz[part[i]]]
           T == {n \in Nat : n <= Len(part) => \E s : Upto(n, s)}
<1>1. 0 \in T
  <2>1. Upto(0, [i \in 0..0 |-> 0])
    OBVIOUS
  <2>2. QED BY <2>1
<1>2. ASSUME NEW n \in T PROVE n + 1 \in T
  <2> SUFFICES ASSUME n + 1 <= Len(part) PROVE \E s : Upto(n + 1, s)
    OBVIOUS
  <2>0. n \in Nat /\ n <= Len(part)
    OBVIOUS
  <2>1. PICK s : Upto(n, s)
    BY <2>0
  <2> DEFINE t == [i \in 0..n + 1 |-> IF i = n + 1 THEN s[n] + sz[part[n + 1]] ELSE s[i]]
  <2>2. \A i \in 0..n : t[i] = s[i] /\ s[i] = IF i = 0 THEN 0 ELSE s[i - 1] + sz[part[i]]
    BY <2>0, <2>1
  <2>3. \A i \in 0..n + 1 : t[i] = IF i = 0 THEN 0 ELSE t[i - 1] + sz[part[i]]
    <3> TAKE i \in 0..n + 1
    <3>1. CASE i = n + 1
      BY <2>0, <2>2, <3>1
    <3>2. CASE i # n + 1
      <4>1. i \in 0..n /\ (i # 0 => i - 1 \in 0..n)
        BY <2>0, <3>2
      <4> HIDE DEF t
      <4>2. QED BY <2>2, <4>1
    <3>3. QED BY <3>1, <3>2
  <2>4. t = [i \in 0..n + 1 |-> t[i]]
    OBVIOUS
  <2> HIDE DEF t
  <2>5. [i \in 0..n + 1 |-> t[i]]
          = [i \in 0..n + 1 |-> IF i = 0 THEN 0 ELSE t[i - 1] + sz[part[i]]]
    BY <2>3
  <2>6. QED BY <2>4, <2>5
<1>3. T = Nat
  <2> HIDE DEF T
  <2>1. T \in SUBSET Nat
    BY DEF T
  <2>2. QED BY <1>1, <1>2, <2>1, SetInduction
<1>4. Len(part) \in T /\ Len(part) <= Len(part)
  BY <1>3
<1>5. QED BY <1>4 DEF PartialSums

\* Two parts that begin with the same files have the same sums there.
LEMMA PartialSumsAgree ==
    ASSUME NEW sz, NEW part \in Seq(Files), NEW more \in Seq(Files), NEW s, NEW t,
           PartialSums(sz, part, s), PartialSums(sz, more, t),
           Len(part) <= Len(more), \A i \in 1..Len(part) : more[i] = part[i]
    PROVE  s[Len(part)] = t[Len(part)]
<1> DEFINE T == {n \in Nat : n <= Len(part) => s[n] = t[n]}
<1>1. /\ s[0] = 0 /\ \A i \in 1..Len(part) : s[i] = s[i - 1] + sz[part[i]]
      /\ t[0] = 0 /\ \A i \in 1..Len(more) : t[i] = t[i - 1] + sz[more[i]]
  <2>1. Accumulates(sz, part, s) /\ Accumulates(sz, more, t)
    BY PartialSumsAt
  <2>2. QED BY <2>1 DEF Accumulates
<1>2. 0 \in T
  BY <1>1
<1>3. ASSUME NEW n \in T PROVE n + 1 \in T
  <2> SUFFICES ASSUME n + 1 <= Len(part) PROVE s[n + 1] = t[n + 1]
    OBVIOUS
  <2>1. n \in Nat /\ s[n] = t[n] /\ n + 1 \in 1..Len(part) /\ n + 1 \in 1..Len(more) /\ (n + 1) - 1 = n
    OBVIOUS
  <2>2. QED BY <1>1, <2>1
<1>4. T = Nat
  <2> HIDE DEF T
  <2>1. T \in SUBSET Nat
    BY DEF T
  <2>2. QED BY <1>2, <1>3, <2>1, SetInduction
<1>5. Len(part) \in T
  BY <1>4
<1>6. QED BY <1>5

\* An empty part has no size, and a file more adds its size.
LEMMA TotalOfEmpty == ASSUME NEW sz \in [Files -> Nat] PROVE Total(sz, <<>>) = 0
<1> DEFINE s == CHOOSE s : PartialSums(sz, <<>>, s)
<1>1. <<>> \in Seq(Files) /\ Len(<<>>) = 0
  OBVIOUS
<1>2. PartialSums(sz, <<>>, s)
  BY <1>1, PartialSumsExist
<1> HIDE DEF s
<1>3. s[0] = 0
  <2>1. Accumulates(sz, <<>>, s)
    BY <1>1, <1>2, PartialSumsAt
  <2>2. QED BY <2>1 DEF Accumulates
<1>4. QED BY <1>1, <1>3 DEF Total, s

LEMMA TotalOfAppend ==
    ASSUME NEW sz \in [Files -> Nat], NEW part \in Seq(Files), NEW f \in Files
    PROVE  Total(sz, Append(part, f)) = Total(sz, part) + sz[f]
<1> DEFINE more == Append(part, f)
           s == CHOOSE s : PartialSums(sz, part, s)
           t == CHOOSE t : PartialSums(sz, more, t)
<1>1. /\ more \in Seq(Files) /\ Len(more) = Len(part) + 1 /\ Len(part) \in Nat
      /\ more[Len(more)] = f /\ \A i \in 1..Len(part) : more[i] = part[i]
  OBVIOUS
<1> HIDE DEF more
<1>2. PartialSums(sz, part, s) /\ PartialSums(sz, more, t)
  BY <1>1, PartialSumsExist
<1> HIDE DEF s, t
<1>3. s[Len(part)] = t[Len(part)]
  BY <1>1, <1>2, PartialSumsAgree
<1>4. t[Len(more)] = t[Len(more) - 1] + sz[f]
  <2>1. Accumulates(sz, more, t)
    BY <1>1, <1>2, PartialSumsAt
  <2>2. Len(more) \in 1..Len(more)
    BY <1>1
  <2>3. t[Len(more)] = t[Len(more) - 1] + sz[more[Len(more)]]
    BY <2>1, <2>2 DEF Accumulates
  <2>4. QED BY <1>1, <2>3
<1>5. Len(more) - 1 = Len(part)
  BY <1>1
<1>6. Total(sz, more) = t[Len(more)] /\ Total(sz, part) = s[Len(part)]
  BY DEF Total, s, t
<1>7. Total(sz, more) = Total(sz, part) + sz[f]
  BY <1>3, <1>4, <1>5, <1>6
<1>8. QED BY <1>7 DEF more

-----------------------------------------------------------------------------
(* The partition.                                                          *)

\* The sort keeps the files and puts the larger ones first.
LEMMA SortedList ==
    ASSUME size \in [Files -> Nat], NEW from \in BySizeDescending(FileList),
           order' = [i \in DOMAIN FileList |-> FileList[from[i]]], UNCHANGED size
    PROVE  Sorted'
<1>1. FileList \in [1..Len(FileList) -> Files] /\ DOMAIN FileList = 1..Len(FileList) /\ Len(FileList) \in Nat
  BY SplitConstants
<1>2. /\ from \in [1..Len(FileList) -> 1..Len(FileList)]
      /\ \A k, n \in 1..Len(FileList) : from[k] = from[n] => k = n
      /\ \A n \in 1..Len(FileList) : \E k \in 1..Len(FileList) : from[k] = n
  BY <1>1 DEF BySizeDescending, Bijection, Injection, Surjection, IsInjective
<1>3. \A k, n \in 1..Len(FileList) : k < n => size[FileList[from[k]]] >= size[FileList[from[n]]]
  <2>1. \A k \in 1..Len(FileList) : FileList[from[k]] \in Files /\ size[FileList[from[k]]] \in Nat
    BY <1>1, <1>2
  <2>2. \A k, n \in 1..Len(FileList) : k < n => \/ size[FileList[from[k]]] > size[FileList[from[n]]]
                                           \/ size[FileList[from[k]]] = size[FileList[from[n]]]
    BY <1>1 DEF BySizeDescending
  <2>3. QED BY <2>1, <2>2
<1>4. order' \in [1..Len(FileList) -> Files] /\ \A k \in 1..Len(FileList) : order'[k] = FileList[from[k]]
  BY <1>1, <1>2
<1>5. order' \in Seq(Files) /\ Len(order') = Len(FileList)
  BY <1>1, <1>4
<1>6. FilesOf(order') = Files
  <2>1. \A k \in 1..Len(FileList) : order'[k] \in Files
    BY <1>4
  <2>2. \A n \in 1..Len(FileList) : \E k \in 1..Len(FileList) : order'[k] = FileList[n]
    BY <1>2, <1>4
  <2>3. FilesOf(order') = {order'[k] : k \in 1..Len(FileList)}
    BY <1>5 DEF FilesOf
  <2>4. Files = {FileList[n] : n \in 1..Len(FileList)}
    BY DEF FilesOf, Files
  <2>5. \A f \in Files : f \in FilesOf(order')
    <3> TAKE f \in Files
    <3>1. PICK n \in 1..Len(FileList) : f = FileList[n]
      BY <2>4
    <3>2. PICK k \in 1..Len(FileList) : order'[k] = f
      BY <2>2, <3>1
    <3>3. QED BY <2>3, <3>2
  <2>6. QED BY <2>1, <2>3, <2>5
<1>7. \A k, n \in 1..Len(order') : order'[k] = order'[n] => k = n
  <2> SUFFICES ASSUME NEW k \in 1..Len(FileList), NEW n \in 1..Len(FileList), order'[k] = order'[n] PROVE k = n
    BY <1>5
  <2>1. from[k] \in 1..Len(FileList) /\ from[n] \in 1..Len(FileList) /\ FileList[from[k]] = FileList[from[n]]
    BY <1>2, <1>4
  <2>2. from[k] = from[n]
    BY <2>1, SplitConstants
  <2>3. QED BY <1>2, <2>2
<1>8. \A k, n \in 1..Len(order') : k < n => size'[order'[k]] >= size'[order'[n]]
  BY <1>3, <1>4, <1>5
<1>9. QED BY <1>5, <1>6, <1>7, <1>8 DEF Sorted, Files, FilesOf

\* At first all chunks are empty.
LEMMA PartitionAtStart ==
    ASSUME SplitInv, PartitionBegins PROVE Partitioned'
<1>1. lists[host][Dir][0] = FileList /\ size \in [Files -> Nat]
  BY DEF SplitInv, PartitionBegins
<1>2. Sorted'
  <2>1. PICK from \in BySizeDescending(FileList) : order' = [i \in DOMAIN FileList |-> FileList[from[i]]]
    BY <1>1 DEF PartitionBegins
  <2>2. QED BY <1>1, <2>1, SortedList DEF PartitionBegins
<1>3. /\ at' = 0 /\ parts' = [p \in 1..WorkerCount |-> <<>>] /\ sums' = [p \in 1..WorkerCount |-> 0]
  BY DEF PartitionBegins
<1>4. PartsTyped'
  BY <1>2, <1>3 DEF PartsTyped, Sorted
<1>5. \A p \in 1..WorkerCount : parts'[p] = <<>> /\ Len(parts'[p]) = 0
  BY <1>3
<1>6. Handed(at)' /\ Balanced'
  BY <1>3, <1>5 DEF Handed, Balanced
<1>7. QED BY <1>2, <1>4, <1>6 DEF Partitioned

\* The next file goes to a smallest chunk: it is not larger than any before it,
\* and stands nowhere yet.
LEMMA PartitionAddStep ==
    ASSUME Partitioned, size \in [Files -> Nat], PartitionAdds PROVE Partitioned'
<1> DEFINE f == order[at + 1]
           m == Smallest(sums)
<1>1. /\ order \in Seq(Files) /\ at \in Nat /\ at + 1 \in 1..Len(order) /\ Len(order) \in Nat
      /\ parts \in [1..WorkerCount -> Seq(Files)] /\ sums \in [1..WorkerCount -> Nat]
  BY DEF Partitioned, Sorted, PartsTyped, PartitionAdds
<1>2. f \in Files /\ size[f] \in Nat
  BY <1>1
<1>3. m \in 1..WorkerCount /\ \A q \in 1..WorkerCount : sums[m] <= sums[q]
  BY <1>1, SmallestFacts, SplitConstants
<1>4. /\ parts' = [parts EXCEPT ![m] = Append(@, f)] /\ sums' = [sums EXCEPT ![m] = @ + size[f]]
      /\ at' = at + 1 /\ UNCHANGED <<size, order>>
  BY DEF PartitionAdds, AddGreedily
<1> HIDE DEF f, m
<1>5. PartsTyped'
  BY <1>1, <1>2, <1>3, <1>4 DEF PartsTyped
<1>6. /\ \A p \in 1..WorkerCount : Len(parts[p]) \in Nat
      /\ Len(parts'[m]) = Len(parts[m]) + 1 /\ parts'[m][Len(parts[m]) + 1] = f
      /\ \A i \in 1..Len(parts[m]) : parts'[m][i] = parts[m][i]
      /\ \A p \in 1..WorkerCount \ {m} : parts'[p] = parts[p]
  BY <1>1, <1>2, <1>3, <1>4
<1>7. \A p \in 1..WorkerCount : \A i \in 1..Len(parts'[p]) :
        \/ i \in 1..Len(parts[p]) /\ parts'[p][i] = parts[p][i]
        \/ p = m /\ i = Len(parts[m]) + 1 /\ parts'[p][i] = f
  BY <1>3, <1>6
<1>8. \A p \in 1..WorkerCount : \A i \in 1..Len(parts[p]) :
        /\ i \in 1..Len(parts'[p]) /\ parts'[p][i] = parts[p][i]
        /\ parts[p][i] \in Files /\ parts[p][i] # f /\ size[parts[p][i]] >= size[f]
  <2> SUFFICES ASSUME NEW p \in 1..WorkerCount, NEW i \in 1..Len(parts[p])
               PROVE  /\ i \in 1..Len(parts'[p]) /\ parts'[p][i] = parts[p][i]
                      /\ parts[p][i] \in Files /\ parts[p][i] # f /\ size[parts[p][i]] >= size[f]
    OBVIOUS
  <2>1. PICK k \in 1..at : parts[p][i] = order[k]
    BY DEF Partitioned, Handed
  <2>2. k \in 1..Len(order) /\ k < at + 1
    BY <1>1
  <2>3. order[k] # order[at + 1] /\ size[order[k]] >= size[order[at + 1]] /\ order[k] \in Files
    BY <1>1, <2>2 DEF Partitioned, Sorted
  <2>4. i \in 1..Len(parts'[p]) /\ parts'[p][i] = parts[p][i]
    BY <1>3, <1>6
  <2>5. QED BY <2>1, <2>3, <2>4 DEF f
<1>9. Handed(at)'
  <2>1. \A k \in 1..at + 1 : \E p \in 1..WorkerCount : \E i \in 1..Len(parts'[p]) : parts'[p][i] = order[k]
    <3> SUFFICES ASSUME NEW k \in 1..at + 1
                 PROVE  \E p \in 1..WorkerCount : \E i \in 1..Len(parts'[p]) : parts'[p][i] = order[k]
      OBVIOUS
    <3>1. CASE k = at + 1
      <4>1. Len(parts[m]) + 1 \in 1..Len(parts'[m])
        BY <1>3, <1>6
      <4>2. QED BY <1>3, <1>6, <3>1, <4>1 DEF f
    <3>2. CASE k # at + 1
      <4>1. k \in 1..at
        BY <1>1, <3>2
      <4>2. PICK p \in 1..WorkerCount : \E i \in 1..Len(parts[p]) : parts[p][i] = order[k]
        BY <4>1 DEF Partitioned, Handed
      <4>3. QED BY <1>8, <4>2
    <3>3. QED BY <3>1, <3>2
  <2>2. \A p \in 1..WorkerCount : \A i \in 1..Len(parts'[p]) : \E k \in 1..at + 1 : parts'[p][i] = order[k]
    <3> SUFFICES ASSUME NEW p \in 1..WorkerCount, NEW i \in 1..Len(parts'[p])
                 PROVE  \E k \in 1..at + 1 : parts'[p][i] = order[k]
      OBVIOUS
    <3>1. CASE parts'[p][i] = f
      BY <1>1, <3>1 DEF f
    <3>2. CASE i \in 1..Len(parts[p]) /\ parts'[p][i] = parts[p][i]
      <4>1. PICK k \in 1..at : parts[p][i] = order[k]
        BY <3>2 DEF Partitioned, Handed
      <4>2. k \in 1..at + 1
        BY <1>1
      <4>3. QED BY <3>2, <4>1, <4>2
    <3>3. QED BY <1>7, <3>1, <3>2
  <2>3. ASSUME NEW p \in 1..WorkerCount, NEW q \in 1..WorkerCount,
               NEW i \in 1..Len(parts'[p]), NEW k \in 1..Len(parts'[q]), parts'[p][i] = parts'[q][k]
        PROVE  p = q /\ i = k
    <3>1. CASE i \in 1..Len(parts[p]) /\ k \in 1..Len(parts[q])
      <4>1. parts[p][i] = parts[q][k]
        BY <1>8, <2>3, <3>1
      <4>2. \A x, y \in 1..WorkerCount : \A a \in 1..Len(parts[x]), b \in 1..Len(parts[y]) :
              parts[x][a] = parts[y][b] => x = y /\ a = b
        BY DEF Partitioned, Handed
      <4>3. QED BY <3>1, <4>1, <4>2
    <3>2. CASE ~(i \in 1..Len(parts[p])) /\ ~(k \in 1..Len(parts[q]))
      BY <1>7, <3>2
    <3>3. CASE i \in 1..Len(parts[p]) /\ ~(k \in 1..Len(parts[q]))
      BY <1>7, <1>8, <2>3, <3>3
    <3>4. CASE ~(i \in 1..Len(parts[p])) /\ k \in 1..Len(parts[q])
      <4>1. parts'[p][i] = f
        BY <1>7, <3>4
      <4>2. parts'[q][k] # f
        BY <1>8, <3>4
      <4>3. QED BY <2>3, <4>1, <4>2
    <3>5. QED BY <3>1, <3>2, <3>3, <3>4
  <2>4. \A p, q \in 1..WorkerCount : \A i \in 1..Len(parts'[p]), k \in 1..Len(parts'[q]) :
          parts'[p][i] = parts'[q][k] => p = q /\ i = k
    BY <2>3
  <2>5. at' = at + 1 /\ order' = order
    BY <1>4
  <2>6. \A k \in 1..at' : \E p \in 1..WorkerCount : \E i \in 1..Len(parts'[p]) : parts'[p][i] = order'[k]
    BY <2>1, <2>5
  <2>7. \A p \in 1..WorkerCount : \A i \in 1..Len(parts'[p]) : \E k \in 1..at' : parts'[p][i] = order'[k]
    BY <2>2, <2>5
  <2>8. QED BY <2>4, <2>6, <2>7 DEF Handed
<1>10. Balanced'
  <2> SUFFICES ASSUME NEW p \in 1..WorkerCount, NEW q \in 1..WorkerCount, NEW i \in 1..Len(parts'[p])
               PROVE  sums'[p] - sums'[q] <= size[parts'[p][i]]
    BY <1>4 DEF Balanced
  <2>1. /\ sums[p] \in Nat /\ sums[q] \in Nat /\ sums[m] \in Nat /\ sums[m] <= sums[q]
        /\ sums'[p] = IF p = m THEN sums[p] + size[f] ELSE sums[p]
        /\ sums'[q] = IF q = m THEN sums[q] + size[f] ELSE sums[q]
    BY <1>1, <1>3, <1>4
  <2>2. size[parts'[p][i]] \in Nat /\ (p = m => size[parts'[p][i]] >= size[f])
    BY <1>2, <1>7, <1>8
  <2>3. CASE p = m
    BY <1>2, <2>1, <2>2, <2>3
  <2>4. CASE p # m
    <3>1. sums[p] - sums[q] <= size[parts'[p][i]]
      BY <1>7, <2>4 DEF Partitioned, Balanced
    <3>2. QED BY <1>2, <2>1, <2>2, <2>4, <3>1
  <2>5. QED BY <2>3, <2>4
<1>11. Sorted'
  BY <1>4 DEF Partitioned, Sorted, Files, FilesOf
<1>12. QED BY <1>5, <1>9, <1>10, <1>11 DEF Partitioned

-----------------------------------------------------------------------------
(* The invariant.                                                          *)

LEMMA SplitAtStart == ASSUME SplitInit PROVE SplitInv
<1>1. Types
  BY WorkflowInit DEF SplitInit
<1>2. size \in [Files -> Nat]
  BY SplitAssumption DEF SplitInit, Files
<1>3. Fresh
  BY DEF SplitInit, Init, Fresh
<1>4. QED BY <1>1, <1>2, <1>3 DEF SplitInit, SplitInv, Before

\* There is a part.
LEMMA SomePart == ASSUME NEW f \in [1..WorkerCount -> Seq(Files)] PROVE f # <<>>
<1>1. 1 \in DOMAIN f
  <2>1. DOMAIN f = 1..WorkerCount
    OBVIOUS
  <2>2. QED BY <2>1, SplitConstants
<1>2. DOMAIN <<>> = {}
  OBVIOUS
<1>3. QED BY <1>1, <1>2

\* The partition is a matter of the parent's variables.
LEMMA PartitionedStays ==
    ASSUME Partitioned, UNCHANGED <<size, order, at, parts, sums>> PROVE Partitioned'
<1>1. Sorted'
  BY DEF Partitioned, Sorted
<1>2. PartsTyped'
  BY DEF Partitioned, PartsTyped
<1>3. Handed(at)'
  BY DEF Partitioned, Handed
<1>4. Balanced'
  BY DEF Partitioned, Balanced
<1>5. QED BY <1>1, <1>2, <1>3, <1>4 DEF Partitioned

\* What a step that leaves the parent alone must keep.
LEMMA ChildKeeps ==
    ASSUME SplitInv, UNCHANGED parentVars, ~Before, Types',
           Shared', \A j \in Jobs : Own(j)'
    PROVE  SplitInv'
<1>1. UNCHANGED <<size, parent, host, order, at, parts, sums>>
  BY DEF parentVars, partVars
<1>2. Partitioned => Partitioned'
  BY <1>1, PartitionedStays
<1>3. ~Before'
  BY <1>1 DEF Before
<1>4. parent \notin {"list", "partition", "chunk"} /\ parts # <<>>
  BY DEF Before
<1>5. QED BY <1>1, <1>2, <1>3, <1>4 DEF SplitInv

\* Before the children are started there is no step of theirs.
LEMMA NoChildBefore == ASSUME SplitInv, Before, NEW j \in Jobs, Child(j) PROVE FALSE
<1>1. pc[j] = "idle" /\ late[j] = {}
  BY DEF SplitInv, Fresh
<1>2. QED
  BY <1>1 DEF Child, Activity, ReportStarting, ListRepoFiles, ListFails, ReadFilelist, LoadProgress,
              ReportBatch, StartBatch, ListGone, BatchSucceeds, BatchAborts, SaveProgress, ClearProgress,
              CleanupStaging, ReportDone, ReportFailed, LateStores, LateStops

\* A child starts a batch of its part; everything else it does takes files from
\* its batch or removes the lists.
LEMMA ChildStep == ASSUME SplitInv, NEW j \in Jobs, Child(j) PROVE SplitInv'
<1> DEFINE Goal == Shared' /\ \A k \in Jobs : Own(k)'
<1>0. ~Before /\ UNCHANGED <<host, parts>>
  BY NoChildBefore DEF Child, parentVars, partVars
<1>1. Types'
  <2>1. Next
    BY DEF Child, Next
  <2>2. QED BY <2>1, WorkflowStep DEF SplitInv
<1>2. /\ Types /\ Shared /\ \A k \in Jobs : Own(k)
      /\ Dir \in Dirs /\ DirOf[j] = Dir /\ PartOf[j] \in 1..WorkerCount /\ Parts = 0..WorkerCount
      /\ WorkerCount \in Nat
  BY <1>0, SplitConstants DEF SplitInv
\* Where the directory stays and the child turns to no other files.
<1>a. ASSUME UNCHANGED lists, UNCHANGED pinned, pc'[j] # "list", pc[j] # "idle" \/ pc'[j] = "idle",
             \A k \in Jobs \ {j} : pc'[k] = pc[k],
             \A k \in Jobs : batch'[k] \union late'[k] \subseteq batch[k] \union late[k]
      PROVE  Goal
  <2>1. Shared'
    BY <1>0, <1>2, <1>a DEF Shared
  <2>2. \A k \in Jobs : Own(k)'
    BY <1>0, <1>2, <1>a DEF Own
  <2>3. QED BY <2>1, <2>2
<1> HIDE DEF Goal
<1> SUFFICES Goal
  <2>1. UNCHANGED parentVars
    BY DEF Child
  <2>2. QED BY <1>0, <1>1, <2>1, ChildKeeps DEF Goal
<1>3. CASE ReportStarting(j)
  BY <1>2, <1>3, <1>a DEF ReportStarting, diskVars, flowVars, batchVars, Types, TypeOK
<1>4. CASE (\E w \in Workers : ListRepoFiles(j, w)) \/ ListFails(j)
  BY <1>2, <1>4 DEF ListRepoFiles, ListFails, Own
<1>5. CASE ReadFilelist(j)
  <2>1. \E new \in {"reportFailed", "load"} : pc' = [pc EXCEPT ![j] = new]
    BY <1>5 DEF ReadFilelist
  <2>2. QED BY <1>2, <1>5, <2>1, <1>a DEF ReadFilelist, diskVars, batchVars, Types, TypeOK
<1>6. CASE LoadProgress(j)
  BY <1>2, <1>6, <1>a DEF LoadProgress, AfterBatches, diskVars, batchVars, Types, TypeOK
<1>7. CASE ReportBatch(j) \/ ListGone(j) \/ ReportDone(j) \/ ReportFailed(j)
  BY <1>2, <1>7, <1>a
     DEF ReportBatch, ListGone, ReportDone, ReportFailed, diskVars, flowVars, batchVars, Types, TypeOK
<1>8. CASE StartBatch(j)
  <2>1. pinned[j] = host
    BY <1>2, <1>8 DEF StartBatch, Own
  <2>2. lists[pinned[j]][DirOf[j]][PartOf[j]] = parts[PartOf[j]]
    BY <1>2, <1>8, <2>1 DEF StartBatch, Shared
  <2>3. batch' = [batch EXCEPT ![j] = BatchFiles(parts[PartOf[j]], doneB[j], total[j])]
    BY <1>8, <2>2 DEF StartBatch
  <2>4. BatchFiles(parts[PartOf[j]], doneB[j], total[j]) \subseteq FilesOf(parts[PartOf[j]])
    BY DEF BatchFiles, FilesOf
  <2>5. \A k \in Jobs : batch'[k] \union late'[k] \subseteq FilesOf(parts[PartOf[k]])
    BY <1>2, <1>8, <2>3, <2>4 DEF StartBatch, Own, Types, TypeOK
  <2>6. /\ UNCHANGED <<lists, pinned>> /\ pc'[j] = "inBatch" /\ pc[j] = "batch"
        /\ \A k \in Jobs \ {j} : pc'[k] = pc[k]
    BY <1>2, <1>8 DEF StartBatch, diskVars, flowVars, Types, TypeOK
  <2>7. Shared'
    BY <1>0, <1>2, <2>6 DEF Shared
  <2>8. \A k \in Jobs : Own(k)'
    BY <1>0, <1>2, <2>1, <2>5, <2>6 DEF Own
  <2>9. QED BY <2>7, <2>8 DEF Goal
<1>9. CASE BatchSucceeds(j)
  BY <1>2, <1>9, <1>a DEF BatchSucceeds, diskVars, Types, TypeOK
<1>10. CASE BatchAborts(j)
  <2>1. PICK S \in SUBSET batch[j] : late' \in {late, [late EXCEPT ![j] = @ \union (batch[j] \ S)]}
    BY <1>10 DEF BatchAborts
  <2>2. \A k \in Jobs : batch'[k] \union late'[k] \subseteq batch[k] \union late[k]
    BY <1>2, <1>10, <2>1 DEF BatchAborts, Types, TypeOK
  <2>3. QED BY <1>2, <1>10, <2>2, <1>a DEF BatchAborts, diskVars, flowVars, Types, TypeOK
<1>11. CASE SaveProgress(j) \/ ClearProgress(j)
  BY <1>2, <1>11, <1>a DEF SaveProgress, ClearProgress, AfterBatches, flowVars, batchVars, Types, TypeOK
<1>12. CASE CleanupStaging(j)
  <2>1. pinned[j] = host
    BY <1>2, <1>12 DEF CleanupStaging, Own
  <2>2. \A p \in Parts : lists'[host][Dir][p] = NoList
    BY <1>2, <1>12, <2>1 DEF CleanupStaging, Types, TypeOK, Shared
  <2>3. Shared'
    BY <1>0, <1>2, <2>2 DEF Shared
  <2>4. /\ UNCHANGED <<pinned, batch, late>> /\ pc'[j] = "reportDone" /\ pc[j] = "clean"
        /\ \A k \in Jobs \ {j} : pc'[k] = pc[k]
    BY <1>2, <1>12 DEF CleanupStaging, flowVars, Types, TypeOK
  <2>5. \A k \in Jobs : Own(k)'
    BY <1>0, <1>2, <2>4 DEF Own
  <2>6. QED BY <2>3, <2>5 DEF Goal
<1>13. CASE (\E f \in AllFiles : LateStores(j, f)) \/ LateStops(j)
  <2>1. /\ UNCHANGED <<lists, pinned, pc, batch>> /\ late[j] # {}
        /\ \A k \in Jobs : late'[k] \subseteq late[k]
    <3>0. late \in [Jobs -> SUBSET AllFiles]
      BY <1>2 DEF Types, TypeOK
    <3>1. CASE \E f \in AllFiles : LateStores(j, f)
      BY <3>0, <3>1 DEF LateStores, diskVars, flowVars
    <3>2. CASE LateStops(j)
      BY <3>0, <3>2 DEF LateStops, diskVars, flowVars
    <3>3. QED BY <1>13, <3>1, <3>2
  <2>2. Shared'
    BY <1>0, <1>2, <2>1 DEF Shared
  <2>3. \A k \in Jobs : Own(k)'
    BY <1>0, <1>2, <2>1 DEF Own
  <2>4. QED BY <2>2, <2>3 DEF Goal
<1>14. QED
  BY <1>3, <1>4, <1>5, <1>6, <1>7, <1>8, <1>9, <1>10, <1>11, <1>12, <1>13 DEF Child, Activity

\* A step of the parent that leaves the lists and the children alone.
LEMMA ParentKeeps ==
    ASSUME SplitInv, UNCHANGED <<vars, size, host>>, Partitioned',
           parent \in {"chunk", "wait"}, parent' \in {"chunk", "done", "failed"}, parts' # <<>>,
           parent' = "chunk" <=> parent = "chunk", parent = "wait" => UNCHANGED parts
    PROVE  SplitInv'
<1>1. UNCHANGED <<repo, lists, progress, remote, pc, runs, pinned, total, doneB, given,
                  tries, batch, wiped, late, row>>
  BY DEF vars
<1>2. Types'
  BY <1>1 DEF SplitInv, Types, TypeOK, Placed
<1>3. CASE parent = "chunk"
  BY <1>1, <1>2, <1>3 DEF SplitInv, Before, Fresh
<1>4. CASE parent = "wait"
  BY <1>1, <1>2, <1>4 DEF SplitInv, Before, Shared, Own
<1>5. QED BY <1>3, <1>4

\* The parent lists, partitions, starts the children and waits.
LEMMA ParentStep == ASSUME SplitInv, Parent PROVE SplitInv'
<1>0. /\ Types /\ size \in [Files -> Nat] /\ Dir \in Dirs /\ FileList \in Seq(AllFiles)
      /\ WorkerCount \in Nat \ {0} /\ Parts = 0..WorkerCount
  BY SplitConstants, SplitAssumption DEF SplitInv
<1>1. ASSUME NEW w \in Workers, ParentLists(w) PROVE SplitInv'
  <2>1. Fresh /\ parts = <<>>
    BY <1>1 DEF SplitInv, Before, ParentLists
  <2>2. lists' = [lists EXCEPT ![w][Dir][0] = FileList]
    BY <1>1 DEF ParentLists
  <2>3. /\ lists' \in [Workers -> [Dirs -> [Parts -> Seq(AllFiles) \union {NoList}]]]
        /\ lists'[w][Dir][0] = FileList
    BY <1>0, <2>2 DEF Types, TypeOK
  <2>4. Types'
    BY <1>0, <1>1, <2>3 DEF ParentLists, flowVars, batchVars, Types, TypeOK, Placed
  <2>5. /\ UNCHANGED <<pc, batch, late, size, parts>> /\ host' = w /\ parent' \in {"failed", "partition"}
    BY <1>1 DEF ParentLists, batchVars, partVars
  <2>6. QED BY <1>0, <2>1, <2>3, <2>4, <2>5 DEF SplitInv, Before, Fresh
<1>2. CASE ParentListFails
  <2>1. Fresh /\ parts = <<>>
    BY <1>2 DEF SplitInv, Before, ParentListFails
  <2>2. Types'
    BY <1>0, <1>2 DEF ParentListFails, vars, Types, TypeOK, Placed
  <2>3. UNCHANGED <<pc, batch, late, size, parts>> /\ parent' = "raised"
    BY <1>2 DEF ParentListFails, vars, partVars
  <2>4. QED BY <1>0, <2>1, <2>2, <2>3 DEF SplitInv, Before, Fresh
<1>3. CASE PartitionBegins
  <2>1. Fresh /\ host \in Workers
    BY <1>3 DEF SplitInv, Before, PartitionBegins
  <2>2. Types'
    BY <1>0, <1>3 DEF PartitionBegins, vars, Types, TypeOK, Placed
  <2>3. Partitioned'
    BY <1>3, PartitionAtStart
  <2>4. UNCHANGED <<pc, batch, late, size, host>> /\ parent' = "chunk"
    BY <1>3 DEF PartitionBegins, vars
  <2>5. parts' # <<>>
    BY <2>3, SomePart DEF Partitioned, PartsTyped
  <2>6. QED BY <1>0, <2>1, <2>2, <2>3, <2>4, <2>5 DEF SplitInv, Before, Fresh
<1>4. CASE PartitionAdds
  <2>1. Partitioned'
    BY <1>0, <1>4, PartitionAddStep DEF SplitInv, PartitionAdds
  <2>2. parts' # <<>>
    BY <2>1, SomePart DEF Partitioned, PartsTyped
  <2>3. UNCHANGED <<vars, size, host>> /\ parent = "chunk" /\ parent' = "chunk"
    BY <1>4 DEF PartitionAdds
  <2>4. QED BY <2>1, <2>2, <2>3, ParentKeeps
<1>5. CASE PartitionEnds
  <2>1. Fresh /\ host \in Workers /\ Partitioned /\ parts # <<>>
    BY <1>5 DEF SplitInv, Before, PartitionEnds
  <2>2. \A p \in 1..WorkerCount : parts[p] \in Seq(AllFiles)
    BY <2>1, SplitConstants DEF Partitioned, PartsTyped
  <2>3. lists' = [lists EXCEPT ![host][Dir] = [p \in Parts |-> IF p = 0 THEN @[0] ELSE parts[p]]]
    BY <1>5 DEF PartitionEnds
  <2>4. \A p \in Parts : lists'[host][Dir][p] = IF p = 0 THEN lists[host][Dir][0] ELSE parts[p]
    BY <1>0, <2>1, <2>3 DEF Types, TypeOK
  <2>5. lists' \in [Workers -> [Dirs -> [Parts -> Seq(AllFiles) \union {NoList}]]]
    <3> DEFINE new == [p \in Parts |-> IF p = 0 THEN lists[host][Dir][0] ELSE parts[p]]
    <3>1. new \in [Parts -> Seq(AllFiles) \union {NoList}]
      BY <1>0, <2>1, <2>2 DEF Types, TypeOK
    <3>2. lists' = [lists EXCEPT ![host][Dir] = new]
      BY <1>0, <2>1, <2>3 DEF Types, TypeOK
    <3> HIDE DEF new
    <3>3. QED BY <1>0, <2>1, <3>1, <3>2 DEF Types, TypeOK
  <2>6. Types'
    BY <1>0, <1>5, <2>5 DEF PartitionEnds, flowVars, batchVars, Types, TypeOK, Placed
  <2>7. UNCHANGED <<pc, pinned, batch, late, size, host, order, at, parts, sums>> /\ parent' = "start"
    BY <1>5 DEF PartitionEnds, flowVars, batchVars, partVars
  <2>8. Partitioned'
    BY <2>1, <2>7, PartitionedStays
  <2>9. Shared'
    BY <1>0, <2>1, <2>4, <2>7 DEF Shared
  <2>10. \A j \in Jobs : Own(j)'
    BY <2>1, <2>7 DEF Fresh, Own
  <2>11. QED BY <1>0, <2>1, <2>6, <2>7, <2>8, <2>9, <2>10 DEF SplitInv, Before
<1>6. ASSUME NEW j \in Jobs, ParentStarts(j) PROVE SplitInv'
  <2>1. ~Before /\ Shared /\ Partitioned /\ parts # <<>> /\ (\A k \in Jobs : Own(k)) /\ PartOf[j] # 0
    BY <1>6, SplitConstants DEF SplitInv, Before, ParentStarts
  <2>2. Types'
    <3>1. Next
      BY <1>6, <2>1 DEF ParentStarts, Next, Shared
    <3>2. QED BY <1>0, <3>1, WorkflowStep
  <2>3. /\ UNCHANGED <<lists, batch, late, size, host, order, at, parts, sums>> /\ parent' \in {"wait", "start"}
        /\ pc'[j] = "report" /\ pinned'[j] = host
        /\ \A k \in Jobs \ {j} : pc'[k] = pc[k] /\ pinned'[k] = pinned[k]
    BY <1>0, <1>6, <2>1 DEF ParentStarts, Dispatch, diskVars, partVars, Types, TypeOK
  <2>4. Partitioned'
    BY <2>1, <2>3, PartitionedStays
  <2>5. Shared'
    BY <2>1, <2>3 DEF Shared
  <2>6. \A k \in Jobs : Own(k)'
    BY <2>1, <2>3 DEF Own
  <2>7. QED BY <1>0, <2>1, <2>2, <2>3, <2>4, <2>5, <2>6 DEF SplitInv, Before
<1>7. CASE ParentReturns
  <2>1. Partitioned /\ parts # <<>>
    BY <1>7 DEF SplitInv, ParentReturns
  <2>2. UNCHANGED <<vars, size, host, order, at, parts, sums>> /\ parent = "wait" /\ parent' \in {"failed", "done"}
    BY <1>7 DEF ParentReturns, partVars
  <2>3. Partitioned'
    BY <2>1, <2>2, PartitionedStays
  <2>4. QED BY <2>1, <2>2, <2>3, ParentKeeps
<1>8. CASE ParentRaises
  <2>1. ~Before /\ Shared /\ Partitioned /\ parts # <<>> /\ \A k \in Jobs : Own(k)
    BY <1>8 DEF SplitInv, Before, ParentRaises
  <2>2. /\ UNCHANGED <<lists, pinned, size, host, order, at, parts, sums>> /\ parent' = "raised"
        /\ \A k \in Jobs : pc'[k] \in {"cancelled", pc[k]} /\ (pc[k] = "idle" => pc'[k] = "idle")
        /\ \A k \in Jobs : batch'[k] \union late'[k] = batch[k] \union late[k]
    BY <1>8 DEF ParentRaises, diskVars, flowVars, partVars, Open
  <2>3. Types'
    <3>1. late' \in [Jobs -> SUBSET AllFiles] /\ batch' \in [Jobs -> SUBSET AllFiles]
      BY <1>0, <1>8 DEF ParentRaises, Types, TypeOK
    <3>2. pc' \in [Jobs -> Open \union Ended \union {"idle"}]
      BY <1>0, <1>8 DEF ParentRaises, Types, TypeOK, Ended
    <3>3. QED BY <1>0, <1>8, <2>2, <3>1, <3>2 DEF ParentRaises, diskVars, flowVars, Types, TypeOK, Placed
  <2>4. Partitioned'
    BY <2>1, <2>2, PartitionedStays
  <2>5. Shared'
    BY <2>1, <2>2 DEF Shared
  <2>6. \A k \in Jobs : Own(k)'
    BY <2>1, <2>2 DEF Own
  <2>7. QED BY <1>0, <2>1, <2>2, <2>3, <2>4, <2>5, <2>6 DEF SplitInv, Before
<1>9. QED BY <1>1, <1>2, <1>3, <1>4, <1>5, <1>6, <1>7, <1>8 DEF Parent

\* The inductive invariant of the split.
THEOREM SplitInvariant == SplitSpec => []SplitInv
<1>1. SplitInv /\ [SplitNext]_splitVars => SplitInv'
  <2> SUFFICES ASSUME SplitInv, [SplitNext]_splitVars PROVE SplitInv'
    OBVIOUS
  <2>1. CASE UNCHANGED splitVars
    <3>1. UNCHANGED <<parent, host, size, order, at, parts, sums>>
      BY <2>1 DEF splitVars, parentVars, partVars
    <3>2. Types'
      BY <2>1, WorkflowStep DEF splitVars, SplitInv
    <3>3. UNCHANGED <<lists, pc, pinned, batch, late>>
      BY <2>1 DEF splitVars, vars
    <3>4. Partitioned => Partitioned'
      BY <3>1, PartitionedStays
    <3>5. (Before' <=> Before) /\ (Fresh => Fresh') /\ (Shared => Shared') /\ \A j \in Jobs : Own(j) => Own(j)'
      BY <3>1, <3>3 DEF Before, Fresh, Shared, Own
    <3>6. QED BY <3>1, <3>2, <3>3, <3>4, <3>5 DEF SplitInv
  <2>2. CASE Parent
    BY <2>2, ParentStep
  <2>3. CASE \E j \in Jobs : Child(j)
    BY <2>3, ChildStep
  <2>4. QED BY <2>1, <2>2, <2>3 DEF SplitNext
<1>2. QED BY SplitAtStart, <1>1, PTL DEF SplitSpec

\* chunk_sizes counts what is in the chunks.
SumsMatch == \A p \in 1..WorkerCount : sums[p] = Total(size, parts[p])

LEMMA SumsMatchStep ==
    ASSUME SplitInv, parts # <<>> => SumsMatch, [SplitNext]_splitVars, parts' # <<>> PROVE SumsMatch'
<1>1. CASE UNCHANGED <<size, parts, sums>>
  BY <1>1 DEF SumsMatch
<1>2. CASE PartitionBegins
  <2>1. parts' = [p \in 1..WorkerCount |-> <<>>] /\ sums' = [p \in 1..WorkerCount |-> 0] /\ size' = size
    BY <1>2 DEF PartitionBegins
  <2>2. Total(size, <<>>) = 0
    BY TotalOfEmpty DEF SplitInv
  <2>3. QED BY <2>1, <2>2 DEF SumsMatch
<1>3. CASE PartitionAdds
  <2> DEFINE f == order[at + 1]
             m == Smallest(sums)
  <2>1. /\ SumsMatch /\ size \in [Files -> Nat]
        /\ order \in Seq(Files) /\ at \in Nat /\ at + 1 \in 1..Len(order)
        /\ parts \in [1..WorkerCount -> Seq(Files)] /\ sums \in [1..WorkerCount -> Nat]
    <3>1. parent = "chunk" /\ at < Len(order)
      BY <1>3 DEF PartitionAdds
    <3>2. Sorted /\ PartsTyped /\ SumsMatch /\ size \in [Files -> Nat]
      BY <3>1 DEF SplitInv, Partitioned
    <3>3. QED BY <3>1, <3>2 DEF Sorted, PartsTyped
  <2>2. m \in 1..WorkerCount
    BY <2>1, SmallestFacts, SplitConstants
  <2>3. /\ parts' = [parts EXCEPT ![m] = Append(@, f)] /\ sums' = [sums EXCEPT ![m] = @ + size[f]]
        /\ size' = size
    BY <1>3 DEF PartitionAdds, AddGreedily
  <2>4. f \in Files
    BY <2>1
  <2> HIDE DEF f, m
  <2>5. Total(size, Append(parts[m], f)) = Total(size, parts[m]) + size[f]
    BY <2>1, <2>2, <2>4, TotalOfAppend
  <2>6. QED BY <2>1, <2>2, <2>3, <2>5 DEF SumsMatch
<1>4. QED
  <2>1. SplitNext \/ UNCHANGED splitVars
    OBVIOUS
  <2>2. UNCHANGED <<size, parts, sums>> \/ PartitionBegins \/ PartitionAdds
    BY <2>1 DEF SplitNext, Parent, Child, ParentLists, ParentListFails, PartitionEnds, ParentStarts,
                ParentReturns, ParentRaises, splitVars, parentVars, partVars
  <2>3. parts # <<>> \/ ~UNCHANGED parts
    OBVIOUS
  <2>4. QED BY <1>1, <1>2, <1>3, <2>2, <2>3

\* total_bytes is the size of the part, at every turn of the loop.
THEOREM SplitSumsExact == SplitSpec => []SumsExact
<1> DEFINE Inv == parts # <<>> => SumsMatch
<1>1. SplitInit => Inv
  BY DEF SplitInit
<1>2. SplitInv /\ Inv /\ [SplitNext]_splitVars => Inv'
  BY SumsMatchStep
<1>3. SplitInv /\ Inv => SumsExact
  <2> SUFFICES ASSUME SplitInv, Inv, parts # <<>> PROVE SumsExact
    BY DEF SumsExact
  <2>1. DOMAIN parts = 1..WorkerCount
    BY DEF SplitInv, Partitioned, PartsTyped
  <2>2. QED BY <2>1, TotalSizeIs DEF SumsExact, SumsMatch
<1> HIDE DEF Inv
<1>4. QED BY SplitInvariant, <1>1, <1>2, <1>3, PTL DEF SplitSpec

\* Once partition_filelist has handed out the list, each of its files stands in
\* the parts, in one place only, and nothing else does.
THEOREM SplitPartitionExact == SplitSpec => []PartitionExact
<1>1. SplitInv => PartitionExact
  <2> SUFFICES ASSUME SplitInv, parts # <<>>, at = Len(order)
               PROVE  /\ UNION {FilesOf(parts[p]) : p \in DOMAIN parts} = Files
                      /\ \A p, q \in DOMAIN parts : \A i \in DOMAIN parts[p], k \in DOMAIN parts[q] :
                            parts[p][i] = parts[q][k] => p = q /\ i = k
    BY DEF PartitionExact, Files
  <2>1. Sorted /\ PartsTyped /\ Handed(Len(order))
    BY DEF SplitInv, Partitioned
  <2>2. DOMAIN parts = 1..WorkerCount /\ \A p \in 1..WorkerCount : DOMAIN parts[p] = 1..Len(parts[p])
    BY <2>1 DEF PartsTyped
  <2>3. \A f \in Files : \E p \in 1..WorkerCount : f \in FilesOf(parts[p])
    <3> TAKE f \in Files
    <3>1. PICK k \in 1..Len(order) : order[k] = f
      BY <2>1 DEF Sorted, FilesOf
    <3>2. PICK p \in 1..WorkerCount : \E i \in 1..Len(parts[p]) : parts[p][i] = order[k]
      BY <2>1 DEF Handed
    <3>3. QED BY <3>1, <3>2 DEF FilesOf
  <2>4. \A p \in 1..WorkerCount : FilesOf(parts[p]) \subseteq Files
    BY <2>1 DEF PartsTyped, FilesOf
  <2>5. \A p, q \in 1..WorkerCount : \A i \in 1..Len(parts[p]), k \in 1..Len(parts[q]) :
          parts[p][i] = parts[q][k] => p = q /\ i = k
    BY <2>1 DEF Handed
  <2>6. UNION {FilesOf(parts[p]) : p \in 1..WorkerCount} = Files
    BY <2>3, <2>4
  <2>7. QED BY <2>2, <2>5, <2>6
<1>2. QED BY SplitInvariant, <1>1, PTL

\* No part exceeds another by more than its own smallest file, at every turn of
\* the loop of partition_filelist.
THEOREM SplitPartitionBalanced == SplitSpec => []PartitionBalanced
<1>1. SplitInv => PartitionBalanced
  <2> SUFFICES ASSUME SplitInv, parts # <<>> PROVE PartitionBalanced
    BY DEF PartitionBalanced
  <2>1. PartsTyped /\ Balanced
    BY DEF SplitInv, Partitioned
  <2>2. DOMAIN parts = 1..WorkerCount /\ \A p \in 1..WorkerCount : DOMAIN parts[p] = 1..Len(parts[p])
    BY <2>1 DEF PartsTyped
  <2>3. QED BY <2>1, <2>2 DEF Balanced, PartitionBalanced
<1>2. QED BY SplitInvariant, <1>1, PTL

\* A child works on the files of its own part only, whichever of its siblings
\* removes the lists, and also in an attempt that Temporal has given up.
THEOREM SplitChildStaysInPart == SplitSpec => []ChildStaysInPart
<1>1. SplitInv => ChildStaysInPart
  BY DEF SplitInv, Fresh, Own, ChildStaysInPart
<1>2. QED BY SplitInvariant, <1>1, PTL

\* The workflow's types, with a parent that writes its lists and stops it.
THEOREM SplitTypes == SplitSpec => []TypeOK
<1>1. SplitInv => TypeOK
  BY DEF SplitInv, Types
<1>2. QED BY SplitInvariant, <1>1, PTL
=============================================================================

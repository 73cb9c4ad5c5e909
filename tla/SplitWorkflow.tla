--------------------------- MODULE SplitWorkflow ---------------------------
(***************************************************************************)
(* dlm/temporal/workflows.py SplitDownloadWorkflow: list the repository,   *)
(* partition the list by size, start one DownloadWorkflow per part - all   *)
(* with the task's name, all on the worker that holds the lists - and wait *)
(* for them.  The children are the Jobs of DownloadWorkflow.               *)
(***************************************************************************)
EXTENDS DownloadWorkflow, SequencesExt

CONSTANTS
    Repo,    \* the repository
    Sizes    \* the sizes a listed file may have

FileList == Listing(Repo)          \* what list_repo_files finds
WorkerCount == Cardinality(Jobs)   \* worker_count
Dir == CHOOSE d \in Dirs : TRUE    \* task_input.name

\* The hub lists a path once; there is a child for each part, and all have the
\* parent's name.
ASSUME SplitAssumption ==
    /\ Repo \in Repositories /\ IsInjective(FileList)
    /\ Sizes \subseteq Nat \ {0}
    /\ Jobs # {}
    /\ PartOf \in Bijection(Jobs, 1..WorkerCount)
    /\ \A j \in Jobs : DirOf[j] = Dir

VARIABLES
    size,      \* the size of each file
    parent,    \* where the parent workflow is
    host,      \* worker_queue: the worker that holds the lists
    order,     \* all_files of partition_filelist, sorted
    at,        \* how many of them it has handed out
    parts,     \* chunks
    sums       \* chunk_sizes

partVars == <<order, at, parts, sums>>
parentVars == <<size, parent, host, partVars>>
splitVars == <<vars, parentVars>>

-----------------------------------------------------------------------------
(* partition_filelist.                                                     *)

\* Mutant of BySizeDescending: the files are not sorted.
Unsorted(list) == {[i \in DOMAIN list |-> i]}

\* Largest first; equal sizes keep their order (sort is stable).  The sort is
\* given by where it takes each file from.
BySizeDescending(list) ==
    {from \in Bijection(DOMAIN list, DOMAIN list) :
        \A i, k \in DOMAIN list : i < k =>
            \/ size[list[from[i]]] > size[list[from[k]]]
            \/ size[list[from[i]]] = size[list[from[k]]] /\ from[i] < from[k]}

\* chunk_sizes.index(min(chunk_sizes)): the first of the smallest chunks.
Smallest(s) ==
    CHOOSE i \in DOMAIN s : \A k \in DOMAIN s : s[i] < s[k] \/ (s[i] = s[k] /\ i <= k)

\* Mutant of AddGreedily: a tie adds the file to every smallest chunk.
AddToAllSmallest(f) ==
    LET ties == {i \in DOMAIN sums : sums[i] = sums[Smallest(sums)]}
    IN  /\ parts' = [i \in DOMAIN parts |-> IF i \in ties THEN Append(parts[i], f) ELSE parts[i]]
        /\ sums' = [i \in DOMAIN sums |-> IF i \in ties THEN sums[i] + size[f] ELSE sums[i]]

\* Mutant of AddGreedily: chunk_sizes counts files.
AddCounting(f) ==
    /\ parts' = [parts EXCEPT ![Smallest(sums)] = Append(@, f)]
    /\ sums' = [sums EXCEPT ![Smallest(sums)] = @ + 1]

AddGreedily(f) ==
    /\ parts' = [parts EXCEPT ![Smallest(sums)] = Append(@, f)]
    /\ sums' = [sums EXCEPT ![Smallest(sums)] = @ + size[f]]

-----------------------------------------------------------------------------
(* The parent.                                                             *)

SplitInit ==
    /\ Init
    /\ size \in [FilesOf(FileList) -> Sizes]
    /\ parent = "list"
    /\ host = NoWorker
    /\ order = <<>> /\ at = 0 /\ parts = <<>> /\ sums = <<>>

ParentLists(w) ==
    /\ parent = "list"
    /\ lists' = [lists EXCEPT ![w][Dir][0] = FileList]
    /\ host' = w
    /\ parent' = IF FileList = <<>> THEN "failed" ELSE "partition"
    /\ UNCHANGED <<repo, progress, remote, pc, flowVars, batchVars, row, size, partVars>>

\* All attempts of list_repo_files failed: nothing catches that here.
ParentListFails ==
    /\ parent = "list" /\ "list" \in Faults
    /\ parent' = "raised"
    /\ UNCHANGED <<vars, size, host, partVars>>

\* partition_filelist: the list is read and sorted, its files are handed out one
\* by one, and the parts written.  Nothing else goes on meanwhile.
PartitionBegins ==
    LET all == lists[host][Dir][0]
    IN  /\ parent = "partition"
        /\ \E from \in BySizeDescending(all) : order' = [i \in DOMAIN all |-> all[from[i]]]
        /\ at' = 0
        /\ parts' = [i \in 1..WorkerCount |-> <<>>]
        /\ sums' = [i \in 1..WorkerCount |-> 0]
        /\ parent' = "chunk"
        /\ UNCHANGED <<vars, size, host>>

PartitionAdds ==
    /\ parent = "chunk" /\ at < Len(order)
    /\ AddGreedily(order[at + 1])
    /\ at' = at + 1
    /\ UNCHANGED <<vars, size, parent, host, order>>

\* Part i goes to .filelist-part<i>.json, also when it is empty.
PartitionEnds ==
    /\ parent = "chunk" /\ at = Len(order)
    /\ lists' = [lists EXCEPT ![host][Dir] = [p \in Parts |-> IF p = 0 THEN @[0] ELSE parts[p]]]
    /\ parent' = "start"
    /\ UNCHANGED <<repo, progress, remote, pc, flowVars, batchVars, row, size, host, partVars>>

\* start_child_workflow, one after the other, on the host's own queue.
ParentStarts(j) ==
    /\ parent = "start"
    /\ \A k \in Jobs : PartOf[k] < PartOf[j] => pc[k] # "idle"
    /\ pc[j] = "idle"
    /\ Dispatch(j, host)
    /\ parent' = IF PartOf[j] = WorkerCount THEN "wait" ELSE "start"
    /\ UNCHANGED <<size, host, partVars>>

\* gather: all children returned; one that returned "failed" fails the split.
ParentReturns ==
    /\ parent = "wait"
    /\ \A j \in Jobs : pc[j] \in {"done", "failed"}
    /\ parent' = IF \E j \in Jobs : pc[j] = "failed" THEN "failed" ELSE "done"
    /\ UNCHANGED <<vars, size, host, partVars>>

\* A child raised: the parent raises, and Temporal terminates the children
\* that still run; a running batch may go on for a while.
ParentRaises ==
    /\ parent = "wait"
    /\ \E j \in Jobs : pc[j] = "raised"
    /\ parent' = "raised"
    /\ pc' = [j \in Jobs |-> IF pc[j] \in Open THEN "cancelled" ELSE pc[j]]
    /\ late' = [j \in Jobs |-> late[j] \union batch[j]]
    /\ batch' = [j \in Jobs |-> {}]
    /\ UNCHANGED <<repo, diskVars, remote, flowVars, tries, wiped, row, size, host, partVars>>

Parent ==
    \/ \E w \in Workers : ParentLists(w)
    \/ ParentListFails \/ PartitionBegins \/ PartitionAdds \/ PartitionEnds
    \/ \E j \in Jobs : ParentStarts(j)
    \/ ParentReturns \/ ParentRaises

Child(j) ==
    /\ \/ Activity(j)
       \/ \E f \in AllFiles : LateStores(j, f)
       \/ LateStops(j)
    /\ UNCHANGED parentVars

SplitNext == Parent \/ \E j \in Jobs : Child(j)

SplitSpec ==
    /\ SplitInit /\ [][SplitNext]_splitVars
    /\ WF_splitVars(Parent)
    /\ \A j \in Jobs : WF_splitVars(Activity(j) /\ UNCHANGED parentVars)

-----------------------------------------------------------------------------
(* Properties.                                                             *)

\* PartitionExact: once the partition has ended, every file of the list stands
\* in the parts, in one place only, and nothing else does (partition_filelist).
PartitionExact ==
    parts # <<>> /\ at = Len(order) =>
        /\ UNION {FilesOf(parts[p]) : p \in DOMAIN parts} = FilesOf(FileList)
        /\ \A p, q \in DOMAIN parts : \A i \in DOMAIN parts[p], k \in DOMAIN parts[q] :
              parts[p][i] = parts[q][k] => p = q /\ i = k

\* The size of a part, summed up from its first file to its last.
TotalSize(part) ==
    LET sum[i \in 0..Len(part)] == IF i = 0 THEN 0 ELSE sum[i - 1] + size[part[i]]
    IN  sum[Len(part)]

\* SumsExact: the total_bytes that partition_filelist returns are the sizes of
\* the parts, at every turn of its loop.
SumsExact == \A p \in DOMAIN parts : sums[p] = TotalSize(parts[p])

\* PartitionBalanced: no part exceeds another by more than its own smallest
\* file: "Partition a file list into N chunks balanced by size".
PartitionBalanced ==
    \A p, q \in DOMAIN parts : \A i \in DOMAIN parts[p] :
        sums[p] - sums[q] <= size[parts[p][i]]

\* ChildStaysInPart: a child works only on files of its own part, whatever
\* its siblings do to the staging directory they share.
ChildStaysInPart ==
    \A j \in Jobs : batch[j] \union late[j] # {} =>
        batch[j] \union late[j] \subseteq FilesOf(parts[PartOf[j]])

\* SplitEnds: the parent ends whatever its children do to each other.
SplitEnds == <>(parent \in {"done", "failed", "raised"})

\* ChildDoneIsStored: a child that reports "done" has stored its part: the
\* split "runs DownloadDatasetWorkflow as child workflows - one per chunk".
ChildDoneIsStored ==
    \A j \in Jobs : pc[j] = "done" =>
        \A f \in FilesOf(parts[PartOf[j]]) : <<Dir, f>> \in remote
=============================================================================

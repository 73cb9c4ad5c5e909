----------------------------- MODULE ChunkPlan -----------------------------
(***************************************************************************)
(* dlm/temporal/pipeline.py _make_chunks: the files of a batch, in their   *)
(* order, cut into the chunks that one `hf download` each fetches.  A      *)
(* chunk is kept as the set of its files.                                  *)
(***************************************************************************)
EXTENDS Integers, Sequences, FiniteSets

CONSTANTS
    Batch,          \* the files given to PipelineEngine.run: a sequence
    Size,           \* the size of each file
    ChunkMaxBytes,  \* CHUNK_MAX_BYTES
    ChunkMaxFiles   \* CHUNK_MAX_FILES

Files == {Batch[n] : n \in 1..Len(Batch)}

\* The hub lists a path once.
ASSUME BatchAssumption ==
    /\ Batch \in Seq(Files)
    /\ \A n, k \in 1..Len(Batch) : Batch[n] = Batch[k] => n = k
    /\ Size \in [Files -> Nat]
ASSUME LimitsAssumption == ChunkMaxBytes \in Nat /\ ChunkMaxFiles \in Nat \ {0}

\* What the files of a set occupy, summed up along the batch.
Bytes(S) ==
    LET sum[n \in 0..Len(Batch)] ==
            IF n = 0 THEN 0
            ELSE IF Batch[n] \in S THEN sum[n - 1] + Size[Batch[n]] ELSE sum[n - 1]
    IN  sum[Len(Batch)]

\* With f the current chunk would exceed a limit, and it has files already.
Full(plan, f) ==
    /\ plan.current # {}
    /\ \/ plan.bytes + Size[f] > ChunkMaxBytes
       \/ Cardinality(plan.current) >= ChunkMaxFiles

\* chunks, current and current_bytes after n turns of the loop.
Plan[n \in 0..Len(Batch)] ==
    IF n = 0 THEN [chunks |-> <<>>, current |-> {}, bytes |-> 0]
    ELSE LET plan == Plan[n - 1]
             f == Batch[n]
         IN  IF Full(plan, f)
             THEN [chunks |-> Append(plan.chunks, plan.current), current |-> {f}, bytes |-> Size[f]]
             ELSE [chunks |-> plan.chunks, current |-> plan.current \union {f},
                   bytes |-> plan.bytes + Size[f]]

\* Mutant of Chunks: the last chunk is not flushed.
ChunksWithoutLast == Plan[Len(Batch)].chunks

Chunks ==
    LET plan == Plan[Len(Batch)]
    IN  IF plan.current = {} THEN plan.chunks ELSE Append(plan.chunks, plan.current)
=============================================================================

----------------------------- MODULE StagedCopy -----------------------------
(***************************************************************************)
(* What one pipeline batch promises, without chunks, queue, processes or   *)
(* threads: files are fetched into the staging directory, stored in BOS    *)
(* and dropped from staging, "concurrent workers, delete after success"    *)
(* (PipelineEngine._upload_chunk), and a batch that reports success has    *)
(* stored or given up every one of its files.                              *)
(***************************************************************************)
CONSTANT Files

VARIABLES
    staged,    \* files present in the staging directory
    remote,    \* files present in BOS
    givenUp,   \* files this attempt counted as failed
    phase      \* "open", "complete" or "broken"

vars == <<staged, remote, givenUp, phase>>

TypeOK ==
    /\ staged \subseteq Files
    /\ remote \subseteq Files
    /\ givenUp \subseteq Files
    /\ phase \in {"open", "complete", "broken"}

Init ==
    /\ staged = {}
    /\ remote = {}
    /\ givenUp = {}
    /\ phase = "open"

\* A file arrives in staging; a download tool may outlive the attempt that
\* started it, so this needs no open phase.
Fetch(f) ==
    /\ staged' = staged \union {f}
    /\ UNCHANGED <<remote, givenUp, phase>>

\* Only what is staged can be stored; upload threads outlive their attempt too.
Store(f) ==
    /\ f \in staged
    /\ remote' = remote \union {f}
    /\ UNCHANGED <<staged, givenUp, phase>>

\* The local copy goes only once BOS holds the file.
Drop(f) ==
    /\ f \in remote
    /\ staged' = staged \ {f}
    /\ UNCHANGED <<remote, givenUp, phase>>

\* Files are given up one by one, or those of a chunk at once.
GiveUp(S) ==
    /\ phase = "open"
    /\ givenUp' = givenUp \union S
    /\ UNCHANGED <<staged, remote, phase>>

Complete ==
    /\ phase = "open"
    /\ Files \subseteq remote \union givenUp
    /\ phase' = "complete"
    /\ UNCHANGED <<staged, remote, givenUp>>

Break ==
    /\ phase = "open"
    /\ phase' = "broken"
    /\ UNCHANGED <<staged, remote, givenUp>>

\* A new attempt starts from what the broken one left behind.
Reopen ==
    /\ phase = "broken"
    /\ phase' = "open"
    /\ givenUp' = {}
    /\ UNCHANGED <<staged, remote>>

Next ==
    \/ \E f \in Files : Fetch(f) \/ Store(f) \/ Drop(f)
    \/ \E S \in SUBSET Files : GiveUp(S)
    \/ Complete \/ Break \/ Reopen

Spec == Init /\ [][Next]_vars
=============================================================================

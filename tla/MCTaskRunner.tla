---------------------------- MODULE MCTaskRunner ----------------------------
(***************************************************************************)
(* A directory with two files and a hidden one, and an empty file at the   *)
(* top of the repository.  A run of the whole repository moves the empty   *)
(* file, a chunked one does not list it; what a chunked run finds at the   *)
(* top is the tar that a failed run left behind.                           *)
(***************************************************************************)
EXTENDS TaskRunner, TLC

CONSTANTS a, b, c, hidden, dir

MCDirOf == (a :> dir) @@ (b :> dir) @@ (c :> Root) @@ (hidden :> dir)
MCBounds == {[cancels |-> 1, crashes |-> 0, faults |-> 2, pressure |-> 0],
             [cancels |-> 0, crashes |-> 1, faults |-> 1, pressure |-> 0],
             [cancels |-> 1, crashes |-> 0, faults |-> 0, pressure |-> 1],
             [cancels |-> 0, crashes |-> 0, faults |-> 1, pressure |-> 1]}
=============================================================================

--------------------------- MODULE MCCeleryChain ---------------------------
(***************************************************************************)
(* One task and two workers.  A task that is added, with two commands and  *)
(* a pause signal or an exception, or with one command, a pause signal, a  *)
(* dead worker and an exception: a broker that refuses a job, a question   *)
(* that gets no answer, a database or a Redis that raises.                 *)
(***************************************************************************)
EXTENDS CeleryChain

CONSTANTS t1, w1, w2

MCBounds == {[adds |-> 1, commands |-> 2, signals |-> 1, crashes |-> 0, faults |-> 0],
             [adds |-> 1, commands |-> 2, signals |-> 0, crashes |-> 0, faults |-> 1],
             [adds |-> 1, commands |-> 1, signals |-> 1, crashes |-> 1, faults |-> 1]}
=============================================================================

---------------------------- MODULE MCTaskQueue ----------------------------
EXTENDS TaskQueue, TLC

CONSTANTS t1, t2, q1, q2

OneTask == {t1}
TwoTasks == {t1, t2}
SameRepo == [t \in TwoTasks |-> "repo"]
OneRequest == {q1}
TwoRequests == {q1, q2}
Restarts == {"add", "pause", "resume"}
=============================================================================

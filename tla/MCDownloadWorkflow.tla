------------------------- MODULE MCDownloadWorkflow -------------------------
EXTENDS DownloadWorkflow, TLC

CONSTANTS j1, j2, j3, d1, w1, w2, fa, fb, fc, fd, fe

\* One job with three files in two batches, and an empty one, on either of two
\* workers.
OneJob == {j1}
OneDir == {d1}
OneJobDir == j1 :> d1
NoPart == j1 :> 0
ThreeFiles == j1 :> [sized |-> <<fa, fb, fc>>, empty |-> {fe}]
TwoWorkers == {w1, w2}
AnyButUpdate == FaultKinds \ {"update"}

\* Three tasks whose repositories have the same last name, on one worker: two
\* workflows, and a split child whose list was removed with the directory.
ThreeJobs == {j1, j2, j3}
OneName == j1 :> d1 @@ j2 :> d1 @@ j3 :> d1
OneChild == j1 :> 0 @@ j2 :> 0 @@ j3 :> 1
Full(list) == [sized |-> list, empty |-> {}]
Repos == j1 :> Full(<<fa, fb>>) @@ j2 :> Full(<<fc>>) @@ j3 :> Full(<<fd>>)
Grown == j1 :> Full(<<fb, fa>>) @@ j2 :> Full(<<fc>>) @@ j3 :> Full(<<fd>>)
=============================================================================

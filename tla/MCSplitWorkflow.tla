-------------------------- MODULE MCSplitWorkflow --------------------------
EXTENDS SplitWorkflow

CONSTANTS c1, c2, d1, w1, fa, fb, fc, fd

TwoChildren == {c1, c2}
OneDir == {d1}
SameDir == c1 :> d1 @@ c2 :> d1
PartNumbers == c1 :> 1 @@ c2 :> 2
ThreeFiles == [sized |-> <<fa, fb, fc>>, empty |-> {fd}]
ChildRepo == c1 :> ThreeFiles @@ c2 :> ThreeFiles
=============================================================================

------------------------------- MODULE MCSup -------------------------------
(* Sup on a small board: policies with one clean restart in a tick, and    *)
(* the second crash of a child stopping the program.                       *)
EXTENDS Sup

One(all, most) == [all |-> all, maxRestarts |-> most, window |-> 1, dirtyMax |-> 2]
OneRestart == One(FALSE, 1)
BothPolicies == {OneRestart, One(TRUE, 1)}
ThreeRestarts == One(FALSE, 3)
ThreeOnly == {ThreeRestarts}
=============================================================================

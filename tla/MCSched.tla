------------------------------ MODULE MCSched ------------------------------
(* Sched with bounds: tasks among themselves, and with a poller and a THREAD. *)
EXTENDS Sched

Budget(n, parks, threads) == [ops |-> n, polls |-> parks, thread |-> threads]

\* Tasks alone; or a main thread without a worker, and a THREAD that starts one.
Alone == {Budget(4, 0, FALSE), Budget(2, 0, TRUE)}
Both == {Budget(2, 0, FALSE), Budget(1, 1, TRUE)}
Pair == {Budget(2, 0, FALSE)}

\* The tasks that hold no monitor are interchangeable, for safety.
Alike == Permutations(Tasks \ (Holders \cup {Root}))
=============================================================================

------------------------------ MODULE MCPoller ------------------------------
(* Two tasks that wait for the same descriptor, and one that only sleeps: *)
(* three timers, so that one is taken out of a heap with two below it.    *)
(* A next call of t2 may be on another descriptor, without a limit: an    *)
(* event of its first call that is still in the kernel must not wake it.  *)
EXTENDS Poller, TLC

CONSTANTS t1, t2, t3, f1, f2, in

To(fd, way, limit) == [fd |-> fd, way |-> way, limit |-> limit]

Mixed == (t1 :> {To(f1, in, -1), To(f1, in, 1)})
      @@ (t2 :> {To(f1, in, 1), To(f2, in, -1)})
      @@ (t3 :> {To(None, None, 2)})
=============================================================================

------------------------------- MODULE MCHttp -------------------------------
(* HttpServer with four configs.  Two THREADs on a ring of one; one THREAD *)
(* and three requests on a connection; two tasks for one worker number,    *)
(* and a third connection; two tasks, each with a number, two requests.    *)
EXTENDS HttpServer

Config(tasks, workers, maxOpen, maxConn, perConn, idle) ==
  [tasks |-> tasks, workers |-> workers, queue |-> 1, maxOpen |-> maxOpen,
   maxConn |-> maxConn, perConn |-> perConn, idle |-> idle]

TwoThreads == Config(FALSE, 2, 1, 2, 2, 2)
OneThread  == Config(FALSE, 1, 1, 0, 3, 1)
OneNumber  == Config(TRUE, 1, 2, 0, 1, 1)
TwoNumbers == Config(TRUE, 2, 2, 2, 2, 1)

All     == {TwoThreads, OneThread, OneNumber, TwoNumbers}
Threads == {TwoThreads}
=============================================================================

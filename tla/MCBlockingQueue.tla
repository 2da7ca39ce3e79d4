-------------------------- MODULE MCBlockingQueue --------------------------
(* BlockingQueue for small sets of threads, two values and a short queue.  *)
EXTENDS BlockingQueue

CONSTANTS p1, p2, c1, c2, v1, v2
=============================================================================

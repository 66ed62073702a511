-------------------------- MODULE MCDistributedLock --------------------------
(* Instances of DistributedLock: three threads, two of them in one process.  *)
EXTENDS DistributedLock, TLC

CONSTANTS t1, t2, t3, p1, p2

MCProcessOf == [t \in Threads |-> IF t = t3 THEN p2 ELSE p1]

\* Names of objects are interchangeable; only used without liveness.
LockSymmetry == Permutations(Locks)
=============================================================================

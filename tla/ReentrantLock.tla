---------------------------- MODULE ReentrantLock ----------------------------
(***************************************************************************)
(* What a distributed lock promises to the threads that use it: one of them *)
(* at a time is inside, as many times over as it has entered, and it leaves *)
(* one level at a time or, when its process goes down, all at once.         *)
(***************************************************************************)
EXTENDS Integers

CONSTANTS Threads, MaxDepth

VARIABLE depth      \* how many times each thread is inside

Init == depth = [t \in Threads |-> 0]

Enter(t) ==
    /\ \A u \in Threads \ {t} : depth[u] = 0
    /\ depth[t] < MaxDepth
    /\ depth' = [depth EXCEPT ![t] = @ + 1]

Leave(t) ==
    /\ depth[t] > 0
    /\ depth' = [depth EXCEPT ![t] = @ - 1]

Drop(t) == depth' = [depth EXCEPT ![t] = 0]

Next == \E t \in Threads : Enter(t) \/ Leave(t) \/ Drop(t)

Spec == Init /\ [][Next]_depth
=============================================================================

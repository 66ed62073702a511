----------------------------- MODULE MCJobQueue -----------------------------
(* Instances of JobQueue: two queues, entry e1 in the first and e2 in the    *)
(* second, two workers of one process and one of another.                    *)
EXTENDS JobQueue

CONSTANTS w1, w2, w3, p1, p2, e1, e2, high, low

MCQueues == <<high, low>>
MCOneQueue == <<high>>
MCQueueOf == [e \in Entries |-> IF e = e1 THEN high ELSE low]
MCProcessOf == [w \in Workers |-> IF w = w3 THEN p2 ELSE p1]
=============================================================================

------------------------------ MODULE WorkQueue ------------------------------
(***************************************************************************)
(* What the job queue promises to Hangfire: an entry that was put is worked *)
(* on by one worker at a time and leaves the queue only because a worker    *)
(* that had taken it finished it.  A worker may abandon what it has taken;  *)
(* somebody can take it again.                                              *)
(***************************************************************************)
CONSTANTS Entries, Workers

VARIABLE status     \* "absent", "ready", "abandoned", or the worker that has it

Init == status = [e \in Entries |-> "absent"]

Put(e) ==
    /\ status[e] = "absent"
    /\ status' = [status EXCEPT ![e] = "ready"]

Take(w, e) ==
    /\ status[e] \in {"ready", "abandoned"}
    /\ \A f \in Entries : status[f] # w
    /\ status' = [status EXCEPT ![e] = w]

Finish(e) ==
    /\ status[e] \in Workers
    /\ status' = [status EXCEPT ![e] = "absent"]

\* Some workers stop working on what they have taken.
Abandon(W) ==
    status' = [e \in Entries |-> IF status[e] \in W THEN "abandoned" ELSE status[e]]

\* An entry was taken for a worker that never heard of it.
Misplace(e) ==
    /\ status[e] = "ready"
    /\ status' = [status EXCEPT ![e] = "abandoned"]

Next ==
    \/ \E e \in Entries : Put(e) \/ Finish(e) \/ Misplace(e)
    \/ \E w \in Workers, e \in Entries : Take(w, e)
    \/ \E W \in SUBSET Workers : Abandon(W)

Spec == Init /\ [][Next]_status
=============================================================================

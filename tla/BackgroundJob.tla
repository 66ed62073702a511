---------------------------- MODULE BackgroundJob ----------------------------
(***************************************************************************)
(* What becomes of background jobs, as their owner may rely on it: a job is *)
(* performed only while it is enqueued, has an outcome only after it was    *)
(* processed, disappears only before it was ever enqueued or after it       *)
(* succeeded or was deleted, and never comes back then.                     *)
(***************************************************************************)
CONSTANT Jobs

VARIABLE status     \* "none", "created", one of States, or "gone"

States == {"Enqueued", "Processing", "Succeeded", "Failed", "Deleted"}

Init == status = [j \in Jobs |-> "none"]

Move(j, from, to) ==
    /\ status[j] \in from
    /\ status' = [status EXCEPT ![j] = to]

Create(j) == Move(j, {"none"}, "created")
Enqueue(j) == Move(j, {"created"} \cup States, "Enqueued")
Process(j) == Move(j, {"Enqueued", "Processing"}, "Processing")
Finish(j) == \E outcome \in {"Succeeded", "Failed"} : Move(j, {"Processing"}, outcome)
Delete(j) == Move(j, States, "Deleted")
Forget(j) == Move(j, {"created", "Succeeded", "Deleted"}, "gone")

Next ==
    \E j \in Jobs :
        Create(j) \/ Enqueue(j) \/ Process(j) \/ Finish(j) \/ Delete(j) \/ Forget(j)

Spec == Init /\ [][Next]_status
=============================================================================

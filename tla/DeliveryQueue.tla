---------------------------- MODULE DeliveryQueue ----------------------------
(***************************************************************************)
(* What the job queue does without any discipline of its callers: entries   *)
(* are put again while they are taken, and work outlasts the invisibility   *)
(* timeout.  An entry that is visible can be taken by one worker and is     *)
(* hidden then; one that is hidden becomes visible again some time, also    *)
(* under a worker that still has it.  A worker that removes what it has     *)
(* taken removes whatever the queue holds for that entry by then.           *)
(***************************************************************************)
CONSTANTS Entries, Workers, NoEntry

VARIABLES
    entry,  \* "absent", "visible" or "hidden"
    claim   \* the entry that each worker has taken, or NoEntry

vars == <<entry, claim>>

Init ==
    /\ entry = [e \in Entries |-> "absent"]
    /\ claim = [w \in Workers |-> NoEntry]

Put(e) ==
    /\ entry' = [entry EXCEPT ![e] = "visible"]
    /\ UNCHANGED claim

\* A slow worker gets an entry whose timeout is over again.
Take(w, e) ==
    /\ claim[w] = NoEntry /\ entry[e] = "visible"
    /\ \E s \in {"hidden", "visible"} : entry' = [entry EXCEPT ![e] = s]
    /\ claim' = [claim EXCEPT ![w] = e]

\* An entry was taken for a worker that never heard of it.
Misplace(e) ==
    /\ entry[e] = "visible"
    /\ entry' = [entry EXCEPT ![e] = "hidden"]
    /\ UNCHANGED claim

\* The timeout of the entries E is over.
Reappear(E) ==
    /\ entry' = [e \in Entries |->
                   IF e \in E /\ entry[e] = "hidden" THEN "visible" ELSE entry[e]]
    /\ UNCHANGED claim

Remove(w) ==
    /\ claim[w] # NoEntry
    /\ entry' = [entry EXCEPT ![claim[w]] = "absent"]
    /\ claim' = [claim EXCEPT ![w] = NoEntry]

\* Some workers give up what they have taken.
Drop(W) ==
    /\ claim' = [w \in Workers |-> IF w \in W THEN NoEntry ELSE claim[w]]
    /\ UNCHANGED entry

Next ==
    \/ \E e \in Entries : Put(e) \/ Misplace(e)
    \/ \E w \in Workers : Remove(w) \/ \E e \in Entries : Take(w, e)
    \/ \E E \in SUBSET Entries : Reappear(E)
    \/ \E W \in SUBSET Workers : Drop(W)

Spec == Init /\ [][Next]_vars
=============================================================================

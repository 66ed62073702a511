---------------------------- MODULE JobLifecycle ----------------------------
(***************************************************************************)
(* How job documents, write transactions, the queue and the lock of a job   *)
(* work together when clients and workers of Hangfire (external) create,    *)
(* enqueue, process and delete jobs through RavenConnection.                *)
(*                                                                          *)
(* The queue is DeliveryQueue, which JobQueue implements without any        *)
(* discipline of its callers.  The lock of a job is held by one thread at a *)
(* time, and lost when its process crashes, as in ReentrantLock.  The       *)
(* transaction is that of WriteTransaction, for one job document: a copy    *)
(* that is saved under optimistic concurrency.  AddToQueue is not part of   *)
(* it: it puts the entry into the queue at once, before the commit.         *)
(***************************************************************************)
CONSTANTS
    Jobs,       \* job ids; a client makes a new one (a GUID) for every job
    Workers, Clients,
    NoJob,      \* a thread is busy with no job
    Nobody,     \* nobody holds the lock of a job
    Absent,     \* there is no document
    NoCopy,     \* a thread has no open transaction
    Careful,    \* no job is enqueued that a worker is about to remove from the queue
    Patient     \* workers wait for a job's first state as long as its client takes

States == {"Enqueued", "Processing", "Succeeded", "Failed", "Deleted"}
Unfinished == {"Enqueued", "Processing"}
Outcomes == {"Succeeded", "Failed"}
Final == {"Succeeded", "Deleted"}
Threads == Workers \cup Clients

\* A RavenJob: the name in StateData, "none" for null, and whether it has @expires.
Docs == [state : States \cup {"none"}, expires : BOOLEAN]

ASSUME LifecycleAssumption ==
    /\ Workers \cap Clients = {}
    /\ NoJob \notin Jobs /\ Nobody \notin Threads
    /\ Absent \notin Docs /\ NoCopy \notin Docs
    /\ {Careful, Patient} \subseteq BOOLEAN

VARIABLES
    doc,    \* the document of each job
    ids,    \* ids that have been used
    entry,  \* the queue: the visibility of each job's entry
    claim,  \* the queue: the job each worker has fetched
    order,  \* the job each client is busy with
    holder, \* who holds the lock of each job
    pc,     \* what each thread is doing
    goal,   \* the state it wants to give to its job
    copy,   \* the copy of the job in its transaction
    fresh   \* threads whose copy has still the version of the document

vars == <<doc, ids, entry, claim, order, holder, pc, goal, copy, fresh>>

Queue == INSTANCE DeliveryQueue WITH Entries <- Jobs, NoEntry <- NoJob

Stages == {"idle", "locking", "reading", "changing", "queueing", "committing", "done",
           "refused", "performing", "removing"}

JobOf(a) == IF a \in Workers THEN claim[a] ELSE order[a]
Doc(a) == doc[JobOf(a)]
HasLock(a) == JobOf(a) # NoJob /\ holder[JobOf(a)] = a

Coherent(a) ==
    /\ JobOf(a) = NoJob <=> pc[a] = "idle"
    /\ JobOf(a) \in ids \cup {NoJob}
    /\ copy[a] # NoCopy <=> pc[a] \in {"queueing", "committing"}
    /\ a \in fresh => copy[a] # NoCopy /\ Doc(a) # Absent
    /\ pc[a] = "queueing" => goal[a] = "Enqueued"
    /\ pc[a] \in {"performing", "removing"} => a \in Workers
    /\ goal[a] \in IF a \in Workers THEN {"Processing"} \cup Outcomes
                   ELSE {"Enqueued", "Deleted"}

TypeOK ==
    /\ doc \in [Jobs -> Docs \cup {Absent}]
    /\ ids \subseteq Jobs
    /\ \A j \in Jobs \ ids : doc[j] = Absent /\ entry[j] = "absent"
    /\ entry \in [Jobs -> {"absent", "visible", "hidden"}]
    /\ claim \in [Workers -> Jobs \cup {NoJob}]
    /\ order \in [Clients -> Jobs \cup {NoJob}]
    /\ holder \in [Jobs -> Threads \cup {Nobody}]
    /\ pc \in [Threads -> Stages]
    /\ goal \in [Threads -> States]
    /\ copy \in [Threads -> Docs \cup {NoCopy}]
    /\ fresh \subseteq Threads
    /\ \A a \in Threads : Coherent(a)

Init ==
    /\ doc = [j \in Jobs |-> Absent]
    /\ ids = {}
    /\ Queue!Init
    /\ order = [c \in Clients |-> NoJob]
    /\ holder = [j \in Jobs |-> Nobody]
    /\ pc = [a \in Threads |-> "idle"]
    /\ goal = [a \in Threads |-> IF a \in Workers THEN "Processing" ELSE "Enqueued"]
    /\ copy = [a \in Threads |-> NoCopy]
    /\ fresh = {}

-----------------------------------------------------------------------------
(* Threads take up a job.                                                  *)

\* CreateExpiredJob, with a new id; then the client sets the first state.
CreateExpiredJob(c, j) ==
    /\ pc[c] = "idle" /\ j \notin ids
    /\ ids' = ids \cup {j}
    /\ doc' = [doc EXCEPT ![j] = [state |-> "none", expires |-> TRUE]]
    /\ order' = [order EXCEPT ![c] = j]
    /\ goal' = [goal EXCEPT ![c] = "Enqueued"]
    /\ pc' = [pc EXCEPT ![c] = "changing"]
    /\ UNCHANGED <<entry, claim, holder, copy, fresh>>

\* A job is enqueued again or deleted, by its owner, a retry or a schedule.
ChangeState(c, j, g) ==
    /\ pc[c] = "idle" /\ j \in ids
    /\ order' = [order EXCEPT ![c] = j]
    /\ goal' = [goal EXCEPT ![c] = g]
    /\ pc' = [pc EXCEPT ![c] = "locking"]
    /\ UNCHANGED <<doc, ids, entry, claim, holder, copy, fresh>>

\* A worker gets an entry of the queue.
FetchNextJob(w, j) ==
    /\ pc[w] = "idle"
    /\ Queue!Take(w, j)
    /\ goal' = [goal EXCEPT ![w] = "Processing"]
    /\ pc' = [pc EXCEPT ![w] = "locking"]
    /\ UNCHANGED <<doc, ids, order, holder, copy, fresh>>

-----------------------------------------------------------------------------
(* A change of state under the lock of the job.                            *)

AcquireDistributedLock(a) ==
    /\ pc[a] = "locking" /\ holder[JobOf(a)] = Nobody
    /\ holder' = [holder EXCEPT ![JobOf(a)] = a]
    /\ pc' = [pc EXCEPT ![a] = "reading"]
    /\ UNCHANGED <<doc, ids, entry, claim, order, goal, copy, fresh>>

\* A worker that is through with job j and has still to remove it from the queue.
Leaving(w, j) ==
    claim[w] = j /\ \/ pc[w] \notin {"locking", "reading"}
                    \/ goal[w] # "Processing"

\* The states that the change may start from.
Expected(a) ==
    IF goal[a] = "Processing" THEN Unfinished
    ELSE IF goal[a] \in Outcomes THEN {"Processing"} ELSE States

Accepts(a) ==
    /\ Doc(a) # Absent /\ Doc(a).state \in Expected(a)
    /\ Careful /\ goal[a] = "Enqueued" => \A w \in Workers : ~Leaving(w, JobOf(a))

\* (Mutant.) Nothing is returned for a job without a state.
GetStatefulJobData(a) ==
    /\ pc[a] = "reading"
    /\ pc' = [pc EXCEPT ![a] = IF Accepts(a) THEN "changing" ELSE "refused"]
    /\ UNCHANGED <<doc, ids, entry, claim, order, holder, goal, copy, fresh>>

\* (Mutant.) A missing job is asked for again, too.
GetExistingJobData(a) ==
    /\ pc[a] = "reading"
    /\ Doc(a) # Absent /\ Doc(a).state # "none"
    /\ pc' = [pc EXCEPT ![a] = IF Accepts(a) THEN "changing" ELSE "refused"]
    /\ UNCHANGED <<doc, ids, entry, claim, order, holder, goal, copy, fresh>>

\* GetJobData returns null for a missing job, and a null state for a job whose first
\* state is not committed yet: the caller then asks again.
GetJobData(a) ==
    /\ pc[a] = "reading"
    /\ Doc(a) # Absent => Doc(a).state # "none"
    /\ pc' = [pc EXCEPT ![a] = IF Accepts(a) THEN "changing" ELSE "refused"]
    /\ UNCHANGED <<doc, ids, entry, claim, order, holder, goal, copy, fresh>>

\* Inside the transaction, or about to open it.
Changing == {"changing", "queueing", "committing"}

\* The client that created job j has not committed its first state.
BeingCreated(j) ==
    \E c \in Clients :
        order[c] = j /\ holder[j] # c /\ pc[c] \in Changing

\* A worker stops asking for the first state.
GiveUp(w) ==
    /\ pc[w] = "reading" /\ Doc(w) # Absent /\ Doc(w).state = "none"
    /\ Patient => ~BeingCreated(JobOf(w))
    /\ pc' = [pc EXCEPT ![w] = "refused"]
    /\ UNCHANGED <<doc, ids, entry, claim, order, holder, goal, copy, fresh>>

\* A new transaction: SetJobState loads the job.
SetJobState(a) ==
    /\ pc[a] = "changing" /\ Doc(a) # Absent
    /\ copy' = [copy EXCEPT ![a] = [Doc(a) EXCEPT !.state = goal[a]]]
    /\ fresh' = fresh \cup {a}
    /\ pc' = [pc EXCEPT ![a] = IF goal[a] = "Enqueued" THEN "queueing" ELSE "committing"]
    /\ UNCHANGED <<doc, ids, entry, claim, order, holder, goal>>

\* AddToQueue writes to the queue at once.
AddToQueue(c) ==
    /\ pc[c] = "queueing"
    /\ Queue!Put(JobOf(c))
    /\ pc' = [pc EXCEPT ![c] = "committing"]
    /\ UNCHANGED <<doc, ids, order, holder, goal, copy, fresh>>

\* ExpireJob for a final state, PersistJob for any other, change the same copy.
Changed(a) == [copy[a] EXCEPT !.expires = goal[a] \in Final]

\* (Mutant.) Optimistic concurrency is forgotten.
CanAlwaysCommit(a) == TRUE

CanCommit(a) == a \in fresh

\* SaveChanges writes the document: no other copy of it is current any more.
Save(a) ==
    /\ doc' = [doc EXCEPT ![JobOf(a)] = Changed(a)]
    /\ fresh' = {b \in fresh : JobOf(b) # JobOf(a)}

Commit(a) ==
    /\ pc[a] = "committing" /\ CanCommit(a)
    /\ Save(a)
    /\ copy' = [copy EXCEPT ![a] = NoCopy]
    /\ pc' = [pc EXCEPT ![a] = "done"]
    /\ UNCHANGED <<ids, entry, claim, order, holder, goal>>

\* Who gives up the lock of the job, if it has it.
Unlock(a) == holder' = [j \in Jobs |-> IF holder[j] = a THEN Nobody ELSE holder[j]]

\* The change is over, and the lock disposed of.  A client is done; a worker performs
\* the job, or has only to remove it from the queue.
Release(a) ==
    /\ pc[a] \in {"done", "refused"}
    /\ Unlock(a)
    /\ order' = [c \in Clients |-> IF c = a THEN NoJob ELSE order[c]]
    /\ pc' = [pc EXCEPT ![a] = IF a \in Clients THEN "idle"
                               ELSE IF pc[a] = "done" /\ goal[a] = "Processing"
                               THEN "performing" ELSE "removing"]
    /\ UNCHANGED <<doc, ids, entry, claim, goal, copy, fresh>>

Perform(w) ==
    /\ pc[w] = "performing"
    /\ \E outcome \in Outcomes : goal' = [goal EXCEPT ![w] = outcome]
    /\ pc' = [pc EXCEPT ![w] = "locking"]
    /\ UNCHANGED <<doc, ids, entry, claim, order, holder, copy, fresh>>

RemoveFromQueue(w) ==
    /\ pc[w] = "removing"
    /\ Queue!Remove(w)
    /\ pc' = [pc EXCEPT ![w] = "idle"]
    /\ UNCHANGED <<doc, ids, order, holder, goal, copy, fresh>>

-----------------------------------------------------------------------------
(* What goes wrong.                                                        *)

\* (Mutant.) Dispose removes the entry.
AbandonAndRemove(a) ==
    /\ IF a \in Workers THEN Queue!Remove(a) ELSE Queue!Drop({a})
    /\ order' = [c \in Clients |-> IF c = a THEN NoJob ELSE order[c]]
    /\ pc' = [pc EXCEPT ![a] = "idle"]

\* The thread drops everything.  A worker's entry stays in the queue, hidden: Dispose
\* of the fetched job calls Requeue, which does not save.
Abandon(a) ==
    /\ Queue!Drop({a})
    /\ order' = [c \in Clients |-> IF c = a THEN NoJob ELSE order[c]]
    /\ pc' = [pc EXCEPT ![a] = "idle"]

\* A worker whose change of state has failed may try it again.
TryAgain(a) ==
    /\ a \in Workers /\ pc[a] \in {"locking", "reading"} \cup Changing
    /\ pc' = [pc EXCEPT ![a] = "locking"]
    /\ UNCHANGED <<entry, claim, order>>

\* (Mutant.) The session is not disposed of.
GoneWrongButOpen(a) ==
    /\ Abandon(a) \/ TryAgain(a)
    /\ Unlock(a)
    /\ UNCHANGED <<ids, goal, copy>>

\* The lock is disposed of, and the transaction with its changes.
GoneWrong(a) ==
    /\ Abandon(a) \/ TryAgain(a)
    /\ Unlock(a)
    /\ copy' = [copy EXCEPT ![a] = NoCopy]
    /\ UNCHANGED <<ids, goal>>

\* SetJobState dereferences a job that is not there any more.
SetJobStateThrows(a) ==
    /\ pc[a] = "changing" /\ Doc(a) = Absent
    /\ GoneWrong(a)
    /\ UNCHANGED <<doc, fresh>>

\* ConcurrencyException.
CommitThrows(a) ==
    /\ pc[a] = "committing" /\ ~CanCommit(a)
    /\ GoneWrong(a)
    /\ UNCHANGED <<doc, fresh>>

\* The process of the thread crashes, or one of its calls throws for another reason;
\* a save may have been executed by the server all the same.  (Not where this differs
\* in nothing from an action above, which happens without failures.)
Fail(a) ==
    /\ pc[a] # "idle"
    /\ a \in Clients => pc[a] \notin {"done", "refused"}
    /\ pc[a] = "removing" => entry[JobOf(a)] # "absent"
    /\ pc[a] = "changing" => Doc(a) # Absent
    /\ pc[a] = "committing" => CanCommit(a)
    /\ GoneWrong(a)
    /\ \/ UNCHANGED doc /\ fresh' = fresh \ {a}
       \/ pc[a] = "committing" /\ Save(a)

\* RavenDB deletes an expired document.
Expire(j) ==
    /\ doc[j] # Absent /\ doc[j].expires
    /\ doc' = [doc EXCEPT ![j] = Absent]
    /\ fresh' = {a \in fresh : JobOf(a) # j}
    /\ UNCHANGED <<ids, entry, claim, order, holder, pc, goal, copy>>

\* The reply of a Dequeue is lost, or the invisibility timeout of an entry is over.
Elsewhere(j) ==
    /\ Queue!Misplace(j) \/ Queue!Reappear({j})
    /\ UNCHANGED <<doc, ids, order, holder, pc, goal, copy, fresh>>

-----------------------------------------------------------------------------
\* What a thread does to bring its own work to an end.
Step(a) ==
    \/ AcquireDistributedLock(a) \/ GetJobData(a) \/ SetJobState(a)
    \/ Commit(a) \/ Release(a) \/ SetJobStateThrows(a) \/ CommitThrows(a)
    \/ a \in Clients /\ AddToQueue(a)
    \/ a \in Workers /\ (GiveUp(a) \/ Perform(a) \/ RemoveFromQueue(a))

Next ==
    \/ \E c \in Clients, j \in Jobs :
          \/ CreateExpiredJob(c, j)
          \/ \E g \in {"Enqueued", "Deleted"} : ChangeState(c, j, g)
    \/ \E w \in Workers, j \in Jobs : FetchNextJob(w, j)
    \/ \E a \in Threads : Step(a) \/ Fail(a)
    \/ \E j \in Jobs : Expire(j) \/ Elsewhere(j)

Spec == Init /\ [][Next]_vars

\* Threads go on, workers fetch what is visible, entries become visible again (as
\* EntriesAreHandedOut of JobQueue has it), and RavenDB deletes what has expired.
\* Failures, lost replies and changes asked for by clients come to an end.
Fairness ==
    /\ \A a \in Threads : WF_vars(Step(a))
    /\ \A w \in Workers : WF_vars(\E j \in Jobs : FetchNextJob(w, j))
    /\ \A j \in Jobs : WF_vars(Expire(j)) /\ WF_vars(Elsewhere(j) /\ entry[j] = "hidden")
    /\ <>[][/\ \A a \in Threads : ~Fail(a)
            /\ \A j \in Jobs : ~(Elsewhere(j) /\ entry'[j] = "hidden")
            /\ \A c \in Clients : ~(pc[c] = "idle" /\ pc'[c] = "locking")]_vars

FairSpec == Spec /\ Fairness

-----------------------------------------------------------------------------
(* Properties.                                                             *)

IsUnfinished(j) == doc[j] # Absent /\ doc[j].state \in Unfinished

\* A job whose state says that it is enqueued or processed has its entry in the
\* queue, so that some worker will find it: although the entry is put before the
\* state is committed, workers fetch it before and forget entries of jobs they do not
\* find enqueued, commits fail, and workers crash.
UnfinishedIsQueued == \A j \in Jobs : IsUnfinished(j) => entry[j] # "absent"

\* Every such job gets an outcome or is deleted.
JobsEnd == \A j \in Jobs : IsUnfinished(j) ~> ~IsUnfinished(j)

\* What failed transactions have put into the queue goes away, like the rest.
QueueDrains == \A j \in Jobs : <>[](entry[j] = "absent")

\* The documents are the jobs of BackgroundJob: what transactions and the expiration
\* of RavenDB do to them is what the owner of a job may rely on.
Status == [j \in Jobs |->
    IF j \notin ids THEN "none"
    ELSE IF doc[j] = Absent THEN "gone"
    ELSE IF doc[j].state = "none" THEN "created" ELSE doc[j].state]
Abstract == INSTANCE BackgroundJob WITH status <- Status
ImplementsBackgroundJob == Abstract!Spec
=============================================================================

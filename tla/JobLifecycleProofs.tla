------------------------- MODULE JobLifecycleProofs -------------------------
(***************************************************************************)
(* Proofs about JobLifecycle: its types, that the documents implement       *)
(* BackgroundJob, and that unfinished jobs have their entry in the queue.   *)
(* The inductive invariant is TypeOK, LockInv, DataInv and QueueInv, each    *)
(* inductive relative to those before it.                                   *)
(***************************************************************************)
EXTENDS JobLifecycle, TLAPS

-----------------------------------------------------------------------------
(* Types.                                                                  *)

LEMMA DocTypes ==
    ASSUME NEW d \in Docs
    PROVE  /\ d.state \in States \cup {"none"} /\ d.expires \in BOOLEAN
           /\ d # Absent /\ d # NoCopy
  BY LifecycleAssumption DEF Docs

LEMMA NewStateTypes ==
    ASSUME NEW d \in Docs, NEW s \in States
    PROVE  /\ [d EXCEPT !.state = s] \in Docs /\ [d EXCEPT !.state = s].state = s
           /\ [d EXCEPT !.state = s].expires = d.expires
  BY DEF Docs

LEMMA NewExpiryTypes ==
    ASSUME NEW d \in Docs, NEW b \in BOOLEAN
    PROVE  /\ [d EXCEPT !.expires = b] \in Docs
           /\ [d EXCEPT !.expires = b].state = d.state
           /\ [d EXCEPT !.expires = b].expires = b
  BY DEF Docs

LEMMA NewDocTypes == [state |-> "none", expires |-> TRUE] \in Docs
  BY DEF Docs

\* A save writes a document, to the job of the thread.
LEMMA SaveTypes ==
    ASSUME TypeOK, NEW a \in Threads, pc[a] = "committing", Save(a)
    PROVE  /\ JobOf(a) \in ids /\ JobOf(a) \in Jobs
           /\ Changed(a) \in Docs /\ Changed(a).state = copy[a].state
           /\ Changed(a).expires <=> goal[a] \in Final
           /\ doc' \in [Jobs -> Docs \cup {Absent}] /\ doc'[JobOf(a)] = Changed(a)
           /\ \A j \in Jobs \ {JobOf(a)} : doc'[j] = doc[j]
           /\ \A j \in Jobs : doc'[j] = Absent => doc[j] = Absent
           /\ fresh' \subseteq fresh /\ \A b \in fresh' : JobOf(b) # JobOf(a)
<1>1. JobOf(a) \in ids /\ JobOf(a) \in Jobs /\ copy[a] \in Docs
  BY DEF TypeOK, Coherent
<1>2. /\ Changed(a) \in Docs /\ Changed(a).state = copy[a].state
      /\ Changed(a).expires <=> goal[a] \in Final
  <2>1. (goal[a] \in Final) \in BOOLEAN
    OBVIOUS
  <2> QED BY <1>1, <2>1, NewExpiryTypes DEF Changed
<1>3. Changed(a) # Absent
  BY <1>2, LifecycleAssumption
<1>4. /\ doc' = [doc EXCEPT ![JobOf(a)] = Changed(a)]
      /\ fresh' = {b \in fresh : JobOf(b) # JobOf(a)}
  BY DEF Save
<1> QED BY <1>1, <1>2, <1>3, <1>4 DEF TypeOK

\* What a thread leaves behind when its change of state goes wrong.
LEMMA GoneWrongTypes ==
    ASSUME TypeOK, NEW a \in Threads, GoneWrong(a)
    PROVE  /\ claim' \in [Workers -> Jobs \cup {NoJob}]
           /\ order' \in [Clients -> Jobs \cup {NoJob}]
           /\ holder' = [j \in Jobs |-> IF holder[j] = a THEN Nobody ELSE holder[j]]
           /\ copy' = [copy EXCEPT ![a] = NoCopy] /\ entry' = entry
           /\ ids' = ids /\ goal' = goal
           /\ \A b \in Threads \ {a} : JobOf(b)' = JobOf(b)
           /\ \/ pc' = [pc EXCEPT ![a] = "idle"] /\ JobOf(a)' = NoJob
              \/ /\ a \in Workers /\ pc[a] \in {"locking", "reading"} \cup Changing
                 /\ pc' = [pc EXCEPT ![a] = "locking"] /\ JobOf(a)' = JobOf(a)
<1>1. CASE Abandon(a)
  <2>1. /\ claim' = [w \in Workers |-> IF w \in {a} THEN NoJob ELSE claim[w]]
        /\ order' = [c \in Clients |-> IF c = a THEN NoJob ELSE order[c]]
        /\ pc' = [pc EXCEPT ![a] = "idle"] /\ entry' = entry
    BY <1>1 DEF Abandon, Queue!Drop
  <2> QED BY <2>1 DEF GoneWrong, Unlock, TypeOK, JobOf, Threads
<1>2. CASE TryAgain(a)
  BY <1>2 DEF TryAgain, GoneWrong, Unlock, TypeOK, JobOf
<1> QED BY <1>1, <1>2 DEF GoneWrong

\* A thread that does nothing stays coherent while its current copy's job does.
LEMMA OtherThread ==
    ASSUME TypeOK, NEW b \in Threads,
           JobOf(b)' = JobOf(b), pc'[b] = pc[b], copy'[b] = copy[b], goal'[b] = goal[b],
           ids \subseteq ids',
           b \in fresh' => b \in fresh /\ doc'[JobOf(b)] # Absent
    PROVE  Coherent(b)'
  BY DEF TypeOK, Coherent, Doc

LEMMA TypeInit == Init => TypeOK
  BY LifecycleAssumption
     DEF Init, TypeOK, Coherent, Queue!Init, JobOf, Threads, States, Stages, Outcomes

LEMMA GoneWrongKeepsTypes ==
    ASSUME TypeOK, NEW a \in Threads, GoneWrong(a), a \notin fresh',
           doc' \in [Jobs -> Docs \cup {Absent}], \A j \in Jobs \ ids : doc'[j] = Absent,
           fresh' \subseteq fresh, \A b \in fresh' : doc'[JobOf(b)] # Absent
    PROVE  TypeOK'
<1>1. /\ pc' \in [Threads -> Stages] /\ goal' \in [Threads -> States]
      /\ copy' \in [Threads -> Docs \cup {NoCopy}] /\ ids' = ids
      /\ holder' \in [Jobs -> Threads \cup {Nobody}]
  BY GoneWrongTypes DEF TypeOK, Stages
<1>2. ASSUME NEW b \in Threads \ {a} PROVE Coherent(b)'
  <2>1. pc'[b] = pc[b] /\ copy'[b] = copy[b] /\ JobOf(b)' = JobOf(b) /\ goal' = goal
    BY GoneWrongTypes DEF TypeOK
  <2> QED BY <2>1, <1>1, OtherThread
<1>3. Coherent(a)'
  <2>1. copy'[a] = NoCopy /\ goal'[a] = goal[a] /\ Coherent(a)
    BY GoneWrongTypes DEF TypeOK
  <2>2. CASE pc'[a] = "idle" /\ JobOf(a)' = NoJob
    BY <2>1, <2>2 DEF Coherent
  <2>3. CASE /\ a \in Workers /\ pc[a] \in {"locking", "reading"} \cup Changing
             /\ pc'[a] = "locking" /\ JobOf(a)' = JobOf(a)
    BY <2>1, <2>3, <1>1 DEF Coherent, Changing
  <2> QED BY <2>2, <2>3, GoneWrongTypes DEF TypeOK
<1> QED BY <1>1, <1>2, <1>3, GoneWrongTypes DEF TypeOK

LEMMA TypeStep == TypeOK /\ [Next]_vars => TypeOK'
<1> SUFFICES ASSUME TypeOK, [Next]_vars PROVE TypeOK'
  OBVIOUS
<1> USE LifecycleAssumption
<1>1. ASSUME NEW c \in Clients, NEW j \in Jobs, CreateExpiredJob(c, j) PROVE TypeOK'
  BY <1>1, NewDocTypes DEF CreateExpiredJob, TypeOK, Coherent, Doc, JobOf, Threads, Stages, States
<1>2. ASSUME NEW c \in Clients, NEW j \in Jobs, NEW g \in {"Enqueued", "Deleted"},
             ChangeState(c, j, g)
      PROVE  TypeOK'
  BY <1>2 DEF ChangeState, TypeOK, Coherent, Doc, JobOf, Threads, Stages, States
<1>3. ASSUME NEW w \in Workers, NEW j \in Jobs, FetchNextJob(w, j) PROVE TypeOK'
  BY <1>3 DEF FetchNextJob, Queue!Take, TypeOK, Coherent, Doc, JobOf, Threads, Stages, States
<1>4. ASSUME NEW a \in Threads, AcquireDistributedLock(a) PROVE TypeOK'
  BY <1>4 DEF AcquireDistributedLock, TypeOK, Coherent, Doc, JobOf, Stages
<1>5. ASSUME NEW a \in Threads, GetJobData(a) PROVE TypeOK'
  BY <1>5 DEF GetJobData, TypeOK, Coherent, Doc, JobOf, Stages
<1>6. ASSUME NEW a \in Threads, SetJobState(a) PROVE TypeOK'
  <2>1. Coherent(a) /\ Doc(a) \in Docs /\ goal[a] \in States /\ JobOf(a)' = JobOf(a)
    BY <1>6 DEF SetJobState, TypeOK, Coherent, Doc, JobOf
  <2>2. [Doc(a) EXCEPT !.state = goal[a]] \in Docs
    BY <2>1, NewStateTypes
  <2>3. copy' \in [Threads -> Docs \cup {NoCopy}] /\ copy'[a] # NoCopy
    BY <1>6, <2>2 DEF SetJobState, TypeOK
  <2>4. ASSUME NEW b \in Threads \ {a} PROVE Coherent(b)'
    BY <1>6, OtherThread DEF SetJobState, TypeOK, Coherent, JobOf, Doc
  <2>5. pc' \in [Threads -> Stages] /\ Coherent(a)'
    BY <1>6, <2>1, <2>3 DEF SetJobState, TypeOK, Coherent, Doc, Stages
  <2> QED BY <1>6, <2>3, <2>4, <2>5 DEF SetJobState, TypeOK
<1>7. ASSUME NEW a \in Threads, Commit(a) PROVE TypeOK'
  BY <1>7, SaveTypes DEF Commit, TypeOK, Coherent, JobOf, Doc, Stages
<1>8. ASSUME NEW a \in Threads, Release(a) PROVE TypeOK'
  <2>1. /\ pc' \in [Threads -> Stages] /\ order' \in [Clients -> Jobs \cup {NoJob}]
        /\ holder' \in [Jobs -> Threads \cup {Nobody}]
        /\ \A b \in Threads \ {a} : pc'[b] = pc[b] /\ JobOf(b)' = JobOf(b)
    BY <1>8 DEF Release, Unlock, TypeOK, JobOf, Threads, Stages
  <2>2. ASSUME NEW b \in Threads \ {a} PROVE Coherent(b)'
    BY <1>8, <2>1, OtherThread DEF Release, TypeOK, Coherent, Doc
  <2>3. Coherent(a)'
    BY <1>8 DEF Release, TypeOK, Coherent, Doc, JobOf, Threads
  <2> QED BY <1>8, <2>1, <2>2, <2>3 DEF Release, TypeOK
<1>9. ASSUME NEW a \in Threads, SetJobStateThrows(a) PROVE TypeOK'
  BY <1>9, GoneWrongKeepsTypes DEF SetJobStateThrows, TypeOK, Coherent, Doc
<1>10. ASSUME NEW a \in Threads, CommitThrows(a) PROVE TypeOK'
  BY <1>10, GoneWrongKeepsTypes DEF CommitThrows, CanCommit, TypeOK, Coherent, Doc
<1>11. ASSUME NEW c \in Clients, AddToQueue(c) PROVE TypeOK'
  BY <1>11 DEF AddToQueue, Queue!Put, TypeOK, Coherent, JobOf, Doc, Threads, Stages
<1>12. ASSUME NEW w \in Workers, GiveUp(w) PROVE TypeOK'
  BY <1>12 DEF GiveUp, TypeOK, Coherent, JobOf, Doc, Threads, Stages
<1>13. ASSUME NEW w \in Workers, Perform(w) PROVE TypeOK'
  BY <1>13 DEF Perform, TypeOK, Coherent, JobOf, Doc, Threads, Stages, States, Outcomes
<1>14. ASSUME NEW w \in Workers, RemoveFromQueue(w) PROVE TypeOK'
  BY <1>14 DEF RemoveFromQueue, Queue!Remove, TypeOK, Coherent, JobOf, Doc, Threads, Stages
<1>15. ASSUME NEW a \in Threads, Fail(a) PROVE TypeOK'
  <2>1. CASE doc' = doc /\ fresh' = fresh \ {a}
    BY <1>15, <2>1, GoneWrongKeepsTypes DEF Fail, TypeOK, Coherent, Doc
  <2>2. CASE pc[a] = "committing" /\ Save(a)
    BY <1>15, <2>2, SaveTypes, GoneWrongKeepsTypes DEF Fail, TypeOK, Coherent, Doc
  <2> QED BY <1>15, <2>1, <2>2 DEF Fail
<1>16. ASSUME NEW j \in Jobs, Expire(j) PROVE TypeOK'
  BY <1>16 DEF Expire, TypeOK, Coherent, JobOf, Doc
<1>17. ASSUME NEW j \in Jobs, Elsewhere(j) PROVE TypeOK'
  BY <1>17 DEF Elsewhere, Queue!Misplace, Queue!Reappear, TypeOK, Coherent, JobOf, Doc
<1>18. CASE UNCHANGED vars
  BY <1>18 DEF vars, TypeOK, Coherent, JobOf, Doc
<1> QED
  BY <1>1, <1>2, <1>3, <1>4, <1>5, <1>6, <1>7, <1>8, <1>9, <1>10, <1>11, <1>12, <1>13,
     <1>14, <1>15, <1>16, <1>17, <1>18 DEF Next, Step

\* Whatever clients, workers, failures and the expiration do, the documents stay well
\* formed, open transactions are those of threads inside a change of state, and no
\* current copy is of a job that is gone.
THEOREM TypeCorrect == Spec => []TypeOK
  BY TypeInit, TypeStep, PTL DEF Spec

-----------------------------------------------------------------------------
(* The lock of a job, and what it and optimistic concurrency keep together.  *)

Locked == {"reading", "done", "refused"} \cup Changing

\* A client that is about to give a new job its first state has no lock.
Creating(c) == c \in Clients /\ pc[c] \in Changing /\ ~HasLock(c)

LockInv ==
    /\ \A j \in Jobs : holder[j] # Nobody =>
           JobOf(holder[j]) = j /\ pc[holder[j]] \in Locked
    /\ \A a \in Threads :
           pc[a] \in {"reading", "refused"} \/ (a \in Workers /\ pc[a] \in Locked)
               => HasLock(a)

\* Which documents expire, and what a thread that changes a job may rely on.
DataInv ==
    /\ \A j \in Jobs : doc[j] # Absent /\ doc[j].expires => doc[j].state \in {"none"} \cup Final
    /\ \A a \in Threads :
        /\ copy[a] # NoCopy => copy[a].state = goal[a]
        /\ pc[a] \in Changing /\ HasLock(a) /\ Doc(a) # Absent => Doc(a).state \in Expected(a)
        /\ Creating(a) =>
            /\ goal[a] = "Enqueued"
            /\ Doc(a) # Absent => Doc(a).state = "none"
            /\ \A c \in Clients \ {a} : Creating(c) => JobOf(c) # JobOf(a)

-----------------------------------------------------------------------------
(* The queue.                                                              *)

\* Client c is on its way to save the state Enqueued for job j.
Coming(c, j) == order[c] = j /\ goal[c] = "Enqueued" /\ pc[c] \in Changing

NotComing(j) == \A c \in Clients : Coming(c, j) => doc[j] = Absent

\* Worker w has found that its job is not enqueued, or has changed that.
Past(w) ==
    \/ pc[w] \in {"performing", "removing", "refused", "done"}
    \/ goal[w] \in Outcomes /\ pc[w] # "idle"

\* The job of worker w is not enqueued, and is not going to be.
Rid(w) ==
    /\ NotComing(claim[w])
    /\ doc[claim[w]] # Absent => doc[claim[w]].state # "Enqueued"

\* What worker w does next with its entry is to remove it.
Doomed(w) ==
    \/ pc[w] \in {"refused", "removing"}
    \/ pc[w] = "done" /\ goal[w] # "Processing"

\* Client c is about to commit, and may succeed.
Succeeding(c) == pc[c] = "committing" /\ goal[c] = "Enqueued" /\ c \in fresh

QueueInv ==
    /\ UnfinishedIsQueued
    /\ \A w \in Workers : /\ Past(w) => Rid(w)
                          /\ Doomed(w) => ~IsUnfinished(claim[w])
    /\ \A c \in Clients : Succeeding(c) => entry[order[c]] # "absent"

-----------------------------------------------------------------------------
(* Locks.                                                                  *)

LEMMA LockInit == Init => LockInv
  BY LifecycleAssumption DEF Init, LockInv, Locked, Changing, Threads

\* Who gives up a job it has, or keeps it without its lock, unlocks it.
LEMMA GoneWrongKeepsLocks ==
    ASSUME TypeOK, LockInv, NEW a \in Threads, GoneWrong(a)
    PROVE  LockInv'
<1> USE LifecycleAssumption
<1>1. /\ \A j \in Jobs : holder'[j] = IF holder[j] = a THEN Nobody ELSE holder[j]
      /\ \A b \in Threads \ {a} : JobOf(b)' = JobOf(b) /\ pc'[b] = pc[b]
      /\ pc'[a] \in {"idle", "locking"}
  BY GoneWrongTypes DEF TypeOK
<1>2. ASSUME NEW j \in Jobs, holder'[j] # Nobody
      PROVE  (JobOf(holder[j]) = j /\ pc[holder[j]] \in Locked)'
  <2>1. holder'[j] = holder[j] /\ holder[j] \in Threads \ {a}
    BY <1>1, <1>2 DEF TypeOK
  <2> QED BY <1>1, <2>1 DEF LockInv
<1>3. ASSUME NEW b \in Threads,
             pc'[b] \in {"reading", "refused"} \/ (b \in Workers /\ pc'[b] \in Locked)
      PROVE  HasLock(b)'
  <2>1. b # a /\ HasLock(b)
    BY <1>1, <1>3, b = a \/ pc'[b] = pc[b] DEF LockInv, Locked, Changing
  <2>2. JobOf(b)' = JobOf(b) /\ JobOf(b) \in Jobs
    BY <1>1, <2>1 DEF HasLock, TypeOK, Coherent
  <2> QED BY <1>1, <2>1, <2>2 DEF HasLock, TypeOK
<1> QED BY <1>2, <1>3 DEF LockInv

LEMMA LockStep == TypeOK /\ LockInv /\ [Next]_vars => LockInv'
<1> SUFFICES ASSUME TypeOK, LockInv, [Next]_vars PROVE LockInv'
  OBVIOUS
<1> USE LifecycleAssumption DEF LockInv, Locked, Changing
<1>1. ASSUME NEW c \in Clients, NEW j \in Jobs, CreateExpiredJob(c, j) PROVE LockInv'
  BY <1>1 DEF CreateExpiredJob, TypeOK, HasLock, JobOf, Threads
<1>2. ASSUME NEW c \in Clients, NEW j \in Jobs, NEW g \in {"Enqueued", "Deleted"},
             ChangeState(c, j, g)
      PROVE  LockInv'
  BY <1>2 DEF ChangeState, TypeOK, HasLock, JobOf, Threads
<1>3. ASSUME NEW w \in Workers, NEW j \in Jobs, FetchNextJob(w, j) PROVE LockInv'
  BY <1>3 DEF FetchNextJob, Queue!Take, TypeOK, HasLock, JobOf, Threads
<1>4. ASSUME NEW a \in Threads, AcquireDistributedLock(a) PROVE LockInv'
  <2>1. JobOf(a) \in Jobs /\ \A b \in Threads : JobOf(b)' = JobOf(b)
    BY <1>4 DEF AcquireDistributedLock, TypeOK, Coherent, JobOf
  <2> QED BY <1>4, <2>1 DEF AcquireDistributedLock, TypeOK, HasLock
<1>5. ASSUME NEW a \in Threads, GetJobData(a) PROVE LockInv'
  BY <1>5 DEF GetJobData, TypeOK, HasLock, JobOf
<1>6. ASSUME NEW a \in Threads, SetJobState(a) PROVE LockInv'
  BY <1>6 DEF SetJobState, TypeOK, HasLock, JobOf
<1>7. ASSUME NEW a \in Threads, Commit(a) PROVE LockInv'
  BY <1>7 DEF Commit, TypeOK, HasLock, JobOf
<1>8. ASSUME NEW a \in Threads, Release(a) PROVE LockInv'
  <2>1. /\ \A j \in Jobs : holder'[j] = IF holder[j] = a THEN Nobody ELSE holder[j]
        /\ \A b \in Threads \ {a} : JobOf(b)' = JobOf(b) /\ pc'[b] = pc[b]
        /\ pc'[a] \in {"idle", "performing", "removing"}
    BY <1>8 DEF Release, Unlock, TypeOK, JobOf, Threads
  <2>2. ASSUME NEW j \in Jobs, holder'[j] # Nobody
        PROVE  (JobOf(holder[j]) = j /\ pc[holder[j]] \in Locked)'
    <3>1. holder'[j] = holder[j] /\ holder[j] \in Threads \ {a}
      BY <2>1, <2>2 DEF TypeOK
    <3> QED BY <2>1, <3>1
  <2>3. ASSUME NEW b \in Threads, HasLock(b), b # a PROVE HasLock(b)'
    BY <2>1, <2>3 DEF TypeOK, Coherent, HasLock
  <2>4. ASSUME NEW b \in Threads,
               pc'[b] \in {"reading", "refused"} \/ (b \in Workers /\ pc'[b] \in Locked)
        PROVE  HasLock(b)'
    <3>1. b # a /\ pc'[b] = pc[b]
      BY <2>1, <2>4
    <3> QED BY <2>3, <2>4, <3>1
  <2> QED BY <2>2, <2>4
<1>9. ASSUME NEW a \in Threads, SetJobStateThrows(a) \/ CommitThrows(a) \/ Fail(a)
      PROVE  LockInv'
  BY <1>9, GoneWrongKeepsLocks DEF LockInv, SetJobStateThrows, CommitThrows, Fail
<1>10. ASSUME NEW c \in Clients, AddToQueue(c) PROVE LockInv'
  BY <1>10 DEF AddToQueue, Queue!Put, TypeOK, HasLock, JobOf, Threads
<1>11. ASSUME NEW w \in Workers, GiveUp(w) PROVE LockInv'
  BY <1>11 DEF GiveUp, TypeOK, HasLock, JobOf, Threads
<1>12. ASSUME NEW w \in Workers, Perform(w) PROVE LockInv'
  BY <1>12 DEF Perform, TypeOK, HasLock, JobOf, Threads
<1>13. ASSUME NEW w \in Workers, RemoveFromQueue(w) PROVE LockInv'
  BY <1>13 DEF RemoveFromQueue, Queue!Remove, TypeOK, HasLock, JobOf, Threads
<1>14. ASSUME NEW j \in Jobs, Expire(j) \/ Elsewhere(j) PROVE LockInv'
  BY <1>14 DEF Expire, Elsewhere, Queue!Misplace, Queue!Reappear, HasLock, JobOf
<1>15. CASE UNCHANGED vars
  BY <1>15 DEF vars, HasLock, JobOf
<1> QED
  BY <1>1, <1>2, <1>3, <1>4, <1>5, <1>6, <1>7, <1>8, <1>9, <1>10, <1>11, <1>12, <1>13,
     <1>14, <1>15 DEF Next, Step
-----------------------------------------------------------------------------
(* Documents.                                                              *)

OthersKeep(a) ==
    \A b \in Threads \ {a} :
        /\ JobOf(b)' = JobOf(b) /\ pc'[b] = pc[b] /\ goal'[b] = goal[b]
        /\ copy'[b] = copy[b] /\ HasLock(b)' = HasLock(b)

LEMMA UnlockOnlyOwn ==
    ASSUME TypeOK, NEW a \in Threads, NEW b \in Threads \ {a},
           holder' = [j \in Jobs |-> IF holder[j] = a THEN Nobody ELSE holder[j]],
           JobOf(b)' = JobOf(b)
    PROVE  HasLock(b)' = HasLock(b)
  BY LifecycleAssumption DEF TypeOK, Coherent, HasLock

LEMMA TakeUpIsOwn ==
    ASSUME TypeOK, NEW a \in Threads, NEW j \in Jobs,
           \/ a \in Clients /\ CreateExpiredJob(a, j)
           \/ a \in Clients /\ \E g \in {"Enqueued", "Deleted"} : ChangeState(a, j, g)
           \/ a \in Workers /\ FetchNextJob(a, j)
    PROVE  OthersKeep(a) /\ pc[a] = "idle" /\ copy'[a] = NoCopy /\ JobOf(a)' = j
<1>1. CASE a \in Clients
  <2>1. a \notin Workers /\ order' = [order EXCEPT ![a] = j] /\ claim' = claim
    BY <1>1, LifecycleAssumption DEF CreateExpiredJob, ChangeState
  <2>2. JobOf(a)' = j /\ \A b \in Threads \ {a} : JobOf(b)' = JobOf(b)
    BY <1>1, <2>1 DEF TypeOK, JobOf, Threads
  <2>3. /\ pc[a] = "idle" /\ copy' = copy /\ holder' = holder
        /\ \A b \in Threads \ {a} : pc'[b] = pc[b] /\ goal'[b] = goal[b]
    BY <1>1, LifecycleAssumption DEF CreateExpiredJob, ChangeState, TypeOK
  <2>4. \A b \in Threads \ {a} : HasLock(b)' = HasLock(b)
    BY <2>2, <2>3 DEF HasLock
  <2>5. copy'[a] = NoCopy
    BY <2>3 DEF TypeOK, Coherent
  <2> QED BY <2>2, <2>3, <2>4, <2>5 DEF OthersKeep
<1>2. CASE a \in Workers /\ FetchNextJob(a, j)
  <2>1. claim' = [claim EXCEPT ![a] = j] /\ order' = order
    BY <1>2 DEF FetchNextJob, Queue!Take
  <2>2. JobOf(a)' = j /\ \A b \in Threads \ {a} : JobOf(b)' = JobOf(b)
    BY <1>2, <2>1 DEF TypeOK, JobOf, Threads
  <2>3. /\ pc[a] = "idle" /\ copy' = copy /\ holder' = holder
        /\ \A b \in Threads \ {a} : pc'[b] = pc[b] /\ goal'[b] = goal[b]
    BY <1>2 DEF FetchNextJob, TypeOK
  <2>4. \A b \in Threads \ {a} : HasLock(b)' = HasLock(b)
    BY <2>2, <2>3 DEF HasLock
  <2>5. copy'[a] = NoCopy
    BY <2>3 DEF TypeOK, Coherent
  <2> QED BY <2>2, <2>3, <2>4, <2>5 DEF OthersKeep
<1> QED BY <1>1, <1>2

\* A thread that takes a step leaves the others alone.
LEMMA StepIsOwn ==
    ASSUME TypeOK, NEW a \in Threads, Step(a) \/ Fail(a)
    PROVE  OthersKeep(a)
<1> USE LifecycleAssumption DEF OthersKeep, TypeOK
<1>1. CASE AcquireDistributedLock(a)
  <2>1. \A b \in Threads : JobOf(b)' = JobOf(b)
    BY <1>1 DEF AcquireDistributedLock, JobOf
  <2>2. JobOf(a) \in Jobs
    BY <1>1 DEF AcquireDistributedLock, Coherent
  <2> QED BY <1>1, <2>1, <2>2 DEF AcquireDistributedLock, HasLock
<1>2. CASE GetJobData(a) \/ SetJobState(a)
  BY <1>2 DEF GetJobData, SetJobState, HasLock, JobOf
<1>3. CASE Commit(a)
  BY <1>3 DEF Commit, HasLock, JobOf
<1>4. CASE Release(a)
  <2>1. \A b \in Threads \ {a} : JobOf(b)' = JobOf(b)
    BY <1>4 DEF Release, JobOf, Threads
  <2>2. \A b \in Threads \ {a} : HasLock(b)' = HasLock(b)
    BY <1>4, <2>1, UnlockOnlyOwn DEF Release, Unlock
  <2> QED BY <1>4, <2>1, <2>2 DEF Release
<1>5. CASE GoneWrong(a)
  <2>1. \A b \in Threads \ {a} : HasLock(b)' = HasLock(b)
    BY <1>5, GoneWrongTypes, UnlockOnlyOwn
  <2> QED BY <1>5, <2>1, GoneWrongTypes
<1>6. CASE a \in Clients /\ AddToQueue(a)
  BY <1>6 DEF AddToQueue, Queue!Put, HasLock, JobOf
<1>7. CASE a \in Workers /\ (GiveUp(a) \/ Perform(a))
  BY <1>7 DEF GiveUp, Perform, HasLock, JobOf
<1>8. CASE a \in Workers /\ RemoveFromQueue(a)
  BY <1>8 DEF RemoveFromQueue, Queue!Remove, HasLock, JobOf
<1> QED
  BY <1>1, <1>2, <1>3, <1>4, <1>5, <1>6, <1>7, <1>8
     DEF Step, Fail, SetJobStateThrows, CommitThrows

\* Two threads change one job only when the document is gone, and both will fail.
LEMMA OneChange ==
    ASSUME TypeOK, LockInv, DataInv, NEW a \in Threads, NEW b \in Threads \ {a},
           pc[a] \in Changing, pc[b] \in Changing, JobOf(a) = JobOf(b)
    PROVE  Doc(a) = Absent
<1> SUFFICES ASSUME Doc(a) # Absent PROVE FALSE
  OBVIOUS
<1>1. /\ JobOf(a) \in Jobs /\ Doc(a) = Doc(b)
      /\ \A c \in Threads : Expected(c) \subseteq States /\ "none" \notin States
  <2>1. JobOf(a) \in Jobs
    BY DEF TypeOK, Coherent, Changing
  <2> QED BY <2>1 DEF Doc, Expected, States, Unfinished
<1>2. ASSUME NEW c \in Threads, pc[c] \in Changing, ~HasLock(c) PROVE Creating(c)
  BY <1>2 DEF LockInv, Locked, Creating, Threads
<1>3. CASE HasLock(a) /\ HasLock(b)
  BY <1>3 DEF HasLock
<1>4. CASE HasLock(a) /\ ~HasLock(b)
  BY <1>1, <1>2, <1>4 DEF DataInv
<1>5. CASE ~HasLock(a) /\ HasLock(b)
  BY <1>1, <1>2, <1>5 DEF DataInv
<1>6. CASE ~HasLock(a) /\ ~HasLock(b)
  <2>1. Creating(a) /\ Creating(b) /\ b \in Clients \ {a}
    BY <1>2, <1>6 DEF Creating
  <2> QED BY <2>1 DEF DataInv
<1> QED BY <1>3, <1>4, <1>5, <1>6
\* Outside its transaction a thread disturbs nobody, if all it does to documents is to
\* remove them, or to write what nobody else changes.
LEMMA DataFrame ==
    ASSUME TypeOK, DataInv, NEW a \in Threads, OthersKeep(a),
           pc'[a] \notin Changing, copy'[a] = NoCopy,
           \A b \in Threads \ {a} : pc[b] \in Changing => doc'[JobOf(b)] \in {Doc(b), Absent},
           \A j \in Jobs :
               \/ doc'[j] \in {doc[j], Absent}
               \/ doc'[j].expires => doc'[j].state \in {"none"} \cup Final
    PROVE  DataInv'
<1>1. \A j \in Jobs :
          doc'[j] # Absent /\ doc'[j].expires => doc'[j].state \in {"none"} \cup Final
  BY DEF DataInv
<1>2. ASSUME NEW b \in Threads \ {a}
      PROVE  /\ (copy[b] # NoCopy => copy[b].state = goal[b])'
             /\ (pc[b] \in Changing /\ HasLock(b) /\ Doc(b) # Absent
                    => Doc(b).state \in Expected(b))'
             /\ (Creating(b) => goal[b] = "Enqueued" /\ (Doc(b) # Absent => Doc(b).state = "none"))'
             /\ Creating(b)' => Creating(b)
  <2>1. /\ JobOf(b)' = JobOf(b) /\ pc'[b] = pc[b] /\ goal'[b] = goal[b]
        /\ copy'[b] = copy[b] /\ HasLock(b)' = HasLock(b) /\ Expected(b)' = Expected(b)
        /\ Creating(b)' = Creating(b)
    BY DEF OthersKeep, Expected, Creating
  <2>2. pc[b] \in Changing => Doc(b)' \in {Doc(b), Absent}
    BY <2>1 DEF Doc
  <2>3. Creating(b) => pc[b] \in Changing
    BY DEF Creating
  <2> QED BY <2>1, <2>2, <2>3 DEF DataInv
<1>3. ~Creating(a)'
  BY DEF Creating
<1>4. ASSUME NEW b \in Threads \ {a}, Creating(b)', NEW c \in Clients \ {b}, Creating(c)'
      PROVE  JobOf(c)' # JobOf(b)'
  <2>1. c # a /\ c \in Threads
    BY <1>3, <1>4 DEF Threads
  <2>2. Creating(b) /\ Creating(c) /\ JobOf(c)' = JobOf(c) /\ JobOf(b)' = JobOf(b)
    BY <1>2, <1>4, <2>1 DEF OthersKeep
  <2> QED BY <2>2 DEF DataInv
<1> QED BY <1>1, <1>2, <1>3, <1>4 DEF DataInv

\* What a commit writes.
LEMMA SaveFrame ==
    ASSUME TypeOK, LockInv, DataInv, NEW a \in Threads, pc[a] = "committing",
           CanCommit(a), Save(a), OthersKeep(a), pc'[a] \notin Changing, copy'[a] = NoCopy
    PROVE  DataInv'
<1>1. pc[a] \in Changing /\ Doc(a) # Absent /\ JobOf(a) \in Jobs
  BY SaveTypes DEF TypeOK, Coherent, CanCommit, Changing
<1>2. \A b \in Threads \ {a} : pc[b] \in Changing => JobOf(b) # JobOf(a)
  BY <1>1, OneChange
<1>3. Changed(a).expires => Changed(a).state \in {"none"} \cup Final
  BY SaveTypes DEF DataInv, TypeOK, Coherent
<1>4. \A b \in Threads \ {a} : pc[b] \in Changing => doc'[JobOf(b)] = Doc(b)
  <2>1. \A b \in Threads : pc[b] \in Changing => JobOf(b) \in Jobs
    BY DEF TypeOK, Coherent, Changing
  <2> QED BY <1>2, <2>1, SaveTypes DEF Doc
<1>5. \A j \in Jobs :
          \/ doc'[j] = doc[j]
          \/ doc'[j].expires => doc'[j].state \in {"none"} \cup Final
  <2>1. doc'[JobOf(a)] = Changed(a) /\ \A j \in Jobs \ {JobOf(a)} : doc'[j] = doc[j]
    BY SaveTypes
  <2>2. ASSUME NEW j \in Jobs, j = JobOf(a), doc'[j].expires
        PROVE  doc'[j].state \in {"none"} \cup Final
    BY <1>3, <2>1, <2>2
  <2> QED BY <2>1, <2>2
<1> QED BY <1>4, <1>5, DataFrame
LEMMA DataInit == Init => DataInv
  BY LifecycleAssumption DEF Init, DataInv, Creating, Changing, Threads

LEMMA DataStep == TypeOK /\ LockInv /\ DataInv /\ [Next]_vars => DataInv'
<1> SUFFICES ASSUME TypeOK, LockInv, DataInv, [Next]_vars PROVE DataInv'
  OBVIOUS
<1> USE LifecycleAssumption
<1>1. ASSUME NEW c \in Clients, NEW j \in Jobs, CreateExpiredJob(c, j) PROVE DataInv'
  <2>1. /\ c \in Threads /\ OthersKeep(c) /\ copy'[c] = NoCopy /\ JobOf(c)' = j
        /\ pc[c] = "idle" /\ goal'[c] = "Enqueued" /\ j \notin ids
        /\ doc' = [doc EXCEPT ![j] = [state |-> "none", expires |-> TRUE]]
    BY <1>1, TakeUpIsOwn DEF Threads, CreateExpiredJob, TypeOK
  <2>2. \A b \in Threads \ {c} : pc[b] # "idle" => JobOf(b)' # j /\ JobOf(b) = JobOf(b)'
    BY <2>1 DEF TypeOK, Coherent, OthersKeep
  <2>3. ~HasLock(c)'
    <3>1. JobOf(c) = NoJob /\ holder' = holder
      BY <1>1, <2>1 DEF CreateExpiredJob, TypeOK, Coherent
    <3>2. holder[j] # c
      BY <2>1, <3>1 DEF LockInv, TypeOK
    <3> QED BY <2>1, <3>1, <3>2 DEF HasLock
  <2>4. /\ doc'[j] = [state |-> "none", expires |-> TRUE]
        /\ \A i \in Jobs \ {j} : doc'[i] = doc[i]
    BY <2>1 DEF TypeOK
  <2>5. ASSUME NEW b \in Threads \ {c}
        PROVE  /\ (copy[b] # NoCopy => copy[b].state = goal[b])'
               /\ (pc[b] \in Changing /\ HasLock(b) /\ Doc(b) # Absent
                      => Doc(b).state \in Expected(b))'
               /\ (Creating(b) => goal[b] = "Enqueued" /\ (Doc(b) # Absent => Doc(b).state = "none"))'
               /\ Creating(b)' => Creating(b)
    <3>1. /\ pc'[b] = pc[b] /\ goal'[b] = goal[b] /\ copy'[b] = copy[b]
          /\ HasLock(b)' = HasLock(b) /\ Expected(b)' = Expected(b) /\ Creating(b)' = Creating(b)
      BY <2>1 DEF OthersKeep, Expected, Creating
    <3>2. pc[b] \in Changing => Doc(b)' = Doc(b)
      BY <2>2, <2>4 DEF Changing, Doc, TypeOK, Coherent
    <3>3. Creating(b) => pc[b] \in Changing
      BY DEF Creating
    <3> QED BY <3>1, <3>2, <3>3 DEF DataInv
  <2>6. /\ (copy[c] # NoCopy => copy[c].state = goal[c])'
        /\ (goal[c] = "Enqueued" /\ (Doc(c) # Absent => Doc(c).state = "none"))'
    BY <2>1, <2>4 DEF Doc
  <2>7. ASSUME NEW b \in Threads, Creating(b)', NEW d \in Clients \ {b}, Creating(d)'
        PROVE  JobOf(d)' # JobOf(b)'
    <3>1. \A e \in Threads \ {c} : Creating(e)' => Creating(e) /\ JobOf(e)' = JobOf(e) /\ JobOf(e)' # j
      BY <2>2, <2>5 DEF Creating, Changing
    <3> QED BY <2>1, <2>7, <3>1 DEF DataInv, Threads
  <2>8. \A i \in Jobs : doc'[i] # Absent /\ doc'[i].expires => doc'[i].state \in {"none"} \cup Final
    BY <2>4 DEF DataInv
  <2> QED BY <2>3, <2>5, <2>6, <2>7, <2>8 DEF DataInv
<1>2. ASSUME NEW a \in Threads, NEW j \in Jobs,
             \/ a \in Clients /\ \E g \in {"Enqueued", "Deleted"} : ChangeState(a, j, g)
             \/ a \in Workers /\ FetchNextJob(a, j)
      PROVE  DataInv'
  <2>1. OthersKeep(a) /\ copy'[a] = NoCopy
    BY <1>2, TakeUpIsOwn
  <2>2. doc' = doc /\ pc'[a] = "locking"
    BY <1>2 DEF ChangeState, FetchNextJob, TypeOK
  <2> QED BY <2>1, <2>2, DataFrame DEF Changing, Doc
<1>3. ASSUME NEW a \in Threads, GetJobData(a) PROVE DataInv'
  <2>1. pc[a] = "reading" /\ HasLock(a) /\ JobOf(a)' = JobOf(a)
    BY <1>3 DEF GetJobData, LockInv, JobOf
  <2>2. pc'[a] \in Changing => Doc(a) # Absent /\ Doc(a).state \in Expected(a)
    BY <1>3 DEF GetJobData, TypeOK, Accepts, Changing
  <2>3. \A b \in Threads : /\ JobOf(b)' = JobOf(b) /\ HasLock(b)' = HasLock(b) /\ Doc(b)' = Doc(b)
                           /\ Expected(b)' = Expected(b)
    BY <1>3 DEF GetJobData, JobOf, HasLock, Doc, Expected
  <2>4. /\ doc' = doc /\ copy' = copy /\ goal' = goal /\ pc' = [pc EXCEPT ![a] = pc'[a]]
    BY <1>3 DEF GetJobData, TypeOK
  <2>5. \A b \in Threads : Creating(b)' => Creating(b)
    BY <2>1, <2>3, <2>4 DEF Creating, TypeOK
  <2> QED BY <2>1, <2>2, <2>3, <2>4, <2>5 DEF DataInv, TypeOK, Threads
<1>4. ASSUME NEW a \in Threads, SetJobState(a) PROVE DataInv'
  <2>1. \A b \in Threads : /\ JobOf(b)' = JobOf(b) /\ HasLock(b)' = HasLock(b) /\ Doc(b)' = Doc(b)
                           /\ Expected(b)' = Expected(b)
    BY <1>4 DEF SetJobState, JobOf, HasLock, Doc, Expected
  <2>2. /\ doc' = doc /\ goal' = goal
        /\ \A b \in Threads : pc'[b] \in Changing => pc[b] \in Changing
    BY <1>4 DEF SetJobState, TypeOK, Changing
  <2>3. \A b \in Threads : copy'[b] # NoCopy => copy'[b].state = goal[b]
    <3>1. Doc(a) \in Docs /\ goal[a] \in States /\ copy' = [copy EXCEPT ![a] = [Doc(a) EXCEPT !.state = goal[a]]]
      BY <1>4 DEF SetJobState, TypeOK, Coherent, Doc
    <3>2. copy'[a].state = goal[a]
      BY <3>1, NewStateTypes DEF TypeOK
    <3> QED BY <3>1, <3>2 DEF TypeOK, DataInv
  <2>4. \A b \in Threads : Creating(b)' => Creating(b)
    BY <2>1, <2>2 DEF Creating
  <2> QED BY <2>1, <2>2, <2>3, <2>4 DEF DataInv, Threads
<1>5. ASSUME NEW c \in Clients, AddToQueue(c) PROVE DataInv'
  <2>1. \A b \in Threads : /\ JobOf(b)' = JobOf(b) /\ HasLock(b)' = HasLock(b) /\ Doc(b)' = Doc(b)
                           /\ Expected(b)' = Expected(b)
    BY <1>5 DEF AddToQueue, Queue!Put, JobOf, HasLock, Doc, Expected
  <2>2. /\ doc' = doc /\ goal' = goal /\ copy' = copy
        /\ \A b \in Threads : pc'[b] \in Changing => pc[b] \in Changing
    BY <1>5 DEF AddToQueue, Queue!Put, TypeOK, Changing
  <2>4. \A b \in Threads : Creating(b)' => Creating(b)
    BY <2>1, <2>2 DEF Creating
  <2> QED BY <2>1, <2>2, <2>4 DEF DataInv, Threads
<1>6. ASSUME NEW a \in Threads,
             \/ AcquireDistributedLock(a) \/ Release(a)
             \/ a \in Workers /\ (GiveUp(a) \/ Perform(a) \/ RemoveFromQueue(a))
      PROVE  DataInv'
  <2>1. OthersKeep(a)
    BY <1>6, StepIsOwn DEF Step
  <2>2. doc' = doc /\ copy'[a] = NoCopy /\ pc'[a] \notin Changing
    BY <1>6 DEF AcquireDistributedLock, Release, GiveUp, Perform, RemoveFromQueue, TypeOK,
                Coherent, Changing
  <2> QED BY <2>1, <2>2, DataFrame DEF Doc
<1>7. ASSUME NEW a \in Threads, Commit(a) PROVE DataInv'
  <2>1. OthersKeep(a)
    BY <1>7, StepIsOwn DEF Step
  <2> QED BY <1>7, <2>1, SaveFrame DEF Commit, TypeOK, Changing
<1>8. ASSUME NEW a \in Threads, SetJobStateThrows(a) \/ CommitThrows(a) \/ Fail(a) PROVE DataInv'
  <2>1. OthersKeep(a) /\ GoneWrong(a)
    BY <1>8, StepIsOwn DEF Step, SetJobStateThrows, CommitThrows, Fail
  <2>2. pc'[a] \notin Changing /\ copy'[a] = NoCopy
    BY <2>1, GoneWrongTypes DEF TypeOK, Changing
  <2>3. CASE doc' = doc
    BY <2>1, <2>2, <2>3, DataFrame DEF Doc
  <2>4. CASE pc[a] = "committing" /\ CanCommit(a) /\ Save(a)
    BY <2>1, <2>2, <2>4, SaveFrame
  <2> QED BY <1>8, <2>3, <2>4 DEF SetJobStateThrows, CommitThrows, Fail
<1>9. ASSUME NEW j \in Jobs, Expire(j) PROVE DataInv'
  <2>1. \A b \in Threads : /\ JobOf(b)' = JobOf(b) /\ HasLock(b)' = HasLock(b)
                           /\ Expected(b)' = Expected(b) /\ Creating(b)' = Creating(b)
    BY <1>9 DEF Expire, JobOf, HasLock, Expected, Creating
  <2>2. \A i \in Jobs : doc'[i] \in {doc[i], Absent}
    BY <1>9 DEF Expire, TypeOK
  <2>3. \A b \in Threads : pc[b] \in Changing => Doc(b)' \in {Doc(b), Absent}
    BY <2>1, <2>2 DEF TypeOK, Coherent, Changing, Doc
  <2>4. pc' = pc /\ goal' = goal /\ copy' = copy
    BY <1>9 DEF Expire
  <2>5. \A b \in Threads : Creating(b) => pc[b] \in Changing
    BY DEF Creating
  <2> QED BY <2>1, <2>2, <2>3, <2>4, <2>5 DEF DataInv, Threads
<1>10. ASSUME UNCHANGED <<doc, claim, order, holder, pc, goal, copy>> PROVE DataInv'
  BY <1>10 DEF DataInv, Creating, HasLock, Doc, Expected, JobOf
<1>11. ASSUME NEW j \in Jobs, Elsewhere(j) PROVE DataInv'
  BY <1>10, <1>11 DEF Elsewhere, Queue!Misplace, Queue!Reappear
<1> QED
  BY <1>1, <1>2, <1>3, <1>4, <1>5, <1>6, <1>7, <1>8, <1>9, <1>10, <1>11
     DEF Next, Step, vars, Threads
-----------------------------------------------------------------------------
(* Refinement of BackgroundJob.                                            *)

\* What a save finds: the job has a document, whose state the change may start from.
LEMMA SaveFinds ==
    ASSUME TypeOK, LockInv, DataInv, NEW a \in Threads, pc[a] = "committing", CanCommit(a)
    PROVE  /\ JobOf(a) \in ids /\ Doc(a) \in Docs
           /\ Doc(a).state \in Expected(a) \/ (goal[a] = "Enqueued" /\ Doc(a).state = "none")
           /\ copy[a].state = goal[a] /\ goal[a] \in States
<1>1. JobOf(a) \in ids /\ Doc(a) # Absent /\ Doc(a) \in Docs /\ goal[a] \in States
  BY DEF TypeOK, Coherent, CanCommit, Doc
<1>2. HasLock(a) \/ Creating(a)
  BY DEF LockInv, Locked, Changing, Creating, Threads
<1> QED BY <1>1, <1>2 DEF DataInv, Changing, CanCommit, TypeOK, Coherent

LEMMA SaveIsMove ==
    ASSUME TypeOK, LockInv, DataInv, NEW a \in Threads, pc[a] = "committing",
           CanCommit(a), Save(a), ids' = ids
    PROVE  Abstract!Next
<1> DEFINE j == JobOf(a)
           to == goal[a]
<1>1. /\ j \in ids /\ j \in Jobs /\ doc[j] \in Docs /\ to \in States
      /\ doc[j].state \in Expected(a) \/ (to = "Enqueued" /\ doc[j].state = "none")
      /\ doc'[j] \in Docs /\ doc'[j].state = to
      /\ \A i \in Jobs \ {j} : doc'[i] = doc[i]
  BY SaveFinds, SaveTypes DEF Doc
<1>2. Status' = [Status EXCEPT ![j] = to]
  <2>1. \A i \in Jobs \ {j} : Status'[i] = Status[i]
    BY <1>1 DEF Status
  <2>2. Status'[j] = to
    BY <1>1, LifecycleAssumption DEF Status, States
  <2>3. Status = [i \in Jobs |-> Status[i]] /\ Status' = [i \in Jobs |-> Status'[i]]
    BY DEF Status
  <2> QED BY <1>1, <2>1, <2>2, <2>3
<1>3. Status[j] = IF doc[j].state = "none" THEN "created" ELSE doc[j].state
  BY <1>1, LifecycleAssumption DEF Status
<1>4. CASE to = "Enqueued"
  BY <1>1, <1>2, <1>3, <1>4
     DEF Abstract!Next, Abstract!Enqueue, Abstract!Move, Abstract!States, Expected, States, Outcomes
<1>5. CASE to = "Processing"
  BY <1>1, <1>2, <1>3, <1>5
     DEF Abstract!Next, Abstract!Process, Abstract!Move, Expected, Unfinished
<1>6. CASE to \in Outcomes
  <2>1. Status[j] = "Processing"
    BY <1>1, <1>3, <1>6 DEF Expected, Outcomes
  <2> QED BY <1>1, <1>2, <1>6, <2>1
          DEF Abstract!Next, Abstract!Finish, Abstract!Move, Outcomes
<1>7. CASE to = "Deleted"
  BY <1>1, <1>2, <1>3, <1>7
     DEF Abstract!Next, Abstract!Delete, Abstract!Move, Abstract!States, Expected, States, Outcomes
<1> QED BY <1>1, <1>4, <1>5, <1>6, <1>7 DEF States, Outcomes

LEMMA AbstractInit == Init => Abstract!Init
  BY DEF Init, Abstract!Init, Status

LEMMA AbstractStep ==
    TypeOK /\ LockInv /\ DataInv /\ [Next]_vars => [Abstract!Next]_Status
<1> SUFFICES ASSUME TypeOK, LockInv, DataInv, [Next]_vars PROVE [Abstract!Next]_Status
  OBVIOUS
<1>1. ASSUME doc' = doc, ids' = ids PROVE Status' = Status
  BY <1>1 DEF Status
<1>2. ASSUME NEW c \in Clients, NEW j \in Jobs, CreateExpiredJob(c, j) PROVE Abstract!Next
  <2>1. /\ doc' = [doc EXCEPT ![j] = [state |-> "none", expires |-> TRUE]]
        /\ ids' = ids \cup {j} /\ j \notin ids
    BY <1>2 DEF CreateExpiredJob
  <2>2. [state |-> "none", expires |-> TRUE] # Absent
    BY NewDocTypes, DocTypes
  <2>3. Status[j] = "none" /\ Status' = [Status EXCEPT ![j] = "created"]
    BY <2>1, <2>2 DEF Status, TypeOK
  <2> QED BY <2>3 DEF Abstract!Next, Abstract!Create, Abstract!Move
<1>3. ASSUME NEW a \in Threads, pc[a] = "committing", CanCommit(a), Save(a), ids' = ids
      PROVE  Abstract!Next
  BY <1>3, SaveIsMove
<1>4. ASSUME NEW j \in Jobs, Expire(j) PROVE Abstract!Next
  <2>1. /\ doc[j] # Absent /\ doc[j].expires /\ doc' = [doc EXCEPT ![j] = Absent] /\ ids' = ids
        /\ j \in ids
    BY <1>4 DEF Expire, TypeOK
  <2>2. doc[j].state \in {"none"} \cup Final
    BY <2>1 DEF DataInv
  <2>3. /\ Status[j] \in {"created", "Succeeded", "Deleted"}
        /\ Status' = [Status EXCEPT ![j] = "gone"]
    BY <2>1, <2>2 DEF Status, TypeOK, Final
  <2> QED BY <2>3 DEF Abstract!Next, Abstract!Forget, Abstract!Move
<1>5. CASE UNCHANGED vars
  BY <1>1, <1>5 DEF vars
<1>6. ASSUME NEW a \in Threads, Step(a) \/ Fail(a) PROVE [Abstract!Next]_Status
  BY <1>1, <1>3, <1>6
     DEF Step, Fail, AcquireDistributedLock, GetJobData, SetJobState, Commit, Release,
         SetJobStateThrows, CommitThrows, GoneWrong, AddToQueue, GiveUp, Perform, RemoveFromQueue
<1>7. ASSUME NEW a \in Threads, NEW j \in Jobs,
             \/ \E g \in {"Enqueued", "Deleted"} : ChangeState(a, j, g)
             \/ FetchNextJob(a, j)
      PROVE  [Abstract!Next]_Status
  BY <1>1, <1>7 DEF ChangeState, FetchNextJob
<1>8. ASSUME NEW j \in Jobs, Elsewhere(j) PROVE [Abstract!Next]_Status
  BY <1>1, <1>8 DEF Elsewhere
<1> QED BY <1>2, <1>4, <1>5, <1>6, <1>7, <1>8 DEF Next, Threads

\* A job is performed only while it is enqueued, has an outcome only after it was
\* processed, and disappears only when it expires: whatever fails, and however
\* clients and workers get in each other's way.
THEOREM JobsAreBackgroundJobs == Spec => ImplementsBackgroundJob
<1> DEFINE Inv == TypeOK /\ LockInv /\ DataInv
<1>1. Spec => []Inv
  <2>1. Init => Inv
    BY TypeInit, LockInit, DataInit
  <2>2. Inv /\ [Next]_vars => Inv'
    BY TypeStep, LockStep, DataStep
  <2> QED BY <2>1, <2>2, PTL DEF Spec
<1>2. Init => Abstract!Init
  BY AbstractInit
<1>3. Inv /\ [Next]_vars => [Abstract!Next]_Status
  BY AbstractStep
<1> QED BY <1>1, <1>2, <1>3, PTL DEF Spec, ImplementsBackgroundJob, Abstract!Spec
-----------------------------------------------------------------------------
(* Unfinished jobs are in the queue.                                       *)

LEMMA QueueInit == Init => QueueInv
  BY LifecycleAssumption
     DEF Init, QueueInv, UnfinishedIsQueued, IsUnfinished, Past, Doomed, Succeeding, Threads

\* What a step that saves no state must not do: entries go only for jobs that are not
\* and will not be enqueued; nobody sets out to enqueue a job behind a worker's back;
\* and a worker is through with a job only when the job is not enqueued.
LEMMA QueueFrame ==
    ASSUME TypeOK, QueueInv, TypeOK',
           \A j \in Jobs : \/ doc'[j] \in {doc[j], Absent}
                           \/ j \notin ids /\ ~IsUnfinished(j)',
           \A j \in Jobs : entry'[j] = "absent" =>
               entry[j] = "absent" \/ (NotComing(j) /\ ~IsUnfinished(j)),
           \A w \in Workers : /\ Past(w)' => claim'[w] = claim[w] /\ claim[w] \in ids /\ Rid(w)
                              /\ Doomed(w)' => Past(w)' /\ ~IsUnfinished(claim[w]),
           \A c \in Clients, w \in Workers :
               Coming(c, claim[w])' /\ Past(w)' => Coming(c, claim[w]),
           \A c \in Clients :
               Succeeding(c)' => \/ entry'[order'[c]] # "absent"
                                 \/ Succeeding(c) /\ order'[c] = order[c] /\ pc[c] \in Changing
    PROVE  QueueInv'
<1>1. \A j \in ids : doc'[j] \in {doc[j], Absent} /\ j \in Jobs
  BY DEF TypeOK
<1>2. ASSUME NEW j \in Jobs, IsUnfinished(j)' PROVE entry'[j] # "absent"
  <2>1. IsUnfinished(j)
    BY <1>2 DEF IsUnfinished
  <2> QED BY <2>1 DEF QueueInv, UnfinishedIsQueued
<1>3. ASSUME NEW w \in Workers, Past(w)' PROVE Rid(w)'
  <2>1. /\ claim'[w] = claim[w] /\ claim[w] \in ids /\ Rid(w)
        /\ doc'[claim[w]] \in {doc[claim[w]], Absent}
    BY <1>1, <1>3
  <2>2. ASSUME NEW c \in Clients, Coming(c, claim[w])' PROVE doc'[claim[w]] = Absent
    BY <1>3, <2>1, <2>2 DEF Rid, NotComing
  <2>3. NotComing(claim[w])'
    BY <2>1, <2>2 DEF NotComing
  <2> QED BY <2>1, <2>3 DEF Rid
<1>4. ASSUME NEW w \in Workers, Doomed(w)' PROVE ~IsUnfinished(claim[w])'
  BY <1>1, <1>4 DEF IsUnfinished
<1>5. ASSUME NEW c \in Clients, Succeeding(c)' PROVE entry'[order'[c]] # "absent"
  <2> SUFFICES ASSUME Succeeding(c), order'[c] = order[c], pc[c] \in Changing,
                      entry'[order[c]] = "absent"
               PROVE  FALSE
    BY <1>5
  <2>1. order[c] \in Jobs /\ doc[order[c]] # Absent /\ Coming(c, order[c])
    BY LifecycleAssumption
       DEF Succeeding, Coming, TypeOK, Coherent, Changing, Doc, JobOf, Threads
  <2>2. entry[order[c]] # "absent"
    BY DEF QueueInv
  <2> QED BY <2>1, <2>2 DEF NotComing
<1> QED BY <1>2, <1>3, <1>4, <1>5 DEF QueueInv, UnfinishedIsQueued

\* A thread that saves the state of a job takes no entry away, and a worker whose entry
\* the job still needs is not through with it.
LEMMA SaveKeepsQueue ==
    ASSUME TypeOK, LockInv, DataInv, QueueInv, TypeOK', NEW a \in Threads,
           pc[a] = "committing", CanCommit(a), Save(a), OthersKeep(a),
           entry' = entry, goal' = goal,
           \/ pc'[a] \in {"done", "locking"} /\ JobOf(a)' = JobOf(a)
           \/ pc'[a] = "idle"
    PROVE  QueueInv'
<1> DEFINE k == JobOf(a)
<1>1. /\ k \in ids /\ k \in Jobs /\ doc[k] # Absent /\ doc'[k].state = goal[a]
      /\ \A i \in Jobs \ {k} : doc'[i] = doc[i]
      /\ doc[k].state \in Expected(a) \/ goal[a] = "Enqueued"
      /\ \A b \in fresh' : b \in fresh /\ JobOf(b) # k
  BY SaveFinds, SaveTypes, DocTypes DEF Doc
<1>2. /\ \A c \in Clients : JobOf(c) = order[c] /\ JobOf(c)' = order'[c] /\ c \in Threads
      /\ \A w \in Workers : JobOf(w) = claim[w] /\ JobOf(w)' = claim'[w] /\ w \in Threads
  BY LifecycleAssumption DEF JobOf, Threads
<1>3. \A b \in Threads \ {a} : pc[b] \in Changing => JobOf(b) # k
  BY <1>1, OneChange DEF Changing, Doc
<1>4. ASSUME NEW c \in Clients, NEW j \in Jobs, Coming(c, j)' PROVE Coming(c, j) /\ j # k /\ c # a
  <2>1. c # a
    BY <1>4 DEF Coming, Changing
  <2> QED BY <1>2, <1>3, <1>4, <2>1 DEF Coming, OthersKeep
<1>5. ASSUME NEW j \in Jobs, IsUnfinished(j)' PROVE entry'[j] # "absent"
  <2>1. CASE j # k
    BY <1>1, <1>5, <2>1 DEF IsUnfinished, QueueInv, UnfinishedIsQueued
  <2>2. CASE j = k /\ goal[a] = "Enqueued"
    <3>1. a \in Clients
      BY <2>2 DEF TypeOK, Coherent, Threads, Outcomes
    <3>2. Succeeding(a) /\ order[a] = k
      BY <1>2, <2>2, <3>1 DEF Succeeding, CanCommit
    <3> QED BY <2>2, <3>1, <3>2 DEF QueueInv
  <2>3. CASE j = k /\ goal[a] = "Processing"
    BY <1>1, <2>3 DEF Expected, QueueInv, UnfinishedIsQueued, IsUnfinished
  <2> QED BY <1>1, <1>5, <2>1, <2>2, <2>3 DEF IsUnfinished, Unfinished
<1>6. ASSUME NEW w \in Workers, w # a, Past(w) PROVE Rid(w)' /\ (Doomed(w) => ~IsUnfinished(claim[w])')
  <2>1. /\ claim'[w] = claim[w] /\ claim[w] \in Jobs /\ Rid(w)
        /\ Doomed(w) => ~IsUnfinished(claim[w])
    <3>1. pc[w] # "idle" /\ w \in Threads /\ claim'[w] = claim[w]
      BY <1>2, <1>6 DEF Past, OthersKeep
    <3>2. claim[w] \in Jobs
      BY <1>2, <3>1 DEF TypeOK, Coherent
    <3> QED BY <1>6, <3>1, <3>2 DEF QueueInv
  <2>2. CASE claim[w] # k
    <3>1. NotComing(claim[w])'
      BY <1>1, <1>4, <2>1, <2>2 DEF Rid, NotComing
    <3> QED BY <1>1, <2>1, <2>2, <3>1 DEF Rid, IsUnfinished
  <2>3. CASE claim[w] = k
    <3>1. goal[a] # "Enqueued"
      <4> SUFFICES ASSUME goal[a] = "Enqueued" PROVE FALSE
        OBVIOUS
      <4>1. a \in Clients
        BY DEF TypeOK, Coherent, Threads, Outcomes
      <4>2. Coming(a, k)
        BY <1>2, <4>1 DEF Coming, Changing
      <4> QED BY <1>1, <2>1, <2>3, <4>1, <4>2 DEF Rid, NotComing
    <3>2. NotComing(claim[w])'
      BY <1>4, <2>1, <2>3 DEF NotComing
    <3>3. Doomed(w) => goal[a] \notin Unfinished
      BY <1>1, <2>1, <2>3, <3>1 DEF IsUnfinished, Expected, Unfinished
    <3> QED BY <1>1, <2>1, <2>3, <3>1, <3>2, <3>3 DEF Rid, IsUnfinished
  <2> QED BY <2>2, <2>3
<1>7. ASSUME a \in Workers, Past(a)'
      PROVE  Rid(a)' /\ (Doomed(a)' => ~IsUnfinished(claim[a])')
  <2>1. claim'[a] = k /\ goal[a] \in {"Processing"} \cup Outcomes
    BY <1>2, <1>7 DEF Past, TypeOK, Coherent
  <2>2. NotComing(claim[a])'
    BY <1>1, <1>4, <2>1 DEF NotComing
  <2>3. Doomed(a)' => goal[a] # "Processing"
    BY DEF Doomed
  <2> QED BY <1>1, <2>1, <2>2, <2>3 DEF Rid, IsUnfinished, Unfinished, Outcomes
<1>8. ASSUME NEW w \in Workers
      PROVE  (Past(w)' => Rid(w)') /\ (Doomed(w)' => ~IsUnfinished(claim[w])')
  <2>1. CASE w = a
    BY <1>7, <2>1 DEF Doomed, Past
  <2>2. CASE w # a
    <3>1. (Past(w)' => Past(w)) /\ (Doomed(w)' => Doomed(w) /\ Past(w))
      BY <1>2, <2>2 DEF OthersKeep, Past, Doomed
    <3> QED BY <1>6, <2>2, <3>1
  <2> QED BY <2>1, <2>2
<1>9. ASSUME NEW c \in Clients, Succeeding(c)' PROVE entry'[order'[c]] # "absent"
  <2>1. c # a
    BY <1>9 DEF Succeeding
  <2>2. Succeeding(c) /\ order'[c] = order[c]
    BY <1>1, <1>2, <1>9, <2>1 DEF Succeeding, OthersKeep
  <2> QED BY <2>2 DEF QueueInv
<1> QED BY <1>5, <1>8, <1>9 DEF QueueInv, UnfinishedIsQueued
\* Facts about the workers and clients of a state.
LEMMA Facts ==
    ASSUME TypeOK, QueueInv
    PROVE  /\ \A c \in Clients : JobOf(c) = order[c] /\ c \in Threads
           /\ \A w \in Workers :
                 /\ JobOf(w) = claim[w] /\ w \in Threads
                 /\ Past(w) => Rid(w) /\ claim[w] \in ids
                 /\ Doomed(w) => Past(w) /\ ~IsUnfinished(claim[w])
           /\ \A c \in Clients : Succeeding(c) => pc[c] \in Changing /\ entry[order[c]] # "absent"
<1>1. /\ \A c \in Clients : JobOf(c) = order[c] /\ c \in Threads
      /\ \A w \in Workers : JobOf(w) = claim[w] /\ w \in Threads
  BY LifecycleAssumption DEF JobOf, Threads
<1>2. ASSUME NEW w \in Workers, Past(w) PROVE claim[w] \in ids
  <2>1. pc[w] # "idle" /\ Coherent(w)
    BY <1>1, <1>2 DEF Past, TypeOK
  <2> QED BY <1>1, <2>1 DEF Coherent
<1> QED BY <1>1, <1>2 DEF QueueInv, Doomed, Past, Succeeding, Changing

\* What a step of thread a leaves of the queue's part, when the others are left alone.
LEMMA OthersKeepQueue ==
    ASSUME TypeOK, QueueInv, TypeOK', NEW a \in Threads, OthersKeep(a),
           \A b \in fresh' : b = a \/ b \in fresh,
           \A j \in Jobs : \/ doc'[j] \in {doc[j], Absent}
                           \/ j \notin ids /\ ~IsUnfinished(j)',
           \A j \in Jobs : entry'[j] = "absent" =>
               entry[j] = "absent" \/ (NotComing(j) /\ ~IsUnfinished(j)),
           a \in Workers => /\ Past(a)' => claim'[a] = claim[a] /\ claim[a] \in ids /\ Rid(a)
                            /\ Doomed(a)' => Past(a)' /\ ~IsUnfinished(claim[a]),
           a \in Clients => /\ \A w \in Workers :
                                  Past(w) /\ Coming(a, claim[w])' => Coming(a, claim[w])
                            /\ Succeeding(a)' => \/ entry'[order'[a]] # "absent"
                                                 \/ Succeeding(a) /\ order'[a] = order[a]
    PROVE  QueueInv'
<1>1. ASSUME NEW w \in Workers
      PROVE  /\ Past(w)' => claim'[w] = claim[w] /\ claim[w] \in ids /\ Rid(w)
             /\ Doomed(w)' => Past(w)' /\ ~IsUnfinished(claim[w])
  <2>1. CASE w = a
    BY <2>1
  <2>2. CASE w # a
    <3>1. claim'[w] = claim[w] /\ Past(w)' = Past(w) /\ Doomed(w)' = Doomed(w)
      <4>1. JobOf(w)' = claim'[w]
        BY DEF JobOf
      <4> QED BY <2>2, <4>1, Facts DEF OthersKeep, Past, Doomed
    <3> QED BY <3>1, Facts
  <2> QED BY <2>1, <2>2
<1>2. ASSUME NEW c \in Clients, c # a
      PROVE  Succeeding(c)' => Succeeding(c) /\ order'[c] = order[c]
  <2>1. JobOf(c)' = order'[c]
    BY LifecycleAssumption DEF JobOf
  <2> QED BY <1>2, <2>1, Facts DEF OthersKeep, Succeeding
<1>3. ASSUME NEW c \in Clients, NEW w \in Workers, Coming(c, claim[w])', Past(w)'
      PROVE  Coming(c, claim[w])
  <2>1. claim'[w] = claim[w]
    BY <1>1, <1>3
  <2>2. CASE c # a
    <3>1. JobOf(c)' = order'[c]
      BY LifecycleAssumption DEF JobOf
    <3> QED BY <1>3, <2>1, <2>2, <3>1, Facts DEF OthersKeep, Coming
  <2>3. CASE c = a
    <3>1. w # a /\ w \in Threads
      BY <2>3, LifecycleAssumption DEF Threads
    <3>2. Past(w)
      BY <1>3, <3>1 DEF OthersKeep, Past
    <3> QED BY <1>3, <2>3, <3>2
  <2> QED BY <2>2, <2>3
<1>4. ASSUME NEW c \in Clients, Succeeding(c)'
      PROVE  \/ entry'[order'[c]] # "absent"
             \/ Succeeding(c) /\ order'[c] = order[c] /\ pc[c] \in Changing
  BY <1>2, <1>4, Facts
<1> QED BY <1>1, <1>3, <1>4, QueueFrame
LEMMA QueueStep ==
    ASSUME Careful, Patient, TypeOK, LockInv, DataInv, QueueInv, [Next]_vars
    PROVE  QueueInv'
<1> USE LifecycleAssumption
<1>1. TypeOK'
  BY TypeStep
<1>2. ASSUME NEW c \in Clients, NEW j \in Jobs, CreateExpiredJob(c, j) PROVE QueueInv'
  <2>1. /\ c \in Threads /\ c \notin Workers /\ OthersKeep(c) /\ JobOf(c)' = j /\ order'[c] = j
        /\ j \notin ids /\ entry' = entry /\ fresh' = fresh /\ pc'[c] = "changing"
        /\ doc' = [doc EXCEPT ![j] = [state |-> "none", expires |-> TRUE]]
    BY <1>2, TakeUpIsOwn DEF Threads, CreateExpiredJob, TypeOK
  <2>2. ~IsUnfinished(j)' /\ \A i \in Jobs \ {j} : doc'[i] = doc[i]
    BY <2>1 DEF IsUnfinished, TypeOK, Unfinished
  <2>3. \A w \in Workers : Past(w) /\ Coming(c, claim[w])' => Coming(c, claim[w])
    BY <1>2, <2>1, Facts DEF Coming, CreateExpiredJob
  <2>4. ~Succeeding(c)'
    BY <2>1 DEF Succeeding
  <2> QED BY <1>1, <2>1, <2>2, <2>3, <2>4, OthersKeepQueue
<1>3. ASSUME NEW c \in Clients, NEW j \in Jobs, NEW g \in {"Enqueued", "Deleted"},
             ChangeState(c, j, g)
      PROVE  QueueInv'
  <2>1. /\ c \in Threads /\ c \notin Workers /\ OthersKeep(c) /\ pc'[c] = "locking"
        /\ entry' = entry /\ fresh' = fresh /\ doc' = doc
    BY <1>3, TakeUpIsOwn DEF Threads, ChangeState, TypeOK
  <2>2. ~Succeeding(c)' /\ \A w \in Workers : ~Coming(c, claim[w])'
    BY <2>1 DEF Succeeding, Coming, Changing
  <2> QED BY <1>1, <2>1, <2>2, OthersKeepQueue
<1>4. ASSUME NEW w \in Workers, NEW j \in Jobs, FetchNextJob(w, j) PROVE QueueInv'
  <2>1. /\ w \in Threads /\ w \notin Clients /\ OthersKeep(w) /\ pc'[w] = "locking"
        /\ goal'[w] = "Processing" /\ fresh' = fresh /\ doc' = doc
    BY <1>4, TakeUpIsOwn DEF Threads, FetchNextJob, TypeOK
  <2>2. \A i \in Jobs : entry'[i] = "absent" => entry[i] = "absent"
    BY <1>4 DEF FetchNextJob, Queue!Take, TypeOK
  <2>3. ~Past(w)' /\ ~Doomed(w)'
    BY <2>1 DEF Past, Doomed, Outcomes
  <2> QED BY <1>1, <2>1, <2>2, <2>3, OthersKeepQueue
<1>5. ASSUME NEW a \in Threads, AcquireDistributedLock(a) PROVE QueueInv'
  <2>1. /\ OthersKeep(a) /\ pc[a] = "locking" /\ pc'[a] = "reading" /\ goal' = goal
        /\ entry' = entry /\ fresh' = fresh /\ doc' = doc /\ claim' = claim
    BY <1>5, StepIsOwn DEF AcquireDistributedLock, Step, TypeOK
  <2>2. /\ Past(a)' => Past(a)
        /\ ~Doomed(a)' /\ ~Succeeding(a)' /\ \A w \in Workers : ~Coming(a, claim[w])'
    BY <2>1 DEF Past, Doomed, Succeeding, Coming, Changing
  <2> QED BY <1>1, <2>1, <2>2, Facts, OthersKeepQueue
<1>6. ASSUME NEW a \in Threads, GetJobData(a) PROVE QueueInv'
  <2>1. /\ OthersKeep(a) /\ pc[a] = "reading" /\ goal' = goal /\ order' = order
        /\ pc'[a] = IF Accepts(a) THEN "changing" ELSE "refused"
        /\ entry' = entry /\ fresh' = fresh /\ doc' = doc /\ claim' = claim
        /\ Doc(a) # Absent => Doc(a).state # "none"
    BY <1>6, StepIsOwn DEF GetJobData, Step, TypeOK
  <2>2. HasLock(a) /\ JobOf(a) \in ids /\ JobOf(a) \in Jobs
    BY <2>1 DEF LockInv, TypeOK, Coherent
  <2>3. CASE a \in Clients
    <3>1. ~Succeeding(a)'
      BY <2>1 DEF Succeeding
    <3>2. ASSUME NEW w \in Workers, Past(w), Coming(a, claim[w])' PROVE FALSE
      <4>1. Accepts(a) /\ goal[a] = "Enqueued" /\ JobOf(a) = claim[w]
        BY <2>1, <2>3, <3>2, Facts DEF Coming, Changing
      <4>2. ~Leaving(w, claim[w])
        BY <4>1 DEF Accepts
      <4> QED BY <3>2, <4>2 DEF Leaving, Past, Outcomes
    <3> QED BY <1>1, <2>1, <2>3, <3>1, <3>2, OthersKeepQueue DEF Threads
  <2>4. CASE a \in Workers
    <3>1. JobOf(a) = claim[a] /\ Doc(a) = doc[claim[a]] /\ claim[a] \in ids /\ goal[a] \in {"Processing"} \cup Outcomes
      BY <2>2, <2>4 DEF JobOf, Doc, TypeOK, Coherent
    <3>2. CASE Accepts(a)
      <4>1. (Past(a)' => Past(a)) /\ ~Doomed(a)'
        BY <2>1, <3>2 DEF Past, Doomed
      <4> QED BY <1>1, <2>1, <2>4, <4>1, Facts, OthersKeepQueue DEF Threads
    <3>3. CASE ~Accepts(a)
      <4>1. Doc(a) # Absent => Doc(a).state \notin Expected(a)
        BY <3>1, <3>3 DEF Accepts, Outcomes
      <4>2. goal[a] \in Outcomes => Rid(a)
        BY <2>1, <2>4, Facts DEF Past
      <4>3. ~IsUnfinished(claim[a]) /\ (Doc(a) # Absent => Doc(a).state # "Enqueued")
        <5>1. CASE goal[a] = "Processing"
          BY <3>1, <4>1, <5>1 DEF Expected, IsUnfinished, Unfinished
        <5>2. CASE goal[a] \in Outcomes
          BY <3>1, <4>1, <4>2, <5>2 DEF Expected, IsUnfinished, Unfinished, Outcomes, Rid
        <5> QED BY <3>1, <5>1, <5>2
      <4>4. NotComing(claim[a])
        <5> SUFFICES ASSUME NEW c \in Clients, Coming(c, claim[a]), Doc(a) # Absent PROVE FALSE
          BY <3>1 DEF NotComing
        <5>1. c \in Threads /\ c # a /\ JobOf(c) = JobOf(a) /\ pc[c] \in Changing
          BY <2>4, <3>1, Facts DEF Coming
        <5>2. ~HasLock(c)
          BY <2>2, <5>1 DEF HasLock
        <5>3. Doc(c) # Absent => Doc(c).state = "none"
          BY <5>1, <5>2 DEF Creating, DataInv
        <5> QED BY <2>1, <5>1, <5>3 DEF Doc
      <4> QED BY <1>1, <2>1, <2>4, <3>1, <3>3, <4>3, <4>4, OthersKeepQueue DEF Rid, Past, Threads
    <3> QED BY <3>2, <3>3
  <2> QED BY <2>3, <2>4 DEF Threads
<1>7. ASSUME NEW w \in Workers, GiveUp(w) PROVE QueueInv'
  <2>1. /\ w \in Threads /\ w \notin Clients /\ OthersKeep(w) /\ pc[w] = "reading" /\ goal' = goal
        /\ pc'[w] = "refused" /\ ~BeingCreated(JobOf(w)) /\ Doc(w).state = "none"
        /\ entry' = entry /\ fresh' = fresh /\ doc' = doc /\ claim' = claim
    BY <1>7, StepIsOwn DEF GiveUp, Step, TypeOK, Threads
  <2>2. HasLock(w) /\ JobOf(w) \in ids /\ JobOf(w) = claim[w] /\ claim[w] \in Jobs
    BY <1>7, <2>1 DEF LockInv, TypeOK, Coherent, JobOf
  <2>3. NotComing(claim[w])
    <3> SUFFICES ASSUME NEW c \in Clients, Coming(c, claim[w]) PROVE FALSE
      BY DEF NotComing
    <3>1. holder[claim[w]] # c
      BY <2>1, <2>2 DEF HasLock
    <3> QED BY <2>1, <2>2, <3>1 DEF BeingCreated, Coming
  <2>4. Rid(w) /\ ~IsUnfinished(claim[w])
    BY <2>1, <2>2, <2>3 DEF Rid, IsUnfinished, Unfinished, Doc
  <2> QED BY <1>1, <2>1, <2>2, <2>4, OthersKeepQueue DEF Past
<1>8. ASSUME NEW a \in Threads, SetJobState(a) PROVE QueueInv'
  <2>1. /\ OthersKeep(a) /\ pc[a] = "changing" /\ goal' = goal /\ order' = order
        /\ pc'[a] = IF goal[a] = "Enqueued" THEN "queueing" ELSE "committing"
        /\ entry' = entry /\ fresh' = fresh \cup {a} /\ doc' = doc /\ claim' = claim
    BY <1>8, StepIsOwn DEF SetJobState, Step, TypeOK
  <2>2. /\ Past(a)' => Past(a)
        /\ ~Doomed(a)' /\ ~Succeeding(a)'
        /\ \A w \in Workers : Coming(a, claim[w])' => Coming(a, claim[w])
    BY <2>1 DEF Past, Doomed, Succeeding, Coming, Changing
  <2> QED BY <1>1, <2>1, <2>2, Facts, OthersKeepQueue
<1>9. ASSUME NEW c \in Clients, AddToQueue(c) PROVE QueueInv'
  <2>1. /\ c \in Threads /\ c \notin Workers /\ OthersKeep(c) /\ pc[c] = "queueing" /\ goal' = goal
        /\ order' = order /\ fresh' = fresh /\ doc' = doc /\ claim' = claim
        /\ JobOf(c) = order[c] /\ order[c] \in Jobs
        /\ entry' = [entry EXCEPT ![JobOf(c)] = "visible"]
    BY <1>9, StepIsOwn DEF AddToQueue, Queue!Put, Step, TypeOK, Coherent, JobOf, Threads
  <2>2. entry'[order'[c]] # "absent" /\ \A j \in Jobs : entry'[j] = "absent" => entry[j] = "absent"
    BY <2>1 DEF TypeOK
  <2>3. \A w \in Workers : Coming(c, claim[w])' => Coming(c, claim[w])
    BY <2>1 DEF Coming, Changing
  <2> QED BY <1>1, <2>1, <2>2, <2>3, OthersKeepQueue
<1>10. ASSUME NEW a \in Threads, Commit(a) PROVE QueueInv'
  <2>1. OthersKeep(a) /\ pc[a] = "committing" /\ pc'[a] = "done" /\ JobOf(a)' = JobOf(a)
    BY <1>10, StepIsOwn DEF Commit, Step, TypeOK, JobOf
  <2> QED BY <1>1, <1>10, <2>1, SaveKeepsQueue DEF Commit
<1>11. ASSUME NEW a \in Threads, Release(a) PROVE QueueInv'
  <2>1. /\ OthersKeep(a) /\ pc[a] \in {"done", "refused"} /\ goal' = goal
        /\ pc'[a] = IF a \in Clients THEN "idle"
                    ELSE IF pc[a] = "done" /\ goal[a] = "Processing" THEN "performing" ELSE "removing"
        /\ entry' = entry /\ fresh' = fresh /\ doc' = doc /\ claim' = claim
    BY <1>11, StepIsOwn DEF Release, Step, TypeOK
  <2>2. Past(a) /\ ~Succeeding(a)' /\ \A w \in Workers : ~Coming(a, claim[w])'
    BY <2>1 DEF Past, Succeeding, Coming, Changing
  <2>3. Doomed(a)' => Past(a)' /\ Doomed(a)
    BY <2>1 DEF Past, Doomed
  <2> QED BY <1>1, <2>1, <2>2, <2>3, Facts, OthersKeepQueue
<1>12. ASSUME NEW w \in Workers, Perform(w) PROVE QueueInv'
  <2>1. /\ w \in Threads /\ w \notin Clients /\ OthersKeep(w) /\ pc[w] = "performing"
        /\ pc'[w] = "locking" /\ entry' = entry /\ fresh' = fresh /\ doc' = doc /\ claim' = claim
    BY <1>12, StepIsOwn DEF Perform, Step, TypeOK, Threads
  <2>2. Past(w) /\ ~Doomed(w)'
    BY <2>1 DEF Past, Doomed
  <2> QED BY <1>1, <2>1, <2>2, Facts, OthersKeepQueue
<1>13. ASSUME NEW w \in Workers, RemoveFromQueue(w) PROVE QueueInv'
  <2>1. /\ w \in Threads /\ w \notin Clients /\ OthersKeep(w) /\ pc[w] = "removing"
        /\ pc'[w] = "idle" /\ fresh' = fresh /\ doc' = doc
        /\ entry' = [entry EXCEPT ![claim[w]] = "absent"]
    BY <1>13, StepIsOwn DEF RemoveFromQueue, Queue!Remove, Step, TypeOK, Threads
  <2>2. ~Past(w)' /\ ~Doomed(w)' /\ NotComing(claim[w]) /\ ~IsUnfinished(claim[w])
    <3>1. Past(w) /\ Doomed(w)
      BY <2>1 DEF Past, Doomed
    <3> QED BY <2>1, <3>1, Facts DEF Past, Doomed, Rid
  <2>3. \A j \in Jobs : entry'[j] = "absent" => entry[j] = "absent" \/ j = claim[w]
    BY <2>1 DEF TypeOK
  <2> QED BY <1>1, <2>1, <2>2, <2>3, OthersKeepQueue
<1>14. ASSUME NEW a \in Threads, SetJobStateThrows(a) \/ CommitThrows(a) \/ Fail(a)
       PROVE  QueueInv'
  <2>1. OthersKeep(a) /\ GoneWrong(a)
    BY <1>14, StepIsOwn DEF Step, SetJobStateThrows, CommitThrows, Fail
  <2>2. /\ entry' = entry /\ goal' = goal
        /\ \/ pc'[a] = "idle"
           \/ /\ a \in Workers /\ pc[a] # "idle" /\ pc'[a] = "locking" /\ JobOf(a)' = JobOf(a)
    BY <2>1, GoneWrongTypes DEF TypeOK, Changing
  <2>3. CASE doc' = doc /\ fresh' \subseteq fresh
    <3>1. (Past(a)' => Past(a)) /\ ~Doomed(a)' /\ ~Succeeding(a)'
      BY <2>2 DEF Past, Doomed, Succeeding
    <3>2. \A w \in Workers : ~Coming(a, claim[w])'
      BY <2>2 DEF Coming, Changing
    <3>3. a \in Workers /\ Past(a)' => claim'[a] = claim[a]
      BY <2>2 DEF Past, JobOf
    <3> QED BY <1>1, <2>1, <2>2, <2>3, <3>1, <3>2, <3>3, Facts, OthersKeepQueue
  <2>4. CASE pc[a] = "committing" /\ CanCommit(a) /\ Save(a)
    BY <1>1, <2>1, <2>2, <2>4, SaveKeepsQueue
  <2> QED BY <1>14, <2>3, <2>4 DEF SetJobStateThrows, CommitThrows, Fail
<1>15. ASSUME doc' = doc \/ \E j \in Jobs : Expire(j), fresh' \subseteq fresh,
              UNCHANGED <<ids, claim, order, holder, pc, goal, copy>>,
              \A j \in Jobs : entry'[j] = "absent" => entry[j] = "absent"
       PROVE  QueueInv'
  <2>1. /\ \A w \in Workers : Past(w)' = Past(w) /\ Doomed(w)' = Doomed(w)
        /\ \A c \in Clients : Succeeding(c)' => Succeeding(c)
        /\ \A c \in Clients, w \in Workers : Coming(c, claim[w])' = Coming(c, claim[w])
    BY <1>15 DEF Past, Doomed, Succeeding, Coming
  <2>2. \A j \in Jobs : doc'[j] \in {doc[j], Absent}
    BY <1>15 DEF Expire, TypeOK
  <2> QED BY <1>1, <1>15, <2>1, <2>2, Facts, QueueFrame
<1>16. ASSUME NEW j \in Jobs, Expire(j) PROVE QueueInv'
  BY <1>15, <1>16 DEF Expire
<1>17. ASSUME NEW j \in Jobs, Elsewhere(j) PROVE QueueInv'
  <2>1. \A i \in Jobs : entry'[i] = "absent" => entry[i] = "absent"
    BY <1>17 DEF Elsewhere, Queue!Misplace, Queue!Reappear, TypeOK
  <2> QED BY <1>15, <1>17, <2>1 DEF Elsewhere, Queue!Misplace, Queue!Reappear
<1>18. CASE UNCHANGED vars
  BY <1>15, <1>18 DEF vars
<1> QED
  BY <1>2, <1>3, <1>4, <1>5, <1>6, <1>7, <1>8, <1>9, <1>10, <1>11, <1>12, <1>13, <1>14,
     <1>16, <1>17, <1>18 DEF Next, Step

\* As long as nobody enqueues a job that a worker is about to remove from the queue, and
\* workers wait for the first state of a job, no unfinished job is missing from the queue.
THEOREM UnfinishedJobsAreQueued ==
    ASSUME Careful, Patient
    PROVE  Spec => []UnfinishedIsQueued
<1> DEFINE Inv == TypeOK /\ LockInv /\ DataInv /\ QueueInv
<1>1. Init => Inv
  BY TypeInit, LockInit, DataInit, QueueInit
<1>2. Inv /\ [Next]_vars => Inv'
  BY Careful, Patient, TypeStep, LockStep, DataStep, QueueStep
<1>3. Inv => UnfinishedIsQueued
  BY DEF QueueInv
<1> QED BY <1>1, <1>2, <1>3, PTL DEF Spec
=============================================================================

-------------------------- MODULE CompositionProofs --------------------------
(***************************************************************************)
(* JobLifecycle uses its parts as they are specified: whatever clients,     *)
(* workers and failures do, what they do to the queue is what DeliveryQueue *)
(* allows, which JobQueue is proved to implement without any discipline of  *)
(* its callers, and what they do to the lock of a job is what ReentrantLock *)
(* allows.  So nothing that JobLifecycle promises rests on a queue or a     *)
(* lock that can do more than the specified ones.                           *)
(***************************************************************************)
EXTENDS JobLifecycleProofs, Integers

-----------------------------------------------------------------------------
(* The queue.                                                              *)

\* A worker that drops everything gives up what it has taken, a client nothing.
LEMMA QueueUse == TypeOK /\ [Next]_vars => [Queue!Next]_(Queue!vars)
<1> SUFFICES ASSUME TypeOK, [Next]_vars PROVE Queue!Next \/ UNCHANGED <<entry, claim>>
  BY DEF Queue!vars
<1>1. ASSUME NEW a \in Threads, GoneWrong(a) PROVE Queue!Next \/ UNCHANGED <<entry, claim>>
  <2>1. CASE Abandon(a)
    <3>1. Queue!Drop({a} \cap Workers)
      BY <2>1 DEF Abandon, Queue!Drop
    <3> QED BY <3>1 DEF Queue!Next
  <2>2. CASE TryAgain(a)
    BY <2>2 DEF TryAgain
  <2> QED BY <1>1, <2>1, <2>2 DEF GoneWrong
<1>2. ASSUME NEW w \in Workers, NEW j \in Jobs, FetchNextJob(w, j) PROVE Queue!Next
  BY <1>2 DEF FetchNextJob, Queue!Next
<1>3. ASSUME NEW c \in Clients, AddToQueue(c) PROVE Queue!Next
  <2>1. JobOf(c) \in Jobs
    BY <1>3, LifecycleAssumption DEF AddToQueue, TypeOK, Coherent, Threads
  <2> QED BY <1>3, <2>1 DEF AddToQueue, Queue!Next
<1>4. ASSUME NEW w \in Workers, RemoveFromQueue(w) PROVE Queue!Next
  BY <1>4 DEF RemoveFromQueue, Queue!Next
<1>5. ASSUME NEW j \in Jobs, Elsewhere(j) PROVE Queue!Next
  <2>1. {j} \in SUBSET Jobs
    OBVIOUS
  <2> QED BY <1>5, <2>1 DEF Elsewhere, Queue!Next
<1>6. ASSUME NEW a \in Threads,
             \/ AcquireDistributedLock(a) \/ GetJobData(a) \/ SetJobState(a)
             \/ Commit(a) \/ Release(a)
             \/ a \in Workers /\ (GiveUp(a) \/ Perform(a))
      PROVE  UNCHANGED <<entry, claim>>
  BY <1>6 DEF AcquireDistributedLock, GetJobData, SetJobState, Commit, Release, GiveUp, Perform
<1>7. ASSUME NEW c \in Clients, NEW j \in Jobs,
             CreateExpiredJob(c, j) \/ \E g \in {"Enqueued", "Deleted"} : ChangeState(c, j, g)
      PROVE  UNCHANGED <<entry, claim>>
  BY <1>7 DEF CreateExpiredJob, ChangeState
<1>8. ASSUME NEW j \in Jobs, Expire(j) PROVE UNCHANGED <<entry, claim>>
  BY <1>8 DEF Expire
<1>9. CASE UNCHANGED vars
  BY <1>9 DEF vars
<1>10. ASSUME NEW a \in Threads, SetJobStateThrows(a) \/ CommitThrows(a) \/ Fail(a)
       PROVE  Queue!Next \/ UNCHANGED <<entry, claim>>
  BY <1>1, <1>10 DEF SetJobStateThrows, CommitThrows, Fail
<1> QED
  BY <1>2, <1>3, <1>4, <1>5, <1>6, <1>7, <1>8, <1>9, <1>10 DEF Next, Step

\* What happens to entries and claims (fetching, AddToQueue in a transaction, removing,
\* crashes, lost replies and timeouts) is a behaviour of DeliveryQueue.
THEOREM UsesDeliveryQueue == Spec => Queue!Spec
<1>1. Init => Queue!Init
  BY DEF Init
<1> QED BY <1>1, TypeInit, TypeStep, QueueUse, PTL DEF Spec, Queue!Spec

-----------------------------------------------------------------------------
(* The lock of a job.                                                      *)

\* How many times each thread holds the lock of job j: Hangfire never nests it.
Depth(j) == [a \in Threads |-> IF holder[j] = a THEN 1 ELSE 0]
Lock(j) == INSTANCE ReentrantLock WITH MaxDepth <- 1, depth <- Depth(j)

\* Only who acquires, releases or loses a lock changes who holds it.
LEMMA LockUse ==
    ASSUME NEW j \in Jobs
    PROVE  TypeOK /\ [Next]_vars => [Lock(j)!Next]_(Depth(j))
<1> SUFFICES ASSUME TypeOK, [Next]_vars PROVE Lock(j)!Next \/ Depth(j)' = Depth(j)
  OBVIOUS
<1> USE LifecycleAssumption
<1>1. holder[j] \in Threads \cup {Nobody}
  BY DEF TypeOK
<1>2. ASSUME NEW a \in Threads, holder'[j] = IF holder[j] = a THEN Nobody ELSE holder[j]
      PROVE  Lock(j)!Next \/ Depth(j)' = Depth(j)
  <2>1. CASE holder[j] # a
    BY <1>2, <2>1 DEF Depth
  <2>2. CASE holder[j] = a
    <3>1. Depth(j)' = [Depth(j) EXCEPT ![a] = 0]
      BY <1>2, <2>2 DEF Depth
    <3>2. Lock(j)!Drop(a)
      BY <3>1 DEF Lock!Drop
    <3> QED BY <3>2 DEF Lock!Next
  <2> QED BY <2>1, <2>2
<1>3. ASSUME NEW a \in Threads, AcquireDistributedLock(a)
      PROVE  Lock(j)!Next \/ Depth(j)' = Depth(j)
  <2>1. CASE JobOf(a) # j
    BY <1>3, <2>1 DEF AcquireDistributedLock, TypeOK, Depth
  <2>2. CASE JobOf(a) = j
    <3>1. holder[j] = Nobody /\ holder'[j] = a
      BY <1>3, <2>2 DEF AcquireDistributedLock, TypeOK
    <3>2. Depth(j) = [b \in Threads |-> 0]
      BY <3>1 DEF Depth
    <3>3. Depth(j)' = [b \in Threads |-> IF b = a THEN 1 ELSE 0]
      BY <3>1 DEF Depth
    <3>4. Lock(j)!Enter(a)
      <4>1. Depth(j)' = [Depth(j) EXCEPT ![a] = Depth(j)[a] + 1]
        BY <3>2, <3>3
      <4> QED BY <3>2, <4>1 DEF Lock!Enter
    <3> QED BY <3>4 DEF Lock!Next
  <2> QED BY <2>1, <2>2
<1>4. ASSUME NEW a \in Threads, Release(a) \/ GoneWrong(a)
      PROVE  Lock(j)!Next \/ Depth(j)' = Depth(j)
  BY <1>2, <1>4 DEF Release, GoneWrong, Unlock
<1>5. ASSUME NEW a \in Threads, SetJobStateThrows(a) \/ CommitThrows(a) \/ Fail(a)
      PROVE  Lock(j)!Next \/ Depth(j)' = Depth(j)
  BY <1>4, <1>5 DEF SetJobStateThrows, CommitThrows, Fail
<1>6. ASSUME NEW a \in Threads,
             \/ GetJobData(a) \/ SetJobState(a) \/ Commit(a)
             \/ a \in Clients /\ AddToQueue(a)
             \/ a \in Workers /\ (GiveUp(a) \/ Perform(a) \/ RemoveFromQueue(a))
      PROVE  holder' = holder
  BY <1>6 DEF GetJobData, SetJobState, Commit, AddToQueue, GiveUp, Perform, RemoveFromQueue
<1>7. ASSUME NEW i \in Jobs,
             \/ Expire(i) \/ Elsewhere(i)
             \/ \E c \in Clients : CreateExpiredJob(c, i)
             \/ \E c \in Clients, g \in {"Enqueued", "Deleted"} : ChangeState(c, i, g)
             \/ \E w \in Workers : FetchNextJob(w, i)
      PROVE  holder' = holder
  BY <1>7 DEF Expire, Elsewhere, CreateExpiredJob, ChangeState, FetchNextJob
<1>8. CASE holder' = holder
  BY <1>8 DEF Depth
<1>9. \/ \E a \in Threads : AcquireDistributedLock(a) \/ Release(a)
      \/ \E a \in Threads : SetJobStateThrows(a) \/ CommitThrows(a) \/ Fail(a)
      \/ holder' = holder
  <2>1. CASE \E a \in Threads : Step(a) \/ Fail(a)
    <3>1. PICK a \in Threads : Step(a) \/ Fail(a)
      BY <2>1
    <3>2. \/ AcquireDistributedLock(a) \/ Release(a)
          \/ SetJobStateThrows(a) \/ CommitThrows(a) \/ Fail(a)
          \/ GetJobData(a) \/ SetJobState(a) \/ Commit(a)
          \/ a \in Clients /\ AddToQueue(a)
          \/ a \in Workers /\ (GiveUp(a) \/ Perform(a) \/ RemoveFromQueue(a))
      BY <3>1 DEF Step
    <3> QED BY <1>6, <3>2
  <2>2. CASE UNCHANGED vars
    BY <2>2 DEF vars
  <2>3. CASE \E i \in Jobs : Expire(i) \/ Elsewhere(i)
    BY <1>7, <2>3
  <2>4. CASE \/ \E c \in Clients, i \in Jobs :
                   \/ CreateExpiredJob(c, i)
                   \/ \E g \in {"Enqueued", "Deleted"} : ChangeState(c, i, g)
             \/ \E w \in Workers, i \in Jobs : FetchNextJob(w, i)
    BY <1>7, <2>4
  <2> QED BY <2>1, <2>2, <2>3, <2>4 DEF Next
<1> QED BY <1>3, <1>4, <1>5, <1>8, <1>9

\* The lock of each job is taken by one thread at a time while nobody holds it, and
\* given up by the one that holds it, also when its call fails or its process crashes.
THEOREM UsesReentrantLock == ASSUME NEW j \in Jobs PROVE Spec => Lock(j)!Spec
<1>1. Init => Lock(j)!Init
  BY LifecycleAssumption DEF Init, Lock!Init, Depth
<1> QED BY <1>1, TypeInit, TypeStep, LockUse, PTL DEF Spec, Lock!Spec
==============================================================================

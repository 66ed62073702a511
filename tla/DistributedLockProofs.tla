------------------------ MODULE DistributedLockProofs ------------------------
(***************************************************************************)
(* Proofs about DistributedLock, for any threads, processes, lifetimes,     *)
(* intervals and timeouts.                                                  *)
(***************************************************************************)
EXTENDS DistributedLock, FiniteSetTheorems, TLAPS

-----------------------------------------------------------------------------
(* Type correctness.                                                       *)

\* What Forget leaves behind is well typed.
LEMMA ForgetTypes ==
    ASSUME TypeOK, NEW S \in SUBSET Locks, Forget(S)
    PROVE  /\ pc' \in [Locks -> States]
           /\ thread' \in [Locks -> Threads \cup {NoThread}]
           /\ \A l \in Locks : pc'[l] # "dead" <=> thread'[l] # NoThread
           /\ level' \in [Locks -> 0..MaxDepth]
           /\ handle' \in [Locks -> BOOLEAN]
           /\ beat' \in [Locks -> 0..KeepAlive \cup {NoTimer}]
           /\ lease' \in [Locks -> 0..Lifetime]
           /\ left' \in [Locks -> Nat \cup {Passed}]
<1>1. /\ pc' \in [Locks -> States]
      /\ thread' \in [Locks -> Threads \cup {NoThread}]
      /\ \A l \in Locks : pc'[l] # "dead" <=> thread'[l] # NoThread
  BY LockAssumption DEF TypeOK, Forget, States, Constructing
<1>2. /\ level' \in [Locks -> 0..MaxDepth]
      /\ lease' \in [Locks -> 0..Lifetime]
  BY LockAssumption DEF TypeOK, Forget
<1>3. handle' \in [Locks -> BOOLEAN]
  BY Zenon DEF TypeOK, Forget
<1>4. /\ beat' \in [Locks -> 0..KeepAlive \cup {NoTimer}]
      /\ left' \in [Locks -> Nat \cup {Passed}]
  BY LockAssumption DEF TypeOK, Forget
<1> QED
  BY <1>1, <1>2, <1>3, <1>4

\* The document stays a document when its owner is gone.
LEMMA DisownedType ==
    ASSUME TypeOK, NEW S
    PROVE  Disowned(S) \in Docs \cup {NoDoc}
  BY DEF TypeOK, Disowned, Docs

\* Every step keeps the types.
LEMMA TypeStep == TypeOK /\ [Next]_vars => TypeOK'
<1> SUFFICES ASSUME TypeOK, [Next]_vars PROVE TypeOK'
  OBVIOUS
<1> USE LockAssumption DEF NoTimer, Passed
<1>1. ASSUME NEW t \in Threads, NEW l \in Locks, Reenter(t, l) PROVE TypeOK'
  BY <1>1 DEF Reenter, TypeOK, States, Constructing
<1>2. ASSUME NEW t \in Threads, NEW l \in Locks, NEW timeout \in Timeouts,
             Start(t, l, timeout)
      PROVE  TypeOK'
  BY <1>2 DEF Start, TypeOK, States, Constructing
<1>3. ASSUME NEW l \in Locks, Prepare(l) PROVE TypeOK'
  BY <1>3 DEF Prepare, TypeOK, States, Constructing
<1>4. ASSUME NEW l \in Locks, Acquire(l) PROVE TypeOK'
  <2>1. thread[l] \in Threads
    BY <1>4 DEF Acquire, TypeOK
  <2>2. [owner |-> l, ttl |-> lease[l]] \in Docs
    BY DEF TypeOK, Docs
  <2> QED BY <1>4, <2>1, <2>2 DEF Acquire, TypeOK, States, Constructing
<1>5. ASSUME NEW l \in Locks, Conflict(l) PROVE TypeOK'
  BY <1>5 DEF Conflict, TypeOK, States, Constructing
<1>6. ASSUME NEW l \in Locks, TimeOut(l) PROVE TypeOK'
  BY <1>6, ForgetTypes DEF TimeOut, TypeOK
<1>7. ASSUME NEW l \in Locks, FailAcquire(l) PROVE TypeOK'
  <2>1. [owner |-> NoLock, ttl |-> lease[l]] \in Docs
    BY DEF TypeOK, Docs
  <2> QED BY <1>7, <2>1, ForgetTypes DEF FailAcquire, TypeOK
<1>8. ASSUME NEW t \in Threads, NEW l \in Locks, DisposeInner(t, l) PROVE TypeOK'
  <2>1. held' \in [Threads -> 0..MaxDepth]
    BY <1>8 DEF DisposeInner, TypeOK
  <2>2. CASE handle[l]
    BY <1>8, <2>1, <2>2 DEF DisposeInner, MayDispose, TypeOK, States, Constructing
  <2>3. CASE ~handle[l]
    BY <1>8, <2>1, <2>3, ForgetTypes DEF DisposeInner, TypeOK
  <2> QED BY <2>2, <2>3
<1>9. ASSUME NEW t \in Threads, NEW l \in Locks, DisposeLast(t, l) PROVE TypeOK'
  BY <1>9 DEF DisposeLast, MayDispose, TypeOK, States, Constructing
<1>10. ASSUME NEW l \in Locks, Release(l) PROVE TypeOK'
  BY <1>10, ForgetTypes DEF Release, AfterDelete, TypeOK
<1>11. ASSUME NEW l \in Locks, FailRelease(l) PROVE TypeOK'
  BY <1>11, ForgetTypes, DisownedType DEF FailRelease, AfterDelete, TypeOK
<1>12. ASSUME NEW l \in Locks, Heartbeat(l) PROVE TypeOK'
  <2>1. CASE pc[l] = "leaked"
    BY <1>12, <2>1, ForgetTypes DEF Heartbeat, AfterDelete, TypeOK
  <2>2. CASE pc[l] # "leaked"
    <3>1. doc' \in Docs \cup {NoDoc}
      BY <1>12, Zenon DEF Heartbeat, AfterDelete, TypeOK
    <3>2. handle' \in [Locks -> BOOLEAN]
      BY <1>12, <2>2 DEF Heartbeat, TypeOK
    <3> QED BY <1>12, <2>2, <3>1, <3>2 DEF Heartbeat, TypeOK
  <2> QED BY <2>1, <2>2
<1>13. ASSUME NEW p, GoDown(p), doc' \in Docs \cup {NoDoc} PROVE TypeOK'
  <2>1. ObjectsOf(p) \in SUBSET Locks
    BY DEF ObjectsOf
  <2>2. held' \in [Threads -> 0..MaxDepth]
    BY <1>13 DEF GoDown, TypeOK
  <2> QED BY <1>13, <2>1, <2>2, ForgetTypes DEF GoDown, TypeOK
<1>14. ASSUME NEW l \in Locks, FailHeartbeat(l) PROVE TypeOK'
  BY <1>14, <1>13, DisownedType DEF FailHeartbeat
<1>15. ASSUME NEW t \in Threads, Crash(ProcessOf[t]) PROVE TypeOK'
  BY <1>15, <1>13, DisownedType DEF Crash
<1>16. CASE Expire
  BY <1>16 DEF Expire, TypeOK
<1>17. CASE Tick
  <2>1. doc' \in Docs \cup {NoDoc}
    BY <1>17 DEF Tick, TypeOK, Docs, Less
  <2>2. /\ beat' \in [Locks -> 0..KeepAlive \cup {NoTimer}]
        /\ lease' \in [Locks -> 0..Lifetime]
        /\ left' \in [Locks -> Nat \cup {Passed}]
    BY <1>17 DEF Tick, TypeOK, Less
  <2> QED BY <1>17, <2>1, <2>2 DEF Tick, TypeOK
<1>18. CASE UNCHANGED vars
  BY <1>18 DEF vars, TypeOK
<1> QED
  BY <1>1, <1>2, <1>3, <1>4, <1>5, <1>6, <1>7, <1>8, <1>9, <1>10, <1>11, <1>12,
     <1>14, <1>15, <1>16, <1>17, <1>18 DEF Next

LEMMA TypeInit == Init => TypeOK
  BY LockAssumption DEF Init, TypeOK, States, Constructing, NoTimer, Passed

\* The variables of DistributedLock keep their types: counts stay within the
\* bound and countdowns within their ranges, through every failure.
THEOREM TypeCorrect == Spec => []TypeOK
  BY TypeInit, TypeStep, PTL DEF Spec

-----------------------------------------------------------------------------
(* Mutual exclusion.  A count says nothing of the document, so it is not    *)
(* inductive: DocumentBacksLock ties every count to the one document.       *)

LockInv == TypeOK /\ DocumentBacksLock

\* Two threads inside would both have the document.
LEMMA DocumentGivesExclusion == DocumentBacksLock => MutualExclusion
  <1> SUFFICES ASSUME DocumentBacksLock, NEW t \in Threads, NEW u \in Threads,
                      held[t] > 0, held[u] > 0
               PROVE  t = u
    BY DEF MutualExclusion
  <1>1. PICK l \in Locks : thread[l] = t /\ pc[l] = "live" /\ handle[l]
    BY DEF DocumentBacksLock, HolderHasDocument
  <1>2. PICK m \in Locks : thread[m] = u /\ pc[m] = "live" /\ handle[m]
    BY DEF DocumentBacksLock, HolderHasDocument
  <1>3. doc.owner = l /\ doc.owner = m
    BY <1>1, <1>2 DEF DocumentBacksLock, HandleIsDocument
  <1> QED BY <1>1, <1>2, <1>3

\* The object that keeps the document is its owner, and it alone.
LEMMA KeeperOwns ==
    ASSUME LockInv, NEW m \in Locks, handle[m], pc[m] \in {"live", "releasing"}
    PROVE  /\ doc # NoDoc /\ doc.owner = m /\ doc.ttl > 0
           /\ \A S : m \notin S => Disowned(S) = doc
           /\ \A l \in Locks \ {m} : handle[l] => pc[l] \notin {"live", "releasing"}
<1>1. doc.owner = m /\ doc.ttl > 0 /\ doc = [owner |-> m, ttl |-> lease[m]]
  BY DEF LockInv, DocumentBacksLock, HandleIsDocument
<1>2. doc # NoDoc
  BY <1>1, LockAssumption DEF LockInv, TypeOK, Docs
<1>3. \A S : m \notin S => Disowned(S) = doc
  BY <1>1 DEF Disowned
<1>4. \A l \in Locks \ {m} : handle[l] => pc[l] \notin {"live", "releasing"}
  <2> SUFFICES ASSUME NEW l \in Locks, handle[l], pc[l] \in {"live", "releasing"}
               PROVE  l = m
    OBVIOUS
  <2>1. doc = [owner |-> l, ttl |-> lease[l]]
    BY DEF LockInv, DocumentBacksLock, HandleIsDocument
  <2> QED BY <1>1, <2>1
<1> QED BY <1>1, <1>2, <1>3, <1>4

LEMMA LockInvInit == Init => LockInv
  BY LockAssumption DEF Init, LockInv, TypeOK, States, Constructing, NoTimer, Passed,
     DocumentBacksLock, HandleIsDocument, HandleDiscipline, HolderHasDocument

\* Where nothing keeps the document, nobody is inside.
LEMMA FreeMeansNobody ==
    ASSUME LockInv, \A l \in Locks : pc[l] = "live" => ~handle[l]
    PROVE  \A t \in Threads : held[t] = 0
  BY DEF LockInv, TypeOK, DocumentBacksLock, HolderHasDocument

\* Objects that are forgotten disturb nothing but the document they keep and
\* the threads they serve.
LEMMA ForgetKeepsLock ==
    ASSUME LockInv, NEW S \in SUBSET Locks, Forget(S),
           \A l \in Locks \ S : handle[l] /\ pc[l] \in {"live", "releasing"} => doc' = doc,
           \A t \in Threads : held'[t] > 0 =>
               /\ held[t] > 0
               /\ \A l \in S : ~(thread[l] = t /\ pc[l] = "live" /\ handle[l])
    PROVE  DocumentBacksLock'
<1>1. \A l \in Locks : HandleIsDocument(l)' /\ HandleDiscipline(l)'
  <2> SUFFICES ASSUME NEW l \in Locks PROVE HandleIsDocument(l)' /\ HandleDiscipline(l)'
    OBVIOUS
  <2>1. CASE l \in S
    BY <2>1 DEF LockInv, TypeOK, Forget, HandleIsDocument, HandleDiscipline
  <2>2. CASE l \notin S
    BY <2>2 DEF LockInv, TypeOK, DocumentBacksLock, Forget, HandleIsDocument,
       HandleDiscipline
  <2> QED BY <2>1, <2>2
<1>2. ASSUME NEW t \in Threads PROVE HolderHasDocument(t)'
  <2> SUFFICES ASSUME held'[t] > 0
               PROVE  \E l \in Locks : /\ thread'[l] = t /\ pc'[l] = "live"
                                       /\ level'[l] = 1 /\ handle'[l]
    BY DEF HolderHasDocument
  <2>1. PICK l \in Locks : /\ thread[l] = t /\ pc[l] = "live"
                           /\ level[l] = 1 /\ handle[l]
    BY DEF LockInv, DocumentBacksLock, HolderHasDocument
  <2>2. l \notin S
    BY <2>1
  <2> QED BY <2>1, <2>2 DEF LockInv, TypeOK, Forget
<1> QED
  BY <1>1, <1>2 DEF DocumentBacksLock
\* With using blocks that end in time, every step keeps the document behind the
\* held lock.
LEMMA LockInvStep == Scoped /\ Prompt /\ LockInv /\ [Next]_vars => LockInv'
<1> SUFFICES ASSUME Scoped, Prompt, LockInv, [Next]_vars PROVE DocumentBacksLock'
  BY TypeStep DEF LockInv
<1> USE LockAssumption DEF NoTimer, Passed
<1>1. ASSUME NEW t \in Threads, NEW l \in Locks, Reenter(t, l) PROVE DocumentBacksLock'
  <2>1. ~handle[l] /\ beat[l] = -1
    BY <1>1 DEF LockInv, DocumentBacksLock, HandleDiscipline, Reenter
  <2>2. ASSUME NEW m \in Locks PROVE HandleIsDocument(m)' /\ HandleDiscipline(m)'
    BY <1>1, <2>1 DEF Reenter, LockInv, TypeOK, DocumentBacksLock, HandleIsDocument,
       HandleDiscipline
  <2>3. ASSUME NEW u \in Threads PROVE HolderHasDocument(u)'
    BY <1>1, <2>1 DEF Reenter, LockInv, TypeOK, DocumentBacksLock, HolderHasDocument
  <2> QED BY <2>2, <2>3 DEF DocumentBacksLock
<1>2. ASSUME NEW t \in Threads, NEW l \in Locks, NEW timeout \in Timeouts,
             Start(t, l, timeout)
      PROVE  DocumentBacksLock'
  BY <1>2 DEF Start, LockInv, TypeOK, DocumentBacksLock, HandleIsDocument,
     HandleDiscipline, HolderHasDocument
<1>3. ASSUME NEW l \in Locks, Prepare(l) PROVE DocumentBacksLock'
  BY <1>3 DEF Prepare, LockInv, TypeOK, DocumentBacksLock, HandleIsDocument,
     HandleDiscipline, HolderHasDocument
<1>4. ASSUME NEW l \in Locks, Acquire(l) PROVE DocumentBacksLock'
  <2>1. thread[l] \in Threads /\ handle[l] /\ lease[l] > 0
    BY <1>4 DEF Acquire, LockInv, TypeOK, DocumentBacksLock, HandleDiscipline
  <2>2. \A m \in Locks : pc[m] \in {"live", "releasing"} => ~handle[m]
    BY <1>4, KeeperOwns DEF Acquire, CanCreate
  <2>3. \A u \in Threads : held[u] = 0
    BY <2>2, FreeMeansNobody
  <2>4. ASSUME NEW m \in Locks PROVE HandleIsDocument(m)' /\ HandleDiscipline(m)'
    BY <1>4, <2>1, <2>2 DEF Acquire, LockInv, TypeOK, DocumentBacksLock,
       HandleIsDocument, HandleDiscipline
  <2>5. ASSUME NEW u \in Threads PROVE HolderHasDocument(u)'
    BY <1>4, <2>1, <2>3 DEF Acquire, LockInv, TypeOK, HolderHasDocument
  <2> QED BY <2>4, <2>5 DEF DocumentBacksLock
<1>5. ASSUME NEW l \in Locks, Conflict(l) PROVE DocumentBacksLock'
  BY <1>5 DEF Conflict, LockInv, TypeOK, DocumentBacksLock, HandleIsDocument,
     HandleDiscipline, HolderHasDocument
<1>6. ASSUME NEW l \in Locks, TimeOut(l) PROVE DocumentBacksLock'
  BY <1>6, ForgetKeepsLock DEF TimeOut
<1>7. ASSUME NEW l \in Locks, FailAcquire(l) PROVE DocumentBacksLock'
  <2>1. CASE doc' = doc
    BY <1>7, <2>1, ForgetKeepsLock DEF FailAcquire
  <2>2. CASE doc = NoDoc
    <3>1. \A m \in Locks : handle[m] => pc[m] \notin {"live", "releasing"}
      BY <2>2, KeeperOwns
    <3> QED BY <1>7, <3>1, ForgetKeepsLock DEF FailAcquire
  <2> QED BY <1>7, <2>1, <2>2 DEF FailAcquire, CanCreate
<1>8. ASSUME NEW t \in Threads, NEW l \in Locks, DisposeInner(t, l)
      PROVE  DocumentBacksLock'
  <2>1. ~handle[l]
    BY <1>8 DEF DisposeInner, MayDispose, LockInv, TypeOK, DocumentBacksLock,
       HandleDiscipline
  <2>2. \A u \in Threads : held'[u] > 0 => held[u] > 0
    BY <1>8 DEF DisposeInner, LockInv, TypeOK
  <2> QED BY <1>8, <2>1, <2>2, ForgetKeepsLock DEF DisposeInner
<1>9. ASSUME NEW t \in Threads, NEW l \in Locks, DisposeLast(t, l)
      PROVE  DocumentBacksLock'
  <2>1. thread[l] = t /\ pc[l] = "live"
    BY <1>9 DEF DisposeLast, MayDispose
  <2>2. ASSUME NEW m \in Locks PROVE HandleIsDocument(m)' /\ HandleDiscipline(m)'
    BY <1>9, <2>1 DEF DisposeLast, LockInv, TypeOK, DocumentBacksLock,
       HandleIsDocument, HandleDiscipline
  <2>3. ASSUME NEW u \in Threads PROVE HolderHasDocument(u)'
    BY <1>9, <2>1 DEF DisposeLast, LockInv, TypeOK, DocumentBacksLock, HolderHasDocument
  <2> QED BY <2>2, <2>3 DEF DocumentBacksLock
<1>10. ASSUME NEW l \in Locks, pc[l] = "releasing", Forget({l}), UNCHANGED held,
              doc' \in {Disowned({l}), AfterDelete(l)}
       PROVE  DocumentBacksLock'
  <2>1. \A m \in Locks \ {l} : handle[m] /\ pc[m] \in {"live", "releasing"} => doc' = doc
    BY <1>10, KeeperOwns DEF AfterDelete
  <2> QED BY <1>10, <2>1, ForgetKeepsLock
<1>11. ASSUME NEW l \in Locks, Heartbeat(l) \/ FailHeartbeat(l) PROVE FALSE
  BY <1>11 DEF Heartbeat, FailHeartbeat, LockInv, DocumentBacksLock, HandleDiscipline
<1>12. ASSUME NEW p, Crash(p) PROVE DocumentBacksLock'
  <2>1. ObjectsOf(p) \in SUBSET Locks
    BY DEF ObjectsOf
  <2>2. \A m \in Locks \ ObjectsOf(p) :
          handle[m] /\ pc[m] \in {"live", "releasing"} => doc' = doc
    BY <1>12, KeeperOwns, Zenon DEF Crash
  <2>3. \A t \in Threads : held'[t] > 0 => held[t] > 0 /\ ProcessOf[t] # p
    BY <1>12 DEF Crash, GoDown
  <2>4. \A l \in ObjectsOf(p) : ProcessOf[thread[l]] = p
    BY DEF ObjectsOf
  <2> QED BY <1>12, <2>1, <2>2, <2>3, <2>4, ForgetKeepsLock DEF Crash, GoDown
<1>13. CASE Expire
  <2>1. \A m \in Locks : pc[m] \in {"live", "releasing"} => ~handle[m]
    BY <1>13, KeeperOwns DEF Expire
  <2>2. \A u \in Threads : held[u] = 0
    BY <2>1, FreeMeansNobody
  <2> QED BY <1>13, <2>1, <2>2 DEF Expire, LockInv, DocumentBacksLock,
          HandleIsDocument, HandleDiscipline, HolderHasDocument
<1>14. CASE Tick
  <2>1. \A m \in Locks : handle[m] => lease[m] > 1 /\ beat[m] \notin {0, 1}
    BY <1>14 DEF Tick, InTime
  <2>2. ASSUME NEW m \in Locks PROVE HandleDiscipline(m)'
    BY <1>14, <2>1, <2>2 DEF Tick, Less, LockInv, TypeOK, DocumentBacksLock,
       HandleDiscipline
  <2>3. ASSUME NEW m \in Locks, handle[m], pc[m] \in {"live", "releasing"}
        PROVE  doc' = [owner |-> m, ttl |-> lease'[m]] /\ lease'[m] > 0
    <3>1. doc = [owner |-> m, ttl |-> lease[m]] /\ doc # NoDoc
      BY <2>3 DEF LockInv, DocumentBacksLock, HandleIsDocument, Docs, TypeOK
    <3>2. lease'[m] = lease[m] - 1 /\ lease'[m] > 0 /\ Less(lease[m]) = lease[m] - 1
      BY <1>14, <2>1, <2>3 DEF Tick, Less, LockInv, TypeOK
    <3>3. doc' = [doc EXCEPT !.ttl = Less(lease[m])]
      BY <1>14, <3>1 DEF Tick
    <3> QED BY <3>1, <3>2, <3>3
  <2>4. ASSUME NEW m \in Locks PROVE HandleIsDocument(m)'
    BY <1>14, <2>3 DEF Tick, HandleIsDocument
  <2>5. ASSUME NEW u \in Threads PROVE HolderHasDocument(u)'
    BY <1>14 DEF Tick, LockInv, DocumentBacksLock, HolderHasDocument
  <2> QED BY <2>2, <2>4, <2>5 DEF DocumentBacksLock
<1>15. CASE UNCHANGED vars
  BY <1>15 DEF vars, LockInv, DocumentBacksLock, HandleIsDocument, HandleDiscipline,
     HolderHasDocument
<1> QED
  BY <1>1, <1>2, <1>3, <1>4, <1>5, <1>6, <1>7, <1>8, <1>9, <1>10, <1>11, <1>12, <1>13,
     <1>14, <1>15 DEF Next, Release, FailRelease

\* A lock used in using blocks that end before its lifetime and its first
\* heartbeat excludes: whatever the threads, processes, timeouts, crashes and
\* failing calls, no two threads are ever inside.
THEOREM LockExcludes == ASSUME Scoped, Prompt PROVE Spec => []MutualExclusion
<1>1. LockInv /\ [Next]_vars => LockInv'
  BY LockInvStep
<1>2. LockInv => MutualExclusion
  BY DocumentGivesExclusion DEF LockInv
<1> QED
  BY <1>1, <1>2, LockInvInit, PTL DEF Spec

\* Under the same conditions a held lock always has its own unexpired document,
\* so what keeps the others out is in the database and not only in memory.
THEOREM LockIsBacked == ASSUME Scoped, Prompt PROVE Spec => []DocumentBacksLock
<1>1. LockInv /\ [Next]_vars => LockInv'
  BY LockInvStep
<1>2. LockInv => DocumentBacksLock
  BY DEF LockInv
<1> QED
  BY <1>1, <1>2, LockInvInit, PTL DEF Spec

-----------------------------------------------------------------------------
(* Deletes, and the refinement.                                            *)

\* A document that has not expired is never deleted under its owner: the only
\* steps that make one go away are the releases of the object that wrote it.
THEOREM LockDeletesItsOwn == ASSUME Scoped, Prompt PROVE Spec => NoForeignDelete
<1>1. ASSUME LockInv, [Next]_vars, doc # NoDoc, doc.ttl > 0, doc' = NoDoc
      PROVE  doc.owner \in Locks /\ handle[doc.owner] /\ ~handle'[doc.owner]
  <2> USE <1>1
  <2>1. ASSUME NEW S PROVE Disowned(S) # NoDoc
    <3>1. CASE doc.owner \in S
      <4>1. [doc EXCEPT !.owner = NoLock] \in Docs
        BY DEF LockInv, TypeOK, Docs
      <4> QED BY <3>1, <4>1, LockAssumption DEF Disowned
    <3>2. CASE doc.owner \notin S
      BY <3>2 DEF Disowned
    <3> QED BY <3>1, <3>2
  <2>2. ASSUME NEW l \in Locks PROVE ~Heartbeat(l) /\ ~FailHeartbeat(l)
    BY DEF Heartbeat, FailHeartbeat, LockInv, DocumentBacksLock, HandleDiscipline, NoTimer
  <2>3. ASSUME NEW l \in Locks PROVE ~Acquire(l) /\ ~FailAcquire(l)
    BY DEF Acquire, FailAcquire, CanCreate
  <2>4. ASSUME NEW p PROVE ~Crash(p)
    BY <2>1 DEF Crash
  <2>5. ~Tick /\ ~Expire
    <3>1. doc \in Docs
      BY DEF LockInv, TypeOK
    <3>2. Less(doc.ttl) \in 0..Lifetime
      BY <3>1, LockAssumption DEF Docs, Less
    <3>3. [doc EXCEPT !.ttl = Less(@)] \in Docs
      BY <3>1, <3>2 DEF Docs
    <3> QED BY <3>3, LockAssumption DEF Tick, Expire
  <2>6. PICK l \in Locks : Release(l) \/ FailRelease(l)
    BY <2>2, <2>3, <2>4, <2>5 DEF Next, vars, Reenter, Start, Prepare, Conflict,
       TimeOut, DisposeInner, DisposeLast
  <2>7. handle[l] /\ pc[l] = "releasing" /\ ~handle'[l]
    BY <2>1, <2>6 DEF Release, FailRelease, AfterDelete, Forget
  <2> QED BY <2>7, KeeperOwns
<1> QED
  BY <1>1, LockInvInit, LockInvStep, PTL DEF Spec, NoForeignDelete

\* The lock implements ReentrantLock.
THEOREM LockImplements == ASSUME Scoped, Prompt PROVE Spec => ImplementsReentrantLock
<1>1. Init => Abstract!Init
  BY DEF Init, Abstract!Init
<1>2. ASSUME LockInv, [Next]_vars PROVE [Abstract!Next]_held
  <2> USE <1>2, LockAssumption
  <2>1. MutualExclusion
    BY DocumentGivesExclusion DEF LockInv
  <2>2. ASSUME NEW t \in Threads, NEW l \in Locks, Reenter(t, l) PROVE Abstract!Enter(t)
    BY <2>1, <2>2 DEF Reenter, Abstract!Enter, MutualExclusion, LockInv, TypeOK
  <2>3. ASSUME NEW l \in Locks, Acquire(l)
        PROVE  thread[l] \in Threads /\ Abstract!Enter(thread[l])
    <3>1. thread[l] \in Threads
      BY <2>3 DEF Acquire, LockInv, TypeOK
    <3>2. \A t \in Threads : held[t] = 0
      BY <2>3, KeeperOwns, FreeMeansNobody DEF Acquire, CanCreate
    <3>3. held[thread[l]] + 1 = 1 /\ held[thread[l]] < MaxDepth
      BY <3>1, <3>2
    <3>4. held' = [held EXCEPT ![thread[l]] = held[thread[l]] + 1]
      BY <2>3, <3>3 DEF Acquire
    <3> QED BY <3>1, <3>2, <3>3, <3>4 DEF Abstract!Enter
  <2>4. ASSUME NEW t \in Threads, NEW l \in Locks, DisposeInner(t, l)
        PROVE  Abstract!Leave(t) \/ UNCHANGED held
    <3>1. held' = [held EXCEPT ![t] = IF held[t] = 0 THEN 0 ELSE held[t] - 1]
      BY <2>4 DEF DisposeInner
    <3>2. held \in [Threads -> 0..MaxDepth]
      BY DEF LockInv, TypeOK
    <3>3. CASE held[t] = 0
      BY <3>1, <3>2, <3>3
    <3>4. CASE held[t] # 0
      BY <3>1, <3>2, <3>4 DEF Abstract!Leave
    <3> QED BY <3>3, <3>4
  <2>5. ASSUME NEW t \in Threads, NEW l \in Locks, DisposeLast(t, l)
        PROVE  Abstract!Leave(t)
    BY <2>5 DEF DisposeLast, Abstract!Leave, LockInv, TypeOK
  <2>6. ASSUME NEW p, GoDown(p)
        PROVE  UNCHANGED held \/ \E t \in Threads : Abstract!Drop(t)
    <3>1. CASE \A t \in Threads : ProcessOf[t] = p => held[t] = 0
      BY <2>6, <3>1 DEF GoDown, LockInv, TypeOK
    <3>2. ASSUME NEW t \in Threads, ProcessOf[t] = p, held[t] # 0
          PROVE  Abstract!Drop(t)
      <4>1. \A u \in Threads : held[u] > 0 => u = t
        BY <2>1, <3>2 DEF MutualExclusion, LockInv, TypeOK
      <4>2. held \in [Threads -> 0..MaxDepth]
        BY DEF LockInv, TypeOK
      <4>3. ASSUME NEW u \in Threads PROVE held'[u] = IF u = t THEN 0 ELSE held[u]
        <5>1. held'[u] = IF ProcessOf[u] = p THEN 0 ELSE held[u]
          BY <2>6 DEF GoDown
        <5>2. held[u] > 0 \/ held[u] = 0
          BY <4>2
        <5> QED BY <3>2, <4>1, <5>1, <5>2
      <4>4. held' = [u \in Threads |-> held'[u]]
        BY <2>6 DEF GoDown
      <4> QED BY <4>2, <4>3, <4>4 DEF Abstract!Drop
    <3> QED BY <3>1, <3>2
  <2> QED
    BY <2>2, <2>3, <2>4, <2>5, <2>6 DEF Next, vars, Abstract!Next, Start, Prepare,
       Conflict, TimeOut, FailAcquire, Release, FailRelease, Heartbeat, FailHeartbeat,
       Crash, Expire, Tick
<1> QED
  BY <1>1, <1>2, LockInvInit, LockInvStep, PTL
     DEF Spec, ImplementsReentrantLock, Abstract!Spec
-----------------------------------------------------------------------------
(* Nesting.  Scoped is all it takes: heartbeats, expirations and missed      *)
(* deadlines may take the document away, never the count.                    *)

\* The locks that thread t has constructed and not disposed.
LiveOf(t) == {l \in Locks : thread[l] = t /\ pc[l] = "live"}

\* The count of a thread is the number of its live locks.
Counted(t) == IsFiniteSet(LiveOf(t)) /\ held[t] = Cardinality(LiveOf(t))

\* What makes it so: a thread constructs one lock at a time, and only when it
\* holds none through the database; only an outermost lock has a handle.
NestingInv ==
    /\ TypeOK
    /\ \A t \in Threads : Counted(t)
    /\ \A l \in Locks : handle[l] => pc[l] # "dead" /\ (pc[l] = "live" => level[l] = 1)
    /\ \A l \in Locks : pc[l] \in Constructing => held[thread[l]] = 0
    /\ \A l, m \in Locks :
          pc[l] \in Constructing /\ pc[m] \in Constructing /\ thread[l] = thread[m]
            => l = m

LEMMA NestingInit == Init => NestingInv
  BY TypeInit, FS_EmptySet DEF Init, NestingInv, Counted, LiveOf, Constructing

\* A step that leaves a thread its count and its live locks keeps the two equal.
LEMMA StillCounted ==
    ASSUME NEW t \in Threads, Counted(t), held'[t] = held[t], LiveOf(t)' = LiveOf(t)
    PROVE  Counted(t)'
  BY DEF Counted

\* Objects that are not live are forgotten without a change to any count.
LEMMA ForgetKeepsNesting ==
    ASSUME NestingInv, TypeOK', NEW l \in Locks, pc[l] # "live", Forget({l}),
           UNCHANGED held
    PROVE  NestingInv'
<1>1. ASSUME NEW t \in Threads PROVE Counted(t)'
  <2>1. LiveOf(t)' = LiveOf(t)
    BY LockAssumption DEF LiveOf, Forget, NestingInv, TypeOK
  <2> QED BY <2>1, StillCounted DEF NestingInv
<1>2. \A m \in Locks : handle'[m] => pc'[m] # "dead" /\ (pc'[m] = "live" => level'[m] = 1)
  BY DEF Forget, NestingInv, TypeOK
<1>3. \A m \in Locks : pc'[m] \in Constructing =>
          pc[m] \in Constructing /\ thread'[m] = thread[m]
  BY DEF Forget, Constructing
<1> QED
  BY <1>1, <1>2, <1>3 DEF NestingInv

\* The innermost lock of a using block is disposed: one lock and one count less.
LEMMA DisposeKeepsNesting ==
    ASSUME NestingInv, TypeOK', NEW t \in Threads, NEW l \in Locks,
           thread[l] = t, pc[l] = "live", ~Busy(t),
           held' = [held EXCEPT ![t] = IF @ = 0 THEN 0 ELSE @ - 1],
           pc'[l] # "live", pc'[l] \notin Constructing, pc'[l] = "dead" => ~handle'[l],
           \A m \in Locks \ {l} :
               pc'[m] = pc[m] /\ thread'[m] = thread[m]
               /\ level'[m] = level[m] /\ handle'[m] = handle[m]
    PROVE  NestingInv'
<1>1. l \in LiveOf(t) /\ IsFiniteSet(LiveOf(t)) /\ held[t] = Cardinality(LiveOf(t))
  BY DEF LiveOf, NestingInv, Counted
<1>2. LiveOf(t)' = LiveOf(t) \ {l}
  BY DEF LiveOf
<1>3. IsFiniteSet(LiveOf(t)') /\ Cardinality(LiveOf(t)') = Cardinality(LiveOf(t)) - 1
  BY <1>1, <1>2, FS_RemoveElement
<1>4. Cardinality(LiveOf(t)) # 0
  BY <1>1, FS_EmptySet
<1>5. Counted(t)'
  BY <1>1, <1>3, <1>4 DEF Counted, NestingInv, TypeOK
<1>6. ASSUME NEW u \in Threads, u # t PROVE Counted(u)'
  <2>1. LiveOf(u)' = LiveOf(u)
    BY <1>6 DEF LiveOf
  <2>2. held'[u] = held[u]
    BY <1>6 DEF NestingInv, TypeOK
  <2> QED BY <2>1, <2>2, StillCounted DEF NestingInv
<1>7. ASSUME NEW m \in Locks, pc'[m] \in Constructing
      PROVE  pc[m] \in Constructing /\ thread'[m] = thread[m] /\ thread[m] # t
  BY <1>7 DEF Busy
<1>8. ASSUME NEW m \in Locks, pc'[m] \in Constructing PROVE held'[thread'[m]] = 0
  BY <1>7, <1>8 DEF NestingInv, TypeOK
<1>9. \A m \in Locks : handle'[m] => pc'[m] # "dead" /\ (pc'[m] = "live" => level'[m] = 1)
  BY DEF NestingInv
<1> QED
  BY <1>5, <1>6, <1>7, <1>8, <1>9 DEF NestingInv

\* A process that goes down takes its counts and its locks with it.
LEMMA GoDownKeepsNesting ==
    ASSUME NestingInv, TypeOK', NEW p, GoDown(p)
    PROVE  NestingInv'
<1>1. ASSUME NEW t \in Threads PROVE Counted(t)'
  <2>1. CASE ProcessOf[t] = p
    <3>1. held'[t] = 0
      BY <2>1 DEF GoDown
    <3>2. \A l \in Locks : thread[l] = t /\ pc[l] # "dead" => l \in ObjectsOf(p)
      BY <2>1 DEF ObjectsOf
    <3>3. LiveOf(t)' = {}
      BY <3>2, LockAssumption DEF GoDown, Forget, LiveOf
    <3> QED BY <3>1, <3>3, FS_EmptySet DEF Counted
  <2>2. CASE ProcessOf[t] # p
    <3>1. held'[t] = held[t]
      BY <2>2 DEF GoDown
    <3>2. \A l \in Locks : thread[l] = t => l \notin ObjectsOf(p)
      BY <2>2 DEF ObjectsOf
    <3>3. LiveOf(t)' = LiveOf(t)
      BY <3>2, LockAssumption DEF GoDown, Forget, LiveOf
    <3> QED BY <3>1, <3>3, StillCounted DEF NestingInv
  <2> QED BY <2>1, <2>2
<1>2. \A m \in Locks : handle'[m] => pc'[m] # "dead" /\ (pc'[m] = "live" => level'[m] = 1)
  BY DEF GoDown, Forget, NestingInv, TypeOK
<1>3. \A m \in Locks : pc'[m] \in Constructing =>
          pc[m] \in Constructing /\ thread'[m] = thread[m] /\ thread[m] \in Threads
  BY DEF GoDown, Forget, Constructing, NestingInv, TypeOK
<1>4. \A m \in Locks : pc'[m] \in Constructing => held'[thread'[m]] = 0
  BY <1>3 DEF GoDown, NestingInv
<1> QED
  BY <1>1, <1>2, <1>3, <1>4 DEF NestingInv
\* With using blocks, every step counts right.
LEMMA NestingStep == Scoped /\ NestingInv /\ [Next]_vars => NestingInv'
<1> SUFFICES ASSUME Scoped, NestingInv, [Next]_vars PROVE NestingInv'
  OBVIOUS
<1> USE LockAssumption
<1>0. TypeOK'
  BY TypeStep DEF NestingInv
<1>1. ASSUME NEW t \in Threads, NEW l \in Locks, Reenter(t, l) PROVE NestingInv'
  <2>1. /\ l \notin LiveOf(t) /\ IsFiniteSet(LiveOf(t))
        /\ held[t] = Cardinality(LiveOf(t)) /\ held[t] > 0
    BY <1>1 DEF Reenter, LiveOf, NestingInv, Counted
  <2>2. LiveOf(t)' = LiveOf(t) \cup {l}
    BY <1>1 DEF Reenter, LiveOf, NestingInv, TypeOK
  <2>3. IsFiniteSet(LiveOf(t)') /\ Cardinality(LiveOf(t)') = Cardinality(LiveOf(t)) + 1
    BY <2>1, <2>2, FS_AddElement
  <2>4. Counted(t)'
    BY <1>1, <2>1, <2>3 DEF Reenter, Counted, NestingInv, TypeOK
  <2>5. ASSUME NEW u \in Threads, u # t PROVE Counted(u)'
    <3>1. LiveOf(u)' = LiveOf(u)
      BY <1>1, <2>5 DEF Reenter, LiveOf, NestingInv, TypeOK
    <3>2. held'[u] = held[u]
      BY <1>1, <2>5 DEF Reenter, NestingInv, TypeOK
    <3> QED BY <3>1, <3>2, StillCounted DEF NestingInv
  <2>6. \A m \in Locks : pc'[m] \in Constructing =>
            pc[m] \in Constructing /\ thread'[m] = thread[m] /\ thread[m] # t
    BY <1>1 DEF Reenter, Busy, Constructing, NestingInv, TypeOK
  <2>7. \A m \in Locks : pc'[m] \in Constructing => held'[thread'[m]] = 0
    BY <1>1, <2>6 DEF Reenter, NestingInv, TypeOK
  <2>8. ~handle[l]
    BY <1>1 DEF Reenter, NestingInv, TypeOK
  <2>9. \A m \in Locks : handle'[m] => pc'[m] # "dead" /\ (pc'[m] = "live" => level'[m] = 1)
    BY <1>1, <2>8 DEF Reenter, NestingInv, TypeOK
  <2> QED BY <1>0, <2>4, <2>5, <2>6, <2>7, <2>9 DEF NestingInv
<1>2. ASSUME NEW t \in Threads, NEW l \in Locks, NEW timeout \in Timeouts,
             Start(t, l, timeout)
      PROVE  NestingInv'
  <2>1. ASSUME NEW u \in Threads PROVE Counted(u)'
    <3>1. LiveOf(u)' = LiveOf(u)
      BY <1>2 DEF Start, LiveOf, NestingInv, TypeOK
    <3> QED BY <1>2, <3>1, StillCounted DEF Start, NestingInv
  <2>2. \A m \in Locks \ {l} : pc[m] \in Constructing => thread[m] # t
    BY <1>2 DEF Start, Busy
  <2> QED BY <1>0, <1>2, <2>1, <2>2 DEF Start, NestingInv, TypeOK, Constructing
<1>3. ASSUME NEW l \in Locks, Prepare(l) \/ Conflict(l) PROVE NestingInv'
  <2>1. /\ pc[l] \in Constructing /\ pc'[l] \in Constructing
        /\ \A m \in Locks \ {l} : pc'[m] = pc[m] /\ handle'[m] = handle[m]
        /\ UNCHANGED <<held, thread, level>>
    BY <1>3 DEF Prepare, Conflict, NestingInv, TypeOK, Constructing
  <2>2. "live" \notin Constructing /\ "dead" \notin Constructing
    BY DEF Constructing
  <2>3. ASSUME NEW u \in Threads PROVE Counted(u)'
    <3>1. LiveOf(u)' = LiveOf(u)
      BY <2>1, <2>2 DEF LiveOf
    <3> QED BY <2>1, <3>1, StillCounted DEF NestingInv
  <2> QED BY <1>0, <2>1, <2>2, <2>3 DEF NestingInv
<1>4. ASSUME NEW l \in Locks, Acquire(l) PROVE NestingInv'
  <2>1. PICK t \in Threads : t = thread[l] /\ pc[l] \in Constructing /\ held[t] = 0
    BY <1>4 DEF Acquire, NestingInv, TypeOK, Constructing
  <2>2. LiveOf(t) = {}
    BY <2>1, FS_EmptySet DEF NestingInv, Counted
  <2>3. LiveOf(t)' = {l}
    BY <1>4, <2>1, <2>2 DEF Acquire, LiveOf, NestingInv, TypeOK
  <2>4. Counted(t)'
    <3>1. IsFiniteSet({l}) /\ Cardinality({l}) = 1
      BY FS_Singleton
    <3>2. held'[t] = 1
      BY <1>4, <2>1 DEF Acquire, NestingInv, TypeOK
    <3> QED BY <2>3, <3>1, <3>2 DEF Counted
  <2>5. ASSUME NEW u \in Threads, u # t PROVE Counted(u)'
    <3>1. LiveOf(u)' = LiveOf(u)
      BY <1>4, <2>1, <2>5 DEF Acquire, LiveOf, NestingInv, TypeOK
    <3>2. held'[u] = held[u]
      BY <1>4, <2>1, <2>5 DEF Acquire, NestingInv, TypeOK
    <3> QED BY <3>1, <3>2, StillCounted DEF NestingInv
  <2>6. ASSUME NEW m \in Locks, pc'[m] \in Constructing
        PROVE  pc[m] \in Constructing /\ thread'[m] = thread[m] /\ thread[m] # t
    <3>1. \A k \in Locks \ {l} : pc'[k] = pc[k] /\ thread'[k] = thread[k]
      BY <1>4 DEF Acquire, NestingInv, TypeOK
    <3>2. pc'[l] \notin Constructing
      BY <1>4 DEF Acquire, Constructing, NestingInv, TypeOK
    <3>3. \A k \in Locks \ {l} : pc[k] \in Constructing => thread[k] # t
      BY <2>1 DEF NestingInv
    <3> QED BY <2>6, <3>1, <3>2, <3>3
  <2>7. \A m \in Locks : pc'[m] \in Constructing => held'[thread'[m]] = 0
    BY <1>4, <2>1, <2>6 DEF Acquire, NestingInv, TypeOK
  <2>8. \A m \in Locks : handle'[m] => pc'[m] # "dead" /\ (pc'[m] = "live" => level'[m] = 1)
    BY <1>4 DEF Acquire, NestingInv, TypeOK
  <2> QED BY <1>0, <2>4, <2>5, <2>6, <2>7, <2>8 DEF NestingInv
<1>5. ASSUME NEW l \in Locks, TimeOut(l) \/ FailAcquire(l) \/ Release(l) \/ FailRelease(l)
      PROVE  NestingInv'
  <2>1. pc[l] # "live" /\ Forget({l}) /\ UNCHANGED held
    BY <1>5 DEF TimeOut, FailAcquire, Release, FailRelease
  <2> QED BY <1>0, <2>1, ForgetKeepsNesting
<1>6. ASSUME NEW t \in Threads, NEW l \in Locks, DisposeInner(t, l) PROVE NestingInv'
  <2>1. thread[l] = t /\ pc[l] = "live" /\ ~handle[l] /\ ~Busy(t)
    BY <1>6 DEF DisposeInner, MayDispose, NestingInv
  <2>2. Forget({l})
    BY <1>6, <2>1 DEF DisposeInner
  <2>3. /\ pc'[l] = "dead" /\ ~handle'[l]
        /\ \A m \in Locks \ {l} : pc'[m] = pc[m] /\ thread'[m] = thread[m]
                                  /\ level'[m] = level[m] /\ handle'[m] = handle[m]
    BY <2>2 DEF Forget, NestingInv, TypeOK
  <2> QED BY <1>0, <1>6, <2>1, <2>3, DisposeKeepsNesting DEF DisposeInner, Constructing
<1>7. ASSUME NEW t \in Threads, NEW l \in Locks, DisposeLast(t, l) PROVE NestingInv'
  <2>1. thread[l] = t /\ pc[l] = "live" /\ ~Busy(t)
    BY <1>7 DEF DisposeLast, MayDispose
  <2>2. /\ pc'[l] = "releasing"
        /\ \A m \in Locks \ {l} : pc'[m] = pc[m] /\ thread'[m] = thread[m]
                                  /\ level'[m] = level[m] /\ handle'[m] = handle[m]
    BY <1>7 DEF DisposeLast, NestingInv, TypeOK
  <2>3. held' = [held EXCEPT ![t] = IF @ = 0 THEN 0 ELSE @ - 1]
    BY <1>7 DEF DisposeLast, NestingInv, TypeOK
  <2> QED BY <1>0, <2>1, <2>2, <2>3, DisposeKeepsNesting DEF Constructing
<1>8. ASSUME NEW l \in Locks, Heartbeat(l) PROVE NestingInv'
  <2>1. CASE pc[l] = "leaked"
    BY <1>0, <1>8, <2>1, ForgetKeepsNesting DEF Heartbeat
  <2>2. CASE pc[l] # "leaked"
    <3>1. /\ UNCHANGED <<held, pc, thread, level>>
          /\ \A m \in Locks : handle'[m] => handle[m]
      BY <1>8, <2>2 DEF Heartbeat, NestingInv, TypeOK
    <3>2. ASSUME NEW u \in Threads PROVE Counted(u)'
      BY <3>1, StillCounted DEF LiveOf, NestingInv
    <3> QED BY <1>0, <3>1, <3>2 DEF NestingInv
  <2> QED BY <2>1, <2>2
<1>9. ASSUME NEW p, GoDown(p) PROVE NestingInv'
  BY <1>0, <1>9, GoDownKeepsNesting
<1>10. CASE Expire \/ Tick \/ UNCHANGED vars
  <2>1. UNCHANGED <<held, pc, thread, level, handle>>
    BY <1>10 DEF Expire, Tick, vars
  <2>2. ASSUME NEW u \in Threads PROVE Counted(u)'
    BY <2>1, StillCounted DEF LiveOf, NestingInv
  <2> QED BY <1>0, <2>1, <2>2 DEF NestingInv
<1> QED
  BY <1>1, <1>2, <1>3, <1>4, <1>5, <1>6, <1>7, <1>8, <1>9, <1>10
     DEF Next, FailHeartbeat, Crash

\* With using blocks, and whatever the heartbeats, expirations and failures do,
\* the count of a thread is the number of its live locks: the constructor adds one,
\* Dispose takes one off, and only the outermost goes to the database.
THEOREM NestingIsCounted == ASSUME Scoped PROVE Spec => []CountIsNesting
<1>1. NestingInv /\ [Next]_vars => NestingInv'
  BY NestingStep
<1>2. NestingInv => CountIsNesting
  BY DEF NestingInv, CountIsNesting, Counted, LiveOf
<1> QED
  BY <1>1, <1>2, NestingInit, PTL DEF Spec
=============================================================================

--------------------------- MODULE DistributedLock ---------------------------
(***************************************************************************)
(* RavenDistributedLock: a lock on one resource, kept as a RavenDB document *)
(* with a fixed id that expires by itself.  The constructor acquires it in  *)
(* a loop of optimistic saves; a thread that already holds the resource     *)
(* only counts; Dispose counts back and, at zero, deletes the document      *)
(* without looking at who wrote it; a timer meant to renew the document     *)
(* fires every KeepAlive.                                                   *)
(*                                                                          *)
(* Time is a set of countdowns that Tick moves together, so behaviours are  *)
(* unbounded and the state space is finite.  The wait handle (lines 134,    *)
(* 172) only shortens a wait that ends by itself, and is left out.          *)
(***************************************************************************)
EXTENDS Integers, FiniteSets

CONSTANTS
    Threads,       \* threads that construct and dispose locks on the resource
    ProcessOf,     \* the process each of them runs in
    Locks,         \* RavenDistributedLock objects; a dead one's name is reused
    NoThread,      \* thread of a dead object
    NoLock,        \* owner of a document that no object in memory wrote
    NoDoc,         \* the document does not exist
    Lifetime,      \* DistributedLockLifetime, in ticks
    KeepAlive,     \* KeepAliveInterval, in ticks
    Timeouts,      \* timeouts that callers pass to the constructor, in ticks
    MaxDepth,      \* bound on the count of one thread
    ExpirationOn,  \* the database deletes expired documents
    Scoped,        \* objects are disposed by their own thread, innermost first
    Prompt         \* objects are disposed before Lifetime and KeepAlive are over

Docs == [owner : Locks \cup {NoLock}, ttl : 0..Lifetime]

ASSUME LockAssumption ==
    /\ NoThread \notin Threads
    /\ NoLock \notin Locks
    /\ NoDoc \notin Docs
    /\ Lifetime \in Nat \ {0} /\ KeepAlive \in Nat \ {0} /\ MaxDepth \in Nat \ {0}
    /\ Timeouts \subseteq Nat
    /\ {ExpirationOn, Scoped, Prompt} \subseteq BOOLEAN

VARIABLES
    doc,     \* the lock document: who wrote it and how long until it expires
    held,    \* AcquiredLocks.Value[_resource] of each thread, 0 when absent
    pc,      \* what each object is doing
    thread,  \* the thread that constructed the object, later the one disposing it
    level,   \* the count of that thread once the object was constructed
    handle,  \* _distributedLock is not null
    beat,    \* time until _heartbeatTimer fires, NoTimer when there is none
    lease,   \* time until the expiry this object wrote
    left     \* time until lockTimeoutTime, Passed once it is over

vars == <<doc, held, pc, thread, level, handle, beat, lease, left>>

NoTimer == -1
Passed == -1

Constructing == {"starting", "saving", "waiting"}
States == Constructing \cup {"dead", "live", "releasing", "leaked"}

TypeOK ==
    /\ doc \in Docs \cup {NoDoc}
    /\ held \in [Threads -> 0..MaxDepth]
    /\ pc \in [Locks -> States]
    /\ thread \in [Locks -> Threads \cup {NoThread}]
    /\ \A l \in Locks : pc[l] # "dead" <=> thread[l] # NoThread
    /\ level \in [Locks -> 0..MaxDepth]
    /\ handle \in [Locks -> BOOLEAN]
    /\ beat \in [Locks -> 0..KeepAlive \cup {NoTimer}]
    /\ lease \in [Locks -> 0..Lifetime]
    /\ left \in [Locks -> Nat \cup {Passed}]

Init ==
    /\ doc = NoDoc
    /\ held = [t \in Threads |-> 0]
    /\ pc = [l \in Locks |-> "dead"]
    /\ thread = [l \in Locks |-> NoThread]
    /\ level = [l \in Locks |-> 0]
    /\ handle = [l \in Locks |-> FALSE]
    /\ beat = [l \in Locks |-> NoTimer]
    /\ lease = [l \in Locks |-> 0]
    /\ left = [l \in Locks |-> Passed]

-----------------------------------------------------------------------------
(* Helpers.                                                                *)

\* The thread is inside a constructor or inside Dispose.
Busy(t) == \E l \in Locks : thread[l] = t /\ pc[l] \in Constructing \cup {"releasing"}

\* The objects in the memory of process p.
ObjectsOf(p) == {l \in Locks : pc[l] # "dead" /\ ProcessOf[thread[l]] = p}

\* The objects S are gone from memory.
Forget(S) ==
    /\ pc' = [l \in Locks |-> IF l \in S THEN "dead" ELSE pc[l]]
    /\ thread' = [l \in Locks |-> IF l \in S THEN NoThread ELSE thread[l]]
    /\ level' = [l \in Locks |-> IF l \in S THEN 0 ELSE level[l]]
    /\ handle' = [l \in Locks |-> IF l \in S THEN FALSE ELSE handle[l]]
    /\ beat' = [l \in Locks |-> IF l \in S THEN NoTimer ELSE beat[l]]
    /\ lease' = [l \in Locks |-> IF l \in S THEN 0 ELSE lease[l]]
    /\ left' = [l \in Locks |-> IF l \in S THEN Passed ELSE left[l]]

\* The document once the objects S are gone: nobody in memory owns it.
Disowned(S) ==
    IF doc # NoDoc /\ doc.owner \in S THEN [doc EXCEPT !.owner = NoLock] ELSE doc

\* (Mutant.) Optimistic concurrency is forgotten: the save overwrites.
CanAlwaysCreate == TRUE

\* Store under optimistic concurrency: a new document must not exist yet.
CanCreate == doc = NoDoc

\* session.Delete(id): whatever document has the id goes, if there is a handle.
AfterDelete(l) == IF handle[l] THEN NoDoc ELSE doc

-----------------------------------------------------------------------------
(* The constructor.                                                        *)

\* The thread holds the resource already: it counts, and asks nobody.
Reenter(t, l) ==
    /\ pc[l] = "dead" /\ ~Busy(t)
    /\ held[t] > 0 /\ held[t] < MaxDepth
    /\ held' = [held EXCEPT ![t] = @ + 1]
    /\ pc' = [pc EXCEPT ![l] = "live"]
    /\ thread' = [thread EXCEPT ![l] = t]
    /\ level' = [level EXCEPT ![l] = held[t] + 1]
    /\ UNCHANGED <<doc, handle, beat, lease, left>>

\* The thread does not hold it: Acquire(timeout) starts.
Start(t, l, timeout) ==
    /\ pc[l] = "dead" /\ ~Busy(t)
    /\ held[t] = 0
    /\ pc' = [pc EXCEPT ![l] = "starting"]
    /\ thread' = [thread EXCEPT ![l] = t]
    /\ left' = [left EXCEPT ![l] = timeout]
    /\ UNCHANGED <<doc, held, level, handle, beat, lease>>

\* (Mutant.) The expiry is written before the loop and not in every round.
PrepareOnce(l) ==
    /\ pc[l] \in {"starting", "waiting"} /\ left[l] # Passed
    /\ pc' = [pc EXCEPT ![l] = "saving"]
    /\ handle' = [handle EXCEPT ![l] = TRUE]
    /\ lease' = [lease EXCEPT ![l] = IF pc[l] = "starting" THEN Lifetime ELSE @]
    /\ UNCHANGED <<doc, held, thread, level, beat, left>>

\* (Mutant.) The loop does not look at the deadline.
PrepareForever(l) ==
    /\ pc[l] \in {"starting", "waiting"}
    /\ pc' = [pc EXCEPT ![l] = "saving"]
    /\ handle' = [handle EXCEPT ![l] = TRUE]
    /\ lease' = [lease EXCEPT ![l] = Lifetime]
    /\ UNCHANGED <<doc, held, thread, level, beat, left>>

\* One round of the loop: a new document, with its expiry, in a new session.
Prepare(l) ==
    /\ pc[l] \in {"starting", "waiting"} /\ left[l] # Passed
    /\ pc' = [pc EXCEPT ![l] = "saving"]
    /\ handle' = [handle EXCEPT ![l] = TRUE]
    /\ lease' = [lease EXCEPT ![l] = Lifetime]
    /\ UNCHANGED <<doc, held, thread, level, beat, left>>

\* SaveChanges creates the document: the thread's count is 1, the timer starts.
Acquire(l) ==
    /\ pc[l] = "saving" /\ CanCreate
    /\ doc' = [owner |-> l, ttl |-> lease[l]]
    /\ held' = [held EXCEPT ![thread[l]] = 1]
    /\ pc' = [pc EXCEPT ![l] = "live"]
    /\ level' = [level EXCEPT ![l] = 1]
    /\ beat' = [beat EXCEPT ![l] = KeepAlive]
    /\ left' = [left EXCEPT ![l] = Passed]
    /\ UNCHANGED <<thread, handle, lease>>

\* SaveChanges throws ConcurrencyException: wait, then look at the clock again.
Conflict(l) ==
    /\ pc[l] = "saving" /\ ~CanCreate
    /\ pc' = [pc EXCEPT ![l] = "waiting"]
    /\ handle' = [handle EXCEPT ![l] = FALSE]
    /\ lease' = [lease EXCEPT ![l] = 0]
    /\ UNCHANGED <<doc, held, thread, level, beat, left>>

\* (Mutant.) A constructor that gives up cleans up with a delete by id.
TimeOutCleansUp(l) ==
    /\ pc[l] \in {"starting", "waiting"} /\ left[l] = Passed
    /\ Forget({l})
    /\ doc' = NoDoc
    /\ UNCHANGED held

\* The loop ends: DistributedLockTimeoutException.
TimeOut(l) ==
    /\ pc[l] \in {"starting", "waiting"} /\ left[l] = Passed
    /\ Forget({l})
    /\ UNCHANGED <<doc, held>>

\* SaveChanges throws anything else: RavenDistributedLockException.  The server
\* may have created the document all the same.
FailAcquire(l) ==
    /\ pc[l] = "saving"
    /\ \/ doc' = doc
       \/ CanCreate /\ doc' = [owner |-> NoLock, ttl |-> lease[l]]
    /\ Forget({l})
    /\ UNCHANGED held

-----------------------------------------------------------------------------
(* Dispose and Release.                                                    *)

\* Who may dispose the object: any thread of its process that is free to, or
\* with Scoped the thread of a using block, the innermost one first.
MayDispose(t, l) ==
    /\ pc[l] = "live" /\ ~Busy(t)
    /\ ProcessOf[t] = ProcessOf[thread[l]]
    /\ Scoped => thread[l] = t /\ level[l] = held[t]

\* (Mutant.) Disposing an inner lock does not count back.
DisposeUncounted(t, l) ==
    /\ MayDispose(t, l) /\ held[t] # 1
    /\ Forget({l})
    /\ UNCHANGED <<doc, held>>

\* (Mutant.) Dispose counts back without asking whether the thread has a count.
DisposeUnasked(t, l) ==
    /\ MayDispose(t, l) /\ held[t] # 1
    /\ held' = [held EXCEPT ![t] = @ - 1]
    /\ IF handle[l]
       THEN /\ pc' = [pc EXCEPT ![l] = "leaked"]
            /\ UNCHANGED <<thread, level, handle, beat, lease, left>>
       ELSE Forget({l})
    /\ UNCHANGED doc

\* The count of the disposing thread is absent, or is not down to zero: Dispose
\* returns, and a document and a timer the object still has stay behind.
DisposeInner(t, l) ==
    /\ MayDispose(t, l) /\ held[t] # 1
    /\ held' = [held EXCEPT ![t] = IF @ = 0 THEN 0 ELSE @ - 1]
    /\ IF handle[l]
       THEN /\ pc' = [pc EXCEPT ![l] = "leaked"]
            /\ UNCHANGED <<thread, level, handle, beat, lease, left>>
       ELSE Forget({l})
    /\ UNCHANGED doc

\* The count is down to zero: it is removed and the timer stopped, then Release.
DisposeLast(t, l) ==
    /\ MayDispose(t, l) /\ held[t] = 1
    /\ held' = [held EXCEPT ![t] = 0]
    /\ pc' = [pc EXCEPT ![l] = "releasing"]
    /\ thread' = [thread EXCEPT ![l] = t]
    /\ beat' = [beat EXCEPT ![l] = NoTimer]
    /\ UNCHANGED <<doc, level, handle, lease, left>>

Release(l) ==
    /\ pc[l] = "releasing"
    /\ doc' = AfterDelete(l)
    /\ Forget({l})
    /\ UNCHANGED held

\* The delete throws; the server may have executed it all the same.
FailRelease(l) ==
    /\ pc[l] = "releasing" /\ handle[l]
    /\ doc' \in {Disowned({l}), AfterDelete(l)}
    /\ Forget({l})
    /\ UNCHANGED held

-----------------------------------------------------------------------------
(* The heartbeat timer.                                                    *)

\* (Mutant.) The heartbeat renews the document, of a leaked lock too.
HeartbeatRenews(l) ==
    /\ pc[l] \in {"live", "leaked"} /\ beat[l] = 0
    /\ doc' = IF handle[l] /\ doc # NoDoc THEN [doc EXCEPT !.ttl = Lifetime] ELSE doc
    /\ beat' = [beat EXCEPT ![l] = KeepAlive]
    /\ UNCHANGED <<held, pc, thread, level, handle, lease, left>>

\* SetExpiry is given the id where it takes the entity, and throws whether the
\* handle is null or not; the handler of that exception is Release.
Heartbeat(l) ==
    /\ pc[l] \in {"live", "leaked"} /\ beat[l] = 0
    /\ doc' = AfterDelete(l)
    /\ IF pc[l] = "leaked"
       THEN Forget({l})
       ELSE /\ handle' = [handle EXCEPT ![l] = FALSE]
            /\ beat' = [beat EXCEPT ![l] = KeepAlive]
            /\ lease' = [lease EXCEPT ![l] = 0]
            /\ UNCHANGED <<pc, thread, level, left>>
    /\ UNCHANGED held

\* The process p goes down with all its objects.
GoDown(p) ==
    /\ held' = [t \in Threads |-> IF ProcessOf[t] = p THEN 0 ELSE held[t]]
    /\ Forget(ObjectsOf(p))

\* Release throws inside the timer's callback, which ends the process.
FailHeartbeat(l) ==
    /\ pc[l] \in {"live", "leaked"} /\ beat[l] = 0 /\ handle[l]
    /\ LET p == ProcessOf[thread[l]]
       IN  /\ doc' \in {Disowned(ObjectsOf(p)), NoDoc}
           /\ GoDown(p)

-----------------------------------------------------------------------------
(* The environment: crashes, RavenDB's expiration, time.                   *)

Crash(p) ==
    /\ doc' = Disowned(ObjectsOf(p))
    /\ GoDown(p)

\* The database deletes a document some time after it has expired.
Expire ==
    /\ ExpirationOn
    /\ doc # NoDoc /\ doc.ttl = 0
    /\ doc' = NoDoc
    /\ UNCHANGED <<held, pc, thread, level, handle, beat, lease, left>>

Less(n) == IF n > 0 THEN n - 1 ELSE n

\* With Prompt, time does not pass the moment by which an object must be gone.
InTime(l) == handle[l] => lease[l] > 1 /\ beat[l] \notin {0, 1}

Tick ==
    /\ Prompt => \A l \in Locks : InTime(l)
    /\ doc' = IF doc = NoDoc THEN NoDoc ELSE [doc EXCEPT !.ttl = Less(@)]
    /\ beat' = [l \in Locks |-> Less(beat[l])]
    /\ lease' = [l \in Locks |-> Less(lease[l])]
    /\ left' = [l \in Locks |-> IF left[l] >= 0 THEN left[l] - 1 ELSE Passed]
    /\ UNCHANGED <<held, pc, thread, level, handle>>

-----------------------------------------------------------------------------
Next ==
    \/ \E t \in Threads, l \in Locks :
          \/ Reenter(t, l)
          \/ \E timeout \in Timeouts : Start(t, l, timeout)
          \/ DisposeInner(t, l)
          \/ DisposeLast(t, l)
    \/ \E l \in Locks :
          \/ Prepare(l) \/ Acquire(l) \/ Conflict(l) \/ TimeOut(l) \/ FailAcquire(l)
          \/ Release(l) \/ FailRelease(l)
          \/ Heartbeat(l) \/ FailHeartbeat(l)
    \/ \E t \in Threads : Crash(ProcessOf[t])
    \/ Expire
    \/ Tick

Spec == Init /\ [][Next]_vars

\* Threads that are inside a call go on, timers fire, the database runs its
\* expiration, and time passes.
Fairness ==
    /\ \A l \in Locks :
          /\ WF_vars(Prepare(l) \/ TimeOut(l))
          /\ WF_vars(Acquire(l) \/ Conflict(l))
          /\ WF_vars(Release(l))
          /\ WF_vars(Heartbeat(l))
    /\ WF_vars(Expire)
    /\ WF_vars(Tick)

FairSpec == Spec /\ Fairness

-----------------------------------------------------------------------------
(* Properties.                                                             *)

\* At most one thread is inside the lock, whatever the processes, crashes and
\* failed calls: the constructor's counter test (lines 55-64) and the optimistic
\* save (line 126) together keep everybody else out until Dispose has counted
\* back to zero.
MutualExclusion ==
    \A t, u \in Threads : held[t] > 0 /\ held[u] > 0 => t = u

\* An object that believes it has the lock document does have it: the document
\* exists, is the one this object wrote and has not reached its expiry.
HandleIsDocument(l) ==
    handle[l] /\ pc[l] \in {"live", "releasing"}
        => doc = [owner |-> l, ttl |-> lease[l]] /\ lease[l] > 0

\* Handles are where they belong: a save has one and is in time, the only other
\* objects with one are the outermost of their thread and those being released,
\* and a timer runs, not yet due, only for a constructed lock that has one.
HandleDiscipline(l) ==
    /\ handle[l] => \/ pc[l] \in {"saving", "releasing"}
                    \/ pc[l] = "live" /\ level[l] = 1
    /\ pc[l] = "saving" => handle[l] /\ lease[l] > 0
    /\ beat[l] # NoTimer => pc[l] = "live" /\ handle[l] /\ beat[l] > 0

\* A thread inside the lock has an outermost object that keeps the document.
HolderHasDocument(t) ==
    held[t] > 0 => \E l \in Locks :
        thread[l] = t /\ pc[l] = "live" /\ level[l] = 1 /\ handle[l]

\* Together: behind every held lock there is its own unexpired document.
DocumentBacksLock ==
    /\ \A l \in Locks : HandleIsDocument(l) /\ HandleDiscipline(l)
    /\ \A t \in Threads : HolderHasDocument(t)

\* A document that has not expired is deleted by the object that wrote it and
\* by nobody else, although Release (line 166) deletes by id and never looks.
NoForeignDelete ==
    [][doc # NoDoc /\ doc.ttl > 0 /\ doc' = NoDoc
         => doc.owner \in Locks /\ handle[doc.owner] /\ ~handle'[doc.owner]]_vars

\* Nesting is counted right: with using blocks, the count of a thread is the
\* number of its objects that are constructed and not disposed, whatever
\* heartbeats, expirations and failures do to the document meanwhile.
CountIsNesting ==
    \A t \in Threads :
        held[t] = Cardinality({l \in Locks : thread[l] = t /\ pc[l] = "live"})

\* A constructor returns or throws: every wait in the loop is bounded and the
\* loop looks at the deadline after each (line 108).
ConstructorReturns ==
    \A l \in Locks : pc[l] \in Constructing ~> pc[l] \notin Constructing

\* A document that nobody is going to release (its process crashed, a call
\* failed half-way, or its lock was disposed on another thread or out of order)
\* does not lock the resource for ever: it expires, or the timer that was left
\* running deletes it.
Unattended ==
    doc # NoDoc /\ (doc.owner \in Locks => pc[doc.owner] = "leaked")
UnattendedGoes == Unattended ~> ~Unattended

\* DistributedLock implements ReentrantLock.
Abstract == INSTANCE ReentrantLock WITH depth <- held
ImplementsReentrantLock == Abstract!Spec
=============================================================================

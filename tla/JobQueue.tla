------------------------------ MODULE JobQueue ------------------------------
(***************************************************************************)
(* RavenJobQueue and RavenFetchedJob: the queue that Hangfire's workers     *)
(* poll.  An entry is a RavenDB document whose id is made of the queue and  *)
(* the job id.  Dequeue scans the queues inside an optimistic session and   *)
(* stamps the entry it picks with FetchedAt; an entry stamped longer ago    *)
(* than the invisibility timeout can be picked again.  Enqueue and the      *)
(* removal of a fetched job write without looking at versions.              *)
(*                                                                          *)
(* A RavenDB session returns the copy it already tracks of a document, and  *)
(* SaveChanges sends every changed copy in one batch, which fails as a      *)
(* whole when one of them is not the current version (fresh) any more.      *)
(* FetchedAt is modelled by the time left until the entry is visible again. *)
(* NewItemInQueueEvent only ends a wait early: a wait may end at any time.   *)
(***************************************************************************)
EXTENDS Integers, Sequences

CONSTANTS
    Queues,        \* the queues argument of Dequeue, a sequence
    Entries,       \* ids of JobQueue documents: a queue and a job id each
    QueueOf,       \* the queue in each of these ids
    Workers,       \* threads that call Dequeue
    ProcessOf,     \* the process of each worker
    NoEntry,       \* a worker has picked or fetched nothing
    Invisibility,  \* InvisibilityTimeout, in ticks
    Faulty,        \* processes that crash, cancel Dequeue and whose calls fail
    Reenqueue,     \* jobs are enqueued also while they are queued or fetched
    Prompt         \* a fetched job is finished before it becomes visible again

ASSUME QueueAssumption ==
    /\ Len(Queues) > 0
    /\ QueueOf \in [Entries -> {Queues[i] : i \in 1..Len(Queues)}]
    /\ NoEntry \notin Entries
    /\ Invisibility \in Nat \ {0}
    /\ {Reenqueue, Prompt} \subseteq BOOLEAN

\* Workers have names of their own, none that Status gives an idle entry.
ASSUME NamesAssumption == {"absent", "ready", "abandoned"} \cap Workers = {}

VARIABLES
    db,     \* the document of each entry: Absent, NotFetched or the time left
    pc,     \* what each worker is doing
    cond,   \* currentQueryIndex: looking for unfetched (0) or timed out (1) entries
    at,     \* how far the foreach over the queues has come
    seen,   \* the copy of each document that the worker's session tracks
    fresh,  \* tracked copies whose change vector is still that of the document
    dirty,  \* tracked copies that the worker has changed
    job     \* the entry being saved or held as RavenFetchedJob

vars == <<db, pc, cond, at, seen, fresh, dirty, job>>

NotFetched == -1
Absent == -2
Untracked == -2

Visible == {NotFetched, 0}
Stamps == 0..Invisibility

States == {"idle", "polling", "fetching", "saving", "waiting", "working", "removing"}

TypeOK ==
    /\ db \in [Entries -> {Absent, NotFetched} \cup Stamps]
    /\ pc \in [Workers -> States]
    /\ cond \in [Workers -> {0, 1}]
    /\ at \in [Workers -> 1..Len(Queues) + 1]
    /\ seen \in [Workers -> [Entries -> {Untracked, NotFetched} \cup Stamps]]
    /\ fresh \in [Workers -> SUBSET Entries]
    /\ dirty \in [Workers -> SUBSET Entries]
    /\ job \in [Workers -> Entries \cup {NoEntry}]
    /\ \A w \in Workers :
          /\ job[w] # NoEntry <=> pc[w] \in {"saving", "working", "removing"}
          /\ pc[w] = "saving" => at[w] <= Len(Queues)

NoCopies == [e \in Entries |-> Untracked]

Init ==
    /\ db = [e \in Entries |-> Absent]
    /\ pc = [w \in Workers |-> "idle"]
    /\ cond = [w \in Workers |-> 0]
    /\ at = [w \in Workers |-> 1]
    /\ seen = [w \in Workers |-> NoCopies]
    /\ fresh = [w \in Workers |-> {}]
    /\ dirty = [w \in Workers |-> {}]
    /\ job = [w \in Workers |-> NoEntry]

-----------------------------------------------------------------------------
(* Helpers.                                                                *)

\* The worker has a RavenFetchedJob for the entry.
Claims(w, e) == job[w] = e /\ pc[w] \in {"working", "removing"}

HandedOut(e) == \E w \in Workers : Claims(w, e)

\* LockObject of the worker's process: one session scans and saves at a time.
LockTaken(w) ==
    \E v \in Workers : ProcessOf[v] = ProcessOf[w] /\ pc[v] \in {"fetching", "saving"}

\* (Mutant.) The invisibility timeout is not looked at.
MatchesAnyStamp(w, copy) == IF cond[w] = 0 THEN copy = NotFetched ELSE copy \in Stamps

\* What fetchConditions[currentQueryIndex] says of a copy.
Matches(w, copy) == copy = (IF cond[w] = 0 THEN NotFetched ELSE 0)

\* Dequeue or the fetched job of the workers W is over, and their sessions too.
Leave(W) ==
    /\ pc' = [w \in Workers |-> IF w \in W THEN "idle" ELSE pc[w]]
    /\ cond' = [w \in Workers |-> IF w \in W THEN 0 ELSE cond[w]]
    /\ at' = [w \in Workers |-> IF w \in W THEN 1 ELSE at[w]]
    /\ seen' = [w \in Workers |-> IF w \in W THEN NoCopies ELSE seen[w]]
    /\ dirty' = [w \in Workers |-> IF w \in W THEN {} ELSE dirty[w]]
    /\ job' = [w \in Workers |-> IF w \in W THEN NoEntry ELSE job[w]]

\* The documents S are written or deleted: no copy of them is current any more,
\* and the sessions of the workers W are gone.
Stale(S, W) == fresh' = [w \in Workers |-> IF w \in W THEN {} ELSE fresh[w] \ S]

\* The documents as the batch of the worker's session leaves them.
Saved(w) == [e \in Entries |-> IF e \in dirty[w] THEN seen[w][e] ELSE db[e]]

\* (Mutant.) Optimistic concurrency is forgotten.
CanAlwaysSave(w) == TRUE

\* Optimistic concurrency: the batch holds only current copies.
CanSave(w) == dirty[w] \subseteq fresh[w]

-----------------------------------------------------------------------------
(* Dequeue.                                                                *)

StartDequeue(w) ==
    /\ pc[w] = "idle"
    /\ pc' = [pc EXCEPT ![w] = "polling"]
    /\ UNCHANGED <<db, cond, at, seen, fresh, dirty, job>>

\* ThrowIfCancellationRequested, before a scan and after a wait.
Cancel(w) ==
    /\ ProcessOf[w] \in Faulty
    /\ pc[w] \in {"polling", "waiting"}
    /\ Leave({w}) /\ Stale({}, {w})
    /\ UNCHANGED db

\* A new session, once LockObject is free.
OpenSession(w) ==
    /\ pc[w] = "polling" /\ ~LockTaken(w)
    /\ pc' = [pc EXCEPT ![w] = "fetching"]
    /\ at' = [at EXCEPT ![w] = 1]
    /\ UNCHANGED <<db, cond, seen, fresh, dirty, job>>

\* (Mutant.) A query refreshes the copies the session tracks already.
LoadedAgain(w) == {e \in Entries : db[e] # Absent}

\* The query returns every document; the session tracks those it did not.
Loaded(w) == {e \in Entries : db[e] # Absent /\ seen[w][e] = Untracked}
Copies(w) == [e \in Entries |-> IF e \in Loaded(w) THEN db[e] ELSE seen[w][e]]

\* The entries of the current queue whose copies satisfy the condition.
Found(w) == {e \in Entries : /\ db[e] # Absent
                             /\ QueueOf[e] = Queues[at[w]]
                             /\ Matches(w, Copies(w)[e])}

\* The first of them, in no particular order, is stamped in the session.
Pick(w, e) ==
    /\ pc[w] = "fetching" /\ at[w] <= Len(Queues)
    /\ e \in Found(w)
    /\ job' = [job EXCEPT ![w] = e]
    /\ seen' = [seen EXCEPT ![w] = [Copies(w) EXCEPT ![e] = Invisibility]]
    /\ fresh' = [fresh EXCEPT ![w] = @ \cup Loaded(w)]
    /\ dirty' = [dirty EXCEPT ![w] = @ \cup {e}]
    /\ pc' = [pc EXCEPT ![w] = "saving"]
    /\ UNCHANGED <<db, cond, at>>

\* No entry of this queue: continue with the next one.
NextQueue(w) ==
    /\ pc[w] = "fetching" /\ at[w] <= Len(Queues)
    /\ Found(w) = {}
    /\ seen' = [seen EXCEPT ![w] = Copies(w)]
    /\ fresh' = [fresh EXCEPT ![w] = @ \cup Loaded(w)]
    /\ at' = [at EXCEPT ![w] = @ + 1]
    /\ UNCHANGED <<db, pc, cond, dirty, job>>

\* SaveChanges stamps the entry: it is returned as a fetched job.
Fetch(w) ==
    /\ pc[w] = "saving" /\ CanSave(w)
    /\ db' = Saved(w)
    /\ Stale(dirty[w], {w})
    /\ pc' = [pc EXCEPT ![w] = "working"]
    /\ cond' = [cond EXCEPT ![w] = 0]
    /\ at' = [at EXCEPT ![w] = 1]
    /\ seen' = [seen EXCEPT ![w] = NoCopies]
    /\ dirty' = [dirty EXCEPT ![w] = {}]
    /\ UNCHANGED job

\* (Mutant.) The conflict is handled by reading the current version, and the
\* changed copy stays in the session.
FetchConflictRefreshes(w) ==
    /\ pc[w] = "saving" /\ ~CanSave(w)
    /\ pc' = [pc EXCEPT ![w] = "fetching"]
    /\ at' = [at EXCEPT ![w] = @ + 1]
    /\ job' = [job EXCEPT ![w] = NoEntry]
    /\ fresh' = [fresh EXCEPT ![w] = @ \cup {job[w]}]
    /\ UNCHANGED <<db, cond, seen, dirty>>

\* (Mutant.) The job of the lost conflict is kept for the next round.
FetchConflictKeepsJob(w) ==
    /\ pc[w] = "saving" /\ ~CanSave(w)
    /\ pc' = [pc EXCEPT ![w] = "fetching"]
    /\ at' = [at EXCEPT ![w] = @ + 1]
    /\ UNCHANGED <<db, cond, seen, fresh, dirty, job>>

\* ConcurrencyException, ignored: on to the next queue with the same session,
\* in which the changed copy stays.
FetchConflict(w) ==
    /\ pc[w] = "saving" /\ ~CanSave(w)
    /\ pc' = [pc EXCEPT ![w] = "fetching"]
    /\ at' = [at EXCEPT ![w] = @ + 1]
    /\ job' = [job EXCEPT ![w] = NoEntry]
    /\ UNCHANGED <<db, cond, seen, fresh, dirty>>

\* Any other exception of the session leaves Dequeue; a save may have been
\* executed by the server all the same.
FailDequeue(w) ==
    /\ ProcessOf[w] \in Faulty
    /\ pc[w] \in {"fetching", "saving"}
    /\ \/ UNCHANGED db /\ Stale({}, {w})
       \/ pc[w] = "saving" /\ CanSave(w) /\ db' = Saved(w) /\ Stale(dirty[w], {w})
    /\ Leave({w})

\* (Mutant.) The condition for timed out entries has no turn.
EndScanSameCondition(w) ==
    /\ pc[w] = "fetching" /\ at[w] > Len(Queues)
    /\ pc' = [pc EXCEPT ![w] = "waiting"]
    /\ at' = [at EXCEPT ![w] = 1]
    /\ seen' = [seen EXCEPT ![w] = NoCopies]
    /\ fresh' = [fresh EXCEPT ![w] = {}]
    /\ dirty' = [dirty EXCEPT ![w] = {}]
    /\ UNCHANGED <<db, cond, job>>

\* Nothing found in any queue: the session ends and the other condition is next,
\* after a wait if that is the one for timed out entries.
EndScan(w) ==
    /\ pc[w] = "fetching" /\ at[w] > Len(Queues)
    /\ cond' = [cond EXCEPT ![w] = 1 - @]
    /\ pc' = [pc EXCEPT ![w] = IF cond[w] = 0 THEN "waiting" ELSE "polling"]
    /\ at' = [at EXCEPT ![w] = 1]
    /\ seen' = [seen EXCEPT ![w] = NoCopies]
    /\ fresh' = [fresh EXCEPT ![w] = {}]
    /\ dirty' = [dirty EXCEPT ![w] = {}]
    /\ UNCHANGED <<db, job>>

\* QueuePollInterval is over, or NewItemInQueueEvent was set.
EndWait(w) ==
    /\ pc[w] = "waiting"
    /\ pc' = [pc EXCEPT ![w] = "polling"]
    /\ UNCHANGED <<db, cond, at, seen, fresh, dirty, job>>

-----------------------------------------------------------------------------
(* RavenFetchedJob.                                                        *)

\* RemoveFromQueue loads the document first, and is done when there is none.
RemoveLoad(w) ==
    /\ pc[w] = "working"
    /\ IF db[job[w]] = Absent
       THEN Leave({w})
       ELSE /\ pc' = [pc EXCEPT ![w] = "removing"]
            /\ UNCHANGED <<cond, at, seen, dirty, job>>
    /\ UNCHANGED <<db, fresh>>

\* Then it deletes, in a session without optimistic concurrency.
RemoveDelete(w) ==
    /\ pc[w] = "removing"
    /\ db' = [db EXCEPT ![job[w]] = Absent]
    /\ Stale({job[w]}, {w})
    /\ Leave({w})

\* One of the two calls throws; the delete may have been executed.
FailRemove(w) ==
    /\ ProcessOf[w] \in Faulty
    /\ pc[w] \in {"working", "removing"}
    /\ \/ UNCHANGED <<db, fresh>>
       \/ /\ pc[w] = "removing"
          /\ db' = [db EXCEPT ![job[w]] = Absent]
          /\ Stale({job[w]}, {w})
    /\ Leave({w})

\* (Mutant.) Requeue saves, and does not look whether the entry is still its own.
RequeueSaves(w) ==
    /\ pc[w] = "working"
    /\ db' = [db EXCEPT ![job[w]] = IF @ = Absent THEN Absent ELSE NotFetched]
    /\ Leave({w}) /\ Stale({job[w]}, {w})

\* Requeue, which Dispose calls for a job that was not removed: the document is
\* loaded and changed in a session that is not saved.
Requeue(w) ==
    /\ pc[w] = "working"
    /\ Leave({w})
    /\ UNCHANGED <<db, fresh>>

-----------------------------------------------------------------------------
(* Clients, crashes and time.                                              *)

\* Enqueue overwrites the document with one that nobody has fetched.
Enqueue(e) ==
    /\ Reenqueue \/ (db[e] = Absent /\ ~HandedOut(e))
    /\ db' = [db EXCEPT ![e] = NotFetched]
    /\ Stale({e}, {})
    /\ UNCHANGED <<pc, cond, at, seen, dirty, job>>

Crash(p) ==
    /\ p \in Faulty
    /\ LET W == {w \in Workers : ProcessOf[w] = p}
       IN  Leave(W) /\ Stale({}, W)
    /\ UNCHANGED db

Less(n) == IF n > 0 THEN n - 1 ELSE n

\* With Prompt, time does not pass the moment by which a job must be finished.
InTime(w) ==
    /\ pc[w] = "saving" => seen[w][job[w]] # 1
    /\ pc[w] \in {"working", "removing"} => db[job[w]] # 1

Tick ==
    /\ Prompt => \A w \in Workers : InTime(w)
    /\ db' = [e \in Entries |-> Less(db[e])]
    /\ seen' = [w \in Workers |-> [e \in Entries |-> Less(seen[w][e])]]
    /\ UNCHANGED <<pc, cond, at, fresh, dirty, job>>

-----------------------------------------------------------------------------
Next ==
    \/ \E w \in Workers :
          \/ StartDequeue(w) \/ Cancel(w) \/ OpenSession(w)
          \/ \E e \in Entries : Pick(w, e)
          \/ NextQueue(w) \/ Fetch(w) \/ FetchConflict(w) \/ FailDequeue(w)
          \/ EndScan(w) \/ EndWait(w)
          \/ RemoveLoad(w) \/ RemoveDelete(w) \/ FailRemove(w) \/ Requeue(w)
    \/ \E e \in Entries : Enqueue(e)
    \/ \E p \in Faulty : Crash(p)
    \/ Tick

Spec == Init /\ [][Next]_vars

\* Workers call Dequeue again and again, calls go on, jobs end, waits end after
\* QueuePollInterval, and time passes.  Saves whose reply is lost each hide an
\* entry for a while, and cannot go on for ever.
Fairness ==
    /\ \A w \in Workers :
          /\ WF_vars(StartDequeue(w))
          /\ WF_vars(OpenSession(w))
          /\ WF_vars(NextQueue(w) \/ EndScan(w) \/ \E e \in Entries : Pick(w, e))
          /\ WF_vars(Fetch(w) \/ FetchConflict(w))
          /\ WF_vars(EndWait(w))
          /\ WF_vars(RemoveLoad(w) \/ Requeue(w))
          /\ WF_vars(RemoveDelete(w))
    /\ WF_vars(Tick)
    /\ <>[][\A w \in Workers : ~FailDequeue(w)]_vars

FairSpec == Spec /\ Fairness

-----------------------------------------------------------------------------
(* Properties.                                                             *)

\* A job is handed out only when its entry, as it is in the database at that
\* moment, is unfetched or has timed out, and handing it out changes no other
\* entry: although Dequeue reads long before it saves, ignores conflicts and
\* goes on with a session full of old and changed copies (lines 62-86).
FetchIsSound ==
    [][\A w \in Workers :
         pc[w] = "saving" /\ pc'[w] = "working" =>
            /\ db[job[w]] \in Visible
            /\ db'[job[w]] \in Stamps
            /\ \A e \in Entries \ {job[w]} : db'[e] = db[e]]_vars

\* Why it is so: the current copies in a session are the documents, a copy that
\* was changed and is still current was fetchable when it was picked, and only
\* the pick being saved makes a batch that can be saved: a session that lost a
\* conflict keeps a copy that never becomes current again.
SessionIsCurrent(w) ==
    /\ \A e \in fresh[w] \ dirty[w] : db[e] # Absent /\ seen[w][e] = db[e]
    /\ \A e \in fresh[w] \cap dirty[w] : db[e] \in Visible
    /\ \A e \in dirty[w] : seen[w][e] \in Stamps
    /\ CanSave(w) => dirty[w] = IF pc[w] = "saving" THEN {job[w]} ELSE {}
    /\ pc[w] \notin {"fetching", "saving"} =>
          fresh[w] = {} /\ dirty[w] = {} /\ seen[w] = NoCopies
CopiesAreCurrent == \A w \in Workers : SessionIsCurrent(w)

\* No job is worked on twice at a time, in one process or in several.
ClaimsAreExclusive ==
    \A v, w \in Workers, e \in Entries : Claims(v, e) /\ Claims(w, e) => v = w

\* An entry leaves the queue only after it was handed out: none that waits to be
\* fetched is deleted, whatever happens to older fetches of the same id.
NothingIsLost ==
    [][\A e \in Entries : db[e] = NotFetched => db'[e] # Absent]_vars

\* Every entry in the queue is handed out sooner or later, and one that was
\* abandoned (crash, Requeue, failed call) is handed out again, without any help
\* of NewItemInQueueEvent (lines 22-24).
EntriesAreHandedOut ==
    \A e \in Entries : db[e] # Absent ~> db[e] = Absent \/ HandedOut(e)

\* Requeue makes the entry fetchable (the test Requeue_SetsFetchedAtValueToNull).
RequeueMakesVisible ==
    [][\A w \in Workers : Requeue(w) => db'[job[w]] = NotFetched]_vars

\* JobQueue implements WorkQueue.
StatusOf(e) ==
    IF db[e] = Absent THEN "absent"
    ELSE IF HandedOut(e) THEN CHOOSE w \in Workers : Claims(w, e)
    ELSE IF db[e] = NotFetched THEN "ready" ELSE "abandoned"
Status == [e \in Entries |-> StatusOf(e)]
Abstract == INSTANCE WorkQueue WITH status <- Status
ImplementsWorkQueue == Abstract!Spec

\* Without any discipline, JobQueue implements DeliveryQueue: an entry is handed out
\* only while it is visible, whatever copies, lost conflicts, lost replies, crashes
\* and re-enqueues do; only its removal deletes it; and only time brings it back.
Visibility == [e \in Entries |->
    IF db[e] = Absent THEN "absent" ELSE IF db[e] \in Visible THEN "visible" ELSE "hidden"]
Claim == [w \in Workers |-> IF pc[w] \in {"working", "removing"} THEN job[w] ELSE NoEntry]
Delivery == INSTANCE DeliveryQueue WITH entry <- Visibility, claim <- Claim
ImplementsDeliveryQueue == Delivery!Spec
=============================================================================

# Verification of Hangfire.Raven

Hangfire.Raven stores the jobs, queues, locks and statistics of
[Hangfire](https://www.hangfire.io) in RavenDB. This directory holds TLA+ models
of the library (`src/Hangfire.Raven`), configurations that check them with TLC,
and proofs checked by TLAPS. Paths below are relative to `src/Hangfire.Raven`.

The library has no state of its own beyond a few objects in memory; what matters
is in the database. Every call opens a RavenDB session, loads documents into
it, changes the copies and saves the changed ones in one batch. Between the two
requests anybody else may write. Some sessions use optimistic concurrency (a save
fails if a changed document is no longer the version that was loaded), most do
not. Nearly every property below is about what happens between two such requests.

## The system

| Part | State | Operations | Hard about it | What makes it correct |
|---|---|---|---|---|
| Distributed lock (`DistributedLocks/RavenDistributedLock.cs`) | one document per resource with an expiry; a count per thread (`AcquiredLocks`); per object a handle on the document and a timer | constructor, `Dispose`, heartbeat timer | expiry under the holder, delete by id, nesting over threads, lost replies, crashes | mutual exclusion; no foreign delete; the count is the nesting; constructors end; abandoned documents go away |
| Job queue (`JobQueues/RavenJobQueue.cs`, `Entities/RavenFetchedJob.cs`) | one document per queue and job with `FetchedAt`; a session per scan | `Dequeue`, `Enqueue`, `RemoveFromQueue`, `Requeue`, `Dispose` | stale copies over several queues, ignored conflicts, invisibility timeout, crashes, re-enqueue | a fetch is of a visible entry; no double work; nothing lost; everything handed out |
| Write transaction (`RavenWriteOnlyTransaction.cs`) | a session with copies, patch requests and deletes | 30 changes of jobs, sets, hashes, lists and counters, `Commit` | many changes to one copy before a late save; counters created or patched | a commit makes its changes to the data as they are then |
| Connection, writers (`RavenConnection.cs` 66-92, 140-187, 225-252) | none | `CreateExpiredJob`, `SetJobParameter`, `GetJobParameter`, `SetRangeInHash` | whole documents saved without a version check | merging; no lost states |
| Connection, servers (`RavenConnection.cs` 266-363) | one document per server with heartbeat and data | `AnnounceServer`, `Heartbeat`, `RemoveServer`, `RemoveTimedOutServers` | query and delete apart, a query of an index that is late, heartbeat racing removal | running servers are listed; dead ones are not |
| Connection, readers; monitoring API | none | queries | two queries are not one snapshot; time zones | agreement with the documents |
| Repository and set-up (`Repository.cs`) | the database, its expiration setting | `Create`, `Destroy` | a crash between two requests | expiration is on |
| Providers, options, state handlers | filled at start-up | – | – | – |

How they interact: Hangfire's workers call `FetchNextJob`, which calls `Dequeue`,
run the job, change its state through a write transaction, and call
`RemoveFromQueue` or `Dispose`. Clients create the job with the connection, and put
it into the queue with the `AddToQueue` of a transaction (which enqueues at once, not
at the commit). Recurring and continued jobs take the distributed lock around
such transactions. Every server announces itself, sends heartbeats, and runs a
watchdog that removes others. RavenDB deletes expired documents in the background,
which is how locks of crashed processes and old jobs go away.

## Modules

| Module | Models |
|---|---|
| `ReentrantLock` | abstract: a lock that one thread at a time can hold, nested |
| `DistributedLock` | `RavenDistributedLock` on one resource; implements `ReentrantLock` |
| `WorkQueue` | abstract: entries that one worker at a time takes, finishes or abandons |
| `DeliveryQueue` | abstract: what is left of that promise when callers keep no discipline |
| `JobQueue` | `RavenJobQueue` and `RavenFetchedJob`; implements `DeliveryQueue` always, `WorkQueue` for disciplined callers |
| `WriteTransaction` | `RavenWriteOnlyTransaction` and the writing calls of the connection |
| `ServerRegistry` | the server calls of the connection |
| `BackgroundJob` | abstract: what becomes of a job, as its owner may rely on it |
| `JobLifecycle` | clients and workers that create, enqueue, process and delete jobs: job documents, transactions and the job's lock, composed with `DeliveryQueue`; implements `BackgroundJob` |
| `MC...` | constants and symmetry of the instances for TLC |
| `...Proofs` | theorems and proofs about the module of that name |
| `WriteTransactionLemmas` | what the operators of `WriteTransaction` compute: replays, lists, types |
| `CompositionProofs` | that `JobLifecycle` uses its queue and its locks as `DeliveryQueue` and `ReentrantLock` specify them |

Conventions. `Absent`, `NoDoc` and the like stand for a missing document. A save that
succeeds but whose reply is lost is a success followed by a crash, or a disjunct of
the `Fail...` action of that call. Operators marked `(Mutant.)` are plausible mistakes: put in
the place of the definition that follows them, they break a property, which shows that
the property depends on that line. Time is kept as countdowns (or ages) moved by one
action `Tick`, so behaviours are unbounded and state spaces finite.

### DistributedLock

An object goes through `starting`, `saving`, `waiting` (the loop of `Acquire`, lines
108-143), `live`, `releasing`; `dead` names are reused, and `leaked` objects were
disposed but keep a document and a timer (lines 83-86 return before either is
looked at). `held` is `AcquiredLocks.Value[_resource]` of each thread, `handle`
whether `_distributedLock` is set, `beat` and `lease` the time until the timer fires and
until the expiry the object wrote. `Heartbeat` is what the callback does: it hands
the id to `SetExpiry`, where only the overload for an entity matches, which throws
for an object the session does not track; the handler calls `Release`. A
`Release` that fails there ends the process (`FailHeartbeat`).

Two constants describe callers. `Scoped`: objects are disposed by their own
thread, innermost first, as `using` does. `Prompt`: a lock is released before its
lifetime and the first heartbeat are over.

### JobQueue

A worker goes through `polling` (before the lock of its process), `fetching` (the
loop over the queues, `at` queues done), `saving` (an entry is stamped in the session),
`working`, `removing`, or `waiting`. `seen`, `fresh` and `dirty` are its session: tracked copies,
those still current, those changed. The fetch condition is a compiled delegate, so the
query returns all entries and the condition is evaluated on the copies in memory,
which for tracked documents are the old ones (`Copies`). After a conflict the scan goes
on in the same session with the changed copy still in it (`FetchConflict`).
`RemoveFromQueue` is two steps, `RemoveLoad` and the unchecked `RemoveDelete`. `Requeue` changes
nothing, since it does not save.

`Reenqueue` allows a job to be enqueued while its entry exists or a worker has it; `Prompt`
says that jobs end before their entry is visible again; `Faulty` processes crash,
cancel and have failing calls.

### WriteTransaction

A session has, for each document, the copy as loaded (`base`) and as changed (`copy`),
whether anybody has written it since (`fresh`), what it will delete (`gone`) and patch
(`patches`). `Change` is any call of the transaction that works on a copy; `Apply`
dispatches to one operator per kind of call. `Commit` is the batch: deletes, changed copies,
then patches, under `CanSave`. `Discard` is everything that saves nothing. Calls of the
connection are sessions of one change and without `CanSave`. `TxnOps`, `CallOps` and
`RemoveOps` are the changes an instance makes, subsets of all there are. `DocsOf` is what the
database holds, within the bound `MaxLength`, and `CopiesOf` what a session can make of it before a
commit, without it. `Without` (the `RemoveAll` of line 244) and `ReplayOf` are recursive functions,
not folds of the library, as the proofs have to look into them.

What RavenDB's client does is modelled from how the library and its tests rely on it:
`Load` returns a tracked copy; only changed copies are sent; a delete by entity is checked
when the entity was loaded and unchecked when it was only stored; a delete by id of a
changed copy throws; patches come after puts (the test
`IncrementCounter_WithExistingKey_IncrementsValue` relies on it).

### ServerRegistry

A server goes through `new`, `starting` (inside `AnnounceServer`), `running`, `stopped`. `call`
is what `AnnounceServer` or `Heartbeat` will save, `expired` what the watchdog of a server has
found and will delete. The watchdog's query (`RavenConnection.cs` lines 350-354) computes a new
cut-off and compares it with what an index has of each server. `index` is that, as the age of
the `LastHeartbeat` in it; the external action `Index` brings the entry of one server up to
date some time after a write or delete, and the query, unlike the one in `Dequeue`, does not
wait for it. So `TimedOut` looks at `index`, never at the age in `db`, and asks only that there
still is a document to return: a server that has just renewed its heartbeat can be found, and
the delete does not check. A server in `Steady` has heartbeats at most `Interval` apart, an
index at most `MaxLag` late (`lag` measures it, and `Tick` waits for it), and an id that is
announced once (Hangfire makes a new id for every start); the others are as late as they like,
in both ways, and come back under their id. A heartbeat in flight may be saved after
`RemoveServer`.

### DeliveryQueue and JobLifecycle

`DeliveryQueue` is the queue as its callers see it: entries are absent, visible or
hidden, workers have claims, and a removal deletes whatever the queue holds for the entry by
then, which may be an entry that somebody has put again meanwhile. `JobQueue` implements it
under any use. `JobLifecycle` INSTANCEs it and uses its actions `Put`, `Take`, `Misplace`,
`Reappear`, `Remove` and `Drop` as the queue.

`JobLifecycle` is the composition. A client creates a job with `CreateExpiredJob` (no state, and
with an expiry), then enqueues it in a transaction: `SetJobState` takes a copy, `AddToQueue` puts the
entry at once, `PersistJob` (`Changed`) removes the expiry in the copy, `Commit` saves the copy under optimistic
concurrency. A worker fetches an entry, takes the job's lock, reads the job with `GetJobData`
(which answers null for a missing job and a null state for one whose first state is not
committed, lines 103 and 120), sets it to processing in a transaction, performs it, sets the outcome
in the same way, and removes the entry. Other clients enqueue jobs again or delete them, under the job's lock. A
thread's stage is `pc`; `copy` and `fresh` are its transaction, as in `WriteTransaction`, for the
one document at stake. What Hangfire.Core decides (`Expected`, `Accepts`, `GiveUp`, `Perform`,
`TryAgain`) is external: it is modelled from what the calls of the library are for, and leaves every
outcome open that it can.

Two constants describe the callers. `Careful`: no job is enqueued again while a worker that is
through with it has still to remove its entry. Without it that worker deletes the new entry,
and the job stays enqueued with nobody to find it. `Patient`: a worker that finds a job
without a state waits as long as the creating client takes to commit. Without it the worker
removes the entry, and the commit comes later, to the same effect. Both are violations of
`UnfinishedIsQueued`; `ImplementsBackgroundJob` needs neither.

## What is checked

Each passing run explores its instance completely.

| Run | Shows |
|---|---|
| `lock_prompt` | with `Scoped` and `Prompt`, three threads in two processes, crashes and failing calls: mutual exclusion, the document behind every held lock, the count of a thread equal to its nesting, no delete of another's document, and that the lock implements `ReentrantLock` |
| `lock_progress` | locks disposed by anybody in any order: constructors end, a document nobody will release goes away |
| `queue_prompt` | two queues, two processes: no double work, and the queue implements `WorkQueue` |
| `queue_sound` | no discipline at all: every fetch is of an entry visible then, and changes no other; the queue implements `DeliveryQueue` |
| `queue_progress` | jobs of any length, no re-enqueue: every entry is handed out, abandoned ones again, and none is deleted that was not handed out |
| `tx_isolation` | two transactions and a call of the connection: copies are the replay of the changes asked for, a commit makes its changes to the data as they are at the commit, whatever else wrote in between, and no document of its batch was written by anybody since it was loaded |
| `servers` | a running server is listed with its data, whatever a late one does, if the timeout allows for the time between its heartbeats and the delay of the index together; a running server is always listed again, and a stopped or crashed one is forgotten, with any delay of heartbeats and index |
| `lifecycle` | a job created, enqueued again, deleted and processed by two clients and two workers, with crashes, failed and lost calls, conflicts and expiry: an unfinished job always has its entry; every unfinished job gets an outcome or is deleted; the queue drains, also of what failed transactions have put; and job documents implement `BackgroundJob` |

Runs that end in a counterexample show where the code does not do what a test of it
says:

| Run | Finding |
|---|---|
| `lock_heartbeat` | the first heartbeat deletes the document of a held lock |
| `queue_requeue` | `Requeue` does not save |
| `tx_removal` | removing a value from a missing set can delete the set another transaction has just created |
| `tx_states` | `SetJobParameter` overwrites a state set in between |

The models contain further behaviours that a reader of the code may not expect. They
are why the properties have the preconditions they have:

- The default lifetime of a lock (30 s) is over before its first heartbeat (60 s), so that
  a lock held longer is lost even without `lock_heartbeat`. Hence `Prompt`.
- A constructor with timeout zero may give up without an attempt (`TimeOut` of an
  object in `starting`).
- A job enqueued again while a worker has it is deleted by that worker's `RemoveFromQueue`,
  which goes by the id. Hence `Reenqueue = FALSE` for `NothingIsLost`; `queue_sound` holds
  without.
- Of two overlapping `SetRangeInHash` calls of connections the later save drops the fields of
  the earlier. `CommitApplies` is about transactions only.
- A watchdog removes a server whose heartbeat was saved after its query, or was saved before it
  and is not in the index yet, however young that heartbeat is. The next heartbeat makes a
  record without `Data`, on which `AnnounceServer` for that id (`FailAnnounce`) and the list of
  servers of the monitoring API fail. Hence `Steady` and `TimeOutAssumption` (with a
  steady server, `Interval + MaxLag <= TimeOut`).

### Bounds

- Locks: two or three threads, two to four object names, `MaxDepth` 2. Two threads of one process
  and one of another cover every relation between threads; an inner and an outer lock
  cover nesting. `Lifetime`, `KeepAlive` and `Timeouts` are one to four ticks,
  which is enough for each order in which they can be over: the lifetime first
  (`lock_prompt`), the heartbeat first (`lock_heartbeat`, `lock_progress`).
- Queue: one or two queues with an entry each, two or three workers; the timeout is one or two
  ticks. Two queues are needed for the old copies and the lost conflict in one session;
  three workers, two in one process, for fetch, timeout, second fetch and late removal.
- Transactions: one document of a type, two transactions of `MaxOps` = 2 changes each, histories,
  lists and counters up to `MaxLength` = 2. A conflict needs one
  document and two writers; two changes give every combination of create, change, delete and create
  again in one session. Longer data is cut at `Commit` (`Bounded`). `OneKind` keeps documents of one
  kind in a behaviour (hashes and counters are one kind, so that a transaction writes two documents);
  `MCTxnOps` keeps every kind of change and gives some of them one argument only.
- Servers: two, one steady and one not, each of which can be the watchdog or the victim, and a
  timeout of two ticks, so that a heartbeat can be younger than, as old as and older than the
  timeout; ages saturate just beyond it, which loses nothing. `Interval` and `MaxLag` are one
  tick each: together they reach the timeout exactly, so that an old heartbeat in the index of
  the steady server gets as old as it may. The index of the other server is late by any amount.
- Lifecycle: one job, as nothing but a thread being busy with another job connects two; two
  workers for an entry handed out twice; two clients for a transaction that loses to
  another, or that overtakes a creation. States and stages are finite, so no other bound is needed.

Names that are interchangeable (lock objects, transactions) are declared symmetric in
runs without liveness properties only.

### Fairness

- Threads go on inside a call, timers fire, RavenDB runs its expiration (every 60 seconds,
  `Repository.cs` line 91), and time passes: weak fairness of each. No fairness for acquiring over others, for
  starting or disposing locks, or for failures.
- Workers call `Dequeue` again and again and fetched jobs end. `queue_progress` excludes
  an infinite number of failing `Dequeue` calls (crashes in the middle of one included), as each of them can hide an entry for a
  whole timeout.
- RavenDB goes on indexing (weak fairness). Hangfire repeats heartbeat and watchdog while a
  server runs, so that of the saves of heartbeats and of the deletes of watchdogs, each tried
  for ever, some succeed: strong fairness of the two, as a call in flight can be overtaken and
  tried again; starts, stops and crashes are free.
- In `lifecycle` threads go on, workers fetch what is visible, hidden entries become visible
  again (`JobQueue` shows that; an invisibility timeout ends by itself) and RavenDB expires what
  it should: weak fairness of each. Failures, lost replies and the changes that clients ask for
  come to an end, without which no job need ever be finished.

## What is proved

For all values of the constants that meet the named assumptions (which TLC evaluates in
every run):

- `DistributedLockProofs`. `TypeCorrect`. `LockExcludes`, `LockIsBacked`, `LockDeletesItsOwn` and
  `LockImplements` assume `Scoped` and `Prompt`. Mutual
  exclusion is not inductive: it needs that a thread inside the lock has an outermost object
  with a handle, and that a handle means the document is this object's and
  has not expired, which in turn needs that no timer is due. That is
  `DocumentBacksLock`; `LockInv` is `TypeOK /\ DocumentBacksLock`. From it follow
  `LockIsBacked`, `LockExcludes` (two holders would own the same document), `LockDeletesItsOwn`,
  and `LockImplements` (every step is a step of `ReentrantLock` or leaves the counts alone).
  `NestingIsCounted` (`CountIsNesting`) assumes `Scoped` only. Its invariant `NestingInv` adds
  that a thread constructs one lock at a time through the database, and only while it holds
  none, and that only outermost locks have a handle; each step then adds or removes
  one element of the finite set of live locks as it adds to or takes from the count.
- `JobQueueProofs`. `TypeCorrect`. `SessionsAreCurrent`: an unchanged current copy is the
  document, and a batch that can be saved holds exactly the entry being picked, because a lost
  conflict leaves a changed copy that never becomes current again. `FetchesAreSound` follows without any assumption on
  callers. `NothingGetsLost` (no `Reenqueue`) rests on claims being stamped: an entry
  somebody has is absent or carries a stamp. `NoDoubleWork` (with `Prompt`) adds that the stamp of a claimed entry
  has time left. `QueueImplements` (same assumptions) reads the status of an entry off its one claim
  and compares steps by what they do to it. `QueueDelivers` assumes nothing of callers: the
  soundness of saves (`SessionInv`) is all that `DeliveryQueue` needs.
- `WriteTransactionProofs`, which rests on `WriteTransactionLemmas`. The invariant has three parts, each inductive relative
  to those before it. `CopiesInv`: what a session takes for current is the document as it is now, because every
  write of a document makes the other copies old, and a patch that adds up to nothing changes nothing.
  `TransactionsAreCurrent` needs no more. `TypesInv`: copies have the unbounded types `CopiesOf`,
  jobs and counters are never deleted by a session, and a patch is at most as large as the number of changes. It gives
  `TypesHold`; its use is that no change makes a copy look like no copy or no document, on which every case distinction of
  the session rests. `ReplaysInv` says for each document what the changes asked for so far make of it. The property
  `CopiesAreReplays` alone is not inductive and says too little at a commit: it leaves out counters, whose changes are split between the
  copy that creates one and the patch (`Counted`), documents not loaded, which no change was asked of, and documents to
  be deleted, which the changes delete whatever they are by then, or as they were loaded (`Replayed`). With it each change is
  one more application of `Apply` (`ReplayAppend`), and `CopiesReplay` follows. `CommitsApply` puts the parts
  together: documents written are current, by optimistic concurrency and `CopiesInv`, so that the replay on the loaded document
  is the replay on the present one; counters need no current copy, as addition commutes with what others add.
  What a replay or `Without` computes for sequences of any length is an induction over their positions. The induction theorems of the
  library take a predicate, which the provers cannot instantiate; `NatBySet` is the same principle for a set of naturals,
  derived from well-founded minima (`LeastNat`).
- `ServerRegistryProofs`. `TypeCorrect`, and `RunningStaysListed` under `TimeOutAssumption`.
  The property is not inductive; `ListInv` adds that the record of a steady server is at most
  `Interval` old while it runs (`StaysYoung`), that what the index has of it is at most `lag`
  older than that (`IndexIsYoung`), so that no watchdog finds it, and that what watchdogs have
  found and not yet deleted has stopped (`ExpiredAreStopped`), which survives the time between
  query and delete.
- `JobLifecycleProofs`. `TypeCorrect`, and `JobsAreBackgroundJobs` without assumptions on callers. It needs
  `LockInv`: whoever reads and changes a job, but for a client that has just created it, has its lock, and
  the lock has nobody else; and `DataInv`: while the lock is held the state stays one that the change may
  start from, the job of a creating client stays without a state, and only final states
  and jobs without one expire. Optimistic concurrency (`fresh`) covers what happens without the lock, which
  is expiry. `UnfinishedJobsAreQueued` assumes `Careful` and `Patient`. The property alone is not
  inductive; `QueueInv` adds that a worker that has found its job not enqueued, or has changed that, may
  rely on it staying so (`Past`, `Rid`), that one whose next step with its entry is to remove it
  has a finished job (`Doomed`), and that a client that is about to commit, and may succeed, has its entry in the
  queue already (`Succeeding`).

- `CompositionProofs`. `UsesDeliveryQueue` and `UsesReentrantLock` need no assumption on callers. Together with
  `QueueDelivers` (and `LockImplements`, for locks under its assumptions) they are the two halves of replacing the queue and the lock in
  `JobLifecycle` by their specifications: the parts implement the specification, and the composition asks for nothing else.

The assumptions on constants are those the code gives. `KindsAssumption` says that an id names its type
(`Repository.GetId`, line 99: ids begin with the name of the type; sets and hashes, which behave alike here, may be given the
same names), and that the values that stand for no document and no copy are no documents. `Scoped`, `Prompt`,
`Reenqueue`, `Careful` and `Patient` describe callers and are stated as assumptions of the theorems that need them.

Every safety property that a passing run checks is also a theorem. Only model-checked, as temporal proofs with fairness
and `ENABLED` are outside the prover, is liveness: `ConstructorReturns`, `UnattendedGoes`,
`EntriesAreHandedOut`, `RunningComesBack`, `StoppedIsForgotten`, `JobsEnd` and `QueueDrains`.

## What is assumed

Processes and the database share one clock. `NewItemInQueueEvent` and the wait handle of the
lock only shorten waits that end by themselves. A batch is atomic. Queries of `Dequeue` wait
for their index (line 67); the query of a watchdog does not, and `ServerRegistry` has the index
as state. RavenDB indexes the writes of one document in their order and returns documents as
they are when it answers a query, and none for one that has been deleted.

## What is not modelled

- Readers other than `GetJobData`, and the monitoring API. They change no state, and no modelled
  caller acts on their answers. The two counts of a queue (`RavenJobQueueMonitoringApi.cs` line 57)
  come from two queries and need not agree with any one moment.
- `Repository.Create` and `Destroy`, `RavenStorage` and its extensions: they run once, before
  anything else. A process that stops between the two requests of `Create` leaves a database
  without expiration for good; that is `ExpirationOn = FALSE` in `DistributedLock`, where an abandoned
  lock then stays.
- Queue providers are a dictionary, constant after start-up. State handlers make one or two calls
  of a transaction each, which `WriteTransaction` has, and are not registered. Options only validate.
- Serialized content, scores, the values of hash fields and time zones matter to no property.
- Samples and the JavaScript libraries vendored in them are not part of the library.

## Possible extensions

1. The pure reads (lowest score in a range, ranges of sets and lists, paging, TTLs with time zones) as
   functions against reference definitions over bounded inputs.
2. `Repository.Create` and `Destroy` by several processes with crashes between the requests.
3. Two transactions on several job documents in `JobLifecycle`, with sets of scheduled jobs, for
   recurring and continued jobs.

---------------------------- MODULE ServerRegistry ----------------------------
(***************************************************************************)
(* The calls of RavenConnection that keep the list of running servers:      *)
(* AnnounceServer, Heartbeat, RemoveServer and RemoveTimedOutServers, and   *)
(* the order in which a Hangfire server makes them (external).  Each call   *)
(* but RemoveServer reads in one request and writes in another, and no      *)
(* write looks at versions.  RemoveTimedOutServers does not read documents  *)
(* but an index of them, which RavenDB brings up to date afterwards: the    *)
(* query does not wait for it.  LastHeartbeat is modelled by its age.       *)
(***************************************************************************)
EXTENDS Integers

CONSTANTS
    Servers,     \* server ids; each server also runs a watchdog
    TimeOut,     \* the timeOut argument of RemoveTimedOutServers, in ticks
    Steady,      \* servers with ids used once and prompt heartbeats and index
    Interval,    \* bound on the time between two heartbeats of a steady server
    MaxLag,      \* bound on the delay of the index for a steady server
    Absent,      \* there is no document
    Idle         \* no call of AnnounceServer or Heartbeat is being made

ASSUME ServerAssumption ==
    /\ TimeOut \in Nat
    /\ {Interval, MaxLag} \subseteq Nat \ {0}
    /\ Steady \subseteq Servers

\* A server is steady only if the timeout allows for a heartbeat that was late and is
\* not in the index yet.
ASSUME TimeOutAssumption == Steady # {} => Interval + MaxLag <= TimeOut

\* Ages beyond TimeOut + 1 are not told apart.
Ages == 0..TimeOut + 1
Docs == [age : Ages, data : BOOLEAN]

ASSUME ValueAssumption == Absent \notin Docs \cup Ages /\ Idle \notin Docs

VARIABLES
    db,     \* the RavenServer document of each server
    index,  \* the age of the LastHeartbeat that the index has of each server
    lag,    \* how long ago the entry of a steady server was brought up to date
    stage,  \* how far the process of each server is
    call,   \* its AnnounceServer or Heartbeat between Load and SaveChanges
    expired \* what its RemoveTimedOutServers has found and not yet deleted

vars == <<db, index, lag, stage, call, expired>>

Stages == {"new", "starting", "running", "stopped"}

TypeOK ==
    /\ db \in [Servers -> Docs \cup {Absent}]
    /\ index \in [Servers -> Ages \cup {Absent}]
    /\ lag \in [Steady -> 0..MaxLag]
    /\ stage \in [Servers -> Stages]
    /\ call \in [Servers -> Docs \cup {Idle}]
    /\ expired \in [Servers -> SUBSET Servers]
    /\ \A s \in Servers :
          /\ stage[s] = "starting" => call[s] # Idle
          /\ stage[s] = "new" => db[s] = Absent /\ index[s] = Absent /\ call[s] = Idle

Init ==
    /\ db = [s \in Servers |-> Absent]
    /\ index = [s \in Servers |-> Absent]
    /\ lag = [s \in Steady |-> 0]
    /\ stage = [s \in Servers |-> "new"]
    /\ call = [s \in Servers |-> Idle]
    /\ expired = [s \in Servers |-> {}]

-----------------------------------------------------------------------------
(* A server.                                                               *)

MayStart(s) == stage[s] = "new" \/ (s \notin Steady /\ stage[s] = "stopped")

\* AnnounceServer loads the document or makes a new one; `data` says whether the
\* copy has a Data object.
BeginAnnounce(s) ==
    /\ MayStart(s) /\ call[s] = Idle
    /\ stage' = [stage EXCEPT ![s] = "starting"]
    /\ call' = [call EXCEPT ![s] =
                   [age |-> 0, data |-> db[s] = Absent \/ db[s].data]]
    /\ UNCHANGED <<db, index, lag, expired>>

\* It fills Data in and saves.
SaveAnnounce(s) ==
    /\ stage[s] = "starting" /\ call[s].data
    /\ db' = [db EXCEPT ![s] = call[s]]
    /\ stage' = [stage EXCEPT ![s] = "running"]
    /\ call' = [call EXCEPT ![s] = Idle]
    /\ UNCHANGED <<index, lag, expired>>

\* (Mutant.) The exception is swallowed.
FailAnnounceSilently(s) ==
    /\ stage[s] = "starting"
    /\ call' = [call EXCEPT ![s] = Idle]
    /\ UNCHANGED <<db, index, lag, stage, expired>>

\* The call ends with an exception and without a write, as it always does on a copy
\* without Data.  The server does not start.
FailAnnounce(s) ==
    /\ stage[s] = "starting"
    /\ stage' = [stage EXCEPT ![s] = "stopped"]
    /\ call' = [call EXCEPT ![s] = Idle]
    /\ UNCHANGED <<db, index, lag, expired>>

\* (Mutant.) Heartbeat gives up when it finds no document.
BeginHeartbeatIfListed(s) ==
    /\ stage[s] = "running" /\ call[s] = Idle /\ db[s] # Absent
    /\ call' = [call EXCEPT ![s] = [age |-> 0, data |-> db[s].data]]
    /\ UNCHANGED <<db, index, lag, stage, expired>>

\* Heartbeat loads the document or makes a new one, which has no Data.
BeginHeartbeat(s) ==
    /\ stage[s] = "running" /\ call[s] = Idle
    /\ call' = [call EXCEPT ![s] =
                   [age |-> 0, data |-> db[s] # Absent /\ db[s].data]]
    /\ UNCHANGED <<db, index, lag, stage, expired>>

\* It saves the whole document, also when the server has been told to stop.
SaveHeartbeat(s) ==
    /\ stage[s] \in {"running", "stopped"} /\ call[s] # Idle
    /\ db' = [db EXCEPT ![s] = call[s]]
    /\ call' = [call EXCEPT ![s] = Idle]
    /\ UNCHANGED <<index, lag, stage, expired>>

\* Nothing is saved; the server goes on and tries again.
FailHeartbeat(s) ==
    /\ stage[s] \in {"running", "stopped"} /\ call[s] # Idle
    /\ call' = [call EXCEPT ![s] = Idle]
    /\ UNCHANGED <<db, index, lag, stage, expired>>

\* The server stops, and RemoveServer deletes the document by id.
RemoveServer(s) ==
    /\ stage[s] = "running"
    /\ stage' = [stage EXCEPT ![s] = "stopped"]
    /\ db' = [db EXCEPT ![s] = Absent]
    /\ UNCHANGED <<index, lag, call, expired>>

\* A crash; a RemoveServer that fails leaves the same behind.
Crash(s) ==
    /\ stage[s] \in {"starting", "running"}
    /\ stage' = [stage EXCEPT ![s] = "stopped"]
    /\ call' = [call EXCEPT ![s] = Idle]
    /\ expired' = [expired EXCEPT ![s] = {}]
    /\ UNCHANGED <<db, index, lag>>

-----------------------------------------------------------------------------
(* The watchdog of server s.                                               *)

\* (Mutant.) Compares with <= the cut-off.
TimedOutEarly(t) == db[t] # Absent /\ index[t] # Absent /\ index[t] >= TimeOut

\* (Mutant.) The query asks for servers that have been announced.
TimedOutWithData(t) ==
    db[t] # Absent /\ db[t].data /\ index[t] # Absent /\ index[t] > TimeOut

\* The index has a LastHeartbeat before the cut-off, which is computed anew for every
\* query, and there is a document to return, however young its own LastHeartbeat is.
TimedOut(t) == db[t] # Absent /\ index[t] # Absent /\ index[t] > TimeOut

\* RemoveTimedOutServers queries; without results it does nothing.
QueryTimedOut(s) ==
    /\ stage[s] = "running" /\ expired[s] = {}
    /\ \E t \in Servers : TimedOut(t)
    /\ expired' = [expired EXCEPT ![s] = {t \in Servers : TimedOut(t)}]
    /\ UNCHANGED <<db, index, lag, stage, call>>

\* It deletes what it has found, in one batch.
RemoveTimedOutServers(s) ==
    /\ expired[s] # {}
    /\ db' = [t \in Servers |-> IF t \in expired[s] THEN Absent ELSE db[t]]
    /\ expired' = [expired EXCEPT ![s] = {}]
    /\ UNCHANGED <<index, lag, stage, call>>

FailRemoveTimedOut(s) ==
    /\ expired[s] # {}
    /\ expired' = [expired EXCEPT ![s] = {}]
    /\ UNCHANGED <<db, index, lag, stage, call>>

-----------------------------------------------------------------------------
(* The index of RavenDB, and time.                                         *)

\* RavenDB indexes what has been written for server s, or that it was deleted.
Index(s) ==
    /\ index' = [index EXCEPT ![s] = IF db[s] = Absent THEN Absent ELSE db[s].age]
    /\ lag' = [t \in Steady |-> IF t = s THEN 0 ELSE lag[t]]
    /\ UNCHANGED <<db, stage, call, expired>>

\* One tick older, and at most `bound`.
Aged(n, bound) == IF n < bound THEN n + 1 ELSE n
Older(doc) == [doc EXCEPT !.age = Aged(@, TimeOut + 1)]

\* Time passes.  No steady server that runs lets its last heartbeat, or the call
\* that it is making, get older than Interval, nor its index later than MaxLag.
Tick ==
    /\ \A s \in Steady :
          /\ stage[s] # "stopped" /\ call[s] # Idle => call[s].age < Interval
          /\ stage[s] = "running" => /\ db[s] # Absent => db[s].age < Interval
                                     /\ lag[s] < MaxLag
    /\ db' = [s \in Servers |-> IF db[s] = Absent THEN Absent ELSE Older(db[s])]
    /\ index' = [s \in Servers |->
                    IF index[s] = Absent THEN Absent ELSE Aged(index[s], TimeOut + 1)]
    /\ lag' = [s \in Steady |-> Aged(lag[s], MaxLag)]
    /\ call' = [s \in Servers |-> IF call[s] = Idle THEN Idle ELSE Older(call[s])]
    /\ UNCHANGED <<stage, expired>>

Next ==
    \/ \E s \in Servers :
          \/ BeginAnnounce(s) \/ SaveAnnounce(s) \/ FailAnnounce(s)
          \/ BeginHeartbeat(s) \/ SaveHeartbeat(s) \/ FailHeartbeat(s)
          \/ RemoveServer(s) \/ Crash(s)
          \/ QueryTimedOut(s) \/ RemoveTimedOutServers(s) \/ FailRemoveTimedOut(s)
          \/ Index(s)
    \/ Tick

Spec == Init /\ [][Next]_vars

\* Hangfire repeats heartbeat and watchdog for as long as a server runs, RavenDB goes
\* on indexing, and time passes.  A call may fail any number of times, but one that is
\* tried for ever succeeds sometime.  A server may be started and stopped, and crash,
\* any number of times, or never.
Fairness ==
    /\ \A s \in Servers :
          /\ WF_vars(SaveAnnounce(s) \/ FailAnnounce(s))
          /\ WF_vars(BeginHeartbeat(s))
          /\ SF_vars(SaveHeartbeat(s))
          /\ WF_vars(QueryTimedOut(s))
          /\ SF_vars(RemoveTimedOutServers(s))
          /\ WF_vars(Index(s))
    /\ WF_vars(Tick)

FairSpec == Spec /\ Fairness

-----------------------------------------------------------------------------
(* Properties.                                                             *)

\* A running server whose id is not used twice is in the list, with its data, as long
\* as the time between its heartbeats and the delay of the index add up to no more
\* than the timeout: no watchdog finds an old heartbeat of it, none deletes it between
\* query and delete, and no heartbeat finds its document gone and makes one without
\* Data (which Servers of the monitoring API cannot show).  Without that a server that
\* has renewed its heartbeat in time can be deleted.
RunningIsListed ==
    \A s \in Steady : stage[s] = "running" => db[s] # Absent /\ db[s].data

\* Without any promptness, a server that keeps running is in the list again and
\* again, even if heartbeats fail now and then, the index is as late as it likes and
\* watchdogs keep deleting the server for a heartbeat it has renewed long ago.
RunningComesBack ==
    \A s \in Servers : <>[](stage[s] = "running") => []<>(db[s] # Absent)

\* What a server leaves behind that has stopped or crashed, or that a heartbeat
\* wrote after RemoveServer, goes away for good while another server keeps running.
StoppedIsForgotten ==
    \A s, w \in Servers :
        <>[](stage[s] = "stopped") /\ <>[](stage[w] = "running") => <>[](db[s] = Absent)
=============================================================================

------------------------- MODULE ServerRegistryProofs -------------------------
(***************************************************************************)
(* Proofs about ServerRegistry: its types, and that a running server is     *)
(* listed with its data when the timeout allows for late heartbeats and a   *)
(* late index.                                                              *)
(***************************************************************************)
EXTENDS ServerRegistry, TLAPS

LEMMA OlderIsDoc ==
    ASSUME NEW doc \in Docs
    PROVE  /\ Older(doc) \in Docs
           /\ Older(doc).data = doc.data
           /\ Older(doc).age <= doc.age + 1
  BY ServerAssumption DEF Older, Aged, Docs, Ages

LEMMA AgedIsBounded ==
    ASSUME NEW bound \in Nat, NEW n \in 0..bound
    PROVE  Aged(n, bound) \in 0..bound /\ Aged(n, bound) <= n + 1
  BY DEF Aged

LEMMA FirstIsDoc ==
    ASSUME NEW b \in BOOLEAN
    PROVE  [age |-> 0, data |-> b] \in Docs
  BY ServerAssumption DEF Docs, Ages

\* Every call keeps records and stages well formed, whoever interferes; a server that
\* is starting is inside AnnounceServer, and nobody writes for a server never started.
THEOREM TypeCorrect == Spec => []TypeOK
<1>1. Init => TypeOK
  BY ServerAssumption DEF Init, TypeOK, Stages
<1>2. TypeOK /\ [Next]_vars => TypeOK'
  <2> SUFFICES ASSUME TypeOK, [Next]_vars PROVE TypeOK'
    OBVIOUS
  <2> USE ServerAssumption, ValueAssumption DEF TypeOK, Stages
  <2>1. ASSUME NEW s \in Servers, BeginAnnounce(s) PROVE TypeOK'
    <3>1. [age |-> 0, data |-> db[s] = Absent \/ db[s].data] \in Docs
      BY FirstIsDoc DEF Docs
    <3> QED BY <2>1, <3>1 DEF BeginAnnounce, MayStart
  <2>2. ASSUME NEW s \in Servers, SaveAnnounce(s) PROVE TypeOK'
    BY <2>2 DEF SaveAnnounce
  <2>3. ASSUME NEW s \in Servers, FailAnnounce(s) PROVE TypeOK'
    BY <2>3 DEF FailAnnounce
  <2>4. ASSUME NEW s \in Servers, BeginHeartbeat(s) PROVE TypeOK'
    <3>1. [age |-> 0, data |-> db[s] # Absent /\ db[s].data] \in Docs
      BY FirstIsDoc DEF Docs
    <3> QED BY <2>4, <3>1 DEF BeginHeartbeat
  <2>5. ASSUME NEW s \in Servers, SaveHeartbeat(s) PROVE TypeOK'
    BY <2>5 DEF SaveHeartbeat
  <2>6. ASSUME NEW s \in Servers, FailHeartbeat(s) PROVE TypeOK'
    BY <2>6 DEF FailHeartbeat
  <2>7. ASSUME NEW s \in Servers, RemoveServer(s) PROVE TypeOK'
    BY <2>7 DEF RemoveServer
  <2>8. ASSUME NEW s \in Servers, Crash(s) PROVE TypeOK'
    BY <2>8 DEF Crash
  <2>9. ASSUME NEW s \in Servers, QueryTimedOut(s) PROVE TypeOK'
    BY <2>9 DEF QueryTimedOut
  <2>10. ASSUME NEW s \in Servers, RemoveTimedOutServers(s) PROVE TypeOK'
    BY <2>10 DEF RemoveTimedOutServers
  <2>11. ASSUME NEW s \in Servers, FailRemoveTimedOut(s) PROVE TypeOK'
    BY <2>11 DEF FailRemoveTimedOut
  <2>12. ASSUME NEW s \in Servers, Index(s) PROVE TypeOK'
    <3>1. db[s] # Absent => db[s].age \in Ages
      BY DEF Docs
    <3> QED BY <2>12, <3>1 DEF Index
  <2>13. ASSUME Tick PROVE TypeOK'
    <3>1. \A n \in Ages : Aged(n, TimeOut + 1) \in Ages
      BY AgedIsBounded, TimeOut + 1 \in Nat DEF Ages
    <3>2. \A n \in 0..MaxLag : Aged(n, MaxLag) \in 0..MaxLag
      BY AgedIsBounded
    <3>3. index' \in [Servers -> Ages \cup {Absent}] /\ lag' \in [Steady -> 0..MaxLag]
      BY <2>13, <3>1, <3>2 DEF Tick
    <3> QED BY <2>13, <3>3, OlderIsDoc DEF Tick
  <2>14. CASE UNCHANGED vars
    BY <2>14 DEF vars
  <2> QED
    BY <2>1, <2>2, <2>3, <2>4, <2>5, <2>6, <2>7, <2>8, <2>9, <2>10, <2>11, <2>12,
       <2>13, <2>14 DEF Next
<1> QED
  BY <1>1, <1>2, PTL DEF Spec

-----------------------------------------------------------------------------
(* Why a steady server stays listed: its record never gets older than        *)
(* Interval, and what the index has of it was that young when the index was   *)
(* last up to date, so that it is no older than Interval and the delay        *)
(* together.  Watchdogs find it only after it has stopped, and it does not    *)
(* come back then.                                                            *)

StartsFromNothing ==
    \A s \in Steady : stage[s] = "starting"
        => db[s] = Absent /\ index[s] = Absent /\ call[s].data /\ call[s].age <= Interval

StaysYoung ==
    \A s \in Steady : stage[s] = "running"
        => /\ db[s] # Absent /\ db[s].data /\ db[s].age <= Interval
           /\ call[s] # Idle => call[s].data /\ call[s].age <= Interval

IndexIsYoung ==
    \A s \in Steady : stage[s] = "running" /\ index[s] # Absent
        => index[s] <= Interval + lag[s]

ExpiredAreStopped ==
    \A w \in Servers : \A s \in expired[w] \cap Steady : stage[s] = "stopped"

ListInv ==
    TypeOK /\ StartsFromNothing /\ StaysYoung /\ IndexIsYoung /\ ExpiredAreStopped

\* No watchdog deletes the record of a running server with an id used once, although
\* it queries an index that is late and deletes without a check, and no heartbeat
\* replaces it by one without data, for any other servers and any timeout that is not
\* shorter than the time between its heartbeats and the delay of the index together.
THEOREM RunningStaysListed == Spec => []RunningIsListed
<1>1. Init => ListInv
  BY ServerAssumption DEF Init, ListInv, TypeOK, Stages, StartsFromNothing,
                            StaysYoung, IndexIsYoung, ExpiredAreStopped
<1>2. TypeOK /\ TypeOK' /\ ListInv /\ [Next]_vars => ListInv'
  <2> DEFINE Kept == StartsFromNothing /\ StaysYoung /\ IndexIsYoung /\ ExpiredAreStopped
  <2> SUFFICES ASSUME TypeOK, TypeOK', Kept, [Next]_vars
               PROVE  Kept'
    BY DEF ListInv
  <2> USE ServerAssumption, ValueAssumption
      DEF TypeOK, StartsFromNothing, StaysYoung, IndexIsYoung, ExpiredAreStopped
  <2>1. ASSUME NEW s \in Servers, BeginAnnounce(s)
        PROVE  Kept'
    <3>1. s \in Steady => stage[s] = "new" /\ db[s] = Absent /\ index[s] = Absent
      BY <2>1 DEF BeginAnnounce, MayStart
    <3>2. /\ s \in Steady => call'[s].data
          /\ call'[s].age = 0 /\ stage'[s] = "starting"
      BY <2>1, <3>1 DEF BeginAnnounce
    <3>3. /\ db' = db /\ index' = index /\ lag' = lag /\ expired' = expired
          /\ \A t \in Servers \ {s} : call'[t] = call[t] /\ stage'[t] = stage[t]
      BY <2>1 DEF BeginAnnounce
    <3> QED BY <3>1, <3>2, <3>3
  <2>2. ASSUME NEW s \in Servers, SaveAnnounce(s)
        PROVE  Kept'
    BY <2>2 DEF SaveAnnounce
  <2>3. ASSUME NEW s \in Servers, FailAnnounce(s)
        PROVE  Kept'
    BY <2>3 DEF FailAnnounce
  <2>4. ASSUME NEW s \in Servers, BeginHeartbeat(s)
        PROVE  Kept'
    <3>1. s \in Steady => stage[s] = "running" /\ db[s] # Absent /\ db[s].data
      BY <2>4 DEF BeginHeartbeat
    <3>2. (s \in Steady => call'[s].data) /\ call'[s].age = 0
      BY <2>4, <3>1 DEF BeginHeartbeat
    <3>3. /\ db' = db /\ index' = index /\ lag' = lag /\ expired' = expired /\ stage' = stage
          /\ \A t \in Servers \ {s} : call'[t] = call[t]
      BY <2>4 DEF BeginHeartbeat
    <3> QED BY <3>1, <3>2, <3>3
  <2>5. ASSUME NEW s \in Servers, SaveHeartbeat(s)
        PROVE  Kept'
    BY <2>5 DEF SaveHeartbeat
  <2>6. ASSUME NEW s \in Servers, FailHeartbeat(s)
        PROVE  Kept'
    BY <2>6 DEF FailHeartbeat
  <2>7. ASSUME NEW s \in Servers, RemoveServer(s)
        PROVE  Kept'
    BY <2>7 DEF RemoveServer
  <2>8. ASSUME NEW s \in Servers, Crash(s)
        PROVE  Kept'
    BY <2>8 DEF Crash
  <2>9. ASSUME NEW w \in Servers, QueryTimedOut(w)
        PROVE  Kept'
    <3>1. ASSUME NEW s \in Steady, TimedOut(s) PROVE stage[s] = "stopped"
      <4>1. s \in Servers /\ stage[s] \in Stages
        OBVIOUS
      <4>2. index[s] \in Nat /\ index[s] > TimeOut
        BY <3>1, <4>1 DEF TimedOut, Ages
      <4>3. ~(stage[s] = "running")
        BY <3>1, <4>1, <4>2, TimeOutAssumption DEF TimedOut
      <4>4. ~(stage[s] = "starting") /\ ~(stage[s] = "new")
        BY <3>1, <4>1 DEF TimedOut
      <4> QED BY <4>1, <4>3, <4>4 DEF Stages
    <3> QED BY <2>9, <3>1 DEF QueryTimedOut
  <2>10. ASSUME NEW w \in Servers, RemoveTimedOutServers(w)
         PROVE  Kept'
    <3>1. \A s \in Steady : db'[s] = db[s] \/ stage[s] = "stopped"
      BY <2>10 DEF RemoveTimedOutServers
    <3> QED BY <2>10, <3>1 DEF RemoveTimedOutServers
  <2>11. ASSUME NEW s \in Servers, FailRemoveTimedOut(s)
         PROVE  Kept'
    BY <2>11 DEF FailRemoveTimedOut
  <2>12. ASSUME NEW w \in Servers, Index(w)
         PROVE  Kept'
    <3>1. ASSUME NEW s \in Steady, stage[s] = "running", index'[s] # Absent
          PROVE  index'[s] <= Interval + lag'[s]
      <4>1. CASE s = w
        BY <2>12, <3>1, <4>1 DEF Index
      <4>2. CASE s # w
        BY <2>12, <3>1, <4>2 DEF Index
      <4> QED BY <4>1, <4>2
    <3>2. \A s \in Steady : stage[s] = "starting" => index'[s] = Absent
      BY <2>12 DEF Index
    <3> QED BY <2>12, <3>1, <3>2 DEF Index
  <2>13. ASSUME Tick
         PROVE  Kept'
    <3>1. StartsFromNothing' /\ StaysYoung' /\ ExpiredAreStopped'
      <4>1. ASSUME NEW doc \in Docs, doc.age < Interval
            PROVE  Older(doc).age <= Interval /\ Older(doc).data = doc.data
        BY <4>1, OlderIsDoc DEF Docs, Ages
      <4>2. \A s \in Servers :
              /\ db'[s] = IF db[s] = Absent THEN Absent ELSE Older(db[s])
              /\ call'[s] = IF call[s] = Idle THEN Idle ELSE Older(call[s])
              /\ index[s] = Absent => index'[s] = Absent
        BY <2>13 DEF Tick
      <4>3. ASSUME NEW s \in Steady
            PROVE  /\ stage[s] # "stopped" /\ call[s] # Idle => call[s].age < Interval
                   /\ stage[s] = "running" => db[s].age < Interval
        BY <2>13, <4>3 DEF Tick
      <4>4. StartsFromNothing'
        BY <2>13, <4>1, <4>2, <4>3 DEF Tick
      <4>5. StaysYoung'
        <5>1. \A s \in Servers : db[s] # Absent => Older(db[s]) # Absent
          BY OlderIsDoc
        <5> QED BY <2>13, <4>1, <4>2, <4>3, <5>1 DEF Tick
      <4>6. ExpiredAreStopped'
        BY <2>13 DEF Tick
      <4> QED BY <4>4, <4>5, <4>6
    <3>2. ASSUME NEW s \in Steady, stage'[s] = "running", index'[s] # Absent
          PROVE  index'[s] <= Interval + lag'[s]
      <4>1. /\ stage[s] = "running" /\ index[s] # Absent
            /\ index'[s] = Aged(index[s], TimeOut + 1)
            /\ lag[s] < MaxLag /\ lag'[s] = lag[s] + 1
        BY <2>13, <3>2 DEF Tick, Aged
      <4>2. index[s] \in 0..TimeOut + 1 /\ lag[s] \in Nat /\ index[s] <= Interval + lag[s]
        BY <4>1 DEF Ages
      <4>3. index'[s] <= index[s] + 1
        BY <4>1, <4>2, AgedIsBounded
      <4>4. index'[s] \in Nat
        BY <4>1, <4>2 DEF Aged
      <4> QED BY <4>1, <4>2, <4>3, <4>4
    <3> QED BY <3>1, <3>2
  <2>14. CASE UNCHANGED vars
    BY <2>14 DEF vars
  <2> QED
    BY <2>1, <2>2, <2>3, <2>4, <2>5, <2>6, <2>7, <2>8, <2>9, <2>10, <2>11, <2>12,
       <2>13, <2>14 DEF Next
<1>3. ListInv => RunningIsListed
  BY DEF ListInv, StaysYoung, RunningIsListed
<1> QED
  BY <1>1, <1>2, <1>3, TypeCorrect, PTL DEF Spec
=============================================================================

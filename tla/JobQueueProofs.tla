--------------------------- MODULE JobQueueProofs ---------------------------
(***************************************************************************)
(* Proofs about JobQueue, for any queues, entries, workers, processes and   *)
(* invisibility timeout.                                                    *)
(***************************************************************************)
EXTENDS JobQueue, TLAPS

Copy == {Untracked, NotFetched} \cup Stamps
Document == {Absent, NotFetched} \cup Stamps

-----------------------------------------------------------------------------
(* Type correctness.                                                       *)

LEMMA LessTypes ==
    \A n \in Copy : /\ Less(n) \in Copy
                    /\ n \in Stamps => Less(n) \in Stamps
                    /\ n \in Visible <=> n = Less(n) /\ n # Untracked
                    /\ n = Untracked <=> Less(n) = Untracked
  BY QueueAssumption DEF Copy, Stamps, Visible, Less, Untracked, NotFetched

LEMMA LeaveTypes ==
    ASSUME TypeOK, NEW W, Leave(W)
    PROVE  /\ pc' \in [Workers -> States]
           /\ cond' \in [Workers -> {0, 1}]
           /\ at' \in [Workers -> 1..Len(Queues) + 1]
           /\ seen' \in [Workers -> [Entries -> Copy]]
           /\ dirty' \in [Workers -> SUBSET Entries]
           /\ job' \in [Workers -> Entries \cup {NoEntry}]
           /\ \A w \in Workers :
                /\ job'[w] # NoEntry <=> pc'[w] \in {"saving", "working", "removing"}
                /\ pc'[w] = "saving" => at'[w] <= Len(Queues)
<1>1. 1 \in 1..Len(Queues) + 1
  BY QueueAssumption
<1>2. NoCopies \in [Entries -> Copy]
  BY DEF NoCopies, Copy
<1> QED
  BY <1>1, <1>2 DEF TypeOK, Leave, States, Copy

LEMMA StaleTypes ==
    ASSUME TypeOK, NEW S, NEW W, Stale(S, W)
    PROVE  fresh' \in [Workers -> SUBSET Entries]
  BY DEF TypeOK, Stale

LEMMA CopiesTypes ==
    ASSUME TypeOK, NEW w \in Workers
    PROVE  Copies(w) \in [Entries -> Copy] /\ Loaded(w) \in SUBSET Entries
  BY DEF TypeOK, Copies, Loaded, Copy, Absent, Untracked

\* What a batch that can be saved leaves are documents.
LEMMA SavedTypes ==
    ASSUME TypeOK, NEW w \in Workers
    PROVE  Saved(w) \in [Entries -> Document]
  BY DEF TypeOK, Saved, Document, Absent, Untracked

LEMMA TypeInit == Init => TypeOK
<1>1. 1 \in 1..Len(Queues) + 1
  BY QueueAssumption
<1> QED
  BY <1>1 DEF Init, TypeOK, NoCopies, States

LEMMA TypeStep == TypeOK /\ [Next]_vars => TypeOK'
<1> SUFFICES ASSUME TypeOK, [Next]_vars PROVE TypeOK'
  OBVIOUS
<1> USE QueueAssumption
<1>1. ASSUME NEW w \in Workers, StartDequeue(w) \/ EndWait(w) PROVE TypeOK'
  BY <1>1 DEF StartDequeue, EndWait, TypeOK, States
<1>2. ASSUME NEW w \in Workers, OpenSession(w) PROVE TypeOK'
  BY <1>2 DEF OpenSession, TypeOK, States
<1>3. ASSUME NEW W, NEW S, Leave(W), Stale(S, W) \/ UNCHANGED fresh,
             db' \in [Entries -> Document]
      PROVE  TypeOK'
  BY <1>3, LeaveTypes, StaleTypes DEF TypeOK, Document, Copy
<1>4. ASSUME NEW w \in Workers, NEW e \in Entries, Pick(w, e) PROVE TypeOK'
  <2>1. [Copies(w) EXCEPT ![e] = Invisibility] \in [Entries -> Copy]
    BY CopiesTypes DEF Copy, Stamps
  <2>2. seen' \in [Workers -> [Entries -> Copy]]
    BY <1>4, <2>1 DEF Pick, TypeOK, Copy
  <2>3. fresh' \in [Workers -> SUBSET Entries] /\ dirty' \in [Workers -> SUBSET Entries]
    BY <1>4, CopiesTypes DEF Pick, TypeOK
  <2> QED BY <1>4, <2>2, <2>3 DEF Pick, TypeOK, States, Copy
<1>5. ASSUME NEW w \in Workers, NextQueue(w) PROVE TypeOK'
  <2>1. seen' \in [Workers -> [Entries -> Copy]]
    BY <1>5, CopiesTypes DEF NextQueue, TypeOK, Copy
  <2>2. fresh' \in [Workers -> SUBSET Entries]
    BY <1>5, CopiesTypes DEF NextQueue, TypeOK
  <2>3. at' \in [Workers -> 1..Len(Queues) + 1]
    BY <1>5 DEF NextQueue, TypeOK
  <2> QED BY <1>5, <2>1, <2>2, <2>3 DEF NextQueue, TypeOK, Copy
<1>6. ASSUME NEW w \in Workers, Fetch(w) PROVE TypeOK'
  <2>1. NoCopies \in [Entries -> Copy] /\ 1 \in 1..Len(Queues) + 1
    BY DEF NoCopies, Copy
  <2> QED
    BY <1>6, <2>1, SavedTypes, StaleTypes DEF Fetch, TypeOK, States, Copy, Document
<1>7. ASSUME NEW w \in Workers, FetchConflict(w) PROVE TypeOK'
  BY <1>7 DEF FetchConflict, TypeOK, States
<1>8. ASSUME NEW w \in Workers, EndScan(w) PROVE TypeOK'
  <2>1. NoCopies \in [Entries -> Copy] /\ 1 \in 1..Len(Queues) + 1
    BY DEF NoCopies, Copy
  <2> QED BY <1>8, <2>1 DEF EndScan, TypeOK, States, Copy
<1>9. ASSUME NEW e \in Entries, Enqueue(e) PROVE TypeOK'
  BY <1>9, StaleTypes DEF Enqueue, TypeOK
<1>10. CASE Tick
  BY <1>10, LessTypes DEF Tick, TypeOK, Copy, Absent, Untracked
<1>11. CASE UNCHANGED vars
  BY <1>11 DEF vars, TypeOK
<1>12. db \in [Entries -> Document]
  BY DEF TypeOK, Document
<1>13. ASSUME NEW w \in Workers PROVE [db EXCEPT ![job[w]] = Absent] \in [Entries -> Document]
  BY <1>12 DEF Document
<1>14. ASSUME NEW w \in Workers, Cancel(w) \/ FailDequeue(w) PROVE TypeOK'
  BY <1>14, <1>3, <1>12, SavedTypes DEF Cancel, FailDequeue
<1>15. ASSUME NEW w \in Workers, RemoveLoad(w) PROVE TypeOK'
  <2>1. CASE db[job[w]] = Absent
    BY <1>15, <2>1, <1>3, <1>12 DEF RemoveLoad
  <2>2. CASE db[job[w]] # Absent
    BY <1>15, <2>2 DEF RemoveLoad, TypeOK, States
  <2> QED BY <2>1, <2>2
<1>16. ASSUME NEW w \in Workers, RemoveDelete(w) \/ FailRemove(w) \/ Requeue(w)
       PROVE  TypeOK'
  BY <1>16, <1>3, <1>12, <1>13 DEF RemoveDelete, FailRemove, Requeue
<1>17. ASSUME NEW p, Crash(p) PROVE TypeOK'
  BY <1>17, <1>3, <1>12 DEF Crash
<1> QED
  BY <1>1, <1>2, <1>4, <1>5, <1>6, <1>7, <1>8, <1>9, <1>10, <1>11, <1>14, <1>15, <1>16,
     <1>17 DEF Next

\* The variables of JobQueue keep their types: countdowns stay within the timeout,
\* the scan within the queues, and a worker has an entry just when it saves it,
\* works on it or removes it.
THEOREM TypeCorrect == Spec => []TypeOK
  BY TypeInit, TypeStep, PTL DEF Spec

-----------------------------------------------------------------------------
(* Sessions.  FetchIsSound speaks of the database at the save, the code of a *)
(* copy read long before: CopiesAreCurrent connects them and is inductive.   *)

SessionInv == TypeOK /\ CopiesAreCurrent

\* A session is not disturbed by writes to documents it then has no current copy
\* of, as long as its own worker stays where it is.
LEMMA OtherSession ==
    ASSUME SessionInv, NEW v \in Workers, NEW S,
           \A e \in Entries \ S : db'[e] = db[e],
           fresh'[v] = fresh[v] \ S, seen'[v] = seen[v], dirty'[v] = dirty[v],
           pc'[v] = pc[v], job'[v] = job[v]
    PROVE  SessionIsCurrent(v)'
<1>1. fresh[v] \in SUBSET Entries /\ dirty[v] \in SUBSET Entries
  BY DEF SessionInv, TypeOK
<1>2. SessionIsCurrent(v)
  BY DEF SessionInv, CopiesAreCurrent
<1>3. CanSave(v)' => CanSave(v)
  BY DEF CanSave
<1> QED BY <1>1, <1>2, <1>3 DEF SessionIsCurrent

\* A worker whose session is gone has nothing to keep.
LEMMA NoSession ==
    ASSUME NEW w \in Workers, pc'[w] \notin {"fetching", "saving"},
           fresh'[w] = {}, dirty'[w] = {}, seen'[w] = NoCopies
    PROVE  SessionIsCurrent(w)'
  BY DEF SessionIsCurrent, CanSave

\* What a scan adds to the session are the documents as they are.
LEMMA ScanAdds ==
    ASSUME SessionInv, NEW w \in Workers
    PROVE  /\ \A e \in fresh[w] \cup Loaded(w) : e \notin dirty[w] =>
                db[e] # Absent /\ Copies(w)[e] = db[e]
           /\ \A e \in dirty[w] : e \notin Loaded(w) /\ Copies(w)[e] = seen[w][e]
<1>1. dirty[w] \in SUBSET Entries /\ fresh[w] \in SUBSET Entries
  BY DEF SessionInv, TypeOK
<1>2. SessionIsCurrent(w)
  BY DEF SessionInv, CopiesAreCurrent
<1>3. \A e \in dirty[w] : seen[w][e] # Untracked
  BY <1>2, QueueAssumption DEF SessionIsCurrent, Stamps, Untracked
<1>4. \A e \in dirty[w] : e \notin Loaded(w) /\ Copies(w)[e] = seen[w][e]
  BY <1>1, <1>3 DEF Loaded, Copies
<1>5. \A e \in fresh[w] \ dirty[w] : e \notin Loaded(w) /\ Copies(w)[e] = db[e]
  BY <1>1, <1>2 DEF SessionIsCurrent, Loaded, Copies, Absent, Untracked
<1>6. \A e \in Loaded(w) : db[e] # Absent /\ Copies(w)[e] = db[e]
  BY DEF Loaded, Copies
<1> QED BY <1>2, <1>4, <1>5, <1>6 DEF SessionIsCurrent

\* A batch that can be saved stamps the pick, which is fetchable, and nothing else.
LEMMA SaveIsSound ==
    ASSUME SessionInv, NEW w \in Workers, pc[w] = "saving", CanSave(w)
    PROVE  /\ job[w] \in Entries /\ dirty[w] = {job[w]}
           /\ db[job[w]] \in Visible
           /\ Saved(w)[job[w]] = seen[w][job[w]] /\ seen[w][job[w]] \in Stamps
           /\ \A e \in Entries \ {job[w]} : Saved(w)[e] = db[e]
<1>1. job[w] \in Entries
  BY DEF SessionInv, TypeOK
<1>2. dirty[w] = {job[w]}
  BY DEF SessionInv, CopiesAreCurrent, SessionIsCurrent
<1>3. job[w] \in fresh[w] \cap dirty[w]
  BY <1>2 DEF CanSave
<1>4. db[job[w]] \in Visible /\ seen[w][job[w]] \in Stamps
  BY <1>3 DEF SessionInv, CopiesAreCurrent, SessionIsCurrent
<1> QED BY <1>1, <1>2, <1>4 DEF Saved

LEMMA SessionInit == Init => SessionInv
  BY TypeInit DEF Init, SessionInv, CopiesAreCurrent, SessionIsCurrent, CanSave

\* Workers that leave, whatever documents S are written meanwhile.
LEMMA LeaveKeepsSessions ==
    ASSUME SessionInv, NEW W \in SUBSET Workers, NEW S, Leave(W), Stale(S, W),
           \A e \in Entries \ S : db'[e] = db[e]
    PROVE  CopiesAreCurrent'
<1> SUFFICES ASSUME NEW v \in Workers PROVE SessionIsCurrent(v)'
  BY DEF CopiesAreCurrent
<1>1. CASE v \in W
  BY <1>1, NoSession DEF Leave, Stale
<1>2. CASE v \notin W
  BY <1>2, OtherSession DEF Leave, Stale
<1> QED BY <1>1, <1>2

LEMMA SessionStep == SessionInv /\ [Next]_vars => SessionInv'
<1> SUFFICES ASSUME SessionInv, [Next]_vars PROVE CopiesAreCurrent'
  BY TypeStep DEF SessionInv
<1> USE DEF SessionInv
<1>1. ASSUME NEW w \in Workers, StartDequeue(w) \/ EndWait(w) \/ OpenSession(w)
      PROVE  CopiesAreCurrent'
  <2>1. /\ db' = db /\ seen' = seen /\ fresh' = fresh /\ dirty' = dirty /\ job' = job
        /\ pc[w] \notin {"fetching", "saving"} /\ pc'[w] # "saving"
        /\ \A v \in Workers \ {w} : pc'[v] = pc[v]
    BY <1>1 DEF StartDequeue, EndWait, OpenSession, TypeOK
  <2>2. SessionIsCurrent(w)'
    BY <2>1 DEF CopiesAreCurrent, SessionIsCurrent, CanSave
  <2>3. ASSUME NEW v \in Workers \ {w} PROVE SessionIsCurrent(v)'
    BY <2>1 DEF CopiesAreCurrent, SessionIsCurrent, CanSave
  <2> QED BY <2>2, <2>3 DEF CopiesAreCurrent
<1>2. ASSUME NEW w \in Workers, NEW e \in Entries, Pick(w, e) PROVE CopiesAreCurrent'
  <2>1. SessionIsCurrent(w)
    BY DEF CopiesAreCurrent
  <2>2. /\ seen'[w] = [Copies(w) EXCEPT ![e] = Invisibility]
        /\ fresh'[w] = fresh[w] \cup Loaded(w) /\ dirty'[w] = dirty[w] \cup {e}
        /\ pc[w] = "fetching" /\ pc'[w] = "saving" /\ job'[w] = e /\ db' = db
    BY <1>2 DEF Pick, TypeOK
  <2>3. Copies(w) \in [Entries -> Copy] /\ Invisibility \in Stamps
    BY CopiesTypes, QueueAssumption DEF Stamps
  <2>4. fresh[w] \in SUBSET Entries /\ dirty[w] \in SUBSET Entries
    BY DEF TypeOK
  <2>5. Copies(w)[e] \in Visible
    BY <1>2 DEF Pick, Found, Matches, Visible
  <2>6. \A f \in fresh'[w] \ dirty'[w] : db'[f] # Absent /\ seen'[w][f] = db'[f]
    BY <2>2, <2>3, <2>4, ScanAdds, CopiesTypes
  <2>7. \A f \in fresh'[w] \cap dirty'[w] : db'[f] \in Visible
    BY <2>1, <2>2, <2>4, <2>5, ScanAdds DEF SessionIsCurrent
  <2>8. \A f \in dirty'[w] : seen'[w][f] \in Stamps
    BY <2>1, <2>2, <2>3, <2>4, ScanAdds DEF SessionIsCurrent
  <2>9. CanSave(w)' => dirty'[w] = {e}
    BY <2>1, <2>2, ScanAdds DEF CanSave, SessionIsCurrent
  <2>10. SessionIsCurrent(w)'
    BY <2>2, <2>6, <2>7, <2>8, <2>9 DEF SessionIsCurrent
  <2>11. ASSUME NEW v \in Workers \ {w} PROVE SessionIsCurrent(v)'
    <3>1. /\ fresh'[v] = fresh[v] \ {} /\ seen'[v] = seen[v] /\ dirty'[v] = dirty[v]
          /\ pc'[v] = pc[v] /\ job'[v] = job[v] /\ db' = db
      BY <1>2 DEF Pick, TypeOK
    <3> QED BY <3>1, OtherSession
  <2> QED BY <2>10, <2>11 DEF CopiesAreCurrent
<1>3. ASSUME NEW w \in Workers, NextQueue(w) PROVE CopiesAreCurrent'
  <2>1. SessionIsCurrent(w)
    BY DEF CopiesAreCurrent
  <2>2. /\ seen'[w] = Copies(w) /\ fresh'[w] = fresh[w] \cup Loaded(w)
        /\ dirty' = dirty /\ pc[w] = "fetching" /\ pc' = pc /\ db' = db
    BY <1>3 DEF NextQueue, TypeOK
  <2>3. CanSave(w)' => CanSave(w)
    BY <2>2, ScanAdds DEF CanSave
  <2>4. SessionIsCurrent(w)'
    <3>1. \A e \in fresh'[w] \ dirty'[w] : db'[e] # Absent /\ seen'[w][e] = db'[e]
      BY <2>2, ScanAdds
    <3>2. \A e \in fresh'[w] \cap dirty'[w] : db'[e] \in Visible
      BY <2>1, <2>2, ScanAdds DEF SessionIsCurrent
    <3>3. \A e \in dirty'[w] : seen'[w][e] \in Stamps
      BY <2>1, <2>2, ScanAdds DEF SessionIsCurrent
    <3>4. CanSave(w)' => dirty'[w] = {}
      BY <2>1, <2>2, <2>3 DEF SessionIsCurrent
    <3> QED BY <2>2, <3>1, <3>2, <3>3, <3>4 DEF SessionIsCurrent
  <2>5. ASSUME NEW v \in Workers \ {w} PROVE SessionIsCurrent(v)'
    <3>1. /\ fresh'[v] = fresh[v] \ {} /\ seen'[v] = seen[v] /\ dirty'[v] = dirty[v]
          /\ pc'[v] = pc[v] /\ job'[v] = job[v] /\ db' = db
      BY <1>3 DEF NextQueue, TypeOK
    <3> QED BY <3>1, OtherSession
  <2> QED BY <2>4, <2>5 DEF CopiesAreCurrent
<1>4. ASSUME NEW w \in Workers, Fetch(w) PROVE CopiesAreCurrent'
  <2>1. SessionIsCurrent(w)'
    BY <1>4, NoSession DEF Fetch, Stale, TypeOK
  <2>2. \A e \in Entries \ dirty[w] : db'[e] = db[e]
    BY <1>4 DEF Fetch, Saved
  <2>3. ASSUME NEW v \in Workers \ {w} PROVE SessionIsCurrent(v)'
    <3>1. /\ fresh'[v] = fresh[v] \ dirty[w] /\ seen'[v] = seen[v] /\ dirty'[v] = dirty[v]
          /\ pc'[v] = pc[v] /\ job'[v] = job[v]
      BY <1>4 DEF Fetch, Stale, TypeOK
    <3> QED BY <2>2, <3>1, OtherSession
  <2> QED BY <2>1, <2>3 DEF CopiesAreCurrent
<1>5. ASSUME NEW w \in Workers, FetchConflict(w) PROVE CopiesAreCurrent'
  BY <1>5 DEF FetchConflict, TypeOK, CopiesAreCurrent, SessionIsCurrent, CanSave
<1>6. ASSUME NEW w \in Workers, EndScan(w) PROVE CopiesAreCurrent'
  <2>1. SessionIsCurrent(w)'
    BY <1>6, NoSession DEF EndScan, TypeOK
  <2>2. ASSUME NEW v \in Workers \ {w} PROVE SessionIsCurrent(v)'
    <3>1. /\ fresh'[v] = fresh[v] \ {} /\ seen'[v] = seen[v] /\ dirty'[v] = dirty[v]
          /\ pc'[v] = pc[v] /\ job'[v] = job[v] /\ db' = db
      BY <1>6 DEF EndScan, TypeOK
    <3> QED BY <3>1, OtherSession
  <2> QED BY <2>1, <2>2 DEF CopiesAreCurrent
<1>7. ASSUME NEW w \in Workers, Cancel(w) \/ FailDequeue(w) PROVE CopiesAreCurrent'
  <2>1. CASE db' = db /\ Leave({w}) /\ Stale({}, {w})
    BY <2>1, LeaveKeepsSessions
  <2>2. CASE db' = Saved(w) /\ Leave({w}) /\ Stale(dirty[w], {w})
    BY <2>2, LeaveKeepsSessions DEF Saved
  <2> QED BY <1>7, <2>1, <2>2 DEF Cancel, FailDequeue
<1>8. ASSUME NEW w \in Workers, db' = db, fresh' = fresh, Leave({w}),
             pc[w] \notin {"fetching", "saving"}
      PROVE  CopiesAreCurrent'
  <2>1. Stale({}, {w})
    BY <1>8 DEF Stale, TypeOK, CopiesAreCurrent, SessionIsCurrent
  <2> QED BY <1>8, <2>1, LeaveKeepsSessions
<1>9. ASSUME NEW w \in Workers, RemoveLoad(w) \/ Requeue(w) PROVE CopiesAreCurrent'
  <2>1. CASE Leave({w})
    BY <1>8, <1>9, <2>1 DEF RemoveLoad, Requeue
  <2>2. CASE /\ pc[w] = "working" /\ pc' = [pc EXCEPT ![w] = "removing"]
             /\ UNCHANGED <<db, seen, fresh, dirty, job>>
    BY <2>2 DEF TypeOK, CopiesAreCurrent, SessionIsCurrent, CanSave
  <2> QED BY <1>9, <2>1, <2>2 DEF RemoveLoad, Requeue
<1>10. ASSUME NEW w \in Workers, RemoveDelete(w) \/ FailRemove(w) PROVE CopiesAreCurrent'
  <2>1. CASE db' = [db EXCEPT ![job[w]] = Absent] /\ Leave({w}) /\ Stale({job[w]}, {w})
    BY <2>1, LeaveKeepsSessions DEF TypeOK
  <2> QED BY <1>8, <1>10, <2>1 DEF RemoveDelete, FailRemove
<1>11. ASSUME NEW e \in Entries, Enqueue(e) PROVE CopiesAreCurrent'
  <2>1. ASSUME NEW v \in Workers PROVE SessionIsCurrent(v)'
    BY <1>11, OtherSession DEF Enqueue, Stale, TypeOK
  <2> QED BY <2>1 DEF CopiesAreCurrent
<1>12. ASSUME NEW p, Crash(p) PROVE CopiesAreCurrent'
  <2>1. {w \in Workers : ProcessOf[w] = p} \in SUBSET Workers
    OBVIOUS
  <2> QED BY <1>12, <2>1, LeaveKeepsSessions DEF Crash
<1>13. CASE Tick
  <2> SUFFICES ASSUME NEW w \in Workers PROVE SessionIsCurrent(w)'
    BY DEF CopiesAreCurrent
  <2>1. SessionIsCurrent(w) /\ fresh' = fresh /\ dirty' = dirty /\ pc' = pc /\ job' = job
    BY <1>13 DEF Tick, CopiesAreCurrent
  <2>2. fresh[w] \in SUBSET Entries /\ dirty[w] \in SUBSET Entries
    BY DEF TypeOK
  <2>3. \A e \in Entries : /\ db[e] \in Copy /\ db'[e] = Less(db[e])
                           /\ seen[w][e] \in Copy /\ seen'[w][e] = Less(seen[w][e])
    BY <1>13 DEF Tick, TypeOK, Copy, Absent, Untracked
  <2>4. NoCopies = [e \in Entries |-> Less(NoCopies[e])]
    BY LessTypes DEF NoCopies, Copy
  <2>5. seen[w] = NoCopies => seen'[w] = NoCopies
    BY <1>13, <2>4 DEF Tick
  <2>6. CanSave(w)' <=> CanSave(w)
    BY <2>1 DEF CanSave
  <2> QED
    BY <2>1, <2>2, <2>3, <2>5, <2>6, LessTypes DEF SessionIsCurrent, Absent, Untracked
<1>14. CASE UNCHANGED vars
  BY <1>14 DEF vars, CopiesAreCurrent, SessionIsCurrent, CanSave
<1> QED
  BY <1>1, <1>2, <1>3, <1>4, <1>5, <1>6, <1>7, <1>9, <1>10, <1>11, <1>12, <1>13, <1>14
     DEF Next

\* In every reachable state the copies in the sessions are as CopiesAreCurrent
\* says: with any number of processes, failures and re-enqueues.
THEOREM SessionsAreCurrent == Spec => []CopiesAreCurrent
<1>1. SessionInv => CopiesAreCurrent
  BY DEF SessionInv
<1> QED
  BY <1>1, SessionInit, SessionStep, PTL DEF Spec

\* Every fetch is of an entry that is visible in the database when it is saved,
\* and stamps that entry only.  No discipline of clients or workers is assumed.
THEOREM FetchesAreSound == Spec => FetchIsSound
<1> DEFINE Sound ==
      \A w \in Workers :
         pc[w] = "saving" /\ pc'[w] = "working" =>
            /\ db[job[w]] \in Visible
            /\ db'[job[w]] \in Stamps
            /\ \A e \in Entries \ {job[w]} : db'[e] = db[e]
<1>1. SessionInv /\ [Next]_vars => Sound
  <2> SUFFICES ASSUME SessionInv, [Next]_vars, NEW w \in Workers,
                      pc[w] = "saving", pc'[w] = "working"
               PROVE  /\ db[job[w]] \in Visible /\ db'[job[w]] \in Stamps
                      /\ \A e \in Entries \ {job[w]} : db'[e] = db[e]
    OBVIOUS
  <2>1. ASSUME NEW v \in Workers
        PROVE  /\ ~StartDequeue(v) /\ ~OpenSession(v) /\ ~NextQueue(v)
               /\ ~FetchConflict(v) /\ ~EndScan(v) /\ ~EndWait(v)
               /\ \A e \in Entries : ~Pick(v, e)
    BY DEF StartDequeue, OpenSession, NextQueue, FetchConflict, EndScan, EndWait,
       Pick, SessionInv, TypeOK
  <2>2. ASSUME NEW W, Leave(W) PROVE FALSE
    BY <2>2 DEF Leave
  <2>3. ASSUME NEW v \in Workers
        PROVE  /\ ~Cancel(v) /\ ~FailDequeue(v) /\ ~RemoveLoad(v)
               /\ ~RemoveDelete(v) /\ ~FailRemove(v) /\ ~Requeue(v)
    <3>1. CASE RemoveLoad(v) /\ pc' = [pc EXCEPT ![v] = "removing"]
      BY <3>1 DEF RemoveLoad, SessionInv, TypeOK
    <3> QED
      BY <2>2, <3>1 DEF Cancel, FailDequeue, RemoveLoad, RemoveDelete, FailRemove, Requeue
  <2>4. /\ \A p \in Faulty : ~Crash(p)
        /\ \A e \in Entries : ~Enqueue(e)
        /\ ~Tick /\ vars' # vars
    BY <2>2 DEF Crash, Enqueue, Tick, vars
  <2>5. PICK v \in Workers : Fetch(v)
    BY <2>1, <2>3, <2>4 DEF Next
  <2>6. v = w
    BY <2>5 DEF Fetch, SessionInv, TypeOK
  <2> QED BY <2>5, <2>6, SaveIsSound DEF Fetch
<1>2. Spec => [][Sound]_vars
  BY <1>1, SessionInit, SessionStep, PTL DEF Spec
<1> QED
  BY <1>2 DEF FetchIsSound

-----------------------------------------------------------------------------
(* Claims.  Only a fetch makes one; what the other steps do to the documents *)
(* is said once, and the invariants about claims are read off it.            *)

NoNewClaim == \A v \in Workers, e \in Entries : Claims(v, e)' => Claims(v, e)

LEMMA StepEffect ==
    ASSUME SessionInv, [Next]_vars
    PROVE  \/ \E w \in Workers : Fetch(w)
           \/ /\ NoNewClaim
              /\ \/ db' = db
                 \/ \E w \in Workers : pc[w] = "saving" /\ CanSave(w) /\ db' = Saved(w)
                 \/ \E w \in Workers : /\ Claims(w, job[w]) /\ pc'[w] = "idle"
                                       /\ db' = [db EXCEPT ![job[w]] = Absent]
                 \/ \E e \in Entries : Enqueue(e)
                 \/ Tick
<1> USE DEF SessionInv
<1>1. ASSUME NEW w \in Workers,
             \/ StartDequeue(w) \/ OpenSession(w) \/ NextQueue(w) \/ FetchConflict(w)
             \/ EndScan(w) \/ EndWait(w) \/ \E e \in Entries : Pick(w, e)
      PROVE  NoNewClaim /\ db' = db
  BY <1>1 DEF StartDequeue, OpenSession, NextQueue, FetchConflict, EndScan, EndWait,
     Pick, NoNewClaim, Claims, TypeOK
<1>2. ASSUME NEW W, Leave(W) PROVE NoNewClaim
  BY <1>2 DEF Leave, NoNewClaim, Claims
<1>3. ASSUME NEW w \in Workers, RemoveLoad(w) PROVE NoNewClaim /\ db' = db
  <2>1. CASE /\ pc' = [pc EXCEPT ![w] = "removing"] /\ pc[w] = "working"
             /\ UNCHANGED job
    BY <1>3, <2>1 DEF RemoveLoad, NoNewClaim, Claims, TypeOK
  <2> QED BY <1>2, <1>3, <2>1 DEF RemoveLoad
<1>4. ASSUME NEW w \in Workers, RemoveDelete(w) \/ FailRemove(w)
      PROVE  /\ NoNewClaim
             /\ \/ db' = db
                \/ /\ Claims(w, job[w]) /\ pc'[w] = "idle"
                   /\ db' = [db EXCEPT ![job[w]] = Absent]
  BY <1>2, <1>4 DEF RemoveDelete, FailRemove, Claims, Leave
<1>5. ASSUME NEW w \in Workers, Cancel(w) \/ FailDequeue(w) \/ Requeue(w)
      PROVE  /\ NoNewClaim
             /\ db' = db \/ (pc[w] = "saving" /\ CanSave(w) /\ db' = Saved(w))
  BY <1>2, <1>5 DEF Cancel, FailDequeue, Requeue
<1>6. ASSUME NEW p, Crash(p) PROVE NoNewClaim /\ db' = db
  BY <1>2, <1>6 DEF Crash
<1>7. ASSUME NEW e \in Entries, Enqueue(e) PROVE NoNewClaim
  BY <1>7 DEF Enqueue, NoNewClaim, Claims
<1>8. ASSUME Tick PROVE NoNewClaim
  BY <1>8 DEF Tick, NoNewClaim, Claims
<1>9. ASSUME UNCHANGED vars PROVE NoNewClaim /\ db' = db
  BY <1>9 DEF vars, NoNewClaim, Claims
<1> QED
  BY <1>1, <1>3, <1>4, <1>5, <1>6, <1>7, <1>8, <1>9 DEF Next

\* A fetched entry has been stamped: nobody's claim is to one that waits.
ClaimsAreStamped ==
    \A w \in Workers, e \in Entries : Claims(w, e) => db[e] # NotFetched

LEMMA StampedStep ==
    ASSUME ~Reenqueue, SessionInv, ClaimsAreStamped, [Next]_vars
    PROVE  ClaimsAreStamped'
<1> SUFFICES ASSUME NEW v \in Workers, NEW e \in Entries, Claims(v, e)'
             PROVE  db'[e] # NotFetched
  BY DEF ClaimsAreStamped
<1> USE DEF SessionInv
<1>1. ASSUME NEW w \in Workers, pc[w] = "saving", CanSave(w), db' = Saved(w),
             Claims(v, e) \/ e = job[w]
      PROVE  db'[e] # NotFetched
  BY <1>1, SaveIsSound, QueueAssumption DEF ClaimsAreStamped, Stamps, NotFetched
<1>2. ASSUME NEW w \in Workers, Fetch(w) PROVE db'[e] # NotFetched
  <2>1. Claims(v, e) \/ e = job[w]
    BY <1>2 DEF Fetch, Claims, TypeOK
  <2> QED BY <1>1, <1>2, <2>1 DEF Fetch
<1>3. ASSUME NEW w \in Workers, db' = [db EXCEPT ![job[w]] = Absent], Claims(v, e)
      PROVE  db'[e] # NotFetched
  BY <1>3 DEF ClaimsAreStamped, TypeOK, Absent, NotFetched
<1>4. ASSUME NEW f \in Entries, Enqueue(f), Claims(v, e) PROVE db'[e] # NotFetched
  BY <1>4 DEF Enqueue, HandedOut, ClaimsAreStamped, TypeOK
<1>5. ASSUME Tick, Claims(v, e) PROVE db'[e] # NotFetched
  BY <1>5 DEF Tick, Less, ClaimsAreStamped, TypeOK, Stamps, NotFetched, Absent
<1> QED
  BY <1>1, <1>2, <1>3, <1>4, <1>5, StepEffect DEF NoNewClaim, ClaimsAreStamped

\* An entry that waits to be fetched stays until it has been, as long as clients
\* do not enqueue a job id that is still queued or worked on: with jobs of any
\* length, timeouts, crashes and failing calls.
THEOREM NothingGetsLost == ASSUME ~Reenqueue PROVE Spec => NothingIsLost
<1> DEFINE Inv == SessionInv /\ ClaimsAreStamped
<1> DEFINE Kept == \A e \in Entries : db[e] = NotFetched => db'[e] # Absent
<1>1. Init => Inv
  BY SessionInit DEF Init, ClaimsAreStamped, Claims
<1>2. Inv /\ [Next]_vars => Inv'
  BY SessionStep, StampedStep
<1>3. Inv /\ [Next]_vars => Kept
  <2> SUFFICES ASSUME Inv, [Next]_vars, NEW e \in Entries, db[e] = NotFetched
               PROVE  db'[e] # Absent
    OBVIOUS
  <2>1. db[e] # Absent /\ Less(db[e]) # Absent
    BY DEF NotFetched, Absent, Less
  <2>2. ASSUME NEW w \in Workers, pc[w] = "saving", CanSave(w), db' = Saved(w)
        PROVE  db'[e] # Absent
    BY <2>1, <2>2, SaveIsSound, QueueAssumption DEF Stamps, Absent
  <2>3. ASSUME NEW w \in Workers, Claims(w, job[w]), db' = [db EXCEPT ![job[w]] = Absent]
        PROVE  db'[e] # Absent
    <3>1. job[w] \in Entries
      BY <2>3 DEF Claims, SessionInv, TypeOK
    <3>2. job[w] # e
      BY <2>3, <3>1 DEF ClaimsAreStamped
    <3> QED BY <2>1, <2>3, <3>2 DEF SessionInv, TypeOK
  <2>4. ASSUME NEW f \in Entries, Enqueue(f) PROVE db'[e] # Absent
    BY <2>1, <2>4 DEF Enqueue, SessionInv, TypeOK, NotFetched, Absent
  <2>5. ASSUME Tick PROVE db'[e] # Absent
    BY <2>1, <2>5 DEF Tick
  <2> QED BY <2>1, <2>2, <2>3, <2>4, <2>5, StepEffect DEF Fetch
<1>4. Spec => [][Kept]_vars
  BY <1>1, <1>2, <1>3, PTL DEF Spec
<1> QED
  BY <1>4 DEF NothingIsLost

-----------------------------------------------------------------------------
(* Exclusive claims: an entry that somebody works on is invisible, so it is  *)
(* not fetchable; a stamp that is being saved will make it so.               *)

ClaimsAreInvisible ==
    /\ \A w \in Workers, e \in Entries : Claims(w, e) => db[e] > 0
    /\ \A w \in Workers : pc[w] = "saving" => seen[w][job[w]] > 0

ClaimInv == SessionInv /\ ClaimsAreInvisible /\ ClaimsAreExclusive

LEMMA StampStep ==
    ASSUME Prompt, SessionInv, ClaimsAreInvisible, [Next]_vars,
           NEW w \in Workers, pc'[w] = "saving"
    PROVE  seen'[w][job'[w]] > 0
<1> USE DEF SessionInv
<1>1. ASSUME NEW e \in Entries, Pick(w, e) PROVE seen'[w][job'[w]] > 0
  BY <1>1, CopiesTypes, QueueAssumption DEF Pick, TypeOK
<1>2. ASSUME Tick PROVE seen'[w][job'[w]] > 0
  <2>1. pc[w] = "saving" /\ job'[w] = job[w] /\ job[w] \in Entries
    BY <1>2 DEF Tick, TypeOK
  <2>2. seen[w][job[w]] > 0
    BY <2>1 DEF ClaimsAreInvisible
  <2>3. seen[w][job[w]] # 1
    BY <1>2, <2>1 DEF Tick, InTime
  <2>4. seen[w][job[w]] \in {Untracked, NotFetched} \cup Stamps
    BY <2>1 DEF TypeOK
  <2>5. seen[w][job[w]] \in Int
    BY <2>4, QueueAssumption DEF Untracked, NotFetched, Stamps
  <2>6. seen'[w][job'[w]] = Less(seen[w][job[w]])
    BY <1>2, <2>1 DEF Tick
  <2> QED BY <2>2, <2>3, <2>5, <2>6 DEF Less
<1>3. ASSUME NEW W, Leave(W) PROVE seen'[w][job'[w]] > 0
  BY <1>3 DEF Leave, ClaimsAreInvisible
<1>4. ASSUME NEW v \in Workers,
             \/ StartDequeue(v) \/ OpenSession(v) \/ NextQueue(v) \/ EndWait(v)
             \/ EndScan(v) \/ Fetch(v) \/ FetchConflict(v)
      PROVE  seen'[w][job'[w]] > 0
  BY <1>4 DEF StartDequeue, OpenSession, NextQueue, EndWait, EndScan, Fetch,
     FetchConflict, ClaimsAreInvisible, TypeOK
<1>5. ASSUME NEW v \in Workers \ {w}, NEW e \in Entries, Pick(v, e)
      PROVE  seen'[w][job'[w]] > 0
  BY <1>5 DEF Pick, ClaimsAreInvisible, TypeOK
<1>6. ASSUME NEW v \in Workers, RemoveLoad(v) PROVE seen'[w][job'[w]] > 0
  BY <1>3, <1>6 DEF RemoveLoad, ClaimsAreInvisible, TypeOK
<1>7. ASSUME NEW v \in Workers,
             \/ Cancel(v) \/ FailDequeue(v) \/ RemoveDelete(v) \/ FailRemove(v)
             \/ Requeue(v)
      PROVE  seen'[w][job'[w]] > 0
  BY <1>3, <1>7 DEF Cancel, FailDequeue, RemoveDelete, FailRemove, Requeue
<1>8. ASSUME NEW p, Crash(p) PROVE seen'[w][job'[w]] > 0
  BY <1>3, <1>8 DEF Crash
<1>9. ASSUME NEW e, Enqueue(e) PROVE seen'[w][job'[w]] > 0
  BY <1>9 DEF Enqueue, ClaimsAreInvisible
<1>10. ASSUME UNCHANGED vars PROVE seen'[w][job'[w]] > 0
  BY <1>10 DEF vars, ClaimsAreInvisible
<1> QED
  BY <1>1, <1>2, <1>4, <1>5, <1>6, <1>7, <1>8, <1>9, <1>10 DEF Next

LEMMA ClaimStep ==
    ASSUME Prompt, ~Reenqueue, ClaimInv, [Next]_vars
    PROVE  ClaimInv'
<1> USE DEF ClaimInv
<1>1. SessionInv'
  BY SessionStep
<1>2. \A w \in Workers : pc'[w] = "saving" => seen'[w][job'[w]] > 0
  BY StampStep
<1>3. ASSUME NEW w \in Workers, Fetch(w), NEW e \in Entries, NEW v \in Workers,
             Claims(v, e)'
      PROVE  /\ db'[e] > 0
             /\ (v = w /\ e = job[w]) \/ (v # w /\ e # job[w] /\ Claims(v, e))
  <2>1. /\ pc[w] = "saving" /\ CanSave(w) /\ db' = Saved(w) /\ job' = job
        /\ \A u \in Workers \ {w} : pc'[u] = pc[u]
    BY <1>3 DEF Fetch, SessionInv, TypeOK
  <2>2. /\ job[w] \in Entries /\ db[job[w]] \in Visible
        /\ db'[job[w]] = seen[w][job[w]]
        /\ \A f \in Entries \ {job[w]} : db'[f] = db[f]
    BY <2>1, SaveIsSound
  <2>3. CASE v = w
    BY <1>3, <2>1, <2>2, <2>3 DEF Claims, ClaimsAreInvisible
  <2>4. CASE v # w
    <3>1. Claims(v, e) /\ db[e] > 0
      BY <1>3, <2>1, <2>4 DEF Claims, ClaimsAreInvisible
    <3>2. e # job[w]
      BY <2>2, <3>1 DEF Visible, NotFetched
    <3> QED BY <2>2, <2>4, <3>1, <3>2
  <2> QED BY <2>3, <2>4
<1>4. ASSUME NoNewClaim PROVE ClaimsAreExclusive'
  BY <1>4 DEF NoNewClaim, ClaimsAreExclusive
<1>5. ASSUME NEW w \in Workers, Fetch(w) PROVE ClaimsAreExclusive'
  BY <1>3, <1>5 DEF ClaimsAreExclusive
<1>6. ASSUME NEW v \in Workers, NEW e \in Entries, Claims(v, e)'
      PROVE  db'[e] > 0
  <2>1. CASE \E w \in Workers : Fetch(w)
    BY <1>3, <1>6, <2>1
  <2>2. ASSUME Claims(v, e), NEW w \in Workers, pc[w] = "saving", CanSave(w),
               db' = Saved(w)
        PROVE  db'[e] > 0
    BY <2>2, SaveIsSound DEF ClaimsAreInvisible, Visible, NotFetched
  <2>3. ASSUME Claims(v, e), NEW w \in Workers, Claims(w, job[w]), pc'[w] = "idle",
               db' = [db EXCEPT ![job[w]] = Absent]
        PROVE  db'[e] > 0
    <3>1. job[w] \in Entries /\ v # w
      BY <1>6, <2>3 DEF Claims, SessionInv, TypeOK
    <3>2. job[w] # e
      BY <2>3, <3>1 DEF ClaimsAreExclusive
    <3> QED BY <2>3, <3>2 DEF ClaimsAreInvisible, SessionInv, TypeOK
  <2>4. ASSUME Claims(v, e), NEW f \in Entries, Enqueue(f) PROVE db'[e] > 0
    BY <2>4 DEF Enqueue, HandedOut, ClaimsAreInvisible, SessionInv, TypeOK
  <2>5. ASSUME Claims(v, e), Tick PROVE db'[e] > 0
    <3>1. db[e] > 0
      BY <2>5 DEF ClaimsAreInvisible
    <3>2. db[e] # 1
      BY <2>5 DEF Tick, InTime, Claims
    <3>3. db[e] \in {Absent, NotFetched} \cup Stamps
      BY DEF SessionInv, TypeOK
    <3>4. db[e] \in Int
      BY <3>3, QueueAssumption DEF Absent, NotFetched, Stamps
    <3>5. db'[e] = Less(db[e])
      BY <2>5 DEF Tick
    <3> QED BY <3>1, <3>2, <3>4, <3>5 DEF Less
  <2>6. CASE db' = db /\ Claims(v, e)
    BY <2>6 DEF ClaimsAreInvisible
  <2> QED
    BY <1>6, <2>1, <2>2, <2>3, <2>4, <2>5, <2>6, StepEffect DEF NoNewClaim
<1> QED
  BY <1>1, <1>2, <1>4, <1>5, <1>6, StepEffect DEF ClaimsAreInvisible

\* No job is worked on by two workers at a time, in whatever processes, when jobs
\* are finished before they become visible again and are not enqueued while they
\* are queued or worked on; crashes and failing calls included.
THEOREM NoDoubleWork == ASSUME Prompt, ~Reenqueue PROVE Spec => []ClaimsAreExclusive
<1>1. Init => ClaimInv
  BY SessionInit DEF Init, ClaimInv, ClaimsAreInvisible, ClaimsAreExclusive, Claims
<1>2. ClaimInv /\ [Next]_vars => ClaimInv'
  BY ClaimStep
<1>3. ClaimInv => ClaimsAreExclusive
  BY DEF ClaimInv
<1> QED
  BY <1>1, <1>2, <1>3, PTL DEF Spec

-----------------------------------------------------------------------------
(* Refinement.  Steps are compared by what they do to the visibility of the   *)
(* documents and to the claims.                                              *)

LEMMA LeaveIsDrop ==
    ASSUME TypeOK, NEW W \in SUBSET Workers, Leave(W)
    PROVE  Claim' = [w \in Workers |-> IF w \in W THEN NoEntry ELSE Claim[w]]
  BY DEF Leave, Claim, TypeOK

LEMMA SameDocuments == ASSUME db' = db PROVE Visibility' = Visibility
  BY DEF Visibility

LEMMA OneDocument ==
    ASSUME TypeOK, NEW e \in Entries, NEW d, db' = [db EXCEPT ![e] = d]
    PROVE  Visibility' = [Visibility EXCEPT ![e] =
              IF d = Absent THEN "absent" ELSE IF d \in Visible THEN "visible" ELSE "hidden"]
  BY DEF Visibility, TypeOK

\* What the save of a scan does, whether or not its reply arrives.
LEMMA SaveIsTake ==
    ASSUME SessionInv, NEW w \in Workers, pc[w] = "saving", CanSave(w), db' = Saved(w)
    PROVE  /\ Visibility[job[w]] = "visible"
           /\ \E s \in {"hidden", "visible"} :
                 Visibility' = [Visibility EXCEPT ![job[w]] = s]
<1>1. /\ job[w] \in Entries /\ db[job[w]] \in Visible /\ db[job[w]] # Absent
      /\ Saved(w)[job[w]] \in Stamps
      /\ \A e \in Entries \ {job[w]} : Saved(w)[e] = db[e]
  BY SaveIsSound DEF Visible, NotFetched, Absent
<1>2. Visibility[job[w]] = "visible"
  BY <1>1 DEF Visibility
<1>3. db' = [db EXCEPT ![job[w]] = Saved(w)[job[w]]]
  BY <1>1 DEF SessionInv, TypeOK, Saved
<1>4. Saved(w)[job[w]] # Absent
  BY <1>1, QueueAssumption DEF Stamps, Absent
<1> QED BY <1>1, <1>2, <1>3, <1>4, OneDocument DEF SessionInv

LEMMA DeliveryStep ==
    ASSUME SessionInv, [Next]_vars
    PROVE  [Delivery!Next]_(Delivery!vars)
<1> USE DEF SessionInv
<1>1. ASSUME NEW W \in SUBSET Workers, Leave(W), db' = db PROVE Delivery!Next
  <2>1. Delivery!Drop(W)
    BY <1>1, LeaveIsDrop, SameDocuments DEF Delivery!Drop
  <2> QED BY <2>1 DEF Delivery!Next
<1>2. ASSUME NEW w \in Workers, pc[w] = "removing", Leave({w}),
             db' = [db EXCEPT ![job[w]] = Absent]
      PROVE  Delivery!Next
  <2>1. job[w] \in Entries /\ job[w] # NoEntry /\ Claim[w] = job[w]
    BY <1>2, QueueAssumption DEF TypeOK, Claim
  <2>2. Visibility' = [Visibility EXCEPT ![job[w]] = "absent"]
    BY <1>2, <2>1, OneDocument
  <2>3. Claim' = [Claim EXCEPT ![w] = NoEntry]
    <3>1. Claim' = [v \in Workers |-> IF v \in {w} THEN NoEntry ELSE Claim[v]]
      BY <1>2, LeaveIsDrop
    <3>2. Claim = [v \in Workers |-> Claim[v]]
      BY DEF Claim
    <3> QED BY <3>1, <3>2
  <2>4. Delivery!Remove(w)
    BY <2>1, <2>2, <2>3 DEF Delivery!Remove
  <2> QED BY <2>4 DEF Delivery!Next
<1>3. ASSUME NEW w \in Workers,
             \/ StartDequeue(w) \/ OpenSession(w) \/ NextQueue(w) \/ FetchConflict(w)
             \/ EndScan(w) \/ EndWait(w) \/ \E e \in Entries : Pick(w, e)
      PROVE  UNCHANGED Delivery!vars
  <2>1. /\ db' = db /\ pc[w] \notin {"working", "removing"}
        /\ pc'[w] \notin {"working", "removing"}
        /\ \A v \in Workers \ {w} : pc'[v] = pc[v] /\ job'[v] = job[v]
    BY <1>3 DEF StartDequeue, OpenSession, NextQueue, FetchConflict, EndScan, EndWait,
       Pick, TypeOK
  <2>2. Claim' = Claim
    BY <2>1 DEF Claim
  <2> QED BY <2>1, <2>2, SameDocuments DEF Delivery!vars
<1>4. ASSUME NEW w \in Workers, Fetch(w) PROVE Delivery!Next
  <2>1. /\ pc[w] = "saving" /\ CanSave(w) /\ db' = Saved(w)
        /\ pc' = [pc EXCEPT ![w] = "working"] /\ job' = job
    BY <1>4 DEF Fetch
  <2>2. job[w] \in Entries
    BY <2>1, SaveIsSound
  <2>3. Claim[w] = NoEntry /\ Claim' = [Claim EXCEPT ![w] = job[w]]
    BY <2>1 DEF Claim, TypeOK
  <2>4. Delivery!Take(w, job[w])
    BY <2>1, <2>3, SaveIsTake DEF Delivery!Take
  <2> QED BY <2>2, <2>4 DEF Delivery!Next
<1>5. ASSUME NEW w \in Workers, FailDequeue(w) PROVE Delivery!Next \/ UNCHANGED Delivery!vars
  <2>1. CASE pc[w] = "saving" /\ CanSave(w) /\ db' = Saved(w)
    <3>1. Claim' = Claim
      BY <2>1, <1>5, LeaveIsDrop DEF Claim, FailDequeue
    <3>2. job[w] \in Entries
      BY <2>1, SaveIsSound
    <3>3. PICK s \in {"hidden", "visible"} : Visibility' = [Visibility EXCEPT ![job[w]] = s]
      BY <2>1, SaveIsTake
    <3>4. Visibility[job[w]] = "visible"
      BY <2>1, SaveIsTake
    <3>5. CASE s = "hidden"
      <4>1. Delivery!Misplace(job[w])
        BY <3>1, <3>3, <3>4, <3>5 DEF Delivery!Misplace
      <4> QED BY <3>2, <4>1 DEF Delivery!Next
    <3>6. CASE s = "visible"
      <4>1. Visibility' = Visibility
        BY <3>2, <3>3, <3>4, <3>6 DEF Visibility
      <4> QED BY <3>1, <4>1 DEF Delivery!vars
    <3> QED BY <3>5, <3>6
  <2> QED BY <1>5, <1>1, <2>1 DEF FailDequeue
<1>6. ASSUME NEW w \in Workers, RemoveLoad(w) PROVE Delivery!Next \/ UNCHANGED Delivery!vars
  <2>1. CASE db[job[w]] = Absent
    BY <2>1, <1>6, <1>1 DEF RemoveLoad
  <2>2. CASE db[job[w]] # Absent
    <3>1. db' = db /\ job' = job /\ pc[w] = "working" /\ pc' = [pc EXCEPT ![w] = "removing"]
      BY <2>2, <1>6 DEF RemoveLoad
    <3>2. Claim' = Claim
      BY <3>1 DEF Claim, TypeOK
    <3> QED BY <3>1, <3>2, SameDocuments DEF Delivery!vars
  <2> QED BY <2>1, <2>2
<1>7. ASSUME NEW e \in Entries, Enqueue(e) PROVE Delivery!Next
  <2>1. db' = [db EXCEPT ![e] = NotFetched] /\ Claim' = Claim
    BY <1>7 DEF Enqueue, Claim
  <2>2. NotFetched # Absent /\ NotFetched \in Visible
    BY DEF Visible, NotFetched, Absent
  <2>3. Visibility' = [Visibility EXCEPT ![e] = "visible"]
    BY <2>1, <2>2, OneDocument
  <2>4. Delivery!Put(e)
    BY <2>1, <2>3 DEF Delivery!Put
  <2> QED BY <2>4 DEF Delivery!Next
<1>8. ASSUME Tick PROVE Delivery!Next
  <2> DEFINE E == {e \in Entries : db[e] = 1}
  <2>1. Claim' = Claim
    BY <1>8 DEF Tick, Claim
  <2>2. ASSUME NEW e \in Entries
        PROVE  Visibility'[e] = IF e \in E /\ Visibility[e] = "hidden"
                                THEN "visible" ELSE Visibility[e]
    <3>1. db'[e] = Less(db[e]) /\ db[e] \in {Absent, NotFetched} \cup Stamps
      BY <1>8 DEF Tick, TypeOK
    <3> QED
      BY <3>1, QueueAssumption DEF Visibility, Visible, Less, Stamps, Absent, NotFetched
  <2>3. Delivery!Reappear(E)
    BY <2>1, <2>2 DEF Delivery!Reappear, Visibility
  <2> QED BY <2>3 DEF Delivery!Next
<1>9. ASSUME NEW w \in Workers, FailRemove(w) PROVE Delivery!Next
  BY <1>9, <1>1, <1>2 DEF FailRemove
<1>10. ASSUME NEW w \in Workers, Cancel(w) \/ Requeue(w) PROVE Delivery!Next
  BY <1>10, <1>1 DEF Cancel, Requeue
<1>11. ASSUME NEW w \in Workers, RemoveDelete(w) PROVE Delivery!Next
  BY <1>11, <1>2 DEF RemoveDelete
<1>12. ASSUME NEW p \in Faulty, Crash(p) PROVE Delivery!Next
  BY <1>12, <1>1 DEF Crash
<1>13. CASE UNCHANGED vars
  BY <1>13 DEF vars, Delivery!vars, Visibility, Claim
<1> QED
  BY <1>3, <1>4, <1>5, <1>6, <1>7, <1>8, <1>9, <1>10, <1>11, <1>12, <1>13 DEF Next

\* Whatever clients, workers, crashes and lost replies do, the queue is a
\* DeliveryQueue, for any queues, entries, workers and timeout.
THEOREM QueueDelivers == Spec => ImplementsDeliveryQueue
<1>1. Init => Delivery!Init
  BY DEF Init, Delivery!Init, Visibility, Claim
<1> QED
  BY <1>1, SessionInit, SessionStep, DeliveryStep, PTL DEF Spec, ImplementsDeliveryQueue, Delivery!Spec
-----------------------------------------------------------------------------
(* The second refinement: with Prompt and without re-enqueues the status of  *)
(* an entry is well defined, because its claim is exclusive, and steps are    *)
(* compared by what they do to it.                                           *)

Idle(d) ==
    IF d = Absent THEN "absent" ELSE IF d = NotFetched THEN "ready" ELSE "abandoned"

\* The status of an entry is the worker that claims it, or follows the document.
LEMMA StatusNow ==
    ASSUME ClaimInv, NEW e \in Entries
    PROVE  /\ \A w \in Workers : Claims(w, e) => Status[e] = w
           /\ ~HandedOut(e) => Status[e] = Idle(db[e])
<1>1. ASSUME NEW w \in Workers, Claims(w, e) PROVE Status[e] = w
  <2>1. db[e] # Absent /\ HandedOut(e)
    BY <1>1 DEF ClaimInv, ClaimsAreInvisible, Absent, HandedOut
  <2>2. \A v \in Workers : Claims(v, e) => v = w
    BY <1>1 DEF ClaimInv, ClaimsAreExclusive
  <2>3. (CHOOSE v \in Workers : Claims(v, e)) = w
    BY <1>1, <2>2
  <2> QED BY <2>1, <2>3 DEF Status, StatusOf
<1>2. ~HandedOut(e) => Status[e] = Idle(db[e])
  BY DEF Status, StatusOf, Idle
<1> QED BY <1>1, <1>2

LEMMA StatusNext ==
    ASSUME ClaimInv', NEW e \in Entries
    PROVE  /\ \A w \in Workers : Claims(w, e)' => Status'[e] = w
           /\ ~HandedOut(e)' => Status'[e] = Idle(db'[e])
<1>1. ASSUME NEW w \in Workers, Claims(w, e)' PROVE Status'[e] = w
  <2>1. db'[e] # Absent /\ HandedOut(e)'
    BY <1>1 DEF ClaimInv, ClaimsAreInvisible, Absent, HandedOut
  <2>2. \A v \in Workers : Claims(v, e)' => v = w
    BY <1>1 DEF ClaimInv, ClaimsAreExclusive
  <2>3. (CHOOSE v \in Workers : Claims(v, e)') = w
    BY <1>1, <2>2
  <2> QED BY <2>1, <2>3 DEF Status, StatusOf
<1>2. ~HandedOut(e)' => Status'[e] = Idle(db'[e])
  BY DEF Status, StatusOf, Idle
<1> QED BY <1>1, <1>2

\* An entry keeps its status when its claims stay and its document does not change
\* to another kind.
LEMMA StatusFrame ==
    ASSUME ClaimInv, ClaimInv', NEW e \in Entries, Idle(db'[e]) = Idle(db[e]),
           \A w \in Workers : Claims(w, e)' <=> Claims(w, e)
    PROVE  Status'[e] = Status[e]
<1>1. CASE HandedOut(e)
  BY <1>1, StatusNow, StatusNext DEF HandedOut
<1>2. CASE ~HandedOut(e)
  <2>1. ~HandedOut(e)'
    BY <1>2 DEF HandedOut
  <2> QED BY <1>2, <2>1, StatusNow, StatusNext
<1> QED BY <1>1, <1>2

\* A step that changes the status of one entry.
LEMMA OneStatus ==
    ASSUME NEW e \in Entries, NEW s, Status'[e] = s,
           \A f \in Entries \ {e} : Status'[f] = Status[f]
    PROVE  Status' = [Status EXCEPT ![e] = s]
<1>1. Status = [f \in Entries |-> Status[f]]
  BY DEF Status
<1>2. Status' = [f \in Entries |-> Status'[f]]
  BY DEF Status
<1> QED BY <1>1, <1>2

\* An entry that nobody has is unknown to all workers, and a worker has one at most.
LEMMA StatusClaims ==
    ASSUME ClaimInv, NEW e \in Entries, NEW w \in Workers
    PROVE  Status[e] = w <=> Claims(w, e)
<1>1. CASE HandedOut(e)
  <2>1. PICK v \in Workers : Claims(v, e)
    BY <1>1 DEF HandedOut
  <2> QED BY <2>1, StatusNow DEF ClaimInv, ClaimsAreExclusive
<1>2. CASE ~HandedOut(e)
  <2>1. Status[e] \in {"absent", "ready", "abandoned"}
    BY <1>2, StatusNow DEF Idle
  <2> QED BY <1>2, <2>1, NamesAssumption DEF HandedOut
<1> QED BY <1>1, <1>2
\* Leaving without a change to a document abandons what the workers had.
LEMMA LeaveAbandons ==
    ASSUME ClaimInv, ClaimInv', NEW W \in SUBSET Workers, Leave(W), db' = db
    PROVE  Abstract!Abandon(W)
<1>1. ASSUME NEW e \in Entries
      PROVE  Status'[e] = IF Status[e] \in W THEN "abandoned" ELSE Status[e]
  <2>1. \A w \in Workers : Claims(w, e)' <=> Claims(w, e) /\ w \notin W
    BY DEF Leave, Claims
  <2>2. CASE \E w \in W : Claims(w, e)
    <3>1. PICK w \in W : Claims(w, e)
      BY <2>2
    <3>2. Status[e] = w /\ w \in W
      BY <3>1, StatusNow
    <3>3. \A v \in Workers : Claims(v, e) => v = w
      BY <3>1 DEF ClaimInv, ClaimsAreExclusive
    <3>4. ~HandedOut(e)'
      BY <2>1, <3>1, <3>3 DEF HandedOut
    <3>5. db'[e] > 0
      BY <3>1 DEF ClaimInv, ClaimsAreInvisible
    <3>6. Idle(db'[e]) = "abandoned"
      BY <3>5 DEF Idle, Absent, NotFetched
    <3> QED BY <3>2, <3>4, <3>6, StatusNext
  <2>3. CASE \A w \in W : ~Claims(w, e)
    <3>1. Status'[e] = Status[e]
      BY <2>1, <2>3, StatusFrame
    <3>2. Status[e] \notin W
      BY <2>3, StatusClaims
    <3> QED BY <3>1, <3>2
  <2> QED BY <2>2, <2>3
<1>2. Status' = [e \in Entries |-> Status'[e]]
  BY DEF Status
<1> QED BY <1>1, <1>2 DEF Abstract!Abandon

\* What a save finds: an entry that nobody has.
LEMMA SavedEntryIsIdle ==
    ASSUME ClaimInv, NEW w \in Workers, pc[w] = "saving", CanSave(w), db' = Saved(w)
    PROVE  /\ job[w] \in Entries /\ Status[job[w]] \in {"ready", "abandoned"}
           /\ db'[job[w]] \in Stamps
           /\ \A e \in Entries \ {job[w]} : db'[e] = db[e]
           /\ \A v \in Workers : ~Claims(v, job[w])
<1>1. /\ job[w] \in Entries /\ db[job[w]] \in Visible /\ db'[job[w]] \in Stamps
      /\ \A e \in Entries \ {job[w]} : db'[e] = db[e]
  BY SaveIsSound DEF ClaimInv
<1>2. \A v \in Workers : ~Claims(v, job[w])
  BY <1>1 DEF ClaimInv, ClaimsAreInvisible, Visible, NotFetched
<1>3. ~HandedOut(job[w]) /\ db[job[w]] # Absent
  BY <1>1, <1>2 DEF HandedOut, Visible, NotFetched, Absent
<1>4. Status[job[w]] \in {"ready", "abandoned"}
  BY <1>1, <1>3, StatusNow DEF Idle
<1> QED BY <1>1, <1>2, <1>4

LEMMA WorkStep ==
    ASSUME Prompt, ~Reenqueue, ClaimInv, [Next]_vars
    PROVE  [Abstract!Next]_Status
<1>0. ClaimInv'
  BY ClaimStep
<1> USE <1>0
<1>1. ASSUME NEW W \in SUBSET Workers, Leave(W), db' = db PROVE Abstract!Next
  BY <1>1, LeaveAbandons DEF Abstract!Next
<1>2. ASSUME NEW w \in Workers, pc[w] = "removing", Leave({w}),
             db' = [db EXCEPT ![job[w]] = Absent]
      PROVE  Abstract!Next
  <2>1. PICK e \in Entries : e = job[w] /\ Claims(w, e)
    BY <1>2 DEF ClaimInv, SessionInv, TypeOK, Claims
  <2>2. Status[e] = w
    BY <2>1, StatusNow
  <2>3. \A v \in Workers, f \in Entries : Claims(v, f)' <=> Claims(v, f) /\ v # w
    BY <1>2 DEF Leave, Claims
  <2>4. ~HandedOut(e)' /\ db'[e] = Absent
    BY <1>2, <2>1, <2>3 DEF HandedOut, ClaimInv, ClaimsAreExclusive, SessionInv, TypeOK
  <2>5. Status'[e] = "absent"
    BY <2>4, StatusNext DEF Idle
  <2>6. ASSUME NEW f \in Entries \ {e} PROVE Status'[f] = Status[f]
    <3>1. \A v \in Workers : Claims(v, f)' <=> Claims(v, f)
      BY <2>1, <2>3 DEF Claims
    <3>2. db'[f] = db[f]
      BY <1>2, <2>1 DEF ClaimInv, SessionInv, TypeOK
    <3> QED BY <3>1, <3>2, StatusFrame
  <2>7. Status' = [Status EXCEPT ![e] = "absent"]
    BY <2>5, <2>6, OneStatus
  <2> QED BY <2>2, <2>7 DEF Abstract!Next, Abstract!Finish
<1>3. ASSUME NEW w \in Workers,
             \/ StartDequeue(w) \/ OpenSession(w) \/ NextQueue(w) \/ FetchConflict(w)
             \/ EndScan(w) \/ EndWait(w) \/ \E e \in Entries : Pick(w, e)
      PROVE  db' = db /\ \A v \in Workers, e \in Entries : Claims(v, e)' <=> Claims(v, e)
  BY <1>3 DEF StartDequeue, OpenSession, NextQueue, FetchConflict, EndScan, EndWait,
     Pick, Claims, ClaimInv, SessionInv, TypeOK
<1>4. ASSUME NEW w \in Workers, Fetch(w) PROVE Abstract!Next
  <2>1. /\ pc[w] = "saving" /\ CanSave(w) /\ db' = Saved(w) /\ job' = job
        /\ pc'[w] = "working" /\ \A v \in Workers \ {w} : pc'[v] = pc[v]
    BY <1>4 DEF Fetch, ClaimInv, SessionInv, TypeOK
  <2>2. PICK e \in Entries :
            /\ e = job[w] /\ Status[e] \in {"ready", "abandoned"}
            /\ \A f \in Entries \ {e} : db'[f] = db[f]
            /\ \A v \in Workers : ~Claims(v, e)
    BY <2>1, SavedEntryIsIdle
  <2>3. Status'[e] = w
    BY <2>1, <2>2, StatusNext DEF Claims
  <2>4. ASSUME NEW f \in Entries \ {e} PROVE Status'[f] = Status[f]
    <3>1. \A v \in Workers : Claims(v, f)' <=> Claims(v, f)
      BY <2>1, <2>2 DEF Claims
    <3> QED BY <2>2, <3>1, StatusFrame
  <2>5. \A f \in Entries : Status[f] # w
    BY <2>1, StatusClaims DEF Claims
  <2>6. Status' = [Status EXCEPT ![e] = w]
    BY <2>3, <2>4, OneStatus
  <2> QED BY <2>2, <2>5, <2>6 DEF Abstract!Next, Abstract!Take
<1>5. ASSUME NEW w \in Workers, pc[w] = "saving", CanSave(w), db' = Saved(w), Leave({w})
      PROVE  Abstract!Next \/ UNCHANGED Status
  <2>1. PICK e \in Entries :
            /\ e = job[w] /\ Status[e] \in {"ready", "abandoned"} /\ db'[e] \in Stamps
            /\ \A f \in Entries \ {e} : db'[f] = db[f]
            /\ \A v \in Workers : ~Claims(v, e)
    BY <1>5, SavedEntryIsIdle
  <2>2. \A v \in Workers, f \in Entries : Claims(v, f)' <=> Claims(v, f)
    BY <1>5 DEF Leave, Claims
  <2>3. Status'[e] = "abandoned"
    <3>1. ~HandedOut(e)'
      BY <2>1, <2>2 DEF HandedOut
    <3>2. Idle(db'[e]) = "abandoned"
      BY <2>1, QueueAssumption DEF Idle, Stamps, Absent, NotFetched
    <3> QED BY <3>1, <3>2, StatusNext
  <2>4. \A f \in Entries \ {e} : Status'[f] = Status[f]
    BY <2>1, <2>2, StatusFrame
  <2>5. Status' = [Status EXCEPT ![e] = "abandoned"]
    BY <2>3, <2>4, OneStatus
  <2>6. CASE Status[e] = "ready"
    BY <2>5, <2>6 DEF Abstract!Next, Abstract!Misplace
  <2>7. CASE Status[e] = "abandoned"
    <3>1. Status = [f \in Entries |-> Status[f]]
      BY DEF Status
    <3> QED BY <2>5, <2>7, <3>1
  <2> QED BY <2>1, <2>6, <2>7
<1>6. ASSUME NEW e \in Entries, Enqueue(e) PROVE Abstract!Next
  <2>1. /\ db[e] = Absent /\ ~HandedOut(e) /\ db' = [db EXCEPT ![e] = NotFetched]
        /\ \A v \in Workers, f \in Entries : Claims(v, f)' <=> Claims(v, f)
    BY <1>6 DEF Enqueue, Claims
  <2>2. ~HandedOut(e)' /\ db'[e] = NotFetched
    BY <2>1 DEF HandedOut, ClaimInv, SessionInv, TypeOK
  <2>3. Status[e] = "absent" /\ Status'[e] = "ready"
    BY <2>1, <2>2, StatusNow, StatusNext DEF Idle, Absent, NotFetched
  <2>4. ASSUME NEW f \in Entries \ {e} PROVE Status'[f] = Status[f]
    <3>1. db'[f] = db[f]
      BY <2>1 DEF ClaimInv, SessionInv, TypeOK
    <3> QED BY <2>1, <3>1, StatusFrame
  <2>5. Status' = [Status EXCEPT ![e] = "ready"]
    BY <2>3, <2>4, OneStatus
  <2> QED BY <2>3, <2>5 DEF Abstract!Next, Abstract!Put
<1>7. ASSUME \A e \in Entries : Idle(db'[e]) = Idle(db[e]),
             \A v \in Workers, e \in Entries : Claims(v, e)' <=> Claims(v, e)
      PROVE  UNCHANGED Status
  <2>1. \A e \in Entries : Status'[e] = Status[e]
    BY <1>7, StatusFrame
  <2>2. /\ Status = [f \in Entries |-> Status[f]]
        /\ Status' = [f \in Entries |-> Status'[f]]
    BY DEF Status
  <2> QED BY <2>1, <2>2
<1>8. ASSUME Tick PROVE UNCHANGED Status
  <2>1. ASSUME NEW e \in Entries PROVE Idle(db'[e]) = Idle(db[e])
    <3>1. db'[e] = Less(db[e]) /\ db[e] \in {Absent, NotFetched} \cup Stamps
      BY <1>8 DEF Tick, ClaimInv, SessionInv, TypeOK
    <3> QED BY <3>1, QueueAssumption DEF Idle, Less, Stamps, Absent, NotFetched
  <2>2. \A v \in Workers, e \in Entries : Claims(v, e)' <=> Claims(v, e)
    BY <1>8 DEF Tick, Claims
  <2> QED BY <1>7, <2>1, <2>2
<1>9. ASSUME NEW w \in Workers, RemoveLoad(w) PROVE Abstract!Next \/ UNCHANGED Status
  <2>1. CASE Leave({w})
    BY <1>1, <1>9, <2>1 DEF RemoveLoad
  <2>2. CASE pc[w] = "working" /\ pc' = [pc EXCEPT ![w] = "removing"] /\ job' = job
    <3>1. \A v \in Workers, e \in Entries : Claims(v, e)' <=> Claims(v, e)
      BY <2>2 DEF Claims, ClaimInv, SessionInv, TypeOK
    <3> QED BY <1>7, <1>9, <3>1 DEF RemoveLoad
  <2> QED BY <1>9, <2>1, <2>2 DEF RemoveLoad
<1>10. ASSUME NEW w \in Workers,
              Cancel(w) \/ FailDequeue(w) \/ RemoveDelete(w) \/ FailRemove(w) \/ Requeue(w)
       PROVE  Abstract!Next \/ UNCHANGED Status
  BY <1>10, <1>1, <1>2, <1>5 DEF Cancel, FailDequeue, RemoveDelete, FailRemove, Requeue
<1>11. ASSUME NEW p \in Faulty, Crash(p) PROVE Abstract!Next
  BY <1>11, <1>1 DEF Crash
<1>12. CASE UNCHANGED vars
  BY <1>7, <1>12 DEF vars, Claims
<1> QED
  BY <1>3, <1>4, <1>6, <1>7, <1>8, <1>9, <1>10, <1>11, <1>12 DEF Next

\* While jobs are finished in time and enqueued once at a time, the queue is a
\* WorkQueue: one worker at a time has an entry, and only one that had it ends it.
THEOREM QueueImplements == ASSUME Prompt, ~Reenqueue PROVE Spec => ImplementsWorkQueue
<1>1. Init => ClaimInv
  BY SessionInit DEF Init, ClaimInv, ClaimsAreInvisible, ClaimsAreExclusive, Claims
<1>2. Init => Abstract!Init
  BY DEF Init, Abstract!Init, Status, StatusOf
<1>3. ClaimInv /\ [Next]_vars => ClaimInv' /\ [Abstract!Next]_Status
  BY ClaimStep, WorkStep
<1> QED
  BY <1>1, <1>2, <1>3, PTL DEF Spec, ImplementsWorkQueue, Abstract!Spec
=============================================================================

------------------------ MODULE WriteTransactionProofs ------------------------
(***************************************************************************)
(* Proofs about WriteTransaction, for any transactions, calls, documents,   *)
(* items and changes: types, what a session holds, and what a commit does.  *)
(* The inductive invariant is CopiesInv (what is current), TypesInv (of     *)
(* which type everything is) and ReplaysInv (what copies and patches are to *)
(* the changes asked for), each inductive relative to those before it.      *)
(***************************************************************************)
EXTENDS WriteTransactionLemmas

\* A table of what each session says of each document.
IsTable(f) == f = [s \in Sessions |-> [d \in Docs |-> f[s][d]]]

\* The documents are of their types.
Stored ==
    /\ db = [d \in Docs |-> db[d]]
    /\ Bounded(db)

\* A current copy was loaded as the document is now; a session has no copy of
\* what it has not loaded, and none of a missing job.
CopiesInv ==
    /\ Stored
    /\ IsTable(base) /\ IsTable(copy)
    /\ fresh \in [Sessions -> SUBSET Docs]
    /\ \A s \in Sessions : \A d \in fresh[s] : base[s][d] = db[d]
    /\ \A s \in Sessions, d \in Docs : base[s][d] = Untracked => copy[s][d] = Untracked
    /\ \A s \in Sessions, j \in Jobs : base[s][j] # Absent

\* Every document can be told from no copy, and a counter holds a number.
LEMMA StoredTyped ==
    ASSUME Stored
    PROVE  /\ \A d \in Docs : db[d] # Untracked /\ db[d] \in CopiesOf(d) \cup {Absent}
           /\ \A c \in Counters : db[c] \in CounterDocs(Int) \cup {Absent}
<1>1. \A d \in Docs : db[d] \in CopiesOf(d) \cup {Absent}
  BY DocsAreCopies DEF Stored, Bounded
<1>2. \A d \in Docs : db[d] # Untracked
  BY <1>1, KindsAssumption, TransactionAssumption
<1>3. \A c \in Counters : c \in Docs
  BY DEF Docs
<1> QED BY <1>1, <1>2, <1>3, TypesOfCopies

LEMMA CopiesInit == Init => CopiesInv
<1> SUFFICES ASSUME Init PROVE CopiesInv
  OBVIOUS
<1>1. Stored
  BY DEF Init, Stored, Bounded
<1>2. IsTable(base) /\ IsTable(copy)
  BY DEF Init, IsTable, Unused
<1> QED
  BY <1>1, <1>2, TransactionAssumption DEF Init, CopiesInv, Unused, Docs

\* A batch changes no document but those it writes: the patch of a counter that
\* adds up to zero does nothing.
LEMMA OthersStay ==
    ASSUME Stored, NEW s \in Sessions, NEW d \in Docs, d \notin Written(s)
    PROVE  After(s)[d] = db[d]
<1>1. d \notin gone[s] /\ d \notin Puts(s)
  BY DEF Written
<1>2. After(s)[d] = Patched(s, d, db[d])
  BY <1>1 DEF After
<1>3. CASE d \in Counters /\ db[d] # Absent
  <2>1. patches[s][d] = 0 /\ db[d] \in CounterDocs(Int)
    BY <1>3, StoredTyped DEF Written
  <2>2. db[d].val + 0 = db[d].val
    BY <2>1 DEF CounterDocs
  <2>3. [db[d] EXCEPT !.val = db[d].val] = db[d]
    BY <2>1 DEF CounterDocs
  <2> QED BY <1>2, <1>3, <2>1, <2>2, <2>3 DEF Patched
<1>4. CASE ~(d \in Counters /\ db[d] # Absent)
  BY <1>2, <1>4 DEF Patched
<1> QED BY <1>3, <1>4

\* What a change finds, and what it makes of it.
Old(s, op) == Load(s, op.doc)
ByPatch(s, op) == op.doc \in Counters /\ Old(s, op) # Absent
New(s, op) == IF ByPatch(s, op) THEN Old(s, op) ELSE Apply(op, Old(s, op))

\* The change of one copy concerns no other copy.
LEMMA ChangeTables ==
    ASSUME CopiesInv, NEW s \in Sessions, NEW op, NEW rewrite, op.doc \in Docs,
           Change(s, op, rewrite)
    PROVE  /\ IsTable(base)' /\ IsTable(copy)'
           /\ \A u \in Sessions, e \in Docs :
                 /\ base'[u][e] = IF u = s /\ e = op.doc /\ base[s][op.doc] = Untracked
                                  THEN Old(s, op) ELSE base[u][e]
                 /\ copy'[u][e] = IF u = s /\ e = op.doc THEN New(s, op) ELSE copy[u][e]
<1>1. ASSUME NEW f, f = [u \in Sessions |-> [e \in Docs |-> f[u][e]]], NEW v
      PROVE  [f EXCEPT ![s][op.doc] = v] =
                [u \in Sessions |-> [e \in Docs |->
                    IF u = s /\ e = op.doc THEN v ELSE f[u][e]]]
  BY <1>1
<1>2. PICK loaded : /\ loaded = IF base[s][op.doc] = Untracked
                                THEN Old(s, op) ELSE base[s][op.doc]
                    /\ base' = [base EXCEPT ![s][op.doc] = loaded]
  BY DEF Change, Old
<1>3. copy' = [copy EXCEPT ![s][op.doc] = New(s, op)]
  BY DEF Change, Old, ByPatch, New
<1>4. /\ base' = [u \in Sessions |-> [e \in Docs |->
                     IF u = s /\ e = op.doc THEN loaded ELSE base[u][e]]]
      /\ copy' = [u \in Sessions |-> [e \in Docs |->
                     IF u = s /\ e = op.doc THEN New(s, op) ELSE copy[u][e]]]
  <2>1. /\ base = [u \in Sessions |-> [e \in Docs |-> base[u][e]]]
        /\ copy = [u \in Sessions |-> [e \in Docs |-> copy[u][e]]]
    BY DEF CopiesInv, IsTable
  <2>2. base' = [base EXCEPT ![s][op.doc] = loaded]
    BY <1>2
  <2>3. [base EXCEPT ![s][op.doc] = loaded] =
            [u \in Sessions |-> [e \in Docs |->
                IF u = s /\ e = op.doc THEN loaded ELSE base[u][e]]]
    BY <1>1, <2>1
  <2>4. [copy EXCEPT ![s][op.doc] = New(s, op)] =
            [u \in Sessions |-> [e \in Docs |->
                IF u = s /\ e = op.doc THEN New(s, op) ELSE copy[u][e]]]
    BY <1>1, <2>1
  <2> QED BY <1>3, <2>2, <2>3, <2>4
<1>5. IsTable(base)' /\ IsTable(copy)'
  BY <1>4 DEF IsTable
<1>6. \A u \in Sessions, e \in Docs :
          /\ base'[u][e] = IF u = s /\ e = op.doc THEN loaded ELSE base[u][e]
          /\ copy'[u][e] = IF u = s /\ e = op.doc THEN New(s, op) ELSE copy[u][e]
  BY <1>4
<1> QED BY <1>2, <1>5, <1>6

LEMMA ChangeKeepsCopies ==
    ASSUME CopiesInv, NEW s \in Sessions, NEW op, NEW rewrite, op.doc \in Docs,
           Change(s, op, rewrite)
    PROVE  CopiesInv'
<1> DEFINE d == op.doc
<1>1. /\ d \in Jobs => Old(s, op) # Absent
      /\ fresh' = [fresh EXCEPT ![s] =
                      IF base[s][d] = Untracked THEN @ \cup {d} ELSE @]
      /\ db' = db
  BY DEF Change, Old
<1>2. Stored'
  BY <1>1 DEF CopiesInv, Stored, Bounded
<1>3. base[s][d] = Untracked => Old(s, op) = db[d] /\ Old(s, op) # Untracked
  BY StoredTyped DEF CopiesInv, Load, Old
<1> HIDE DEF d
<1>4. \A u \in Sessions, e \in Docs :
          /\ base'[u][e] = IF u = s /\ e = d /\ base[s][d] = Untracked
                           THEN Old(s, op) ELSE base[u][e]
          /\ ~ (u = s /\ e = d) => copy'[u][e] = copy[u][e]
  BY ChangeTables DEF d
<1>5. fresh' \in [Sessions -> SUBSET Docs]
  BY <1>1 DEF CopiesInv, d
<1>6. ASSUME NEW u \in Sessions, NEW e \in fresh'[u] PROVE base'[u][e] = db'[e]
  <2>1. e \in Docs
    BY <1>5, <1>6
  <2>2. CASE u = s /\ e = d /\ base[s][d] = Untracked
    BY <1>1, <1>3, <1>4, <2>1, <2>2
  <2>3. CASE ~(u = s /\ e = d /\ base[s][d] = Untracked)
    <3>1. e \in fresh[u]
      BY <1>1, <1>6, <2>3 DEF CopiesInv
    <3> QED BY <1>1, <1>4, <2>1, <2>3, <3>1 DEF CopiesInv
  <2> QED BY <2>2, <2>3
<1>7. ASSUME NEW u \in Sessions, NEW e \in Docs, base'[u][e] = Untracked
      PROVE  copy'[u][e] = Untracked
  BY <1>3, <1>4, <1>7 DEF CopiesInv
<1>8. ASSUME NEW u \in Sessions, NEW j \in Jobs PROVE base'[u][j] # Absent
  <2>1. j \in Docs
    BY DEF Docs
  <2> QED BY <1>1, <1>4, <2>1 DEF CopiesInv
<1> QED
  BY <1>2, <1>5, <1>6, <1>7, <1>8, ChangeTables DEF CopiesInv

\* The end of a session: what it has written is current in no session any more.
LEMMA FinishKeepsCopies ==
    ASSUME CopiesInv, Stored', NEW s \in Sessions, NEW W, Finish(s, W),
           \A d \in Docs \ W : db'[d] = db[d]
    PROVE  CopiesInv'
<1>1. /\ base' = [u \in Sessions |-> [e \in Docs |->
                     IF u = s THEN Untracked ELSE base[u][e]]]
      /\ copy' = [u \in Sessions |-> [e \in Docs |->
                     IF u = s THEN Untracked ELSE copy[u][e]]]
  BY DEF Finish, CopiesInv, IsTable, Unused
<1>2. IsTable(base)' /\ IsTable(copy)'
  BY <1>1 DEF IsTable
<1>3. fresh' \in [Sessions -> SUBSET Docs]
  BY DEF Finish, CopiesInv
<1>4. ASSUME NEW u \in Sessions, NEW e \in fresh'[u] PROVE base'[u][e] = db'[e]
  <2>1. u # s /\ e \in fresh[u] /\ e \notin W /\ e \in Docs
    BY <1>4 DEF Finish, CopiesInv
  <2> QED BY <1>1, <2>1 DEF CopiesInv
<1>5. \A u \in Sessions, e \in Docs : base'[u][e] = Untracked => copy'[u][e] = Untracked
  BY <1>1 DEF CopiesInv
<1>6. \A u \in Sessions, j \in Jobs : base'[u][j] # Absent
  BY <1>1, TransactionAssumption DEF CopiesInv, Docs
<1> QED
  BY <1>2, <1>3, <1>4, <1>5, <1>6 DEF CopiesInv

LEMMA CommitKeepsCopies ==
    ASSUME CopiesInv, NEW s \in Sessions, Commit(s)
    PROVE  CopiesInv'
<1>1. After(s) = [d \in Docs |-> After(s)[d]]
  BY DEF After
<1>2. Stored'
  BY <1>1 DEF Commit, Stored, Bounded
<1>3. \A d \in Docs \ Written(s) : db'[d] = db[d]
  BY OthersStay DEF Commit, CopiesInv
<1> QED BY <1>2, <1>3, FinishKeepsCopies DEF Commit

\* A new job has an id that no session knows.
LEMMA CreateKeepsCopies ==
    ASSUME CopiesInv, NEW j \in Jobs, CreateExpiredJob(j)
    PROVE  CopiesInv'
<1> DEFINE new == [val |-> [history |-> <<>>, retryCount |-> NoRetries], exp |-> TRUE]
<1>1. db[j] = Absent /\ db' = [db EXCEPT ![j] = new] /\ j \in Docs
  BY DEF CreateExpiredJob, Docs
<1>2. new \in DocsOf(j)
  <2>1. <<>> \in Histories
    <3>1. <<>> \in [1..0 -> Items] /\ 0 \in 0..MaxLength
      BY TransactionAssumption
    <3> QED BY <3>1 DEF Histories
  <2>2. new \in JobDocs(Histories)
    BY <2>1 DEF JobDocs
  <2> QED BY <2>2 DEF DocsOf, DocsWith
<1>3. Stored'
  <2> HIDE DEF new
  <2> QED BY <1>1, <1>2 DEF CopiesInv, Stored, Bounded
<1>4. \A s \in Sessions : j \notin fresh[s]
  BY <1>1 DEF CopiesInv
<1>5. UNCHANGED <<base, copy, fresh>>
  BY DEF CreateExpiredJob
<1>6. \A s \in Sessions : \A d \in fresh[s] : db'[d] = db[d]
  BY <1>1, <1>4 DEF CopiesInv, Stored
<1> QED BY <1>3, <1>5, <1>6 DEF CopiesInv, IsTable

LEMMA ExpireKeepsCopies ==
    ASSUME CopiesInv, NEW d \in Docs, Expire(d)
    PROVE  CopiesInv'
<1>1. /\ db' = [db EXCEPT ![d] = Absent] /\ UNCHANGED <<base, copy>>
      /\ fresh' = [s \in Sessions |-> fresh[s] \ {d}]
  BY DEF Expire, Overwritten
<1>2. Stored'
  BY <1>1 DEF CopiesInv, Stored, Bounded
<1>3. \A s \in Sessions : \A e \in fresh'[s] : e \in fresh[s] /\ db'[e] = db[e]
  BY <1>1 DEF CopiesInv, Stored
<1>4. fresh' \in [Sessions -> SUBSET Docs]
  BY <1>1 DEF CopiesInv
<1> QED BY <1>1, <1>2, <1>3, <1>4 DEF CopiesInv, IsTable

\* Every step keeps the current copies current.
LEMMA CopiesStep == CopiesInv /\ [Next]_vars => CopiesInv'
<1> SUFFICES ASSUME CopiesInv, [Next]_vars PROVE CopiesInv'
  OBVIOUS
<1>1. \A op \in TxnOps \cup CallOps : op.doc \in Docs
  BY OpsAssumption DEF AllTxnOps, AllCallOps, Docs
<1>2. ASSUME NEW s \in Sessions, NEW op \in TxnOps \cup CallOps, NEW rewrite,
             Change(s, op, rewrite)
      PROVE  CopiesInv'
  BY <1>1, <1>2, ChangeKeepsCopies
<1>3. ASSUME NEW s, NEW op, RemoveById(s, op) PROVE CopiesInv'
  BY <1>3 DEF RemoveById, CopiesInv, Stored, Bounded, IsTable
<1>4. ASSUME NEW s \in Sessions, Discard(s) PROVE CopiesInv'
  BY <1>4, FinishKeepsCopies DEF Discard, CopiesInv, Stored, Bounded
<1>5. CASE UNCHANGED vars
  BY <1>5 DEF vars, CopiesInv, Stored, Bounded, IsTable
<1> QED
  BY <1>2, <1>3, <1>4, <1>5, CommitKeepsCopies, CreateKeepsCopies, ExpireKeepsCopies
     DEF Next, Sessions

\* What the batch holds was loaded as the document is now.
LEMMA PutsAreCurrent ==
    ASSUME CopiesInv, NEW s \in Txns, Commit(s), NEW d \in Puts(s)
    PROVE  base[s][d] = db[d]
<1>1. IF base[s][d] = Absent THEN db[d] = Absent ELSE d \in fresh[s]
  BY DEF Commit, CanSave
<1> QED BY <1>1 DEF CopiesInv, Sessions

\* A transaction that saves writes over nothing it has not seen: each document of
\* its batch is as it was when it was loaded.
THEOREM TransactionsAreCurrent == Spec => CommitsAreCurrent
<1>1. CopiesInv => \A s \in Txns : Saves(s) => \A d \in Puts(s) : base[s][d] = db[d]
  BY PutsAreCurrent DEF Saves
<1> QED BY <1>1, CopiesInit, CopiesStep, PTL DEF Spec, CommitsAreCurrent

-----------------------------------------------------------------------------
(* Types.                                                                  *)

\* A session has a document as it was stored and a copy of its type, or neither; a
\* job and a counter are never deleted.
Paired(was, is, d) ==
    /\ was = Untracked <=> is = Untracked
    /\ was \in DocsOf(d) \cup {Absent, Untracked}
    /\ is \in CopiesOf(d) \cup {Absent, Untracked}
    /\ d \in Jobs \cup Counters => is # Absent

\* The types, with the copies that tell the types of later ones, and with the
\* bound on the patches: each change adds or takes one.
TypesInv ==
    /\ rewritten \in [Sessions -> SUBSET Docs]
    /\ gone \in [Sessions -> SUBSET (Sets \cup Lists \cup Hashes)]
    /\ patches \in [Sessions -> [Counters -> Int]]
    /\ asked \in [Sessions -> Seq(AllOps)]
    /\ \A s \in Sessions : Len(asked[s]) <= IF s \in Txns THEN MaxOps ELSE 1
    /\ \A s \in Sessions, c \in Counters : patches[s][c] \in -Len(asked[s])..Len(asked[s])
    /\ \A s \in Sessions, d \in Docs : Paired(base[s][d], copy[s][d], d)

LEMMA TypesInit == Init => TypesInv
<1> SUFFICES ASSUME Init PROVE TypesInv
  OBVIOUS
<1>1. /\ rewritten \in [Sessions -> SUBSET Docs]
      /\ gone \in [Sessions -> SUBSET (Sets \cup Lists \cup Hashes)]
      /\ patches \in [Sessions -> [Counters -> Int]]
  BY DEF Init, NoPatches
<1>2. asked \in [Sessions -> Seq(AllOps)]
  BY DEF Init
<1>3. \A s \in Sessions :
         /\ Len(asked[s]) = 0
         /\ \A c \in Counters : patches[s][c] = 0
  BY DEF Init, NoPatches
<1>4. \A s \in Sessions, d \in Docs : Paired(base[s][d], copy[s][d], d)
  BY TransactionAssumption DEF Init, Unused, Paired
<1> QED
  BY <1>1, <1>2, <1>3, <1>4, TransactionAssumption DEF TypesInv

\* What a change finds is of its type, and so is what it makes of it.
LEMMA ChangeTyped ==
    ASSUME CopiesInv, TypesInv, NEW s \in Sessions,
           NEW op \in AllTxnOps \cup AllCallOps, NEW rewrite, Change(s, op, rewrite)
    PROVE  /\ op.doc \in Docs
           /\ Old(s, op) \in CopiesOf(op.doc) \cup {Absent}
           /\ New(s, op) \in CopiesOf(op.doc) \cup {Absent}
           /\ op.doc \in Jobs \cup Counters => New(s, op) # Absent
           /\ Old(s, op) # Untracked /\ New(s, op) # Untracked
<1>1. op.doc \in Docs
  BY DEF AllTxnOps, AllCallOps, Docs
<1>2. Old(s, op) \in CopiesOf(op.doc) \cup {Absent}
  BY <1>1, StoredTyped DEF CopiesInv, TypesInv, Paired, Old, Load
<1>3. op.doc \in Jobs => Old(s, op) # Absent
  BY DEF Change, Old
<1>4. CASE op.doc \in Counters
  <2>1. Apply(op, Absent) \in CopiesOf(op.doc) /\ Apply(op, Absent) # Absent
    BY <1>4, CounterChanges, TypesOfCopies
  <2>2. New(s, op) = IF Old(s, op) # Absent THEN Old(s, op) ELSE Apply(op, Absent)
    BY <1>4 DEF New, ByPatch
  <2>3. New(s, op) \in CopiesOf(op.doc) /\ New(s, op) # Absent
    BY <1>2, <2>1, <2>2
  <2> QED BY <1>1, <1>2, <2>3, KindsAssumption, TransactionAssumption
<1>5. CASE op.doc \notin Counters
  <2>1. New(s, op) = Apply(op, Old(s, op))
    BY <1>5 DEF New, ByPatch
  <2>2. /\ Apply(op, Old(s, op)) \in CopiesOf(op.doc) \cup {Absent}
        /\ op.doc \in Jobs => Apply(op, Old(s, op)) # Absent
    BY <1>2, <1>3, <1>5, ApplyTyped
  <2> QED
    BY <1>1, <1>2, <1>5, <2>1, <2>2, KindsAssumption, TransactionAssumption
<1> QED BY <1>4, <1>5

LEMMA ChangeKeepsTypes ==
    ASSUME CopiesInv, TypesInv, NEW s \in Sessions,
           NEW op \in AllTxnOps \cup AllCallOps, NEW rewrite, Change(s, op, rewrite)
    PROVE  TypesInv'
<1>1. rewritten' \in [Sessions -> SUBSET Docs]
  <2>1. rewritten' = [rewritten EXCEPT ![s] = IF rewrite THEN @ \cup {op.doc} ELSE @]
    BY DEF Change
  <2> QED BY <2>1, ChangeTyped DEF TypesInv
<1>2. gone' \in [Sessions -> SUBSET (Sets \cup Lists \cup Hashes)]
  <2>1. gone' = [gone EXCEPT ![s] = IF New(s, op) = Absent THEN @ \cup {op.doc} ELSE @]
    BY DEF Change, Old, ByPatch, New
  <2>2. New(s, op) = Absent => op.doc \in Sets \cup Lists \cup Hashes
    BY ChangeTyped DEF Docs
  <2> QED BY <2>1, <2>2 DEF TypesInv
<1>3. /\ asked' = [asked EXCEPT ![s] = Append(@, op)]
      /\ Len(asked[s]) < IF s \in Txns THEN MaxOps ELSE 1
  BY DEF Change
<1>4. asked' \in [Sessions -> Seq(AllOps)]
  BY <1>3 DEF TypesInv, AllOps
<1>5. /\ Len(asked'[s]) = Len(asked[s]) + 1 /\ Len(asked[s]) \in Nat
      /\ \A u \in Sessions \ {s} : asked'[u] = asked[u]
  BY <1>3 DEF TypesInv
<1>6. \A u \in Sessions : Len(asked'[u]) <= IF u \in Txns THEN MaxOps ELSE 1
  BY <1>3, <1>5, TransactionAssumption DEF TypesInv
<1>7. patches' = [patches EXCEPT ![s] =
                     [c \in Counters |-> IF ByPatch(s, op) /\ c = op.doc
                                         THEN @[c] + op.arg.value ELSE @[c]]]
  BY DEF Change, Old, ByPatch
<1>8. ByPatch(s, op) => op.arg.value \in {-1, 1}
  BY CounterChanges DEF ByPatch
<1>9. /\ patches' \in [Sessions -> [Counters -> Int]]
      /\ \A u \in Sessions, c \in Counters :
            patches'[u][c] \in -Len(asked'[u])..Len(asked'[u])
  <2>1. patches' \in [Sessions -> [Counters -> Int]]
    BY <1>7, <1>8 DEF TypesInv
  <2>2. ASSUME NEW c \in Counters
        PROVE  patches'[s][c] \in {patches[s][c] - 1, patches[s][c], patches[s][c] + 1}
    <3>1. patches'[s][c] = IF ByPatch(s, op) /\ c = op.doc
                           THEN patches[s][c] + op.arg.value ELSE patches[s][c]
      BY <1>7 DEF TypesInv
    <3> QED BY <1>8, <3>1 DEF TypesInv
  <2>3. \A u \in Sessions \ {s} : patches'[u] = patches[u]
    BY <1>7 DEF TypesInv
  <2>4. ASSUME NEW c \in Counters PROVE patches'[s][c] \in -Len(asked'[s])..Len(asked'[s])
    <3>1. PICK n \in Nat : n = Len(asked[s]) /\ Len(asked'[s]) = n + 1
      BY <1>5
    <3>2. PICK p \in Int : p = patches[s][c] /\ p \in -n..n
      BY <3>1 DEF TypesInv
    <3>3. patches'[s][c] \in {p - 1, p, p + 1}
      BY <2>2, <3>2
    <3>4. patches'[s][c] \in -(n + 1)..n + 1
      BY <3>2, <3>3
    <3> QED BY <3>1, <3>4
  <2> QED BY <1>5, <2>1, <2>3, <2>4 DEF TypesInv
<1>10. ASSUME NEW u \in Sessions, NEW e \in Docs PROVE Paired(base'[u][e], copy'[u][e], e)
  <2>1. CASE ~ (u = s /\ e = op.doc)
    BY <2>1, ChangeTables, ChangeTyped DEF TypesInv
  <2>2. CASE u = s /\ e = op.doc
    <3>1. base[s][e] = Untracked => Old(s, op) = db[e]
      BY <2>2 DEF Old, Load, TypesInv, Paired
    <3>2. db[e] \in DocsOf(e) \cup {Absent}
      BY DEF CopiesInv, Stored, Bounded
    <3>3. /\ base'[u][e] = IF base[s][e] = Untracked THEN db[e] ELSE base[s][e]
          /\ copy'[u][e] = New(s, op)
      BY <2>2, <3>1, ChangeTables, ChangeTyped
    <3>4. base'[u][e] # Untracked
      BY <3>1, <3>3, <2>2, ChangeTyped
    <3> QED
      BY <2>2, <3>2, <3>3, <3>4, ChangeTyped DEF TypesInv, Paired
  <2> QED BY <2>1, <2>2
<1> QED
  BY <1>1, <1>2, <1>4, <1>6, <1>9, <1>10 DEF TypesInv

\* The end of a session leaves the others as they are.
LEMMA FinishKeepsTypes ==
    ASSUME CopiesInv, TypesInv, NEW s \in Sessions, NEW W, Finish(s, W)
    PROVE  TypesInv'
<1>1. /\ rewritten' \in [Sessions -> SUBSET Docs]
      /\ gone' \in [Sessions -> SUBSET (Sets \cup Lists \cup Hashes)]
      /\ patches' \in [Sessions -> [Counters -> Int]]
  BY DEF Finish, TypesInv, NoPatches
<1>2. asked' \in [Sessions -> Seq(AllOps)]
  BY DEF Finish, TypesInv
<1>3. \A u \in Sessions :
         IF u = s THEN Len(asked'[u]) = 0 /\ \A c \in Counters : patches'[u][c] = 0
         ELSE asked'[u] = asked[u] /\ patches'[u] = patches[u]
  BY DEF Finish, TypesInv, NoPatches
<1>4. ASSUME NEW u \in Sessions, NEW d \in Docs PROVE Paired(base'[u][d], copy'[u][d], d)
  <2>1. CASE u = s
    <3>1. base'[u][d] = Untracked /\ copy'[u][d] = Untracked
      BY <2>1 DEF Finish, CopiesInv, IsTable, Unused
    <3> QED BY <3>1, TransactionAssumption DEF Paired
  <2>2. CASE u # s
    BY <2>2 DEF Finish, TypesInv
  <2> QED BY <2>1, <2>2
<1>5. \A u \in Sessions :
         /\ Len(asked'[u]) <= IF u \in Txns THEN MaxOps ELSE 1
         /\ \A c \in Counters : patches'[u][c] \in -Len(asked'[u])..Len(asked'[u])
  BY <1>3, TransactionAssumption DEF TypesInv
<1> QED BY <1>1, <1>2, <1>4, <1>5 DEF TypesInv

LEMMA RemoveKeepsTypes ==
    ASSUME TypesInv, NEW s \in Txns, NEW op \in AllRemoveOps, RemoveById(s, op)
    PROVE  TypesInv'
<1>1. /\ s \in Sessions /\ UNCHANGED <<base, copy, rewritten, patches>>
      /\ gone' = [gone EXCEPT ![s] = @ \cup {op.doc}]
      /\ asked' = [asked EXCEPT ![s] = Append(@, op)]
      /\ Len(asked[s]) < MaxOps
  BY DEF RemoveById, Sessions
<1>2. gone' \in [Sessions -> SUBSET (Sets \cup Lists \cup Hashes)]
  BY <1>1 DEF TypesInv, AllRemoveOps
<1>3. asked' \in [Sessions -> Seq(AllOps)]
  BY <1>1 DEF TypesInv, AllOps
<1>4. ASSUME NEW u \in Sessions
      PROVE  /\ Len(asked'[u]) <= IF u \in Txns THEN MaxOps ELSE 1
             /\ \A c \in Counters : patches'[u][c] \in -Len(asked'[u])..Len(asked'[u])
  <2>1. CASE u # s
    BY <1>1, <2>1 DEF TypesInv
  <2>2. CASE u = s
    <3>1. PICK n \in Nat : n = Len(asked[s]) /\ Len(asked'[s]) = n + 1
      BY <1>1 DEF TypesInv
    <3>2. n + 1 <= MaxOps
      BY <1>1, <3>1, TransactionAssumption
    <3>3. \A c \in Counters : patches[s][c] \in -n..n
      BY <1>1, <3>1 DEF TypesInv
    <3>4. \A c \in Counters : patches'[s][c] \in -(n + 1)..n + 1
      BY <1>1, <3>3
    <3> QED BY <2>2, <3>1, <3>2, <3>4
  <2> QED BY <2>1, <2>2
<1> QED BY <1>1, <1>2, <1>3, <1>4 DEF TypesInv

\* Every step keeps the types.
LEMMA TypesStep == CopiesInv /\ TypesInv /\ [Next]_vars => TypesInv'
<1> SUFFICES ASSUME CopiesInv, TypesInv, [Next]_vars PROVE TypesInv'
  OBVIOUS
<1>1. ASSUME NEW s \in Sessions, NEW op \in TxnOps \cup CallOps, NEW rewrite,
             Change(s, op, rewrite)
      PROVE  TypesInv'
  <2>1. op \in AllTxnOps \cup AllCallOps
    BY OpsAssumption
  <2> QED BY <1>1, <2>1, ChangeKeepsTypes
<1>2. ASSUME NEW s \in Txns, NEW op \in RemoveOps, RemoveById(s, op) PROVE TypesInv'
  BY <1>2, RemoveKeepsTypes, OpsAssumption
<1>3. ASSUME NEW s \in Sessions, Commit(s) \/ Discard(s) PROVE TypesInv'
  BY <1>3, FinishKeepsTypes DEF Commit, Discard
<1>4. CASE UNCHANGED <<base, copy, rewritten, gone, patches, asked>>
  BY <1>4 DEF TypesInv
<1>5. ASSUME NEW d, CreateExpiredJob(d) \/ Expire(d) PROVE TypesInv'
  BY <1>4, <1>5 DEF CreateExpiredJob, Expire
<1> QED
  BY <1>1, <1>2, <1>3, <1>4, <1>5 DEF Next, Sessions, vars

\* The types of documents, copies and patches, whatever transactions, calls and
\* changes there are: no sequence of changes takes a copy out of its type or makes
\* it look like no copy.
THEOREM TypesHold == Spec => []TypeOK
<1>1. CopiesInv /\ TypesInv => TypeOK
  <2> SUFFICES ASSUME CopiesInv, TypesInv PROVE TypeOK
    OBVIOUS
  <2>1. patches \in [Sessions -> [Counters -> -MaxOps..MaxOps]]
    <3>1. ASSUME NEW s \in Sessions, NEW c \in Counters
          PROVE  patches[s][c] \in -MaxOps..MaxOps
      <4>1. PICK n \in Nat : n = Len(asked[s])
        BY DEF TypesInv
      <4>2. n <= MaxOps
        BY <4>1, TransactionAssumption DEF TypesInv
      <4>3. patches[s][c] \in -n..n
        BY <4>1 DEF TypesInv
      <4> QED BY <4>2, <4>3, TransactionAssumption
    <3> QED BY <3>1 DEF TypesInv
  <2> QED BY <2>1 DEF CopiesInv, Stored, Bounded, TypesInv, Paired, TypeOK
<1> QED
  BY <1>1, CopiesInit, CopiesStep, TypesInit, TypesStep, PTL DEF Spec

-----------------------------------------------------------------------------
(* Replays.                                                                *)

\* What a session holds is what the changes asked for make of the documents.
ReplaysInv ==
    /\ \A s \in Sessions :
          /\ rewritten[s] \cup fresh[s] \subseteq {d \in Docs : base[s][d] # Untracked}
          /\ rewritten[s] \cap Counters = {}
    /\ \A s \in Sessions, d \in Docs :
          Replayed(asked[s], d, base[s][d], copy[s][d], d \in gone[s])
    /\ \A s \in Sessions, c \in Counters :
          Counted(asked[s], c, base[s][c], copy[s][c], patches[s][c])

LEMMA ReplaysInit == Init => ReplaysInv
<1> SUFFICES ASSUME Init PROVE ReplaysInv
  OBVIOUS
<1>1. \A c \in Counters : c \in Docs
  BY DEF Docs
<1>2. ASSUME NEW s \in Sessions
      PROVE  /\ rewritten[s] = {} /\ fresh[s] = {} /\ gone[s] = {} /\ asked[s] = <<>>
             /\ \A d \in Docs : base[s][d] = Untracked /\ copy[s][d] = Untracked
             /\ \A c \in Counters : patches[s][c] = 0
  BY DEF Init, Unused, NoPatches
<1>3. \A s \in Sessions, d \in Docs :
         Replayed(asked[s], d, base[s][d], copy[s][d], d \in gone[s])
  <2>1. ASSUME NEW s \in Sessions, NEW d \in Docs
        PROVE  Replayed(asked[s], d, base[s][d], copy[s][d], d \in gone[s])
    <3>1. (d \in gone[s]) = FALSE
      BY <1>2
    <3> QED BY <1>2, <3>1, NothingAsked
  <2> QED BY <2>1
<1>4. \A s \in Sessions, c \in Counters :
         Counted(asked[s], c, base[s][c], copy[s][c], patches[s][c])
  BY <1>1, <1>2, NothingAsked
<1> QED BY <1>2, <1>3, <1>4 DEF ReplaysInv

LEMMA ChangeKeepsReplays ==
    ASSUME CopiesInv, TypesInv, ReplaysInv, NEW s \in Sessions,
           NEW op \in AllTxnOps \cup AllCallOps, NEW rewrite, Change(s, op, rewrite)
    PROVE  ReplaysInv'
<1>1. /\ fresh' = [fresh EXCEPT ![s] =
                      IF base[s][op.doc] = Untracked THEN @ \cup {op.doc} ELSE @]
      /\ rewritten' = [rewritten EXCEPT ![s] = IF rewrite THEN @ \cup {op.doc} ELSE @]
      /\ gone' = [gone EXCEPT ![s] = IF New(s, op) = Absent THEN @ \cup {op.doc} ELSE @]
      /\ patches' = [patches EXCEPT ![s] =
                        [c \in Counters |-> IF ByPatch(s, op) /\ c = op.doc
                                            THEN @[c] + op.arg.value ELSE @[c]]]
      /\ asked' = [asked EXCEPT ![s] = Append(@, op)]
      /\ op.doc \notin gone[s]
      /\ rewrite \in Rewrites(op, Old(s, op), New(s, op))
  BY DEF Change, Old, ByPatch, New
<1>2. /\ op.doc \in Docs /\ Old(s, op) # Untracked /\ New(s, op) # Untracked
      /\ op.doc \in Counters => New(s, op) # Absent
      /\ op \in AllOps
  BY ChangeTyped DEF AllOps
<1>3. \A u \in Sessions, e \in Docs :
         /\ base'[u][e] = IF u = s /\ e = op.doc /\ base[s][op.doc] = Untracked
                          THEN Old(s, op) ELSE base[u][e]
         /\ copy'[u][e] = IF u = s /\ e = op.doc THEN New(s, op) ELSE copy[u][e]
  BY <1>2, ChangeTables
<1>4. ASSUME NEW u \in Sessions
      PROVE  /\ rewritten'[u] \cup fresh'[u] \subseteq {d \in Docs : base'[u][d] # Untracked}
             /\ rewritten'[u] \cap Counters = {}
  <2>1. op.doc \in Counters => ~rewrite
    <3>1. op.doc \in Counters => op.name = "UpdateCounter"
      BY KindsAssumption DEF AllTxnOps, AllCallOps, Docs
    <3> QED BY <1>1, <3>1 DEF Rewrites
  <2>2. \A e \in Docs : base[u][e] # Untracked => base'[u][e] # Untracked
    BY <1>2, <1>3
  <2>3. base'[s][op.doc] # Untracked
    BY <1>2, <1>3
  <2>4. /\ rewritten'[u] \subseteq rewritten[u] \cup {e \in {op.doc} : u = s /\ rewrite}
        /\ fresh'[u] \subseteq fresh[u] \cup {e \in {op.doc} : u = s}
    BY <1>1 DEF CopiesInv, TypesInv
  <2>5. /\ rewritten[u] \cup fresh[u] \subseteq {d \in Docs : base[u][d] # Untracked}
        /\ rewritten[u] \cap Counters = {}
    BY DEF ReplaysInv
  <2> QED BY <1>2, <2>1, <2>2, <2>3, <2>4, <2>5
<1>5. /\ asked'[s] = Append(asked[s], op) /\ asked[s] \in Seq(AllOps)
      /\ gone'[s] = gone[s] \cup {e \in {op.doc} : New(s, op) = Absent}
      /\ \A c \in Counters :
            patches'[s][c] = IF ByPatch(s, op) /\ c = op.doc
                             THEN patches[s][c] + op.arg.value ELSE patches[s][c]
      /\ \A u \in Sessions \ {s} :
            asked'[u] = asked[u] /\ gone'[u] = gone[u] /\ patches'[u] = patches[u]
  BY <1>1 DEF TypesInv
<1>6. db[op.doc] \in Found(op.doc) /\ db[op.doc] # Untracked
  BY <1>2, StoredTyped DEF CopiesInv, Stored, Bounded, Found
<1>7. Old(s, op) = IF copy[s][op.doc] = Untracked THEN db[op.doc] ELSE copy[s][op.doc]
  BY DEF Old, Load
<1>8. Replayed(asked[s], op.doc, base[s][op.doc], copy[s][op.doc], FALSE)
  <2>1. (op.doc \in gone[s]) = FALSE
    BY <1>1
  <2>2. Replayed(asked[s], op.doc, base[s][op.doc], copy[s][op.doc], op.doc \in gone[s])
    BY <1>2 DEF ReplaysInv
  <2> QED BY <2>1, <2>2
<1>9. base[s][op.doc] = Untracked <=> copy[s][op.doc] = Untracked
  BY <1>2 DEF TypesInv, Paired
<1>10. ASSUME NEW u \in Sessions, NEW d \in Docs
       PROVE  Replayed(asked'[u], d, base'[u][d], copy'[u][d], d \in gone'[u])
  <2>1. Replayed(asked[u], d, base[u][d], copy[u][d], d \in gone[u])
    BY DEF ReplaysInv
  <2>2. CASE u # s
    BY <1>3, <1>5, <2>1, <2>2
  <2>3. CASE u = s /\ d # op.doc
    <3>1. (d \in gone'[u]) = (d \in gone[u])
      BY <1>5, <2>3
    <3>2. Replayed(Append(asked[s], op), d, base[s][d], copy[s][d], d \in gone[s])
      BY <1>2, <1>5, <2>1, <2>3, OthersReplayed
    <3> QED BY <1>3, <1>5, <2>3, <3>1, <3>2
  <2>4. CASE u = s /\ d = op.doc
    <3>1. (d \in gone'[u]) = (New(s, op) = Absent)
      BY <1>1, <1>5, <2>4
    <3>2. /\ base'[u][d] = IF base[s][d] = Untracked THEN Old(s, op) ELSE base[s][d]
          /\ copy'[u][d] = New(s, op)
      BY <1>3, <2>4
    <3>3. CASE d \in Counters
      <4>1. New(s, op) # Absent /\ base'[u][d] # Untracked
        BY <1>2, <2>4, <3>2, <3>3
      <4> QED BY <3>1, <3>2, <3>3, <4>1 DEF Replayed
    <3>4. CASE d \notin Counters
      <4>1. New(s, op) = Apply(op, Old(s, op))
        BY <2>4, <3>4 DEF New, ByPatch
      <4>2. Replayed(Append(asked[s], op), op.doc, base'[u][d], New(s, op), New(s, op) = Absent)
        <5>1. PICK ops, was, is, stored, old, loaded, new :
                 /\ ops = asked[s] /\ was = base[s][op.doc] /\ is = copy[s][op.doc]
                 /\ stored = db[op.doc] /\ old = Old(s, op) /\ loaded = base'[u][d]
                 /\ new = New(s, op)
          OBVIOUS
        <5>2. /\ ops \in Seq(AllOps) /\ stored \in Found(op.doc) /\ stored # Untracked
              /\ was = Untracked <=> is = Untracked
              /\ Replayed(ops, op.doc, was, is, FALSE)
          BY <1>5, <1>6, <1>8, <1>9, <5>1
        <5>3. /\ old = IF is = Untracked THEN stored ELSE is
              /\ loaded = IF was = Untracked THEN old ELSE was
              /\ new = Apply(op, old)
          BY <1>7, <2>4, <3>2, <4>1, <5>1
        <5>4. Replayed(Append(ops, op), op.doc, loaded, new, new = Absent)
          BY <1>2, <2>4, <3>4, <5>2, <5>3, ChangeReplayed
        <5> QED BY <5>1, <5>4
      <4> QED BY <1>5, <2>4, <3>1, <3>2, <4>2
    <3> QED BY <3>3, <3>4
  <2> QED BY <2>2, <2>3, <2>4
<1>11. ASSUME NEW u \in Sessions, NEW c \in Counters
       PROVE  Counted(asked'[u], c, base'[u][c], copy'[u][c], patches'[u][c])
  <2>1. Counted(asked[u], c, base[u][c], copy[u][c], patches[u][c]) /\ c \in Docs
    BY DEF ReplaysInv, Docs
  <2>2. CASE u # s
    BY <1>3, <1>5, <2>1, <2>2
  <2>3. CASE u = s /\ c # op.doc
    <3>1. Counted(Append(asked[s], op), c, base[s][c], copy[s][c], patches[s][c])
      BY <1>2, <1>5, <2>1, <2>3, OthersReplayed
    <3> QED BY <1>3, <1>5, <2>1, <2>3, <3>1
  <2>4. CASE u = s /\ c = op.doc
    <3>1. /\ base'[s][c] = IF base[s][c] = Untracked THEN Old(s, op) ELSE base[s][c]
          /\ copy'[s][c] = IF Old(s, op) # Absent THEN Old(s, op) ELSE Apply(op, Absent)
          /\ patches'[s][c] = IF Old(s, op) # Absent THEN patches[s][c] + op.arg.value
                              ELSE patches[s][c]
      BY <1>3, <1>5, <2>1, <2>4 DEF New, ByPatch
    <3>2. CASE base[s][c] = Untracked
      <4>1. /\ Replayed(asked[s], op.doc, Untracked, Untracked, FALSE)
            /\ Counted(asked[s], op.doc, Untracked, Untracked, patches[s][c])
        BY <1>8, <1>9, <2>1, <2>4, <3>2
      <4>2. CASE Old(s, op) = Absent
        <5>1. Counted(Append(asked[s], op), op.doc, Absent, Apply(op, Absent), patches[s][c])
          BY <1>5, <2>4, <4>1, CounterCreated
        <5> QED BY <1>5, <2>4, <3>1, <3>2, <4>2, <5>1
      <4>3. CASE Old(s, op) # Absent
        <5>1. Counted(Append(asked[s], op), op.doc, Old(s, op), Old(s, op),
                      patches[s][c] + op.arg.value)
          BY <1>2, <1>5, <2>4, <4>1, <4>3, CounterPatched
        <5> QED BY <1>5, <2>4, <3>1, <3>2, <4>3, <5>1
      <4> QED BY <4>2, <4>3
    <3>3. CASE base[s][c] # Untracked
      <4>1. /\ copy[s][c] \in CounterDocs(Int) /\ copy[s][c] # Absent
            /\ copy[s][c] # Untracked /\ patches[s][c] \in Int
        BY <2>1, <3>3, TypesOfCopies DEF TypesInv, Paired
      <4>2. Old(s, op) = copy[s][c]
        BY <1>7, <2>4, <4>1
      <4>3. Counted(Append(asked[s], op), op.doc, base[s][c], copy[s][c],
                    patches[s][c] + op.arg.value)
        BY <1>5, <2>1, <2>4, <3>3, <4>1, CounterPatchedAgain
      <4> QED BY <1>5, <2>4, <3>1, <3>3, <4>1, <4>2, <4>3
    <3> QED BY <3>2, <3>3
  <2> QED BY <2>2, <2>3, <2>4
<1> QED BY <1>4, <1>10, <1>11 DEF ReplaysInv

LEMMA RemoveKeepsReplays ==
    ASSUME TypesInv, ReplaysInv, NEW s \in Txns, NEW op \in AllRemoveOps,
           RemoveById(s, op)
    PROVE  ReplaysInv'
<1>1. /\ s \in Sessions /\ op \in AllOps
      /\ UNCHANGED <<base, copy, fresh, rewritten, patches>>
      /\ gone' = [gone EXCEPT ![s] = @ \cup {op.doc}]
      /\ asked' = [asked EXCEPT ![s] = Append(@, op)]
  BY DEF RemoveById, Sessions, AllOps
<1>2. /\ asked'[s] = Append(asked[s], op) /\ asked[s] \in Seq(AllOps)
      /\ gone'[s] = gone[s] \cup {op.doc}
      /\ \A u \in Sessions \ {s} : asked'[u] = asked[u] /\ gone'[u] = gone[u]
  BY <1>1 DEF TypesInv
<1>3. op.doc \notin Counters
  BY KindsAssumption DEF AllRemoveOps
<1>4. ASSUME NEW u \in Sessions, NEW d \in Docs
      PROVE  Replayed(asked'[u], d, base[u][d], copy[u][d], d \in gone'[u])
  <2>1. Replayed(asked[u], d, base[u][d], copy[u][d], d \in gone[u])
    BY DEF ReplaysInv
  <2>2. CASE u # s
    BY <1>2, <2>1, <2>2
  <2>3. CASE u = s /\ d # op.doc
    <3>1. (d \in gone'[u]) = (d \in gone[u])
      BY <1>2, <2>3
    <3>2. Replayed(Append(asked[s], op), d, base[s][d], copy[s][d], d \in gone[s])
      BY <1>1, <1>2, <2>1, <2>3, OthersReplayed
    <3> QED BY <1>2, <2>3, <3>1, <3>2
  <2>4. CASE u = s /\ d = op.doc
    <3>1. (d \in gone'[u]) = TRUE
      BY <1>2, <2>4
    <3>2. Replayed(Append(asked[s], op), op.doc, base[s][d], copy[s][d], TRUE)
      BY <1>2, RemoveReplayed
    <3> QED BY <1>2, <2>4, <3>1, <3>2
  <2> QED BY <2>2, <2>3, <2>4
<1>5. ASSUME NEW u \in Sessions, NEW c \in Counters
      PROVE  Counted(asked'[u], c, base[u][c], copy[u][c], patches[u][c])
  <2>1. Counted(asked[u], c, base[u][c], copy[u][c], patches[u][c])
    BY DEF ReplaysInv
  <2>2. CASE u # s
    BY <1>2, <2>1, <2>2
  <2>3. CASE u = s
    <3>1. Counted(Append(asked[s], op), c, base[s][c], copy[s][c], patches[s][c])
      BY <1>1, <1>2, <1>3, <2>1, <2>3, OthersReplayed
    <3> QED BY <1>2, <2>3, <3>1
  <2> QED BY <2>2, <2>3
<1> QED BY <1>1, <1>4, <1>5 DEF ReplaysInv

\* The end of a session leaves the others as they are, but for what is current.
LEMMA FinishKeepsReplays ==
    ASSUME CopiesInv, TypesInv, ReplaysInv, NEW s \in Sessions, NEW W, Finish(s, W)
    PROVE  ReplaysInv'
<1>1. /\ fresh'[s] = {} /\ rewritten'[s] = {} /\ gone'[s] = {} /\ asked'[s] = <<>>
      /\ patches'[s] = NoPatches
      /\ \A d \in Docs : base'[s][d] = Untracked /\ copy'[s][d] = Untracked
  BY DEF Finish, CopiesInv, TypesInv, IsTable, Unused
<1>2. ASSUME NEW u \in Sessions, u # s
      PROVE  /\ fresh'[u] \subseteq fresh[u] /\ rewritten'[u] = rewritten[u]
             /\ gone'[u] = gone[u] /\ asked'[u] = asked[u] /\ patches'[u] = patches[u]
             /\ \A d \in Docs : base'[u][d] = base[u][d] /\ copy'[u][d] = copy[u][d]
  BY <1>2 DEF Finish, CopiesInv, TypesInv, IsTable
<1>3. ASSUME NEW u \in Sessions
      PROVE  /\ rewritten'[u] \cup fresh'[u] \subseteq {d \in Docs : base'[u][d] # Untracked}
             /\ rewritten'[u] \cap Counters = {}
  <2>1. CASE u = s
    BY <1>1, <2>1
  <2>2. CASE u # s
    <3>1. /\ rewritten[u] \cup fresh[u] \subseteq {d \in Docs : base[u][d] # Untracked}
          /\ rewritten[u] \cap Counters = {}
      BY DEF ReplaysInv
    <3> QED BY <1>2, <2>2, <3>1
  <2> QED BY <2>1, <2>2
<1>4. ASSUME NEW u \in Sessions, NEW d \in Docs
      PROVE  Replayed(asked'[u], d, base'[u][d], copy'[u][d], d \in gone'[u])
  <2>1. CASE u = s
    <3>1. (d \in gone'[s]) = FALSE
      BY <1>1
    <3> QED BY <1>1, <2>1, <3>1, NothingAsked
  <2>2. CASE u # s
    <3>1. (d \in gone'[u]) = (d \in gone[u])
      BY <1>2, <2>2
    <3>2. Replayed(asked[u], d, base[u][d], copy[u][d], d \in gone[u])
      BY DEF ReplaysInv
    <3> QED BY <1>2, <2>2, <3>1, <3>2
  <2> QED BY <2>1, <2>2
<1>5. ASSUME NEW u \in Sessions, NEW c \in Counters
      PROVE  Counted(asked'[u], c, base'[u][c], copy'[u][c], patches'[u][c])
  <2>1. c \in Docs
    BY DEF Docs
  <2>2. CASE u = s
    <3>1. patches'[s][c] = 0
      BY <1>1 DEF NoPatches
    <3> QED BY <1>1, <2>1, <2>2, <3>1, NothingAsked
  <2>3. CASE u # s
    <3>1. Counted(asked[u], c, base[u][c], copy[u][c], patches[u][c])
      BY DEF ReplaysInv
    <3> QED BY <1>2, <2>1, <2>3, <3>1
  <2> QED BY <2>2, <2>3
<1> QED BY <1>3, <1>4, <1>5 DEF ReplaysInv

\* Every step keeps the replays.
LEMMA ReplaysStep == CopiesInv /\ TypesInv /\ ReplaysInv /\ [Next]_vars => ReplaysInv'
<1> SUFFICES ASSUME CopiesInv, TypesInv, ReplaysInv, [Next]_vars PROVE ReplaysInv'
  OBVIOUS
<1>1. ASSUME NEW s \in Sessions, NEW op \in TxnOps \cup CallOps, NEW rewrite,
             Change(s, op, rewrite)
      PROVE  ReplaysInv'
  <2>1. op \in AllTxnOps \cup AllCallOps
    BY OpsAssumption
  <2> QED BY <1>1, <2>1, ChangeKeepsReplays
<1>2. ASSUME NEW s \in Txns, NEW op \in RemoveOps, RemoveById(s, op) PROVE ReplaysInv'
  BY <1>2, RemoveKeepsReplays, OpsAssumption
<1>3. ASSUME NEW s \in Sessions, Commit(s) \/ Discard(s) PROVE ReplaysInv'
  BY <1>3, FinishKeepsReplays DEF Commit, Discard
<1>4. ASSUME UNCHANGED <<base, copy, rewritten, gone, patches, asked>>,
             \A s \in Sessions : fresh'[s] \subseteq fresh[s]
      PROVE  ReplaysInv'
  BY <1>4 DEF ReplaysInv
<1>5. ASSUME NEW j \in Jobs, CreateExpiredJob(j) PROVE ReplaysInv'
  BY <1>4, <1>5 DEF CreateExpiredJob
<1>6. ASSUME NEW d \in Docs, Expire(d) PROVE ReplaysInv'
  BY <1>4, <1>6 DEF Expire, Overwritten
<1>7. CASE UNCHANGED vars
  BY <1>4, <1>7 DEF vars
<1> QED
  BY <1>1, <1>2, <1>3, <1>5, <1>6, <1>7 DEF Next, Sessions

\* The three parts are inductive together.
WriteInv == CopiesInv /\ TypesInv /\ ReplaysInv

LEMMA WriteInvariant == Spec => []WriteInv
<1>1. Init => WriteInv
  BY CopiesInit, TypesInit, ReplaysInit DEF WriteInv
<1>2. WriteInv /\ [Next]_vars => WriteInv'
  BY CopiesStep, TypesStep, ReplaysStep DEF WriteInv
<1> QED BY <1>1, <1>2, PTL DEF Spec

\* A copy is what the changes make of the document as it was loaded, however many
\* changes there are, and a copy that is current was loaded as the document is now.
THEOREM CopiesReplay == Spec => []CopiesAreReplays
<1>1. WriteInv => CopiesAreReplays
  <2> SUFFICES ASSUME WriteInv PROVE CopiesAreReplays
    OBVIOUS
  <2>1. \A s \in Sessions : \A d \in fresh[s] : base[s][d] = db[d]
    BY DEF WriteInv, CopiesInv
  <2>2. ASSUME NEW s \in Sessions, NEW d \in Docs \ Counters,
               base[s][d] # Untracked, d \notin gone[s]
        PROVE  copy[s][d] = Replay(s, d, base[s][d])
    <3>1. Replayed(asked[s], d, base[s][d], copy[s][d], d \in gone[s])
      BY DEF WriteInv, ReplaysInv
    <3> QED BY <2>2, <3>1 DEF Replayed, Replay
  <2>3. \A s \in Sessions :
           rewritten[s] \cup fresh[s] \subseteq {e \in Docs : base[s][e] # Untracked}
    BY DEF WriteInv, ReplaysInv
  <2> QED BY <2>1, <2>2, <2>3 DEF CopiesAreReplays
<1> QED BY <1>1, WriteInvariant, PTL

-----------------------------------------------------------------------------
(* Commits.                                                                *)

\* A document that is deleted is one the changes delete, unless they created it.
LEMMA DeleteApplies ==
    ASSUME WriteInv, NEW s \in Txns, Commit(s), NEW d \in gone[s], d \in Docs
    PROVE  \/ CameAndWent(s, d)
           \/ (d \in Jobs => db[d] # Absent) /\ db'[d] = Replay(s, d, db[d])
<1>1. s \in Sessions /\ d \notin Jobs
  BY KindsAssumption DEF WriteInv, TypesInv, Sessions
<1>2. db'[d] = Absent
  BY DEF Commit, After
<1>3. SUFFICES ASSUME base[s][d] # Absent PROVE Replay(s, d, db[d]) = Absent
  BY <1>1, <1>2 DEF CameAndWent
<1>4. Replayed(asked[s], d, base[s][d], copy[s][d], TRUE)
  <2>1. (d \in gone[s]) = TRUE
    OBVIOUS
  <2>2. Replayed(asked[s], d, base[s][d], copy[s][d], d \in gone[s])
    BY <1>1 DEF WriteInv, ReplaysInv
  <2> QED BY <2>1, <2>2
<1>5. db[d] \in Found(d)
  BY DEF WriteInv, CopiesInv, Stored, Bounded, Found
<1>6. CASE base[s][d] # Untracked /\ ReplayOf(asked[s], d, base[s][d]) = Absent
  <2>1. d \in fresh[s]
    BY <1>3, <1>6 DEF Commit, CanSave
  <2>2. base[s][d] = db[d]
    BY <1>1, <2>1 DEF WriteInv, CopiesInv
  <2> QED BY <1>6, <2>2 DEF Replay
<1> QED BY <1>4, <1>5, <1>6 DEF Replayed, Replay

\* A document that is written and is no counter is what the changes make of it now.
LEMMA PutApplies ==
    ASSUME WriteInv, NEW s \in Txns, Commit(s), NEW d \in Puts(s), d \in Docs \ Counters
    PROVE  (d \in Jobs => db[d] # Absent) /\ db'[d] = Replay(s, d, db[d])
<1>1. s \in Sessions /\ d \notin gone[s]
  BY DEF Sessions, Puts
<1>2. db'[d] = copy[s][d]
  BY <1>1 DEF Commit, After, Patched
<1>3. base[s][d] = db[d]
  BY PutsAreCurrent DEF WriteInv
<1>4. base[s][d] # Untracked
  BY <1>1 DEF Puts, WriteInv, TypesInv, Paired, ReplaysInv
<1>5. Replayed(asked[s], d, base[s][d], copy[s][d], FALSE)
  <2>1. (d \in gone[s]) = FALSE
    BY <1>1
  <2>2. Replayed(asked[s], d, base[s][d], copy[s][d], d \in gone[s])
    BY <1>1 DEF WriteInv, ReplaysInv
  <2> QED BY <2>1, <2>2
<1>6. copy[s][d] = Replay(s, d, db[d])
  BY <1>3, <1>4, <1>5 DEF Replayed, Replay
<1>7. d \in Jobs => db[d] # Absent
  BY <1>1, <1>3 DEF WriteInv, CopiesInv
<1> QED BY <1>2, <1>6, <1>7

\* A counter gets what its changes add up to, whether the batch creates or patches
\* it; the patch of one that has expired meanwhile does nothing.
LEMMA CounterApplies ==
    ASSUME WriteInv, NEW s \in Txns, Commit(s), NEW c \in Counters, c \in Written(s)
    PROVE  \/ db[c] = Absent /\ base[s][c] # Absent /\ db'[c] = Absent
           \/ db'[c] = Replay(s, c, db[c])
<1>1. s \in Sessions /\ c \in Docs
  BY DEF Sessions, Docs
<1>2. c \notin gone[s] /\ c \notin rewritten[s]
  BY <1>1, KindsAssumption DEF WriteInv, TypesInv, ReplaysInv
<1>3. /\ Counted(asked[s], c, base[s][c], copy[s][c], patches[s][c])
      /\ base[s][c] = Untracked <=> copy[s][c] = Untracked
      /\ copy[s][c] # Absent
  BY <1>1 DEF WriteInv, TypesInv, Paired, ReplaysInv
<1>4. c \in Puts(s) <=> copy[s][c] # base[s][c]
  BY <1>1, <1>2 DEF Puts
<1>5. db'[c] = Patched(s, c, IF c \in Puts(s) THEN copy[s][c] ELSE db[c])
  BY <1>1, <1>2 DEF Commit, After
<1>6. \A doc : doc # Absent => Patched(s, c, doc) = Plus(doc, patches[s][c])
  BY DEF Patched, Plus
<1>7. CASE base[s][c] = Untracked
  BY <1>2, <1>3, <1>4, <1>7 DEF Counted, Written
<1>8. CASE base[s][c] = Absent
  <2>1. c \in Puts(s) /\ db[c] = Absent
    BY <1>3, <1>4, <1>8, PutsAreCurrent DEF WriteInv
  <2>2. db'[c] = Plus(copy[s][c], patches[s][c])
    BY <1>3, <1>5, <1>6, <2>1
  <2> QED BY <1>3, <1>8, <2>1, <2>2 DEF Counted, Replay
<1>9. CASE base[s][c] \notin {Untracked, Absent}
  <2>1. c \notin Puts(s)
    BY <1>3, <1>4, <1>9 DEF Counted
  <2>2. CASE db[c] = Absent
    BY <1>5, <1>9, <2>1, <2>2 DEF Patched
  <2>3. CASE db[c] # Absent
    <3>1. db[c] \in DocsOf(c)
      BY <1>1, <2>3 DEF WriteInv, CopiesInv, Stored, Bounded
    <3>2. db'[c] = Plus(db[c], patches[s][c])
      BY <1>5, <1>6, <2>1, <2>3
    <3> QED BY <1>3, <1>9, <3>1, <3>2 DEF Counted, Replay
  <2> QED BY <2>2, <2>3
<1> QED BY <1>7, <1>8, <1>9

\* A transaction that saves makes exactly the changes that were asked for, to the
\* documents as they are then: no update is lost between transactions, whatever they
\* do at the same time and whatever expires under them.
THEOREM CommitsApply == Spec => CommitApplies
<1>1. ASSUME WriteInv, NEW s \in Txns, Commit(s), NEW d \in Docs
      PROVE  \/ CameAndWent(s, d)
             \/ d \notin Written(s) /\ db'[d] = db[d]
             \/ d \in Counters /\ db[d] = Absent /\ base[s][d] # Absent /\ db'[d] = Absent
             \/ (d \in Jobs => db[d] # Absent) /\ db'[d] = Replay(s, d, db[d])
  <2>1. CASE d \notin Written(s)
    <3>1. After(s)[d] = db[d]
      BY <1>1, <2>1, OthersStay DEF WriteInv, CopiesInv, Sessions
    <3> QED BY <1>1, <2>1, <3>1 DEF Commit
  <2>2. CASE d \in gone[s]
    BY <1>1, <2>2, DeleteApplies
  <2>3. CASE d \in Counters /\ d \in Written(s)
    <3>1. d \notin Jobs
      BY <2>3, KindsAssumption
    <3> QED BY <1>1, <2>3, <3>1, CounterApplies
  <2>4. CASE d \in Puts(s) /\ d \notin Counters
    BY <1>1, <2>4, PutApplies
  <2> QED BY <2>1, <2>2, <2>3, <2>4 DEF Written
<1>2. WriteInv => \A s \in Txns : Saves(s) =>
         \A d \in Docs :
            \/ CameAndWent(s, d)
            \/ d \notin Written(s) /\ db'[d] = db[d]
            \/ d \in Counters /\ db[d] = Absent /\ base[s][d] # Absent /\ db'[d] = Absent
            \/ (d \in Jobs => db[d] # Absent) /\ db'[d] = Replay(s, d, db[d])
  BY <1>1 DEF Saves
<1> QED BY <1>2, WriteInvariant, PTL DEF CommitApplies
==============================================================================

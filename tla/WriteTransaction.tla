---------------------------- MODULE WriteTransaction ----------------------------
(***************************************************************************)
(* RavenWriteOnlyTransaction, and the calls of RavenConnection that write.  *)
(* Both work on copies in a RavenDB session and save them in one batch.  A  *)
(* transaction makes any number of changes and saves under optimistic       *)
(* concurrency; a call of the connection makes one change and saves without *)
(* looking at versions.                                                     *)
(*                                                                          *)
(* RavenDB's client compares each copy with the document it was loaded as,  *)
(* sends the copies that differ, and lets a save fail when one of them is   *)
(* not current any more, or was new and exists by now.  A delete is checked *)
(* only for a document that was loaded.  Scores, values of hash fields and  *)
(* times of expiry are abstracted: a change of nothing else is a rewrite.   *)
(***************************************************************************)
EXTENDS Integers, SequencesExt

CONSTANTS
    Txns,      \* transactions; the name of a finished one is reused
    Calls,     \* calls of the connection, likewise
    Jobs, Sets, Hashes, Lists, Counters,  \* ids of the documents of each type
    Items,     \* members of sets and lists, fields of hashes, names of states
    Ranges,    \* what TrimList is told to keep, <<keepStartingFrom, keepEndingAt>>
    TxnOps,    \* the changes that transactions make
    CallOps,   \* the change that a call of the connection makes
    RemoveOps, \* the sets and hashes that transactions remove
    MaxOps,    \* bound on the changes of one transaction
    MaxLength, \* bound on histories, lists and counters
    Absent,    \* the document does not exist
    Untracked  \* the session has no copy of the document

Docs == Jobs \cup Sets \cup Hashes \cup Lists \cup Counters
Sessions == Txns \cup Calls

ASSUME TransactionAssumption ==
    /\ Txns \cap Calls = {} /\ Absent # Untracked
    /\ Ranges \subseteq Nat \X Nat
    /\ MaxOps \in Nat \ {0} /\ MaxLength \in Nat \ {0}

NoRetries == -1
Retries == 0..1

Histories == UNION {[1..n -> Items] : n \in 0..MaxLength}
JobDocs(histories) ==
    [val : [history : histories, retryCount : Retries \cup {NoRetries}], exp : BOOLEAN]
SetDocs == [val : SUBSET Items, exp : BOOLEAN]
ListDocs(lists) == [val : lists, exp : BOOLEAN]
CounterDocs(numbers) == [val : numbers, exp : BOOLEAN]

DocsWith(d, lists, numbers) ==
    IF d \in Jobs THEN JobDocs(lists)
    ELSE IF d \in Lists THEN ListDocs(lists)
    ELSE IF d \in Counters THEN CounterDocs(numbers) ELSE SetDocs

\* What the database holds, within the bounds, and the copies of a session.
DocsOf(d) == DocsWith(d, Histories, -MaxLength..MaxLength)
CopiesOf(d) == DocsWith(d, Seq(Items), Int)

\* An id names its type, and a session can tell that it has no copy.
ASSUME KindsAssumption ==
    /\ Jobs \cap (Sets \cup Hashes \cup Lists \cup Counters) = {}
    /\ (Sets \cup Hashes) \cap (Lists \cup Counters) = {} /\ Lists \cap Counters = {}
    /\ \A d \in Docs : {Untracked, Absent} \cap CopiesOf(d) = {}

AllTxnOps ==
    [name : {"AddToSet", "RemoveFromSet"}, doc : Sets, arg : Items]
    \cup [name : {"SetRangeInHash"}, doc : Hashes, arg : Items]
    \cup [name : {"InsertToList", "RemoveFromList"}, doc : Lists, arg : Items]
    \cup [name : {"TrimList"}, doc : Lists, arg : Ranges]
    \cup [name : {"SetJobState"}, doc : Jobs, arg : Items]
    \cup [name : {"UpdateCounter"}, doc : Counters,
          arg : [value : {-1, 1}, expires : BOOLEAN]]
    \cup [name : {"Expire", "Persist"}, doc : Docs \ Counters, arg : {Absent}]

AllCallOps ==
    [name : {"SetRangeInHash"}, doc : Hashes, arg : Items]
    \cup [name : {"SetJobParameter"}, doc : Jobs, arg : Retries]
    \cup [name : {"GetJobParameter"}, doc : Jobs, arg : {Absent}]

AllRemoveOps == [name : {"Remove"}, doc : Sets \cup Hashes, arg : {Absent}]
AllOps == AllTxnOps \cup AllCallOps \cup AllRemoveOps

ASSUME OpsAssumption ==
    TxnOps \subseteq AllTxnOps /\ CallOps \subseteq AllCallOps /\ RemoveOps \subseteq AllRemoveOps

VARIABLES
    db,        \* the documents
    base,      \* the documents as each session loaded them
    copy,      \* the copies as it changed them
    fresh,     \* loaded documents that nobody has written since
    rewritten, \* copies changed in a way the model does not show
    gone,      \* documents the session is going to delete
    patches,   \* _patchRequests: what they add up to for each counter
    asked      \* the changes the session was asked for

vars == <<db, base, copy, fresh, rewritten, gone, patches, asked>>

\* No document and nothing asked: a new session.
TypeOK ==
    /\ \A d \in Docs : db[d] \in DocsOf(d) \cup {Absent}
    /\ fresh \in [Sessions -> SUBSET Docs]
    /\ rewritten \in [Sessions -> SUBSET Docs]
    /\ gone \in [Sessions -> SUBSET (Sets \cup Lists \cup Hashes)]
    /\ patches \in [Sessions -> [Counters -> -MaxOps..MaxOps]]
    /\ \A s \in Sessions :
          /\ Len(asked[s]) <= IF s \in Txns THEN MaxOps ELSE 1
          /\ \A d \in Docs :
                /\ base[s][d] = Untracked <=> copy[s][d] = Untracked
                /\ base[s][d] \in DocsOf(d) \cup {Absent, Untracked}
                /\ copy[s][d] \in CopiesOf(d) \cup {Absent, Untracked}

Unused == [d \in Docs |-> Untracked]
NoPatches == [c \in Counters |-> 0]

Init ==
    /\ db = [d \in Docs |-> Absent]
    /\ base = [s \in Sessions |-> Unused]
    /\ copy = [s \in Sessions |-> Unused]
    /\ fresh = [s \in Sessions |-> {}]
    /\ rewritten = [s \in Sessions |-> {}]
    /\ gone = [s \in Sessions |-> {}]
    /\ patches = [s \in Sessions |-> NoPatches]
    /\ asked = [s \in Sessions |-> <<>>]

-----------------------------------------------------------------------------
(* What each change makes of a document.                                   *)

Nothing(d) == IF d \in Lists THEN <<>> ELSE {}

\* A missing set, hash or list is created, empty and without expiry.
FindOrCreate(d, doc) ==
    IF doc = Absent THEN [val |-> Nothing(d), exp |-> FALSE] ELSE doc

\* The list less every occurrence of the item: SelectSeq, as a function on positions
\* because the proofs have to look into it.
Without(list, item) ==
    LET kept[n \in 0..Len(list)] ==
            IF n = 0 THEN <<>>
            ELSE IF list[n] = item THEN kept[n - 1] ELSE Append(kept[n - 1], list[n])
    IN  kept[Len(list)]

\* A set or list that became empty is deleted.
UnlessEmpty(d, doc) == IF doc.val = Nothing(d) THEN Absent ELSE doc

AddToSet(doc, item) == [doc EXCEPT !.val = @ \cup {item}]
RemoveFromSet(d, doc, item) == UnlessEmpty(d, [doc EXCEPT !.val = @ \ {item}])
SetRangeInHash(doc, field) == [doc EXCEPT !.val = @ \cup {field}]
InsertToList(doc, item) == [doc EXCEPT !.val = Append(@, item)]
RemoveFromList(d, doc, item) == UnlessEmpty(d, [doc EXCEPT !.val = Without(@, item)])

\* Skip and Take: positions count from zero, and may lie beyond the end.
TrimList(d, doc, range) ==
    LET last == IF range[2] < Len(doc.val) THEN range[2] + 1 ELSE Len(doc.val)
    IN  UnlessEmpty(d, [doc EXCEPT !.val = SubSeq(@, range[1] + 1, last)])

\* The new state is the first of the history, and the current one.
SetJobState(doc, state) == [doc EXCEPT !.val.history = <<state>> \o @]
SetJobParameter(doc, value) == [doc EXCEPT !.val.retryCount = value]
GetJobParameter(doc) == [doc EXCEPT !.val.retryCount = IF @ = NoRetries THEN 0 ELSE @]
SetExpiry(doc) == [doc EXCEPT !.exp = TRUE]
RemoveExpiry(doc) == [doc EXCEPT !.exp = FALSE]

\* An expiry given with the change of a counter counts when it creates one.
UpdateCounter(doc, arg) ==
    IF doc = Absent THEN [val |-> arg.value, exp |-> arg.expires]
    ELSE [doc EXCEPT !.val = @ + arg.value]

Apply(op, doc) ==
    LET d == op.doc
        found == FindOrCreate(d, doc)
    IN  CASE op.name = "AddToSet" -> AddToSet(found, op.arg)
          [] op.name = "RemoveFromSet" -> RemoveFromSet(d, found, op.arg)
          [] op.name = "SetRangeInHash" -> SetRangeInHash(found, op.arg)
          [] op.name = "InsertToList" -> InsertToList(found, op.arg)
          [] op.name = "RemoveFromList" -> RemoveFromList(d, found, op.arg)
          [] op.name = "TrimList" -> TrimList(d, found, op.arg)
          [] op.name = "Expire" -> SetExpiry(found)
          [] op.name = "Persist" -> RemoveExpiry(found)
          [] op.name = "SetJobState" -> SetJobState(doc, op.arg)
          [] op.name = "SetJobParameter" -> SetJobParameter(doc, op.arg)
          [] op.name = "GetJobParameter" -> GetJobParameter(doc)
          [] op.name = "UpdateCounter" -> UpdateCounter(doc, op.arg)
          [] op.name = "Remove" -> Absent

\* Whether something changes that the model does not show: the time of expiry does,
\* and the score or the value of what is there already may.
Rewrites(op, old, new) ==
    IF op.name = "Expire" THEN {TRUE}
    ELSE IF op.name \in {"AddToSet", "SetRangeInHash"} /\ new = old THEN BOOLEAN
    ELSE {FALSE}

-----------------------------------------------------------------------------
(* Helpers: the session.                                                   *)

\* What Load returns: the copy if there is one.
Load(s, d) == IF copy[s][d] = Untracked THEN db[d] ELSE copy[s][d]

\* The copies the batch writes.
Puts(s) ==
    {d \in Docs \ gone[s] : copy[s][d] # base[s][d] \/ d \in rewritten[s]}

\* (Mutant.) UseOptimisticConcurrency is not set.
CanAlwaysSave(s) == TRUE

\* Optimistic concurrency, for transactions only.
CanSave(s) ==
    s \in Txns =>
        /\ \A d \in Puts(s) :
              IF base[s][d] = Absent THEN db[d] = Absent ELSE d \in fresh[s]
        /\ \A d \in gone[s] : base[s][d] \in {Untracked, Absent} \/ d \in fresh[s]

Patched(s, d, doc) ==
    IF d \in Counters /\ doc # Absent THEN [doc EXCEPT !.val = @ + patches[s][d]]
    ELSE doc

\* The documents as the batch leaves them; a patch of a missing one does nothing.
After(s) ==
    [d \in Docs |-> IF d \in gone[s] THEN Absent
                    ELSE Patched(s, d, IF d \in Puts(s) THEN copy[s][d] ELSE db[d])]

Written(s) ==
    Puts(s) \cup gone[s] \cup {c \in Counters : patches[s][c] # 0}

\* The bound on the data.
Bounded(docs) == \A d \in Docs : docs[d] \in DocsOf(d) \cup {Absent}

\* (Mutant.) The session is used again, with the copies it has.
FinishAndReuse(s, W) ==
    /\ fresh' = [u \in Sessions |-> IF u = s THEN fresh[u] ELSE fresh[u] \ W]
    /\ gone' = [gone EXCEPT ![s] = {}]
    /\ asked' = [asked EXCEPT ![s] = <<>>]
    /\ UNCHANGED <<base, copy, rewritten, patches>>

\* The session ends, and the documents W have been written.
Finish(s, W) ==
    /\ base' = [base EXCEPT ![s] = Unused]
    /\ copy' = [copy EXCEPT ![s] = Unused]
    /\ fresh' = [u \in Sessions |-> IF u = s THEN {} ELSE fresh[u] \ W]
    /\ rewritten' = [rewritten EXCEPT ![s] = {}]
    /\ gone' = [gone EXCEPT ![s] = {}]
    /\ patches' = [patches EXCEPT ![s] = NoPatches]
    /\ asked' = [asked EXCEPT ![s] = <<>>]

-----------------------------------------------------------------------------
(* The transaction, and the call of the connection.                        *)

\* One change: the document is loaded, unless it was already, and its copy is
\* changed, except that an existing counter is left to a patch.  Without the job
\* the call throws, and so it does for a document the session is to delete.
Change(s, op, rewrite) ==
    /\ Len(asked[s]) < IF s \in Txns THEN MaxOps ELSE 1
    /\ op.doc \notin gone[s]
    /\ LET d == op.doc
           old == Load(s, d)
           patch == d \in Counters /\ old # Absent
           new == IF patch THEN old ELSE Apply(op, old)
       IN  /\ d \in Jobs => old # Absent
           /\ rewrite \in Rewrites(op, old, new)
           /\ copy' = [copy EXCEPT ![s][d] = new]
           /\ base' = [base EXCEPT ![s][d] = IF @ = Untracked THEN old ELSE @]
           /\ fresh' = [fresh EXCEPT ![s] =
                           IF base[s][d] = Untracked THEN @ \cup {d} ELSE @]
           /\ rewritten' = [rewritten EXCEPT ![s] = IF rewrite THEN @ \cup {d} ELSE @]
           /\ gone' = [gone EXCEPT ![s] = IF new = Absent THEN @ \cup {d} ELSE @]
           /\ patches' = [patches EXCEPT ![s] =
                 [c \in Counters |-> IF patch /\ c = d THEN @[c] + op.arg.value ELSE @[c]]]
    /\ asked' = [asked EXCEPT ![s] = Append(@, op)]
    /\ UNCHANGED db

\* RemoveSet and RemoveHash: a delete by id, which throws for a changed copy.
RemoveById(s, op) ==
    /\ s \in Txns /\ Len(asked[s]) < MaxOps
    /\ op.doc \notin gone[s] \cup Puts(s)
    /\ gone' = [gone EXCEPT ![s] = @ \cup {op.doc}]
    /\ asked' = [asked EXCEPT ![s] = Append(@, op)]
    /\ UNCHANGED <<db, base, copy, fresh, rewritten, patches>>

\* SaveChanges succeeds, whether or not its reply arrives.
Commit(s) ==
    /\ asked[s] # <<>> /\ CanSave(s)
    /\ Bounded(After(s))
    /\ db' = After(s)
    /\ Finish(s, Written(s))

\* Nothing is saved: a ConcurrencyException, any other exception in a change or
\* in SaveChanges, a transaction that is never committed, a crash.
Discard(s) ==
    /\ asked[s] # <<>>
    /\ Finish(s, {})
    /\ UNCHANGED db

-----------------------------------------------------------------------------
(* Other writers of the documents.                                         *)

\* Somebody outside the sessions has written d.
Overwritten(d) == fresh' = [s \in Sessions |-> fresh[s] \ {d}]

\* CreateExpiredJob: a new id, so no session knows the document.
CreateExpiredJob(j) ==
    /\ db[j] = Absent /\ \A s \in Sessions : copy[s][j] = Untracked
    /\ db' = [db EXCEPT ![j] =
                 [val |-> [history |-> <<>>, retryCount |-> NoRetries], exp |-> TRUE]]
    /\ UNCHANGED <<base, copy, fresh, rewritten, gone, patches, asked>>

\* RavenDB deletes an expired document.
Expire(d) ==
    /\ db[d] # Absent /\ db[d].exp
    /\ db' = [db EXCEPT ![d] = Absent]
    /\ Overwritten(d)
    /\ UNCHANGED <<base, copy, rewritten, gone, patches, asked>>

-----------------------------------------------------------------------------
Next ==
    \/ \E s \in Txns, op \in TxnOps, rewrite \in BOOLEAN : Change(s, op, rewrite)
    \/ \E s \in Calls, op \in CallOps, rewrite \in BOOLEAN : Change(s, op, rewrite)
    \/ \E s \in Txns, op \in RemoveOps : RemoveById(s, op)
    \/ \E s \in Sessions : Commit(s) \/ Discard(s)
    \/ \E j \in Jobs : CreateExpiredJob(j)
    \/ \E d \in Docs : Expire(d)

Spec == Init /\ [][Next]_vars

-----------------------------------------------------------------------------
(* Properties.                                                             *)

\* The changes, in their order, to a document as it is now.
ReplayOf(ops, d, doc) ==
    LET made[n \in 0..Len(ops)] ==
            IF n = 0 THEN doc
            ELSE IF ops[n].doc = d THEN Apply(ops[n], made[n - 1]) ELSE made[n - 1]
    IN  made[Len(ops)]

\* The changes the session was asked for.
Replay(s, d, doc) == ReplayOf(asked[s], d, doc)

\* A document the session found missing, created, and emptied again.
CameAndWent(s, d) == d \in gone[s] /\ base[s][d] = Absent

\* A commit, as the properties of steps have it: it ends the session, and looking at
\* that first spares TLC the batch in every other step.
Saves(s) == asked'[s] = <<>> /\ Commit(s)

\* Nothing is lost between transactions: a commit makes the changes that were
\* asked for, all of them, to the documents as they are when it is executed and
\* not as they were when the transaction read them, counters included; it leaves
\* every other document alone, and brings no expired job back.  Not claimed for a document that is deleted
\* unchecked because the transaction had created it, and for the patch of a
\* counter that has expired meanwhile.
CommitApplies ==
    [][\A s \in Txns : Saves(s) =>
         \A d \in Docs :
            \/ CameAndWent(s, d)
            \/ d \notin Written(s) /\ db'[d] = db[d]
            \/ d \in Counters /\ db[d] = Absent /\ base[s][d] # Absent /\ db'[d] = Absent
            \/ (d \in Jobs => db[d] # Absent) /\ db'[d] = Replay(s, d, db[d])]_vars

\* No transaction writes over what somebody else has written since it read the
\* document: whatever its batch holds was loaded as the document is now, or was
\* missing then and is missing now (UseOptimisticConcurrency, line 36).
CommitsAreCurrent ==
    [][\A s \in Txns : Saves(s) => \A d \in Puts(s) : base[s][d] = db[d]]_vars

\* Why it is so: a copy that is still current was loaded as the document is now,
\* and a copy is what the changes asked for make of the loaded document.
CopiesAreReplays ==
    \A s \in Sessions :
        /\ rewritten[s] \cup fresh[s] \subseteq {d \in Docs : base[s][d] # Untracked}
        /\ \A d \in fresh[s] : base[s][d] = db[d]
        /\ \A d \in Docs \ Counters : base[s][d] # Untracked
              => d \in gone[s] \/ copy[s][d] = Replay(s, d, base[s][d])

\* Removing one value from a set leaves the other values in it (the test
\* RemoveFromSet_DoesNotRemoveRecord_WithSameKey_AndDifferentValue).
RemovalKeepsOthers ==
    [][\A s \in Txns, d \in Sets, i \in Items :
         /\ Commit(s) /\ db[d] # Absent
         /\ \A n \in 1..Len(asked[s]) :
               asked[s][n].doc = d => asked[s][n].name = "RemoveFromSet" /\ asked[s][n].arg = i
         => db[d].val \subseteq {i} \/ (db'[d] # Absent /\ db[d].val \ {i} \subseteq db'[d].val)
       ]_vars

\* A state that was set stays in the history of the job (the test
\* SetJobState_AppendsAStateAndSetItToTheJob).
StatesAreAppended ==
    [][\A j \in Jobs : db[j] # Absent /\ db'[j] # Absent
         => IsSuffix(db[j].val.history, db'[j].val.history)]_vars
=============================================================================

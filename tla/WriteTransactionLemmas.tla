------------------------ MODULE WriteTransactionLemmas ------------------------
(***************************************************************************)
(* What the operators of WriteTransaction compute: the changes replayed in  *)
(* their order, a list without an item, and the types that each change      *)
(* keeps.  Replay and Without are recursive functions, so what they compute *)
(* is proved by induction.  The induction theorems of the library take a    *)
(* predicate; the same principle is proved here for a set.                  *)
(***************************************************************************)
EXTENDS WriteTransaction, SequenceTheorems, WellFoundedInduction, TLAPS

\* A set of naturals that is not empty has a least element.
LEMMA LeastNat ==
    ASSUME NEW T \in SUBSET Nat, T # {}
    PROVE  \E n \in T : \A m \in T : n <= m
<1> DEFINE R == OpToRel(<, Nat)
<1>1. IsWellFoundedOn(R, Nat)
  BY NatLessThanWellFounded
<1>2. \E n \in T : \A m \in T : ~ (<<m, n>> \in R)
  <2> HIDE DEF R
  <2> QED BY <1>1, WFMin
<1>3. \A m, n \in Nat : <<m, n>> \in R <=> m < n
  BY DEF OpToRel
<1>4. PICK n \in T : \A m \in T : ~ (<<m, n>> \in R)
  BY <1>2
<1> HIDE DEF R
<1>5. \A m \in T : m \in Nat /\ n \in Nat /\ ~ (m < n)
  BY <1>3, <1>4
<1>6. \A m \in T : n <= m
  BY <1>5
<1> QED BY <1>6

\* Induction: a set with 0 that is closed under successor holds every natural.
LEMMA NatBySet ==
    ASSUME NEW S, 0 \in S, \A n \in Nat : n \in S => n + 1 \in S
    PROVE  Nat \subseteq S
<1>1. CASE Nat \ S # {}
  <2>1. PICK n \in Nat \ S : \A m \in Nat \ S : n <= m
    BY <1>1, LeastNat
  <2>2. n - 1 \in Nat /\ n - 1 \in S
    BY <2>1
  <2> QED BY <2>1, <2>2
<1> QED BY <1>1

-----------------------------------------------------------------------------
(* Replay.                                                                 *)

\* f says what the first changes make of the document, one after the other.
Made(f, ops, len, d, doc) ==
    f = [n \in 0..len |->
            IF n = 0 THEN doc
            ELSE IF ops[n].doc = d THEN Apply(ops[n], f[n - 1]) ELSE f[n - 1]]

\* There is such a function, however many changes there are.
LEMMA MadeExists ==
    ASSUME NEW ops, NEW d, NEW doc, NEW len \in Nat
    PROVE  \E f : Made(f, ops, len, d, doc)
<1> DEFINE S == {n \in Nat : \E f : Made(f, ops, n, d, doc)}
<1>1. 0 \in S
  <2>1. Made([n \in 0..0 |-> doc], ops, 0, d, doc)
    BY DEF Made
  <2> QED BY <2>1
<1>2. ASSUME NEW n \in Nat, n \in S PROVE n + 1 \in S
  <2>1. PICK f : Made(f, ops, n, d, doc)
    BY <1>2
  <2> DEFINE g == [k \in 0..n + 1 |->
                      IF k = 0 THEN doc
                      ELSE IF ops[k].doc = d THEN Apply(ops[k], f[k - 1]) ELSE f[k - 1]]
  <2>2. \A k \in 0..n : g[k] = f[k]
    BY <2>1 DEF Made
  <2>3. Made(g, ops, n + 1, d, doc)
    <3> HIDE DEF g
    <3>1. \A k \in 0..n + 1 : k # 0 => g[k - 1] = f[k - 1]
      BY <2>2
    <3>2. g = [k \in 0..n + 1 |->
            IF k = 0 THEN doc
            ELSE IF ops[k].doc = d THEN Apply(ops[k], g[k - 1]) ELSE g[k - 1]]
      BY <3>1 DEF g
    <3> QED BY <3>2 DEF Made
  <2> QED BY <2>3
<1> HIDE DEF S
<1>3. Nat \subseteq S
  BY <1>1, <1>2, NatBySet
<1> QED BY <1>3 DEF S

\* It is what ReplayOf is defined by.
LEMMA MadeIsReplay ==
    ASSUME NEW ops, NEW d, NEW doc, Len(ops) \in Nat
    PROVE  \E f : Made(f, ops, Len(ops), d, doc) /\ ReplayOf(ops, d, doc) = f[Len(ops)]
<1> DEFINE t == CHOOSE f : Made(f, ops, Len(ops), d, doc)
<1>1. Made(t, ops, Len(ops), d, doc)
  BY MadeExists
<1>2. ReplayOf(ops, d, doc) = t[Len(ops)]
  BY DEF ReplayOf, Made
<1> QED BY <1>1, <1>2

\* One more change at the end makes no difference to those before it.
LEMMA MadeAppend ==
    ASSUME NEW ops \in Seq(AllOps), NEW op \in AllOps, NEW d, NEW doc, NEW f, NEW g,
           Made(f, ops, Len(ops), d, doc), Made(g, Append(ops, op), Len(ops) + 1, d, doc)
    PROVE  \A n \in 0..Len(ops) : f[n] = g[n]
<1> DEFINE S == {n \in Nat : n <= Len(ops) => f[n] = g[n]}
<1>1. 0 \in S
  BY DEF Made
<1>2. ASSUME NEW n \in Nat, n \in S PROVE n + 1 \in S
  <2>1. CASE n + 1 <= Len(ops)
    <3>1. Append(ops, op)[n + 1] = ops[n + 1]
      BY <2>1
    <3>2. f[n] = g[n]
      BY <2>1, <1>2
    <3>3. f[n + 1] = IF ops[n + 1].doc = d THEN Apply(ops[n + 1], f[n]) ELSE f[n]
      BY <2>1 DEF Made
    <3>4. g[n + 1] = IF Append(ops, op)[n + 1].doc = d
                     THEN Apply(Append(ops, op)[n + 1], g[n]) ELSE g[n]
      BY <2>1 DEF Made
    <3> QED BY <3>1, <3>2, <3>3, <3>4
  <2> QED BY <2>1
<1> HIDE DEF S
<1>3. Nat \subseteq S
  BY <1>1, <1>2, NatBySet
<1> QED BY <1>3 DEF S

\* The last change is made to what the others have made of the document.
LEMMA ReplayAppend ==
    ASSUME NEW ops \in Seq(AllOps), NEW op \in AllOps, NEW d, NEW doc
    PROVE  ReplayOf(Append(ops, op), d, doc) =
               IF op.doc = d THEN Apply(op, ReplayOf(ops, d, doc)) ELSE ReplayOf(ops, d, doc)
<1>1. PICK more : more = Append(ops, op)
  OBVIOUS
<1>2. PICK n \in Nat : n = Len(ops) /\ Len(more) = n + 1 /\ more[n + 1] = op
  BY <1>1
<1>3. PICK f : Made(f, ops, n, d, doc) /\ ReplayOf(ops, d, doc) = f[n]
  BY MadeIsReplay, <1>2
<1>4. PICK g : Made(g, more, n + 1, d, doc) /\ ReplayOf(more, d, doc) = g[n + 1]
  <2>1. Len(more) \in Nat
    BY <1>2
  <2>2. PICK g : Made(g, more, Len(more), d, doc) /\ ReplayOf(more, d, doc) = g[Len(more)]
    BY MadeIsReplay, <2>1
  <2> QED BY <1>2, <2>2
<1>5. f[n] = g[n]
  BY <1>1, <1>2, <1>3, <1>4, MadeAppend
<1>6. g[n + 1] = IF more[n + 1].doc = d THEN Apply(more[n + 1], g[n]) ELSE g[n]
  <2>1. n + 1 \in 0..n + 1 /\ n + 1 # 0 /\ (n + 1) - 1 = n
    OBVIOUS
  <2> QED BY <1>4, <2>1 DEF Made
<1> QED BY <1>1, <1>2, <1>3, <1>4, <1>5, <1>6

\* No change, no difference.
LEMMA ReplayEmpty ==
    ASSUME NEW d, NEW doc
    PROVE  ReplayOf(<<>>, d, doc) = doc
<1>1. Len(<<>>) = 0
  OBVIOUS
<1> QED BY <1>1, MadeIsReplay DEF Made

-----------------------------------------------------------------------------
(* Lists.                                                                  *)

\* f says what is kept of the beginnings of a list.
Kept(f, list, len, item) ==
    f = [n \in 0..len |->
            IF n = 0 THEN <<>>
            ELSE IF list[n] = item THEN f[n - 1] ELSE Append(f[n - 1], list[n])]

\* There is such a function, however long the list is.
LEMMA KeptExists ==
    ASSUME NEW list, NEW item, NEW len \in Nat
    PROVE  \E f : Kept(f, list, len, item)
<1> DEFINE S == {n \in Nat : \E f : Kept(f, list, n, item)}
<1>1. 0 \in S
  <2>1. Kept([n \in 0..0 |-> <<>>], list, 0, item)
    BY DEF Kept
  <2> QED BY <2>1
<1>2. ASSUME NEW n \in Nat, n \in S PROVE n + 1 \in S
  <2>1. PICK f : Kept(f, list, n, item)
    BY <1>2
  <2> DEFINE g == [k \in 0..n + 1 |->
                      IF k = 0 THEN <<>>
                      ELSE IF list[k] = item THEN f[k - 1] ELSE Append(f[k - 1], list[k])]
  <2>2. \A k \in 0..n : g[k] = f[k]
    <3>1. \A k \in 0..n :
             f[k] = IF k = 0 THEN <<>>
                    ELSE IF list[k] = item THEN f[k - 1] ELSE Append(f[k - 1], list[k])
      BY <2>1, Zenon DEF Kept
    <3> QED BY <3>1
  <2> HIDE DEF g
  <2>3. \A k \in 0..n + 1 : k # 0 => g[k - 1] = f[k - 1]
    BY <2>2
  <2>4. g = [k \in 0..n + 1 |->
               IF k = 0 THEN <<>>
               ELSE IF list[k] = item THEN g[k - 1] ELSE Append(g[k - 1], list[k])]
    BY <2>3 DEF g
  <2> QED BY <2>4 DEF Kept
<1> HIDE DEF S
<1>3. Nat \subseteq S
  BY <1>1, <1>2, NatBySet
<1> QED BY <1>3 DEF S

\* What is kept are members of the list other than the item.
LEMMA WithoutTyped ==
    ASSUME NEW list \in Seq(Items), NEW item
    PROVE  Without(list, item) \in Seq(Items \ {item})
<1>1. PICK len \in Nat : len = Len(list)
  OBVIOUS
<1>2. PICK f : Kept(f, list, len, item) /\ Without(list, item) = f[len]
  <2> DEFINE t == CHOOSE f : Kept(f, list, Len(list), item)
  <2>1. Kept(t, list, Len(list), item)
    BY KeptExists
  <2>2. Without(list, item) = t[Len(list)]
    BY DEF Without, Kept
  <2> QED BY <1>1, <2>1, <2>2
<1> DEFINE S == {n \in Nat : n <= len => f[n] \in Seq(Items \ {item})}
<1>3. 0 \in S
  BY <1>2 DEF Kept
<1>4. ASSUME NEW n \in Nat, n \in S PROVE n + 1 \in S
  <2>1. CASE n + 1 <= len
    <3>1. f[n + 1] = IF list[n + 1] = item THEN f[n] ELSE Append(f[n], list[n + 1])
      <4>1. n + 1 \in 0..len /\ n + 1 # 0 /\ (n + 1) - 1 = n
        BY <2>1
      <4>2. f[n + 1] =
               IF n + 1 = 0 THEN <<>>
               ELSE IF list[n + 1] = item THEN f[(n + 1) - 1]
               ELSE Append(f[(n + 1) - 1], list[n + 1])
        BY <1>2, <4>1, Zenon DEF Kept
      <4> QED BY <4>1, <4>2
    <3>2. list[n + 1] \in Items /\ f[n] \in Seq(Items \ {item})
      BY <1>1, <1>4, <2>1
    <3>3. f[n + 1] \in Seq(Items \ {item})
      BY <3>1, <3>2
    <3> QED BY <3>3
  <2> QED BY <2>1
<1> HIDE DEF S
<1>5. Nat \subseteq S
  BY <1>3, <1>4, NatBySet
<1> QED BY <1>2, <1>5 DEF S

-----------------------------------------------------------------------------
(* Types.                                                                  *)

\* What the database may hold, a session may hold a copy of.
LEMMA DocsAreCopies ==
    ASSUME NEW d \in Docs
    PROVE  DocsOf(d) \subseteq CopiesOf(d)
<1>1. Histories \subseteq Seq(Items)
  BY TransactionAssumption DEF Histories
<1>2. -MaxLength..MaxLength \subseteq Int
  BY TransactionAssumption
<1> QED
  BY <1>1, <1>2 DEF DocsOf, CopiesOf, DocsWith, JobDocs, ListDocs, CounterDocs, SetDocs

\* Which copies there are of a document of each type.
LEMMA TypesOfCopies ==
    /\ \A d \in Jobs : CopiesOf(d) = JobDocs(Seq(Items))
    /\ \A d \in Lists : CopiesOf(d) = ListDocs(Seq(Items))
    /\ \A d \in Counters : CopiesOf(d) = CounterDocs(Int)
    /\ \A d \in Sets \cup Hashes : CopiesOf(d) = SetDocs
BY KindsAssumption DEF CopiesOf, DocsWith

\* A set, a hash or a list is found or created.
LEMMA FoundTyped ==
    ASSUME NEW d \in Sets \cup Hashes \cup Lists, NEW doc \in CopiesOf(d) \cup {Absent}
    PROVE  FindOrCreate(d, doc) \in CopiesOf(d)
<1>1. CASE d \in Lists
  <2>1. <<>> \in Seq(Items)
    OBVIOUS
  <2>2. [val |-> <<>>, exp |-> FALSE] \in ListDocs(Seq(Items))
    BY <2>1 DEF ListDocs
  <2> QED BY <1>1, <2>2, TypesOfCopies DEF FindOrCreate, Nothing
<1>2. CASE d \in Sets \cup Hashes
  <2>1. d \notin Lists
    BY <1>2, KindsAssumption
  <2> QED BY <1>2, <2>1, TypesOfCopies DEF FindOrCreate, Nothing, SetDocs
<1> QED BY <1>1, <1>2

LEMMA SetChangesTyped ==
    ASSUME NEW d, NEW doc \in SetDocs, NEW item \in Items
    PROVE  /\ AddToSet(doc, item) \in SetDocs
           /\ SetRangeInHash(doc, item) \in SetDocs
           /\ RemoveFromSet(d, doc, item) \in SetDocs \cup {Absent}
BY DEF AddToSet, SetRangeInHash, RemoveFromSet, UnlessEmpty, SetDocs

LEMMA ListChangesTyped ==
    ASSUME NEW d, NEW doc \in ListDocs(Seq(Items))
    PROVE  /\ \A item \in Items :
                 /\ InsertToList(doc, item) \in ListDocs(Seq(Items))
                 /\ RemoveFromList(d, doc, item) \in ListDocs(Seq(Items)) \cup {Absent}
           /\ \A range \in Ranges :
                 TrimList(d, doc, range) \in ListDocs(Seq(Items)) \cup {Absent}
<1>1. doc.val \in Seq(Items)
  BY DEF ListDocs
<1>2. ASSUME NEW v \in Seq(Items) PROVE [doc EXCEPT !.val = v] \in ListDocs(Seq(Items))
  BY <1>2 DEF ListDocs
<1>3. ASSUME NEW item \in Items PROVE InsertToList(doc, item) \in ListDocs(Seq(Items))
  BY <1>1, <1>2 DEF InsertToList
<1>4. ASSUME NEW item \in Items
      PROVE  RemoveFromList(d, doc, item) \in ListDocs(Seq(Items)) \cup {Absent}
  <2>1. Without(doc.val, item) \in Seq(Items)
    <3>1. Without(doc.val, item) \in Seq(Items \ {item})
      BY <1>1, WithoutTyped
    <3> QED BY <3>1, SeqMonotonic
  <2> QED BY <2>1, <1>2 DEF RemoveFromList, UnlessEmpty
<1>5. ASSUME NEW range \in Ranges
      PROVE  TrimList(d, doc, range) \in ListDocs(Seq(Items)) \cup {Absent}
  <2> DEFINE last == IF range[2] < Len(doc.val) THEN range[2] + 1 ELSE Len(doc.val)
  <2>1. range[1] \in Nat /\ range[2] \in Nat
    BY TransactionAssumption
  <2>2. last \in Int /\ \A n \in range[1] + 1..last : doc.val[n] \in Items
    BY <1>1, <2>1
  <2> HIDE DEF last
  <2>3. SubSeq(doc.val, range[1] + 1, last) \in Seq(Items)
    BY <2>1, <2>2, SubSeqProperties
  <2> QED BY <2>3, <1>2 DEF TrimList, UnlessEmpty, last
<1> QED BY <1>3, <1>4, <1>5

LEMMA JobChangesTyped ==
    ASSUME NEW doc \in JobDocs(Seq(Items))
    PROVE  /\ \A state \in Items : SetJobState(doc, state) \in JobDocs(Seq(Items))
           /\ \A value \in Retries : SetJobParameter(doc, value) \in JobDocs(Seq(Items))
           /\ GetJobParameter(doc) \in JobDocs(Seq(Items))
<1>1. /\ doc.val.history \in Seq(Items)
      /\ doc.val.retryCount \in Retries \cup {NoRetries}
  BY DEF JobDocs
<1>2. ASSUME NEW h \in Seq(Items) PROVE [doc EXCEPT !.val.history = h] \in JobDocs(Seq(Items))
  BY <1>2 DEF JobDocs
<1>3. ASSUME NEW r \in Retries \cup {NoRetries}
      PROVE  [doc EXCEPT !.val.retryCount = r] \in JobDocs(Seq(Items))
  BY <1>3 DEF JobDocs
<1>4. ASSUME NEW state \in Items PROVE <<state>> \o doc.val.history \in Seq(Items)
  BY <1>1, <1>4
<1>5. \A state \in Items : SetJobState(doc, state) \in JobDocs(Seq(Items))
  BY <1>2, <1>4 DEF SetJobState
<1>6. GetJobParameter(doc) \in JobDocs(Seq(Items))
  BY <1>1, <1>3 DEF GetJobParameter, Retries
<1> QED
  BY <1>3, <1>5, <1>6 DEF SetJobParameter

LEMMA ExpiryChangesTyped ==
    ASSUME NEW d \in Docs, NEW doc \in CopiesOf(d)
    PROVE  SetExpiry(doc) \in CopiesOf(d) /\ RemoveExpiry(doc) \in CopiesOf(d)
BY DEF SetExpiry, RemoveExpiry, CopiesOf, DocsWith, JobDocs, ListDocs, CounterDocs, SetDocs

\* A change other than of a counter makes of a document one of the same type, or
\* deletes a set or a list.  Without the job there is no change.
LEMMA ApplyTyped ==
    ASSUME NEW op \in AllTxnOps \cup AllCallOps, op.doc \notin Counters,
           NEW doc \in CopiesOf(op.doc) \cup {Absent}, op.doc \in Jobs => doc # Absent
    PROVE  /\ Apply(op, doc) \in CopiesOf(op.doc) \cup {Absent}
           /\ op.doc \in Jobs => Apply(op, doc) # Absent
<1> DEFINE d == op.doc
           found == FindOrCreate(d, doc)
<1>1. CASE op.name \in {"Expire", "Persist"}
  <2>1. d \in Docs /\ found \in CopiesOf(d)
    <3>1. d \in Docs
      BY <1>1 DEF AllTxnOps, AllCallOps
    <3>2. d \in Jobs => found = doc /\ doc \in CopiesOf(d)
      BY DEF FindOrCreate
    <3> QED BY <3>1, <3>2, FoundTyped DEF Docs
  <2>2. Apply(op, doc) = IF op.name = "Expire" THEN SetExpiry(found) ELSE RemoveExpiry(found)
    BY <1>1 DEF Apply
  <2>3. Apply(op, doc) \in CopiesOf(d)
    BY <2>1, <2>2, ExpiryChangesTyped
  <2> QED BY <2>1, <2>3, KindsAssumption
<1>2. CASE op.name \in {"AddToSet", "RemoveFromSet", "SetRangeInHash"}
  <2>1. d \in Sets \cup Hashes /\ op.arg \in Items
    BY <1>2 DEF AllTxnOps, AllCallOps
  <2>2. found \in SetDocs /\ CopiesOf(d) = SetDocs
    BY <2>1, FoundTyped, TypesOfCopies
  <2>3. d \notin Jobs
    BY <2>1, KindsAssumption
  <2>4. Apply(op, doc) = CASE op.name = "AddToSet" -> AddToSet(found, op.arg)
                           [] op.name = "RemoveFromSet" -> RemoveFromSet(d, found, op.arg)
                           [] op.name = "SetRangeInHash" -> SetRangeInHash(found, op.arg)
    BY <1>2 DEF Apply
  <2> HIDE DEF found
  <2>5. Apply(op, doc) \in SetDocs \cup {Absent}
    BY <1>2, <2>1, <2>2, <2>4, SetChangesTyped
  <2> QED BY <2>2, <2>3, <2>5
<1>3. CASE op.name \in {"InsertToList", "RemoveFromList", "TrimList"}
  <2>1. d \in Lists /\ IF op.name = "TrimList" THEN op.arg \in Ranges ELSE op.arg \in Items
    BY <1>3 DEF AllTxnOps, AllCallOps
  <2>2. found \in ListDocs(Seq(Items)) /\ CopiesOf(d) = ListDocs(Seq(Items))
    BY <2>1, FoundTyped, TypesOfCopies
  <2>3. d \notin Jobs
    BY <2>1, KindsAssumption
  <2>4. Apply(op, doc) = CASE op.name = "InsertToList" -> InsertToList(found, op.arg)
                           [] op.name = "RemoveFromList" -> RemoveFromList(d, found, op.arg)
                           [] op.name = "TrimList" -> TrimList(d, found, op.arg)
    BY <1>3 DEF Apply
  <2> HIDE DEF found
  <2>5. Apply(op, doc) \in ListDocs(Seq(Items)) \cup {Absent}
    BY <1>3, <2>1, <2>2, <2>4, ListChangesTyped
  <2> QED BY <2>2, <2>3, <2>5
<1>4. CASE op.name \in {"SetJobState", "SetJobParameter", "GetJobParameter"}
  <2>1. /\ d \in Jobs /\ d \in Docs
        /\ op.name = "SetJobState" => op.arg \in Items
        /\ op.name = "SetJobParameter" => op.arg \in Retries
    BY <1>4 DEF AllTxnOps, AllCallOps, Docs
  <2>2. doc \in JobDocs(Seq(Items)) /\ CopiesOf(d) = JobDocs(Seq(Items))
    BY <2>1, TypesOfCopies
  <2>3. Apply(op, doc) = CASE op.name = "SetJobState" -> SetJobState(doc, op.arg)
                           [] op.name = "SetJobParameter" -> SetJobParameter(doc, op.arg)
                           [] op.name = "GetJobParameter" -> GetJobParameter(doc)
    BY <1>4 DEF Apply
  <2>4. Apply(op, doc) \in CopiesOf(d)
    BY <1>4, <2>1, <2>2, <2>3, JobChangesTyped
  <2> QED BY <2>1, <2>4, KindsAssumption
<1>5. op.name # "UpdateCounter"
  BY DEF AllTxnOps, AllCallOps
<1> QED
  BY <1>1, <1>2, <1>3, <1>4, <1>5 DEF AllTxnOps, AllCallOps

\* What the changes of a counter are.
LEMMA CounterChanges ==
    ASSUME NEW op \in AllTxnOps \cup AllCallOps, op.doc \in Counters
    PROVE  /\ op.arg.value \in {-1, 1}
           /\ Apply(op, Absent) \in CounterDocs(Int)
           /\ Apply(op, Absent) # Absent
           /\ Apply(op, Absent).val = op.arg.value
           /\ \A doc : doc # Absent =>
                 Apply(op, doc) = [doc EXCEPT !.val = @ + op.arg.value]
<1>1. /\ op.name = "UpdateCounter"
      /\ op.arg \in [value : {-1, 1}, expires : BOOLEAN]
  BY KindsAssumption DEF AllTxnOps, AllCallOps, Docs
<1>2. \A doc : Apply(op, doc) = UpdateCounter(doc, op.arg)
  BY <1>1 DEF Apply
<1>3. UpdateCounter(Absent, op.arg) \in CounterDocs(Int)
  BY <1>1 DEF UpdateCounter, CounterDocs
<1>4. Absent \notin CounterDocs(Int)
  BY KindsAssumption, TypesOfCopies DEF Docs
<1> QED BY <1>1, <1>2, <1>3, <1>4 DEF UpdateCounter

-----------------------------------------------------------------------------
(* What a session knows of one document, and what one more change makes of  *)
(* it.  `was` and `is` are the document as loaded and the copy of it, `out`  *)
(* says whether it is going to be deleted and `sum` what patches add to it.  *)

\* Documents that might be there when the session saves.
Found(d) == DocsOf(d) \cup {Absent}

\* A document not loaded was asked nothing of, the copy of one that is no counter is
\* what the changes make of the loaded document, and one to be deleted is deleted by
\* them, either whatever it is or as it was loaded.
Replayed(ops, d, was, is, out) ==
    /\ was = Untracked /\ ~out => \A doc \in Found(d) : ReplayOf(ops, d, doc) = doc
    /\ was # Untracked /\ ~out /\ d \notin Counters => is = ReplayOf(ops, d, was)
    /\ out => \/ \A doc \in Found(d) : ReplayOf(ops, d, doc) = Absent
              \/ was # Untracked /\ ReplayOf(ops, d, was) = Absent

\* A counter that was found is left as it is and its changes add up to a patch, and
\* of one that was missing the first change is in the copy, the others in the patch.
Plus(doc, n) == [doc EXCEPT !.val = @ + n]
Counted(ops, c, was, is, sum) ==
    /\ was = Untracked => sum = 0
    /\ was = Absent => ReplayOf(ops, c, Absent) = Plus(is, sum)
    /\ was \notin {Untracked, Absent} =>
          /\ is = was
          /\ \A doc \in DocsOf(c) : ReplayOf(ops, c, doc) = Plus(doc, sum)

LEMMA PlusAdds ==
    ASSUME NEW doc \in CounterDocs(Int), NEW n \in Int
    PROVE  /\ Plus(doc, n) \in CounterDocs(Int)
           /\ Plus(doc, 0) = doc
           /\ \A m \in Int : Plus(Plus(doc, n), m) = Plus(doc, n + m)
<1>1. PICK k \in Int, e \in BOOLEAN : doc = [val |-> k, exp |-> e]
  BY DEF CounterDocs
<1>2. \A m \in Int : Plus(doc, m) = [val |-> k + m, exp |-> e]
  BY <1>1 DEF Plus
<1>3. \A m \in Int : Plus([val |-> k + n, exp |-> e], m) = [val |-> k + n + m, exp |-> e]
  BY DEF Plus
<1>4. \A m \in Int : k + n + m = k + (n + m) /\ n + m \in Int
  OBVIOUS
<1>5. k + 0 = k /\ k + n \in Int
  OBVIOUS
<1>6. Plus(doc, n) \in CounterDocs(Int)
  BY <1>2, <1>5 DEF CounterDocs
<1>7. Plus(doc, 0) = doc
  BY <1>1, <1>2, <1>5
<1>8. \A m \in Int : Plus(Plus(doc, n), m) = Plus(doc, n + m)
  BY <1>2, <1>3, <1>4
<1> QED BY <1>6, <1>7, <1>8

\* A new session knows nothing.
LEMMA NothingAsked ==
    ASSUME NEW d \in Docs
    PROVE  /\ Replayed(<<>>, d, Untracked, Untracked, FALSE)
           /\ Counted(<<>>, d, Untracked, Untracked, 0)
BY ReplayEmpty, TransactionAssumption DEF Replayed, Counted

\* A change of one document is none of the others.
LEMMA OthersReplayed ==
    ASSUME NEW ops \in Seq(AllOps), NEW op \in AllOps, NEW d, op.doc # d,
           NEW was, NEW is, NEW out, NEW sum
    PROVE  /\ Replayed(ops, d, was, is, out) => Replayed(Append(ops, op), d, was, is, out)
           /\ Counted(ops, d, was, is, sum) => Counted(Append(ops, op), d, was, is, sum)
<1>1. \A doc : ReplayOf(Append(ops, op), d, doc) = ReplayOf(ops, d, doc)
  BY ReplayAppend
<1> QED BY <1>1 DEF Replayed, Counted

\* A change of a copy.
LEMMA ChangeReplayed ==
    ASSUME NEW ops \in Seq(AllOps), NEW op \in AllOps, NEW was, NEW is,
           NEW stored \in Found(op.doc), stored # Untracked,
           was = Untracked <=> is = Untracked, op.doc \notin Counters,
           Replayed(ops, op.doc, was, is, FALSE),
           NEW old, old = IF is = Untracked THEN stored ELSE is,
           NEW loaded, loaded = IF was = Untracked THEN old ELSE was,
           NEW new, new = Apply(op, old)
    PROVE  Replayed(Append(ops, op), op.doc, loaded, new, new = Absent)
<1>1. ReplayOf(ops, op.doc, loaded) = old
  BY DEF Replayed
<1>2. ReplayOf(Append(ops, op), op.doc, loaded) = new
  BY <1>1, ReplayAppend
<1>3. loaded # Untracked
  OBVIOUS
<1> QED BY <1>2, <1>3 DEF Replayed

\* Once more a counter is changed: what the changes add up to.
LEMMA CounterReplayed ==
    ASSUME NEW ops \in Seq(AllOps), NEW op \in AllTxnOps \cup AllCallOps,
           op.doc \in Counters, NEW doc, NEW known \in CounterDocs(Int), NEW n \in Int,
           ReplayOf(ops, op.doc, doc) = Plus(known, n)
    PROVE  ReplayOf(Append(ops, op), op.doc, doc) = Plus(known, n + op.arg.value)
<1>1. op \in AllOps /\ op.doc \in Docs
  BY DEF AllOps, Docs
<1>2. Absent \notin CounterDocs(Int)
  BY <1>1, KindsAssumption, TypesOfCopies
<1>3. Plus(known, n) \in CounterDocs(Int) /\ Plus(known, n) # Absent
  BY <1>2, PlusAdds
<1>4. \A x : x # Absent => Apply(op, x) = Plus(x, op.arg.value)
  BY CounterChanges DEF Plus
<1>5. ReplayOf(Append(ops, op), op.doc, doc) = Plus(Plus(known, n), op.arg.value)
  BY <1>1, <1>3, <1>4, ReplayAppend
<1>6. op.arg.value \in Int
  BY CounterChanges
<1> QED BY <1>5, <1>6, PlusAdds

\* The first change of a counter that is missing creates it.
LEMMA CounterCreated ==
    ASSUME NEW ops \in Seq(AllOps), NEW op \in AllTxnOps \cup AllCallOps,
           op.doc \in Counters, NEW sum,
           Replayed(ops, op.doc, Untracked, Untracked, FALSE),
           Counted(ops, op.doc, Untracked, Untracked, sum)
    PROVE  Counted(Append(ops, op), op.doc, Absent, Apply(op, Absent), sum)
<1>1. sum = 0 /\ ReplayOf(ops, op.doc, Absent) = Absent
  BY DEF Replayed, Counted, Found
<1>2. ReplayOf(Append(ops, op), op.doc, Absent) = Apply(op, Absent)
  BY <1>1, ReplayAppend DEF AllOps
<1>3. Apply(op, Absent) = Plus(Apply(op, Absent), sum)
  BY <1>1, CounterChanges, PlusAdds
<1> QED BY <1>2, <1>3, TransactionAssumption DEF Counted

\* The first change of a counter that is there is a patch,
LEMMA CounterPatched ==
    ASSUME NEW ops \in Seq(AllOps), NEW op \in AllTxnOps \cup AllCallOps,
           op.doc \in Counters, NEW sum, NEW old, old \notin {Untracked, Absent},
           Replayed(ops, op.doc, Untracked, Untracked, FALSE),
           Counted(ops, op.doc, Untracked, Untracked, sum)
    PROVE  Counted(Append(ops, op), op.doc, old, old, sum + op.arg.value)
<1>1. sum = 0 /\ \A doc \in DocsOf(op.doc) : ReplayOf(ops, op.doc, doc) = doc
  BY DEF Replayed, Counted, Found
<1>2. DocsOf(op.doc) \subseteq CounterDocs(Int)
  BY DocsAreCopies, TypesOfCopies DEF Docs
<1>3. \A doc \in DocsOf(op.doc) : ReplayOf(ops, op.doc, doc) = Plus(doc, sum)
  BY <1>1, <1>2, PlusAdds
<1>4. \A doc \in DocsOf(op.doc) :
         ReplayOf(Append(ops, op), op.doc, doc) = Plus(doc, sum + op.arg.value)
  BY <1>1, <1>2, <1>3, CounterReplayed
<1> QED BY <1>4 DEF Counted

\* and so is every later one.
LEMMA CounterPatchedAgain ==
    ASSUME NEW ops \in Seq(AllOps), NEW op \in AllTxnOps \cup AllCallOps,
           op.doc \in Counters, NEW was, was # Untracked, NEW is \in CounterDocs(Int),
           NEW sum \in Int, Counted(ops, op.doc, was, is, sum)
    PROVE  Counted(Append(ops, op), op.doc, was, is, sum + op.arg.value)
<1>1. DocsOf(op.doc) \subseteq CounterDocs(Int)
  BY DocsAreCopies, TypesOfCopies DEF Docs
<1>2. CASE was = Absent
  <2>1. ReplayOf(Append(ops, op), op.doc, Absent) = Plus(is, sum + op.arg.value)
    BY <1>2, CounterReplayed DEF Counted
  <2> QED BY <1>2, <2>1 DEF Counted
<1>3. CASE was # Absent
  <2>1. is = was /\ \A doc \in DocsOf(op.doc) : ReplayOf(ops, op.doc, doc) = Plus(doc, sum)
    BY <1>3 DEF Counted
  <2>2. \A doc \in DocsOf(op.doc) :
           ReplayOf(Append(ops, op), op.doc, doc) = Plus(doc, sum + op.arg.value)
    BY <1>1, <2>1, CounterReplayed
  <2> QED BY <1>3, <2>1, <2>2 DEF Counted
<1> QED BY <1>2, <1>3

\* A delete by id is the last that is asked of a document.
LEMMA RemoveReplayed ==
    ASSUME NEW ops \in Seq(AllOps), NEW op \in AllRemoveOps, NEW was, NEW is
    PROVE  Replayed(Append(ops, op), op.doc, was, is, TRUE)
<1>1. op \in AllOps /\ \A doc : Apply(op, doc) = Absent
  BY DEF AllOps, AllRemoveOps, Apply
<1>2. \A doc : ReplayOf(Append(ops, op), op.doc, doc) = Absent
  BY <1>1, ReplayAppend
<1> QED BY <1>2 DEF Replayed
==============================================================================

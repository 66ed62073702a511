-------------------------- MODULE MCWriteTransaction --------------------------
(* Instances of WriteTransaction for TLC. *)
EXTENDS WriteTransaction, TLC

CONSTANTS x, y, a, b

\* Keep the first, keep the second.
MCRanges == {<<0, 0>>, <<1, 1>>}

\* Every kind of change, with fewer arguments: only `a` is ever removed from a set or
\* a list, only the second item of a list trimmed away; expiry is set for sets only,
\* and for counters when they are created.
MCTxnOps ==
    {op \in AllTxnOps :
        /\ op.name \in {"RemoveFromSet", "RemoveFromList"} => op.arg = a
        /\ op.name = "TrimList" => op.arg = <<0, 0>>
        /\ op.name = "Expire" => op.doc \in Sets
        /\ op.name = "Persist" => op.doc \in Jobs
        /\ op.name \in {"SetRangeInHash", "SetJobState"} => op.arg = a
        /\ op.name = "UpdateCounter" => op.arg.value = 1}
MCCallOps == {op \in AllCallOps : op.doc \in Jobs /\ op.arg # 1}

\* Documents of one kind at a time, hashes and counters together.
OneKind ==
    \E kind \in {Jobs, Sets, Lists, Hashes \cup Counters} :
        /\ \A d \in Docs \ kind : db[d] = Absent
        /\ \A s \in Sessions : \A n \in 1..Len(asked[s]) : asked[s][n].doc \in kind

\* Changes of single values.
MCSimpleOps == {op \in AllTxnOps : op.name \in {"AddToSet", "RemoveFromSet", "SetJobState"}}
MCParameterOps == {op \in AllCallOps : op.name = "SetJobParameter"}

\* Transactions are alike; for safety runs.
TxnSymmetry == Permutations(Txns)
=============================================================================

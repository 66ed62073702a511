SPECIFICATION Spec
CONSTANTS
    x = x y = y a = a b = b
    Txns = {x, y}
    Calls = {c1}
    Jobs = {j1}
    Sets = {s1}
    Hashes = {h1}
    Lists = {l1}
    Counters = {n1}
    Items = {a, b}
    Ranges <- MCRanges
    TxnOps <- MCTxnOps
    CallOps <- MCCallOps
    RemoveOps <- AllRemoveOps
    MaxOps = 2
    MaxLength = 2
    Absent = Absent
    Untracked = Untracked
SYMMETRY TxnSymmetry
CONSTRAINT OneKind
INVARIANTS TypeOK CopiesAreReplays
PROPERTIES CommitApplies CommitsAreCurrent

SPECIFICATION Spec
CONSTANTS
    x = x y = y a = a b = b
    Txns = {x}
    Calls = {c1}
    Jobs = {j1}
    Sets = {}
    Hashes = {}
    Lists = {}
    Counters = {}
    Items = {a, b}
    Ranges <- MCRanges
    TxnOps <- MCSimpleOps
    CallOps <- MCParameterOps
    RemoveOps <- AllRemoveOps
    MaxOps = 2
    MaxLength = 2
    Absent = Absent
    Untracked = Untracked
SYMMETRY TxnSymmetry
PROPERTIES StatesAreAppended

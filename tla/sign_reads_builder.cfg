CONSTANTS
    Builds = {b1}
    Outputs = {o1, o2}
    InvalidOutputs = {o2}
    Pools = {p1}
    Metadatas = {md1, md2}
    Signers = {s1}
    Options = {opt1}
    Accounts = {a1}
    None = None
    MaxEdits = 1
SPECIFICATION Spec
INVARIANT SignedTxIsValidTx
CHECK_DEADLOCK FALSE

CONSTANTS
    Builds = {b1}
    Outputs = {o1, o2}
    InvalidOutputs = {o2}
    Pools = {p1}
    Metadatas = {md1}
    Signers = {s1}
    Options = {opt1}
    Accounts = {a1}
    None = None
    MaxEdits = 2
SPECIFICATION Spec
INVARIANT CertificatesFollowLedgerRules
CHECK_DEADLOCK FALSE

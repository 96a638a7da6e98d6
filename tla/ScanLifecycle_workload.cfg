SPECIFICATION Spec
CONSTANTS
    s1 = s1
    s2 = s2
    s3 = s3
    t1 = t1
    t2 = t2
    n1 = n1
    n2 = n2
    a1 = a1
    None = None
    Scan = {s1, s2, t1}
    Node = {n1, n2}
    Agent = {a1}
    NodeOf <- OnTwoNodes
    AgentOf <- OneAgent
    Priority = {t1}
    MaxRetries = 1
    MaxWork = 2
    MaxStop = 5
    Ops = {"timeout", "lose", "busy"}
    MaxTx = 1
    MaxMsgs = 2
    MaxBatch = 1
    MaxRestarts = 0
INVARIANTS
    WorkloadRespected
SYMMETRY PairSymmetry

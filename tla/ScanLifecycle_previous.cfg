SPECIFICATION Spec
CONSTANTS
    s1 = s1
    s2 = s2
    s3 = s3
    t1 = t1
    t2 = t2
    n1 = n1
    n2 = n2
    a1 = a1
    None = None
    Scan = {s1, s2}
    Node = {n1}
    Agent = {a1}
    NodeOf <- OnOneNode
    AgentOf <- OneAgent
    Priority = {}
    MaxRetries = 3
    MaxWork = 2
    MaxStop = 5
    Ops = {"delete", "results"}
    MaxTx = 1
    MaxMsgs = 1
    MaxBatch = 1
    MaxRestarts = 0
PROPERTIES
    ResetFindsPrevious

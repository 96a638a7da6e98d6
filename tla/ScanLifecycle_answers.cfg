SPECIFICATION FairSpec
CONSTANTS
    s1 = s1
    s2 = s2
    s3 = s3
    t1 = t1
    t2 = t2
    n1 = n1
    n2 = n2
    a1 = a1
    None = None
    Scan = {s1}
    Node = {n1}
    Agent = {a1}
    NodeOf <- OnOneNode
    AgentOf <- OneAgent
    Priority = {}
    MaxRetries = 2
    MaxWork = 2
    MaxStop = 5
    Ops = {"stop", "delete", "bulk_delete", "timeout", "redeliver", "sbom"}
    MaxTx = 1
    MaxMsgs = 3
    MaxBatch = 2
    MaxRestarts = 0
INVARIANTS
    AnswerUnderWay
PROPERTIES
    CancelEnds
    ImplementsContract

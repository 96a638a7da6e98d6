SPECIFICATION Spec
CONSTANTS
    provider = provider
    region = region
    host = host
    container = container
    process = process
    inner = inner
    Root = Root
    Node = {provider, region, host, container, process, inner}
    Edge <- MCEdge
    Kind <- MCKind
    Parent <- MCParent
    Keys <- MCKeys
    NodeLimit = 6
    MaxChanges = 4
INVARIANTS
    TypeOK
    NoGhosts
    FiltersFollowData
PROPERTIES
    ExpandDraws

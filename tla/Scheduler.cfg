SPECIFICATION Spec
CONSTANTS
    p1 = p1
    p2 = p2
    s1 = s1
    s2 = s2
    Posters = {p1, p2}
    Static = {s1, s2}
    Storage <- MCStorage
    PoolUsers = {p1}
    PoolSize = 2
    Null = Null
    Exhausted = Exhausted
    MaxPosts <- MCPosts
INVARIANTS TypeOK NoLostWakeup ExclusiveOwner RunsInOrder
PROPERTIES EveryPostRuns

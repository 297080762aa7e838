SPECIFICATION FairSpec
CONSTANTS
    Calls = {t1, t2}
    Nobody = Nobody
    t1 = t1
    c1 = c1
    c2 = c2
    m1 = m1
    m2 = m2
    Clusters = {c1, c2}
    Fleet = Fleet
    Contents = {m1, m2}
    MaxTime = 2
    MaxRows = 3
    Retention = 1
    PageLimit = 1
    BatchSize = 1
    Second = 2
    Instances <- MCInstances
INVARIANTS
    TypeOK
    PagesComplete
    RetryHasSession
PROPERTIES
    NewestFirst
    CallsReturn
    ExpiredRemoved

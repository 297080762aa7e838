SPECIFICATION Spec
CONSTANTS
    Clusters = {c1, c2, c3}
    Tenants = {t1, t2}
    Labelled = {}
    Snapshots <- MCSnapshots
    SystemNamespaces <- MCSystemNamespaces
    StaleAfter = 0
    MaxChanges = 1
SYMMETRY Symmetry
INVARIANTS
    TypeOK
    PassIsFleetMode
    DriftNeedsPeer
    VerdictsAreReported

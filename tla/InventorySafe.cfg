SPECIFICATION Spec
CONSTANTS
    Calls = {c1, c2}
    Vms = {v1}
    Nodes = {n1, n2}
    Nowhere = Nowhere
    Ttl = 1
    MaxTime = 2
SYMMETRY Symmetry
INVARIANTS TypeOK ForcedSeesCluster SettledClusterSeen

SPECIFICATION Spec
CONSTANTS
    Ops = {o1, o2}
    Types = {"backup", "snippets"}
    Inspections = {i1, i2}
    Vms = {v1, v2}
    Loops = {l1, l2}
    NoVm = NoVm
SYMMETRY Symmetry
INVARIANTS TypeOK ReadsTrue WritesLand EvidenceIsOwn LeftoversHeal
PROPERTY ContentTypesKept

SPECIFICATION BootSpec
CONSTANTS
    Inspections = {i1, i2}
    Vms = {a, b}
    Loops = {l1, l2}
    NoVm = NoVm
INVARIANT FallbackOnly

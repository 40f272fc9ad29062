SPECIFICATION Spec
CONSTANTS
    Ids = {i1, i2}
    Readers = {r1, r2}
    Ttl = 1
    MaxTime = 2
SYMMETRY Symmetry
INVARIANTS ReadsExplained LinkedFilesKept FilesAccounted

SPECIFICATION Spec
CONSTANTS
    Clients = {c1, c2, c3}
    Rows = {none, one}
    NoInstances = none
    Inodes = {i1, i2, i3, i4}
    MaxGeneration = 2
    None = None
    Partial = Partial
INVARIANTS
    TypeOK
    NeverCorrupt
PROPERTIES
    ImplementsAtomic
    NoLostUpdate

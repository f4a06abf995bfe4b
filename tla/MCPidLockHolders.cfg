SPECIFICATION Spec
CONSTANTS
    Daemons = {d1, d2, d3}
    Clients = {}
    Inodes = {i1, i2, i3}
    Nobody = Nobody
    NoFile = NoFile
    SharedAddr = FALSE
INVARIANTS OneLockHolder

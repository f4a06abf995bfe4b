SPECIFICATION Spec
CONSTANTS
    Daemons = {d1}
    Clients = {c1}
    Inodes = {i1, i2}
    Nobody = Nobody
    NoFile = NoFile
    SharedAddr = TRUE
INVARIANTS StoppedMeansExited

SPECIFICATION FairSpec
CONSTANTS
    Daemons = {d1, d2}
    Clients = {c1}
    Inodes = {i1, i2, i3}
    Nobody = Nobody
    NoFile = NoFile
    SharedAddr = TRUE
INVARIANTS TypeOK OneDaemonPerAddress ServingFileNamesDaemon StoppedMeansNotServing
PROPERTIES SignalledDaemonExits CommandsReturn

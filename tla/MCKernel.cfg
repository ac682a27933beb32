SPECIFICATION Spec
CONSTANTS
    Procs = {p1, p2}
    Inodes = {i1, i2}
    Blocks = {1, 2, 3, 4}
    BSIZE = 2
    NDIRECT = 1
    W = 16
    Offsets = {0, 3}
    Sizes = {3, 15}
    Sources <- MCSources
    NoProc = NoProc
    NoBlock = NoBlock
    Inums = {1, 2, 3}
    Calls <- MCCalls
    Seconds = 5
    Years = 12
    MaxUpdates = 4
    TickW = 4
    Naps <- MCNaps
    MaxTicks = 6
    Argvs <- MCArgvs
    PGSIZE = 48
    MAXARG = 3
SYMMETRY Symmetry
VIEW View
INVARIANTS
    BlocksSound
    ContentSound
    
    TimeSound
    ArgumentsSound

SPECIFICATION Spec
CONSTANTS
    Programs = {"station", "academy", "sort", "reverser", "grep", "printf", "tests",
                "library", "shell"}
    Evms = {e1}
    Robots = {r1}
    Voters = 1
    EvmSlots = 1
    NoEvm = NoEvm
    CarLength = 4
    Attenders = {a1, a2}
    QueueSize = 2
    Pumps = 2
    Main = Main
    Teams = 2
    SortInputs <- MCSortInputs
    MIN_LENGTH = 2
    Files <- MCFiles
    BufSizes = {1, 2, 3}
    Small = "a"
    Capital = "A"
    None = None
    Patterns <- MCPatterns
    GrepInputs <- MCGrepInputs
    BufSize = 4
    NL = "nl"
    Formats <- MCFormats
    Bits = 8
    Words = {0, 7, 9, 16, 127, 128, 255}
    Strings <- MCStrings
    ForkN = 3
    Tables = {1, 3, 4, 5}
    FORKS = 3
    WRITES = 2
    Pids = {c1, c2}
    LibCalls <- MCLibCalls
    Typed <- MCTyped
    Waits = {1}
    Texts = {"t", "u"}
    MaxTime = 2
    MaxReminders = 2
SYMMETRY Symmetry
CHECK_DEADLOCK FALSE
INVARIANTS
    StationSound
    AcademySound
    SortSound
    
    
    ReminderSound

SPECIFICATION PollingSpec
CONSTANTS
    Programs = {"booth"}
    Evms = {e1, e2}
    Robots = {r1, r2, r3}
    Voters = 2
    EvmSlots = 2
    NoEvm = NoEvm
    CarLength = 1
    Attenders = {a1, a2}
    QueueSize = 2
    Pumps = 2
    Main = Main
    Teams = 1
    SortInputs = {}
    MIN_LENGTH = 2
    Files = {}
    BufSizes = {}
    Small = "a"
    Capital = "A"
    None = None
    Patterns = {}
    GrepInputs = {}
    BufSize = 4
    NL = "nl"
    Formats = {}
    Bits = 8
    Words = {}
    Strings = {}
    ForkN = 3
    Tables = {}
    FORKS = 3
    WRITES = 2
    Pids = {}
    LibCalls = {}
    Typed = {}
    Waits = {}
    Texts = {}
    MaxTime = 2
    MaxReminders = 2
INVARIANTS SlotsSound VotersSound
PROPERTIES PollingEnds

\* A program that maps two parts of one library.
CONSTANTS
    Parts = {"baselines"}
    game = game
    lib = lib
    NULL = NULL
    Path = {game, lib}
    Program <- TwoParts
    MaxAddr = 2
    PartLen = 4
    MaxVersion = 2
    MaxEvents = 1
    HASH_CAP = 2
    MaxSaves = 2
    RENDER_APIS <- Apis
    SymTables <- Tables
    Present = "present"
    MIN_BYTES = 2
    MAX_BYTES = 3
    DEFAULT_BYTES = 2
    Byte = {0, 128}
    BLOCK = 4
    LENBYTES = 2
    CHUNK = 3
    MaxSize = 5
    Failed = Failed
    m1 = m1
    m2 = m2
    Module = {m1, m2}
    Own = own
    MAX_MODS = 2
    MAX_PROC_MODS = 4
    MaxLoads = 3
    UserDirs <- Home
    SystemDirs <- System
    FileName = {"a", "b"}
    Manifest <- Manifests
    KnownNames = {"known"}
    EnvVar = {"OFF"}
    MAX_LAYERS = 2
    NoText = NoText
    MaxChanges = 2
    MaxScans = 2
    LOG_LEN = 5
    ESC_LEN = 13
    MaxText = 4
    MaxPid = 3
    Comm = {"game", "other"}
    Wanted = "game"
    MAX_PIDS = 2
    PROT_MAX = 2
    MaxTasks = 3
    MaxRenames = 1
    NoTask = NoTask
SPECIFICATION Spec
CHECK_DEADLOCK FALSE
INVARIANT UntouchedMatches

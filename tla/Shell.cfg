SPECIFICATION Spec
CONSTANTS
    Procs = {1, 2, 3}
    root = 1
    MaxFd = 7
    Lines <- SmallLines
    Runnable = {"prog"}
    Files = {"f", "ro"}
    Writable = {"f"}
    Existing = {"ro"}
    Dirs = {"/", "/home"}
    Home = "/home"
    Up <- SmallUp
    Masks <- SomeMasks
    MaxLines = 3
    MaxInts = 1
INVARIANTS
    TypeOK
    StdioRestored
    RedirectionsInEffect
    OneReader
    AllReaped
    HandlerNeverBlocks
    HangsExplained
PROPERTIES
    ProgramsReturn
CHECK_DEADLOCK FALSE

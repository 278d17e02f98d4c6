SPECIFICATION Spec
CONSTANTS
    Cases <- SmallCases
    Options <- SmallOptions
    Junk <- SmallJunk
INVARIANTS
    TypeOK
    OutputFollowsInput
    ConversionIsRight
    CrashExplained
CHECK_DEADLOCK FALSE

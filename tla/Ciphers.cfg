SPECIFICATION Spec
CONSTANTS
    Commands <- SmallCommands
    Texts <- SmallTexts
    FTSizes <- SmallFTSizes
    Behind <- SmallBehind
    MaxText = 5
INVARIANTS
    TableIsPermutation
    ReadsBack
    
PROPERTIES
    Ends
CHECK_DEADLOCK FALSE

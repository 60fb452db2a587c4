CONSTANTS
    SlotCount = 2  Name = {"a", "b", "c"}  Missing = Missing  Broken = Broken
    DefaultPkgs <- PkgsDefault  DefaultStates <- StatesDefault
    Command <- SomeCommands  Table <- Tables
    EditedPkgs <- SomePkgs  EditedStates <- SomeStates  EditAt <- LookedAt  Repeat = FALSE
    Passes = 2  MaxSessions = 2  MaxEdits = 1  MaxFaults = 0
CHECK_DEADLOCK FALSE
SPECIFICATION Spec
INVARIANT ExternalNamesOn

CONSTANTS
    l1 = l1  l2 = l2
    List <- TwoLists  Request <- Both  Start = {"fresh", "current", "previous", "moved", "historical"}
    MayCompromise = TRUE  MaxRuns = 3  MaxFaults = 2  MaxCrashes = 2
CHECK_DEADLOCK FALSE
SPECIFICATION Spec
INVARIANTS
    TypeOK BranchesLand HelperOutlivesBranches FailureRestores SuccessIsComplete
PROPERTY ImplementsHalImage

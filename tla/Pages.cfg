\* Every request of up to three segments, sites published under way.
SPECIFICATION Spec
CONSTANTS
    alice = alice
    bob = bob
    staff = staff
    Names = {alice, bob, staff}
    Principals <- AliceAndBob
    BranchOf <- TwoBranches
    DefaultBranch = "main"
    Segments <- RequestSegments
    MaxSegments = 3
    SiteDirs <- Directories
    AccessOf <- TwoConfigs
    Deployments <- TwoDeployments
    MaxDepth = 3
    Policy = "DENY"
    None = None
CHECK_DEADLOCK FALSE
INVARIANTS
    TypeOK
    ServedUnderItsRule
    SplitLosesNothing
    ServedByARule
    DepthsRespected

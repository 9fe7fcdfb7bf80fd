SPECIFICATION Spec
CONSTANTS
    l1 = l1
    l2 = l2
    b1 = b1
    b2 = b2
    Launches = {l1, l2}
    Builds = {b1, b2}
    Plans <- MCPlans
    Fails = TRUE
    Cancels = {l1}
    Crashes = TRUE
INVARIANTS ImagesWhole NothingLeft
PROPERTY LaunchSettles
CHECK_DEADLOCK FALSE

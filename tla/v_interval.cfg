SPECIFICATION Spec
CONSTANTS
    Counts = {0, 1, 3, 5}
    Lists <- MCLists
    Plans <- MCPlans
CHECK_DEADLOCK FALSE
INVARIANTS RepeatsFollowTheList

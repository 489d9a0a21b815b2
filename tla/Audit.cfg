SPECIFICATION Spec
CONSTANTS
    Requests = {r1, r2, r3, r4, r5}
    MaxEvents = 3
    MaxListed = 2
    Limits <- MCLimits
    Thrown <- MCThrown
    MaxLives = 2
SYMMETRY RequestSymmetry
CHECK_DEADLOCK FALSE
INVARIANTS TrailIsRecent
PROPERTIES MutationsRecorded ListedNewestFirst

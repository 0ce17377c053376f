\* A request that searches at most once, with one call in a round.
SPECIFICATION SearchSpec
CONSTANTS
    MaxRounds = 1
    MaxRetries = 1
    MaxUses = 1
    MaxCalls = 1
INVARIANT RoundsAreWhole
CHECK_DEADLOCK FALSE

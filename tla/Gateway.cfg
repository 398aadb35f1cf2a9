CONSTANTS
    Counts = {2, 5}
    MaxLines = 2
    MaxBody = 3
    Callers = {c1, c2}
    Keys = {"legacy", "k1"}
    Limited = {"k1"}
    Quota = 2
    MaxCost = 2
    MaxCalls = 2
    Months = 2
    Ids = {"i1", "i2"}
    Secrets <- MCSecrets
    Customers = {"", "acme", "beta"}
    Guesses <- MCGuesses
    MaxKeys = 3
    Owner <- MCOwner
    Month = 2
    Moments = 2
    Costs <- MCCosts
    MaxRows = 3
    Points <- MCPoints
    Repeats = 2
    Decoded = {1, 2}
    Walls = {0, 1, 3}
SPECIFICATION MCSpec
SYMMETRY Symmetry
INVARIANT OvershootBounded
INVARIANT BillsBalance
INVARIANT LikeForLike
INVARIANT InvoicedToOwner
INVARIANT MeterOnlyListens
CHECK_DEADLOCK FALSE

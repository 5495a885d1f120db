CONSTANTS
    a = a
    x = x
    y = y
    s1 = s1
    s2 = s2
    None = None
    Accounts <- MCAccounts
    Labels <- MCLabels
    Searches <- MCSearches
    MaxRuns = 2
SPECIFICATION ConsoleSpec
INVARIANTS ConsoleTypeOK RegisterAlive PipelineTruthful RememberedForMinter
SYMMETRY MCSymmetry

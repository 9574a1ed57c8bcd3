SPECIFICATION MenuFairSpec
CONSTANTS
    h1 = h1
    h2 = h2
    p1 = p1
    c1 = c1
    Products <- OneProduct
    Combos <- OneCombo
    Handlers = {h1, h2}
    MaxChanges = 2
    MaxLinks = 1
    Faults = TRUE
INVARIANT MenuTypeOK
INVARIANT EntryExplained
INVARIANT PricedFromRows
INVARIANT ListedMeansWhole
PROPERTY MenuCatchesUp

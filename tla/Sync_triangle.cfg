SPECIFICATION Spec
CONSTANTS
    n1 = n1
    n2 = n2
    n3 = n3
    n4 = n4
    None = None
    Nodes = {n1, n2, n3}
    Target <- Triangle
    Quota <- TwoOfOne
    InOrder = TRUE
    MaxDrops = 0
    MaxRestarts = 0
INVARIANTS TypeOK NothingRejected

SPECIFICATION Spec
CONSTANTS
    n1 = n1
    n2 = n2
    n3 = n3
    n4 = n4
    None = None
    Nodes = {n1, n2}
    Target <- Pair
    Quota <- TwoAndOne
    InOrder = FALSE
    MaxDrops = 1
    MaxRestarts = 1
INVARIANTS HoldsPrefix

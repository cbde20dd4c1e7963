SPECIFICATION Spec
CONSTANTS
    h1 = h1
    h2 = h2
    a = a
    b = b
    cell1 = cell1
    cell2 = cell2
    Main = Main
    None = None
    Genesis = Genesis
    Handlers = {h1, h2}
    SPs = {a}
    Cells = {cell1}
    Cell <- OneSP
    Routes = {"tuple"}
    Default = TRUE
    Drain = TRUE
    MaxBatch = 1
    MaxRequests = 2
    MaxCrashes = 0
    MaxStops = 0
    MaxFaults = 0
SYMMETRY Symmetry
INVARIANT NoFork

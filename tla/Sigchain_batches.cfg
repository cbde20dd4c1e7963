SPECIFICATION Spec
CONSTANTS
    h1 = h1
    h2 = h2
    a = a
    b = b
    cell1 = cell1
    cell2 = cell2
    Main = Main
    None = None
    Genesis = Genesis
    Handlers = {h1, h2}
    SPs = {a, b}
    Cells = {cell1, cell2}
    Cell <- Exact
    Routes = {"tuples"}
    Default = TRUE
    Drain = TRUE
    MaxBatch = 2
    MaxRequests = 3
    MaxCrashes = 0
    MaxStops = 1
    MaxFaults = 1
SYMMETRY Symmetry
INVARIANTS TypeOK VersionsIncrease
PROPERTY ImplementsLog

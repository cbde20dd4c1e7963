SPECIFICATION Spec
CONSTANTS
    None = None
    Hash <- OneRow
    Store = "mongo"
    SPs = {1, 2}
    Objects = {1, 2}
    Subject <- TwoSubjects
    Tuples <- TwoPairs
    MaxCopies = 1
    MaxRestarts = 1
    MaxFaults = 1
INVARIANTS TypeOK NeverStale

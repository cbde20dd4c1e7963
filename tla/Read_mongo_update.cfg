SPECIFICATION Spec
CONSTANTS
    None = None
    Hash <- OneRow
    Store = "mongo"
    SPs = {1}
    Objects = {1, 2}
    Subject <- OneSubject
    Tuples <- Back
    MaxCopies = 1
    MaxRestarts = 0
    MaxFaults = 0
INVARIANT LatestWins

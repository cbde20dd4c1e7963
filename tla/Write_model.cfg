SPECIFICATION FairSpec
CONSTANTS
    None = None
    Hash <- TwoRows
    SPs = {1, 2}
    Objects = {1, 2}
    Trials <- OneTrouble
INVARIANTS TypeOK IndexConsistent LatestWins PassedInOrder StreamReplaces
PROPERTIES ImplementsLog SettlesOnLatest TombstonesStay

SPECIFICATION Spec
CONSTANTS
    None = None
    SPs = {1, 2, 3, 4, 5, 6, 7, 8, 9}
    Objects = {0, 10, 7, 8, 9, 11, 12, 21, 31, 41, 42, 43, 51}
    Pair <- SomePairs
    Asked <- SomeAsked
    Logs <- SomeLogs
INVARIANTS TypeOK NothingMissed NothingInvented

\* One query is asked, and the stream ends.
CHECK_DEADLOCK FALSE

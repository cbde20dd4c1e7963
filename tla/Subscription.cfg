SPECIFICATION FairSpec
CONSTANTS
    Kinds <- AllKinds
    Messages = 5
    MaxErrors = 2
INVARIANTS TypeOK NothingLost UnsentBounded PanicNeedsTwoErrors
PROPERTIES ErrorEnds CommandsSettle

\* The process can come to rest: its goroutines are idle, blocked on errc for good, or dead.
CHECK_DEADLOCK FALSE

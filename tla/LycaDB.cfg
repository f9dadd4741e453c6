CONSTANTS
    Tables <- MCTables
    Worker = 2
    Fd = {0, 1}
    PipeSize = 1
    Backlog = 1
    Request = {"sets"}
    Spinning = {"sets"}
SPECIFICATION FairSpec
INVARIANTS TypeOK AllOrNone OpenHasOneOwner ServesTheAsker
PROPERTIES HalfInstalledForGood ConnectionsAreAccepted RequestsAreAnswered InterruptEndsTheLoop

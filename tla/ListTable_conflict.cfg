CONSTANTS
    w1 = w1
    w2 = w2
    Worker = {w1, w2}
    Key = {1}
    Id = {1, 2}
    Val = {a}
    NoVal = NoVal
    Position <- MCNoPosition
    Writers <- MCSharedKeys
    PopMissing = FALSE
    NoRow = NoRow
    Free = Free
    NoTrx = NoTrx
SPECIFICATION FairSpec
INVARIANTS NothingLeftBehind
PROPERTIES EveryCommandReturns
VIEW NoAnswers

CONSTANTS
    w1 = w1
    w2 = w2
    w3 = w3
    Worker = {w1, w2}
    Key = {1, 2}
    Id = {1, 2}
    Val = {1}
    Score = {1, 2}
    Bound = {1, 2}
    Writers <- MCOwnKeys
    MaxCount = 2
    Seeds <- MCNoRestart
    NoRow = NoRow
    Free = Free
    NoTrx = NoTrx
    NoCall = NoCall
    NoReply = NoReply
SPECIFICATION Spec
INVARIANTS ZCountCountsTheKey

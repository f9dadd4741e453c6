CONSTANTS
    w1 = w1
    w2 = w2
    w3 = w3
    Worker = {w1, w2, w3}
    Key = {1}
    Id = {1, 2}
    Val = {1}
    Score <- MCScores
    Bound <- MCNoBound
    Writers <- MCSharedKeys
    MaxCount = 2
    Seeds = {"fresh", "repeated"}
    NoRow = NoRow
    Free = Free
    NoTrx = NoTrx
    NoCall = NoCall
    NoReply = NoReply
SPECIFICATION FairSpec
INVARIANTS NothingLeftBehind NoDeadlock
PROPERTIES ScoresStay OnlyNewKeysHang
VIEW NoReplies

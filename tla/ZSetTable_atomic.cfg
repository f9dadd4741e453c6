CONSTANTS
    w1 = w1
    w2 = w2
    w3 = w3
    Worker = {w1, w2}
    Key = {1}
    Id = {1, 2}
    Val = {1, 2, 3}
    Score = {2, 10}
    Bound = {2, 10}
    Writers <- MCOwnKeys
    MaxCount = 3
    Seeds = {"fresh", "repeated"}
    NoRow = NoRow
    Free = Free
    NoTrx = NoTrx
    NoCall = NoCall
    NoReply = NoReply
SPECIFICATION Spec
INVARIANTS TypeOK ZSetsWellFormed
PROPERTIES ImplementsAtomicZSet

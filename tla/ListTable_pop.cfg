CONSTANTS
    w1 = w1
    w2 = w2
    Worker = {w1}
    Key = {1, 2}
    Id = {1, 2, 3}
    Val = {a}
    NoVal = NoVal
    Position <- MCNoPosition
    Writers <- MCSharedKeys
    PopMissing = TRUE
    NoRow = NoRow
    Free = Free
    NoTrx = NoTrx
SPECIFICATION Spec
INVARIANTS ListsWellFormed

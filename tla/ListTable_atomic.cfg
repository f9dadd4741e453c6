CONSTANTS
    w1 = w1
    w2 = w2
    Worker = {w1, w2}
    Key = {1, 2}
    Id = {1, 2, 3}
    Val = {a, b}
    NoVal = NoVal
    Position <- MCPosition
    Writers <- MCOwnKeys
    PopMissing = FALSE
    NoRow = NoRow
    Free = Free
    NoTrx = NoTrx
SPECIFICATION Spec
INVARIANTS TypeOK ListsWellFormed

PROPERTIES ImplementsAtomicList
VIEW NoReplies
SYMMETRY Symmetry

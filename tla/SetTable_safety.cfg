CONSTANTS
    Worker = {w1, w2}
    Key = {1, 2}
    Member = {a, b}
    NoRow = NoRow
    Free = Free
    NoTrx = NoTrx
    NoCall = NoCall
    NoReply = NoReply
SPECIFICATION Spec
INVARIANTS
    TypeOK
    NothingLeftBehind
    ChangeIsMine
PROPERTIES
    ImplementsAtomicSet
SYMMETRY Symmetry

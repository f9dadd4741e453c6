CONSTANTS
    txt = txt
    Worker = {w1, w2}
    Key = {k1}
    IntMax = 1
    Text <- MCText
    TextNum <- MCTextNum
    SetValue <- MCSetValue
    Delta = {1}
    NoRow = NoRow
    Free = Free
    NoTrx = NoTrx
    NoCall = NoCall
SPECIFICATION FairSpec
INVARIANTS
    TypeOK
    NothingLeftBehind
    LockDiscipline
PROPERTIES
    ImplementsAtomicKV
    EveryCommandReturns

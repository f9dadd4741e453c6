CONSTANTS
    txt = txt
    Worker = {w1, w2}
    Key = {k1}
    IntMax = 3
    Text <- MCText
    TextNum <- MCTextNum
    SetValue = {}
    Delta = {1}
    NoRow = NoRow
    Free = Free
    NoTrx = NoTrx
    NoCall = NoCall
SPECIFICATION Spec
PROPERTIES IncrementIsAtomic

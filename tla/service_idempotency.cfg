SPECIFICATION Spec
CONSTANTS
    p1 = p1
    p2 = p2
    k1 = k1
    NoKey = NoKey
    UpdateID = {1, 2, 3, 4}
    Pair = {p1, p2}
    Key = {k1}
    MaxTime = 0
    MaxVersion = 1
SYMMETRY PairSymmetry
INVARIANTS
    TypeOK
    OneUpdatePerKey
    AnswersAreTrue
    AnswersAgree
    ConflictIsFound
PROPERTIES
    KeysStayBound

SPECIFICATION Spec
CONSTANTS
    None = None
    Move = {m1, m2}
    Line = {1, 2, 3, 4}
    Rec = {r}
    Journal = {bank, cash}
    Period = {p1, p2}
    Account = {a}
    Centralised = {cash}
    UpdatePosted = {bank, cash}
    CentralAccount = a
    CanReconcile = {a}
    WriteOff = a
    Amounts <- MCAmounts
INVARIANTS TypeOK ValidBalanced FixedIsValid
PROPERTIES PostedKept ClosedKept
CHECK_DEADLOCK FALSE
SYMMETRY Alike
VIEW LinesAlike
CONSTRAINT Small

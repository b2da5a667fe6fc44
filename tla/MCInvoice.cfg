SPECIFICATION ISpec
CONSTANTS
    m1 = m1
    m2 = m2
    m3 = m3
    r1 = r1
    r2 = r2
    out = out
    refund = refund
    sales = sales
    other = other
    None = none
    Move = {m1, m2, m3}
    Line = {1, 2, 3, 4, 5, 6, 7}
    Rec = {r1, r2}
    Journal = {sales, other}
    Period = {p}
    Account = {receivable, counter}
    Centralised = {}
    UpdatePosted = {other}
    CentralAccount = counter
    CanReconcile = {receivable}
    WriteOff = counter
    Amounts <- MCAmounts
    Invoice = {out, refund}
    Parts <- MCParts
    JournalOf <- MCJournalOf
    Receivable = receivable
    Counter = counter
    PayAmounts = {1}
CONSTRAINT Small
VIEW LinesAlike
SYMMETRY Alike
CHECK_DEADLOCK FALSE
INVARIANTS MoveStands PaidInTime

SPECIFICATION FormsSpec
CONSTANTS
    p1 = p1
    i1 = i1
    o1 = o1
    o2 = o2
    x1 = x1
    f1 = f1
    f2 = f2
    u1 = u1
    u2 = u2
    None = None
    PositionId = {p1}
    CreateIntent = {i1}
    OrderId = {o1, o2, x1}
    OrderIntent = {o1, o2, x1}
    FillId = {f1, f2}
    FormOrder <- TwoForms
    ExitOrder = {x1}
    User = {u1}
    MaxCalls = 6
    Qty = {1, 2}
    Price = {1}
    Fee <- NoFee
    AdminTarget = {"CANCELED"}
    When <- Now
CHECK_DEADLOCK FALSE
INVARIANT FormsTypeOK
PROPERTY LedgerKept
PROPERTY SubmitEnds

SPECIFICATION Spec
CONSTANTS
    p1 = p1
    o1 = o1
    o2 = o2
    f1 = f1
    f2 = f2
    o3 = o3
    f3 = f3
    None = None
    PositionId = {p1}
    OrderId = {o1, o2}
    FillId = {f1, f2}
    CreateIntent = {i1}
    OrderIntent = {k1, k2}
    Qty = {1}
    Price = {1}
    Fee <- LargeFee
    AdminTarget <- CancelOnly
    When <- Now
INVARIANTS
    PositionsReadable
CHECK_DEADLOCK FALSE

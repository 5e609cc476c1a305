SPECIFICATION Spec
CONSTANTS
    p1 = p1
    o1 = o1
    o2 = o2
    f1 = f1
    f2 = f2
    f3 = f3
    o3 = o3
    None = None
    PositionId = {p1}
    OrderId = {o1, o2}
    FillId = {f1, f2, f3}
    CreateIntent = {i1}
    OrderIntent = {k1, k2}
    Qty = {1, 2, 3}
    Price = {1}
    Fee <- NoFee
    AdminTarget <- AnyAdminTarget
    When <- AnyTime
SYMMETRY Symmetry
CHECK_DEADLOCK FALSE
INVARIANT OneNonTerminalOrder
INVARIANT SellOrdersBacked
INVARIANT UnknownOrderBlocks
INVARIANT LedgerAgrees
PROPERTY RowsMoveForward

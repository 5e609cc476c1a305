SPECIFICATION Spec
CONSTANTS
    p1 = p1
    o1 = o1
    o2 = o2
    o3 = o3
    f1 = f1
    f2 = f2
    f3 = f3
    None = None
    PositionId = {p1}
    OrderId = {o1, o2, o3}
    FillId = {f1, f2, f3}
    CreateIntent = {i1}
    OrderIntent = {k1, k2, k3}
    Qty = {1, 2}
    Price = {0, 1, 2}
    Fee <- SomeFees
    AdminTarget <- CancelOnly
    When <- Now
SYMMETRY Symmetry
CHECK_DEADLOCK FALSE
INVARIANT BooksAgree

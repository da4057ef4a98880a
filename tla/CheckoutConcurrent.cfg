SPECIFICATION Spec
CONSTANTS
    c1 = c1
    c2 = c2
    p1 = p1
    p2 = p2
    r1 = r1
    r2 = r2
    Customers = {c1}
    Products = {p1, p2}
    Requests = {r1, r2}
    MaxQty = 2
    MaxStock = 2
    LowStockThreshold = 1
    InitialStock <- TwoUnits
    InitialPrice <- PriceOne
    Prices = {1}
    StockInputs = {}
    MaxOrders = 2
    MaxRows = 2
SYMMETRY ShopSymmetry
INVARIANTS TypeOK RowsBalance NoUnitVanishes AnnouncedOnce SilentOnlyIfDied

SPECIFICATION Spec
CONSTANTS
    c1 = c1
    c2 = c2
    p1 = p1
    p2 = p2
    r1 = r1
    r2 = r2
    Customers = {c1, c2}
    Products = {p1, p2}
    Requests = {r1}
    MaxQty = 2
    MaxStock = 2
    LowStockThreshold = 0
    InitialStock <- TwoUnits
    InitialPrice <- PriceOne
    Prices = {1, 2}
    StockInputs = {1}
    MaxOrders = 2
    MaxRows = 1
INVARIANT StockMatchesLedger
PROPERTY ImplementsShop

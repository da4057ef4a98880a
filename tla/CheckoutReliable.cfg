SPECIFICATION FairSpec
CONSTANTS
    c1 = c1
    c2 = c2
    p1 = p1
    p2 = p2
    r1 = r1
    r2 = r2
    Customers = {c1, c2}
    Products = {p1}
    Requests = {r1, r2}
    MaxQty = 2
    MaxStock = 3
    LowStockThreshold = 1
    InitialStock <- ThreeUnits
    InitialPrice <- PriceOne
    Prices = {1}
    StockInputs = {}
    MaxOrders = 1
    MaxRows = 1
PROPERTIES EveryOrderAnnounced LowStockReported

SPECIFICATION FairSpec
CONSTANTS
    Processes = {p1, p2}
    Requests = {r1, r2}
    Emails = {ea, e1}
    Phones = {na, n1}
    AdminEmail = ea
    AdminPhone = na
    MaxCustomers = 2
    MaxCrashes = 1
INVARIANTS TypeOK UniqueContacts AdminFirst OneAdmin
PROPERTIES ShopOpens

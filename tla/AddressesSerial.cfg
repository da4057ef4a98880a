SPECIFICATION Spec
CONSTANTS
    Customers = {c1, c2}
    Requests = {r1}
    MaxAddresses = 3
INVARIANTS TypeOK OneDefault

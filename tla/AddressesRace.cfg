SPECIFICATION Spec
CONSTANTS
    Customers = {c1}
    Requests = {r1, r2}
    MaxAddresses = 2
INVARIANT OneDefault

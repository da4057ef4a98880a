SPECIFICATION Spec
CONSTANTS
    Orders = {o1}
    Requests = {r1, r2}
    MaxNotices = 3
PROPERTY SuccessNotReversed

SPECIFICATION Spec
CONSTANTS
    Names = {n1, n2}
    Requests = {r1}
    PageSize = 2
    MaxCategories = 2
    MaxProducts = 3
INVARIANTS TypeOK UniqueNames ReaderMissesNothing ReaderSeesNothingTwice

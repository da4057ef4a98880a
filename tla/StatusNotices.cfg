SPECIFICATION NoticesSpec
CONSTANTS
    Orders = {o1, o2}
    Requests = {r1}
    MaxNotices = 2
    MaxFailures = 2
INVARIANTS TypeOK NoticesCurrent CustomerUpToDate
PROPERTIES ImplementsLifecycle ToldLawfully
CHECK_DEADLOCK FALSE

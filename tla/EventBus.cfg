SPECIFICATION FairSpec
CONSTANTS
    Keys = {OrderCreated, LowStockDetected}
    MaxMessages = 2
    MaxFailures = 2
INVARIANTS TypeOK EachMessageOnce HandledBeforeAck FirstHandledInOrder
PROPERTIES ImplementsLog EveryMessageAnswered
CHECK_DEADLOCK FALSE

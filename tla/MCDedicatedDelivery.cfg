CONSTANTS
    LinkCount = 2
    SeqModulus = 4
    T200 = 2
    N200 = 2
    MaxLayer3 = 2
    Segment <- MCSegment
    PollBits = {FALSE}
    RingLength = 2
    FillWait = 1
    Scenarios <- DeliveryScenarios
SPECIFICATION LiveSpec
PROPERTY ImplementsDelivery
PROPERTY MessagesGetThrough
CHECK_DEADLOCK FALSE

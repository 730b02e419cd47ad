CONSTANTS
    LinkCount = 2
    SeqModulus = 2
    T200 = 2
    N200 = 1
    MaxLayer3 = 1
    Segment = {}
    PollBits = {FALSE}
SPECIFICATION FairSpec
PROPERTY
    TransactionResolves

CONSTANTS
    LinkCount = 1
    SeqModulus = 3
    T200 = 2
    N200 = 3
    MaxLayer3 = 2
    Segment = {x}
    PollBits = {TRUE, FALSE}
SPECIFICATION Spec
INVARIANTS
    TypeOK
    TransactionInv
    UaEchoesSabm
    ReassemblyTimed
PROPERTY
    WindowOfOne

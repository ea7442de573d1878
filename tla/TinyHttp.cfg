SPECIFICATION NetSpec
CONSTANTS
    c1 = c1
    c2 = c2
    Conn = {c1, c2}
    RequestsOf <- MCRequestsOf
    Impatient = {c1}
    Unlucky = {c2}
    FdLimits = {5, 11}
    PipeCap = 1
    OutLen = 1
    Users = {c1, c2}
    SizesOf <- MCSizesOf
    LinesOf <- MCLinesOf
INVARIANTS
    DescriptorsClosed
    AnswerComplete
    ExamplesSound
PROPERTIES
    StaysUp
    EveryRequestEnds
CHECK_DEADLOCK FALSE

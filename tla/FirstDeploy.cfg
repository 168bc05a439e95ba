CONSTANTS
    Sessions = {"s1"}
    Operators = {"o1"}
    OperatorOf <- MCOperatorOf
    MaxVersion = 0
    Missing = Missing
    Panels = {s1}
    ConstNames = {"a", "b"}
    Pads = {"p", "q"}
    Declares <- MCDeclares
    Defaulted = {"b"}
    NoPad = NoPad
    Pages = {p1}
    Sources = {"a"}
    MaxJobs = 1
    LogTtl = 1
    MaxWall = 1
    MaxLosses = 0
    NoLogs = NoLogs

SPECIFICATION AdminSpec
INVARIANT AdviceWorks

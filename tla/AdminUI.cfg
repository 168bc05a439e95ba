CONSTANTS
    Sessions = {"s1", "s2"}
    Operators = {"o1", "o2"}
    OperatorOf <- MCOperatorOf
    MaxVersion = 2
    Missing = Missing
    Panels = {s1}
    ConstNames = {"a", "b"}
    Pads = {"p", "q"}
    Declares <- MCDeclares
    Defaulted = {"b"}
    NoPad = NoPad
    Pages = {p1}
    Sources = {"a", "b"}
    MaxJobs = 2
    LogTtl = 1
    MaxWall = 2
    MaxLosses = 1
    NoLogs = NoLogs

SPECIFICATION AdminSpec
INVARIANT AdminTypeOK
INVARIANT OwnActionShown
INVARIANT BlankMeansWarned
INVARIANT StoredHaveValues
INVARIANT PadHasConstants
INVARIANT LogsMatchSource
INVARIANT PollingKeepsJob
PROPERTY PageSettles
PROPERTY DownloadEnds

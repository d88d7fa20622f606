SPECIFICATION PolicySpec
CONSTANTS
    HotDrive = 50
    HotCpu = 70
    RecoverDrive = 45
    RecoverCpu = 60
    MaxTtl = 2
    None = None
    NonFinite = NonFinite
    Absent = Absent
    Corrupt = Corrupt
    Malformed = Malformed
    Statuses <- MCStatuses
    Requests <- MCRequests
    MaxNow = 3
    Faults = {}
INVARIANTS
    PolicyTypeOK
    WriteThrough
    DecisionRestsOnLiveOverride
    OverrideWindow
PROPERTIES
    KeepsContract

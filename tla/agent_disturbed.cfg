SPECIFICATION AnsweringSpec
CONSTANTS
    HotDrive = 50
    HotCpu = 70
    RecoverDrive = 45
    RecoverCpu = 60
    MaxTtl = 1
    None = None
    NonFinite = NonFinite
    Absent = Absent
    Corrupt = Corrupt
    Malformed = Malformed
    Statuses <- MCStatuses
    Requests <- MCLowRequest
    MaxNow = 1
    Faults = {"save override"}
    Loop = Loop
    Handlers = {h1}
    Temps <- MCBandAndHot
    WatchdogOrders <- MCWatchdogOrders
    MaxFaults = 1
    MaxMeddling = 1
    MaxCrashes = 1
INVARIANTS
    AgentInv
    WritesFollowMemory
    AnswerIsTrue
    SnapshotKeepsTable
    StatusIsCurrent
PROPERTIES
    SensorFailureNeverLowers
    KeepsInterface
CONSTRAINT
    MCOneMishap

SPECIFICATION FairAnsweringSpec
CONSTANTS
    HotDrive = 50
    HotCpu = 70
    RecoverDrive = 45
    RecoverCpu = 60
    MaxTtl = 1
    None = None
    NonFinite = NonFinite
    Absent = Absent
    Corrupt = Corrupt
    Malformed = Malformed
    Statuses <- MCStatuses
    Requests <- MCRequests
    MaxNow = 0
    Faults = {}
    Loop = Loop
    Handlers = {h1}
    Temps <- MCExtremes
    WatchdogOrders <- MCFullButAuto
    MaxFaults = 1
    MaxMeddling = 1
    MaxCrashes = 0
PROPERTIES
    HotEventuallyFull
    EveryCallEnds
    StatusComesBack

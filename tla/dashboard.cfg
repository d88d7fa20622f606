SPECIFICATION FairDashboardSpec
CONSTANTS
    HotDrive = 50
    HotCpu = 70
    RecoverDrive = 45
    RecoverCpu = 60
    MaxTtl = 1
    None = None
    NonFinite = NonFinite
    Absent = Absent
    Corrupt = Corrupt
    Malformed = Malformed
    Callers = {c1, c2}
    Orders <- MCOrders
    Polls = {p1}
    MaxFailures = 1
    MaxWeather = 1
INVARIANTS
    DashboardTypeOK
    ReportIsTrue
    InFlightLocksAll
PROPERTIES
    LocksFollowAgent
    ControlsComeBack

SPECIFICATION ReadersSpec
CONSTANTS
    HotDrive = 50000
    HotCpu = 70000
    RecoverDrive = 45000
    RecoverCpu = 60000
    MaxTtl = 2
    None = None
    NonFinite = NonFinite
    Absent = Absent
    Corrupt = Corrupt
    Malformed = Malformed
    Kind <- MCKind
    Key <- MCNames
    Bare <- MCBare
    Temps <- MCTemps
    MaxDrifts = 1
    Rank <- MCRank
INVARIANTS
    ReadersTypeOK
    NoSensorHidden
    NoFalseAlarm
    FailureIsMissingReading
    ShownIsMeasured
    ReadableIsShown

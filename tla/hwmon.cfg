SPECIFICATION FairHwmonSpec
CONSTANTS
    Channel = {1, 2}
    Switchable = {1}
    Raws = {0, 128, 254}
    Decisions = {22, 50, 100}
    None = None
    MaxFaults = 1
    MaxReloads = 2
INVARIANTS
    HwmonTypeOK
    NoFalseMismatch
    AnswerMatchesFan
PROPERTIES
    FullReachesFan

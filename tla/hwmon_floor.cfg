SPECIFICATION HwmonSpec
CONSTANTS
    Channel = {1}
    Switchable = {1}
    Raws = {0, 128}
    Decisions = {22, 100}
    None = None
    MaxFaults = 0
    MaxReloads = 0
INVARIANTS
    FloorHeld

SPECIFICATION Spec
CONSTANTS
    Devices = {d1}
    Screens = {c1}
    Handlers = {h1}
    Quiet = {q1}
    Timeout = 0
    None = None
    MaxTime = 2
    MaxReports = 1
    MaxEdits = 1
    MaxFaults = 1
INVARIANTS PublicRowsWerePublic
PROPERTIES OneEventPerOutage SilentDevicesGoOffline ScreensConverge
CHECK_DEADLOCK FALSE

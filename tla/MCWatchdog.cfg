\* The times of the code in units of ten seconds, the waits rounded up.
SPECIFICATION Spec
CONSTANTS
    Interval = 18
    IdleWait = 6
    PacketIdle = 3
    LinkIdle = 12
    Telemetry = 30
    PanelWait = 4
    SendWait = 1
    ReadWait = 10
INVARIANTS
    NeverFires
    AbandonedIsEnded
    QuietIsHungUp

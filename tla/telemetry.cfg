\* A recorder of two events, two buses, four events of two statuses, a clock that
\* may be set back.
SPECIFICATION Spec
CONSTANTS
    b1 = b1
    b2 = b2
    r1 = r1
    r2 = r2
    r3 = r3
    Buses = {b1, b2}
    Runtimes = {r1, r2, r3}
    BusOf <- MCBusOf
    Others = {logger}
    EventStatuses = {"completed", "failed"}
    MaxEvents = 2
    MaxPublished = 4
    MaxTime = 2
    None = None
VIEW WhatIsHeld
INVARIANTS
    TypeOK
    TailIsComplete
    TimelinesAgreeWithSnapshot

\* Three callers, thresholds that two and three results in a row reach.
SPECIFICATION FairSpec
CONSTANTS
    Callers = {c1, c2, c3}
    FailureThreshold = 3
    SuccessThreshold = 2
    CooldownMs = 2
    StartTime = 1
    Undefined = undefined
VIEW WhatMatters
PROPERTIES
    ImplementsPolicy
    RecoversWhenUp

SPECIFICATION FairSpec
CONSTANTS
    CounterBits = 4
    TimerTickMSC = 2
    MSToTimerInterval = 3
    MaxDelay = 3
INVARIANTS
    CallbackIsSet
    ArmedWithinInterval
PROPERTIES
    TicksSpaced
    TicksKeepComing

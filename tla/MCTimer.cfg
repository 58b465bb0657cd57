SPECIFICATION FairSpec
CONSTANTS
    N = 3
    MaxTime = 2
    MaxSpurious = 2
INVARIANTS
    TypeOK
    DoneHandover
    NoLostWakeup
    LockStep
PROPERTIES
    BarrierSpec
    SlotReturns
    TimerEnds

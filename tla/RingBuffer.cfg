SPECIFICATION FairSpec
CONSTANTS
    Size = 4
    Values = {r1, r2}
    NoValue = NoValue
INVARIANTS
    TypeOK
    NoDataRace
    RingInvariant
PROPERTIES
    ImplementsQueue
    ImplementsFairQueue
    EverySlotDrains
    RoomReturns

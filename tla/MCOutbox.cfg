SPECIFICATION FairSpec
CONSTANTS
    Msgs <- MCMsgs
    Ticks = {t1, t2}
    BatchLimit = 1
    MaxAttempts = 3
    Faults = {"fetch_rollback", "tick_stop", "ack_lost"}
INVARIANTS
    TypeOK
    ClaimExclusive
    DeliveriesWithinAttempts
    EndsForAReason
PROPERTIES
    ImplementsDelivery
    SettlesUnlessStranded
CHECK_DEADLOCK FALSE

SPECIFICATION FairSpec
CONSTANTS
    topup = topup
    purchase = purchase
    extension = extension
    Topups = {topup}
    Subscriptions = {purchase}
    Extensions = {extension}
    MaxNotices = 2
    Overlap = FALSE
INVARIANTS
    TypeOK
    SettledOnce
    SubscriptionFollowsPayment
PROPERTIES
    ConfirmedSettles
    ImplementsSettlement
CHECK_DEADLOCK FALSE

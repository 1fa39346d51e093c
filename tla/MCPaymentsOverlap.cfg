SPECIFICATION Spec
CONSTANTS
    topup = topup
    purchase = purchase
    extension = extension
    Topups = {topup}
    Subscriptions = {}
    Extensions = {extension}
    MaxNotices = 2
    Overlap = TRUE
INVARIANTS
    GrantedAtMostOnce
CHECK_DEADLOCK FALSE

SPECIFICATION MCSpec
CONSTANTS
    b1 = b1
    e1 = e1
    c1 = c1
    a1 = a1
    s1 = s1
    Buys = {b1}
    Extends = {e1}
    Tries <- MCTwoTries
    Price <- MCPrice
    Credits = {c1}
    Adjusts = {a1}
    Sets = {s1}
    Amount <- MCAmount
    Initial = 3
INVARIANTS
    TypeOK
    NeverNegative
    PaymentsMatchLedger
    NoMoneyForNothing
PROPERTIES
    EveryAttemptEnds
    AccountUnlessRaced
CHECK_DEADLOCK FALSE

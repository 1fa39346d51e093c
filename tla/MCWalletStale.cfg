SPECIFICATION Spec
CONSTANTS
    b1 = b1
    e1 = e1
    c1 = c1
    a1 = a1
    s1 = s1
    Buys = {b1}
    Extends = {}
    Tries <- MCOneTry
    Price <- MCPrice
    Credits = {c1}
    Adjusts = {}
    Sets = {}
    Amount <- MCAmount
    Initial = 3
INVARIANTS
    BalanceMatchesLedger
CHECK_DEADLOCK FALSE

SPECIFICATION Spec
CONSTANTS
    b1 = b1
    e1 = e1
    c1 = c1
    a1 = a1
    s1 = s1
    Buys = {b1}
    Extends = {}
    Tries <- MCTwoTries
    Price <- MCPrice
    Credits = {}
    Adjusts = {}
    Sets = {}
    Amount <- MCAmount
    Initial = 4
INVARIANTS
    OneChargePerClick
CHECK_DEADLOCK FALSE

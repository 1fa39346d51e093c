SPECIFICATION MCSpec
CONSTANTS
  s1 = s1
  s2 = s2
  r1 = r1
  r2 = r2
  Subs = {s1, s2}
  Requests = {r1, r2}
  Target <- MCTarget
  Bought <- MCBought
  Edited = {s2}
  Days = 2
  Horizon = 2
  Threshold = 2
  MaxFaults = 1
  TrialSubs = {s2}
  Referred = {s2}
  Limit = 1
  Longer = 4
  MaxExtended = 1
  MaxMissed = 1
  Late = 26
  Ends <- MCEnds
  Ahead <- MCAhead
  Customers = {u1}
  Whose <- MCWhose
  u1 = u1
  a1 = a1
  a2 = a2
  x1 = x1
  p1 = p1
  p2 = p2
  Attempts = {a1, a2}
  Reissues = {x1}
  Payments = {p1, p2}
INVARIANTS Types RowMatchesKey BreakerSpares  OneTrial RewardsEarned StatusIsHonest
PROPERTIES TimeNeverShrinks 
CHECK_DEADLOCK FALSE

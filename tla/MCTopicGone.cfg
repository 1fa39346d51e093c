SPECIFICATION MCSpec
CONSTANTS
  u1 = u1
  u2 = u2
  h1 = h1
  h2 = h2
  a1 = a1
  Users = {u1, u2}
  Admins = {a1}
  None = None
  Jobs = {h1, h2}
  MaxTickets = 2
  MaxTopics = 2
  Recipients = {1, 2}
  Workers = {h1, h2}
  Authors = {u1, u2}
  Cron = Cron
  Batch = 1
  MaxDeaths = 1
  MaxEdits = 2
  MaxCalls = 3
INVARIANTS GoneIsReplaced
SYMMETRY Alike
CHECK_DEADLOCK FALSE

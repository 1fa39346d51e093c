SPECIFICATION MCSpec
CONSTANTS
  u1 = u1
  u2 = u2
  credit = credit
  rebate = rebate
  r1 = r1
  r2 = r2
  r3 = r3
  t1 = t1
  t2 = t2
  d1 = d1
  d2 = d2
  m1 = m1
  m2 = m2
  j1 = j1
  j2 = j2
  Users = {u1, u2}
  Codes = {credit, rebate}
  Balance = {credit}
  Requests = {r1, r2, r3}
  Owner <- MCOwner
  MaxPerUser = 1
  Totals = {0, 1}
  MaxEdits = 1
  Tariffs = {t1, t2}
  Durations = {d1, d2}
  TariffOf <- MCTariffOf
  Price <- MCPrice
  Extendable = {d1}
  Percents = {50}
  Amounts = {100}
  Messages = {m1, m2}
  Jobs = {j1, j2}
INVARIANTS Types CountMatchesRows  NewestScreenPays
PROPERTIES CapacityUnlessRaced
SYMMETRY Alike
CHECK_DEADLOCK FALSE

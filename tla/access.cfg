SPECIFICATION Spec

CONSTANTS
  r1 = r1
  r2 = r2
  l1 = l1
  d1 = d1
  d2 = d2
  k1 = k1
  a1 = a1
  ByIp = ByIp
  ByLogin = ByLogin
  NoKey = NoKey
  Applications <- OneApplication
  Keys <- OneKey
  Owner <- AllOfOne
  Requests <- TwoRequests
  Logins <- OneLogin
  Admins <- TwoAdmins
  PerKey = 1
  PerIp = 1
  PerLogin = 1
  MaxMinute = 2

SYMMETRY CallSymmetry

INVARIANTS
  TypeOK
  LimitHolds
  RefusedOnlyOverLimit
  BarredStayOut
  DeletionIsLogged
  SettledHistoryIsKept

CHECK_DEADLOCK FALSE

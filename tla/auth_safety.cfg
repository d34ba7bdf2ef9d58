CONSTANTS
  r1 = r1
  r2 = r2
  r3 = r3
  r4 = r4
  r5 = r5
  e1 = e1
  e2 = e2
  NoEmail = NoEmail
  NoRequest = NoRequest
  Requests <- FourRequests
  Emails <- TwoEmails
  Patient <- OneEmail
  AccessLife = 1
  RefreshLife = 1
  MaxTime = 2
SPECIFICATION PatientSpec
SYMMETRY RequestSymmetry
VIEW AuthView
INVARIANTS
  TypeOK
  OneAccountPerEmail
  OneLivePerLogin
PROPERTIES
  OnlyOwnSessionEnds
CHECK_DEADLOCK FALSE

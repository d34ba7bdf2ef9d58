CONSTANTS
  r1 = r1
  r2 = r2
  r3 = r3
  r4 = r4
  r5 = r5
  e1 = e1
  e2 = e2
  NoEmail = NoEmail
  NoRequest = NoRequest
  Requests <- FiveRequests
  Emails <- TwoEmails
  Patient <- OneEmail
  AccessLife = 1
  RefreshLife = 1
  MaxTime = 1
SPECIFICATION PatientSpec
SYMMETRY RequestSymmetry
VIEW AuthView
PROPERTY AccountsKept
CHECK_DEADLOCK FALSE

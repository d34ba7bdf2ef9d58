CONSTANTS
  r1 = r1
  r2 = r2
  r3 = r3
  r4 = r4
  r5 = r5
  e1 = e1
  e2 = e2
  NoEmail = NoEmail
  NoRequest = NoRequest
  Requests <- FourRequests
  Emails <- OneEmail
  Patient = {}
  AccessLife = 1
  RefreshLife = 2
  MaxTime = 1
SPECIFICATION Spec
SYMMETRY AuthSymmetry
PROPERTY SingleOrNone
CHECK_DEADLOCK FALSE

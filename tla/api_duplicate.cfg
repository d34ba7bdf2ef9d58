CONSTANTS
  r1 = r1
  r2 = r2
  r3 = r3
  s1 = s1
  o1 = o1
  o2 = o2
  NoRequest = NoRequest
  Requests <- TwoRequests
  Operations <- OneOperation
  SeatIds <- OneSeat
  Seats <- OneSeat
  HoldTTL = 1
  BookingTTL = 1
  LockTTL = 1
  CacheTTL = 1
SPECIFICATION ApiSpec
PROPERTY DuplicateIsReplayed

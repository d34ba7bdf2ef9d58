CONSTANTS
  r1 = r1
  r2 = r2
  r3 = r3
  s1 = s1
  s2 = s2
  NoRequest = NoRequest
  Requests <- ThreeRequests
  SeatIds <- OneSeat
  Seats <- OneSeat
  HoldTTL = 1
  BookingTTL = 1
SPECIFICATION FairSpec
PROPERTIES
  EveryRequestEnds
  SeatComesBack

CONSTANTS
  r1 = r1
  r2 = r2
  r3 = r3
  s1 = s1
  o1 = o1
  o2 = o2
  NoRequest = NoRequest
  Requests <- ThreeRequests
  Operations <- TwoOperations
  SeatIds <- OneSeat
  Seats <- OneSeat
  HoldTTL = 2
  BookingTTL = 2
  LockTTL = 2
  CacheTTL = 2
SPECIFICATION PromptApiSpec
SYMMETRY ApiSymmetry
INVARIANTS
  CachedBookingIsRecent
  ProcessingIsExclusive
  HoldSerialises
PROPERTIES
  LivePromiseKept

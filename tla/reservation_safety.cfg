CONSTANTS
  r1 = r1
  r2 = r2
  r3 = r3
  s1 = s1
  s2 = s2
  NoRequest = NoRequest
  Requests <- ThreeRequests
  SeatIds <- AnySeatId
  Seats <- OneSeat
  HoldTTL = 2
  BookingTTL = 2
SPECIFICATION Spec
SYMMETRY RequestSymmetry
INVARIANTS
  TypeOK
  LockDiscipline
  SeatRowMatchesBookings
  InsertNeverConflicts
  WaitsEnd
  AcceptedKeepsSeat
  HoldWithinBooking
PROPERTIES
  HandoverIsAtomic
  LedgerSpec

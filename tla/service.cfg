CONSTANTS
  r1 = r1
  r2 = r2
  r3 = r3
  NoRequest = NoRequest
  Requests <- ThreeRequests
  DbMax = 2
  RedisMax = 2
SPECIFICATION FairSpec
INVARIANTS
  TypeOK
  WaitersHoldNothing
  RedisUsersAreAdmitted
  ConnectionsAreReturned
  ServiceIsOpen
PROPERTIES
  EveryRequestEnds
  EveryShutdownEnds

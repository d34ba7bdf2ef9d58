CONSTANTS
  c1 = c1
  c2 = c2
  c3 = c3
  i1 = i1
  i2 = i2
  Seed = Seed
  Nobody = Nobody
  Calls <- ThreeCalls
  Ids <- TwoIds
  MaxLen = 2
  PageSize = 1
SPECIFICATION Spec
SYMMETRY RepositorySymmetry
VIEW RepositoryView
INVARIANTS
  TypeOK
  UpdateReturnsOwn
  PageIsCounted
PROPERTIES
  ListIsWhole
  InsertsNeverReplace
  ReturnsWhatItDid
CHECK_DEADLOCK FALSE

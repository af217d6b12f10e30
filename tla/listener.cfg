SPECIFICATION FairSpec
CONSTANTS
  Clients = {c1, c2, c3, c4}
  MaxConnections = 2
  Rate = 2
INVARIANTS TypeOK PermitsAreConserved BurstIsBounded
PROPERTIES NoOneWaits

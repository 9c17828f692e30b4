SPECIFICATION FairSpec
CONSTANTS
  v1 = v1
  v2 = v2
  v3 = v3
  r1 = r1
  r2 = r2
  r3 = r3
  Requests = {r1, r2, r3}
  Videos = {v1, v2, v3}
  Asks <- ThreeVideos
  Length <- Lengths
  Known = {v1}
  Live = {v3}
  NoFlight = NoFlight
INVARIANTS TypeOK OneRunPerVideo FlightsConsistent LimitRespected TooLongHonest
PROPERTIES ImplementsService EnsureReturns
CHECK_DEADLOCK FALSE

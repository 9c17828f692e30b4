SPECIFICATION Spec
CONSTANTS
  v1 = v1
  v2 = v2
  v3 = v3
  r1 = r1
  r2 = r2
  r3 = r3
  Requests = {r1, r2, r3}
  Videos = {v1}
  Asks <- OneVideo
  Length <- Lengths
  Known = {v1}
  Live = {}
  NoFlight = NoFlight
INVARIANT NoRunOfCached

CHECK_DEADLOCK FALSE

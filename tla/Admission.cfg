SPECIFICATION FairSpec
CONSTANTS
  q1 = q1
  q2 = q2
  p1 = p1
  Requests = {q1, q2}
  Players = {p1}
  IPs = {"a"}
  Tracks = {"t"}
  VideoOf <- Video
  Videos = {"v"}
  Lists = {"l"}
  Asked <- AllAndConvert
  FloodMax = 1
  RateMax = 1
  ServerMax = 1
INVARIANTS TypeOK
PROPERTIES OwnPermits NotStarved TrackProgress

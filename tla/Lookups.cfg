SPECIFICATION FairSpec
CONSTANTS
  c1 = c1
  c2 = c2
  Callers = {c1, c2}
  Tracks = {"t"}
  Infos = {"i"}
  TrackOf <- OneTrack
  SLists = {"s"}
  YLists = {"y"}
  Videos = {"v"}
  Wants <- AllAndSpotify
  MaxMeta = 1
  MaxLists = 0
INVARIANTS MetaExact FlightsLed MutexHeld
PROPERTIES RetryIsFresh ImplementsLookups LookupsReturn

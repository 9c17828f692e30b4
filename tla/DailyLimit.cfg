SPECIFICATION Spec
CONSTANTS
  s1 = s1
  s2 = s2
  s3 = s3
  Slots = {s1, s2, s3}
  Players = {"p", "none"}
  NoID = "none"
  Videos = {"v"}
  Limit <- OnePerDay
  Faulty = TRUE
  MaxRows = 2
SYMMETRY Symmetry
INVARIANTS
  TypeOK
  InflightExact
  OvershootBounded
CHECK_DEADLOCK FALSE

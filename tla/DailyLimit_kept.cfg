SPECIFICATION Spec
CONSTANTS
  s1 = s1
  s2 = s2
  s3 = s3
  Slots = {s1, s2}
  Players = {"p"}
  NoID = "none"
  Videos = {"v", "w"}
  Limit <- OnePerDay
  Faulty = FALSE
  MaxRows = 3
SYMMETRY Symmetry
INVARIANT DailyLimitKept
CHECK_DEADLOCK FALSE

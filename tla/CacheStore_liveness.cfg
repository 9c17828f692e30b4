SPECIFICATION FairSpec
CONSTANTS
  v1 = v1
  v2 = v2
  r1 = r1
  e1 = e1
  e2 = e2
  Videos = {v1, v2}
  NoVideo = "none"
  Readers = {r1}
  Enforcers = {e1}
  Janitor = "janitor"
  Admins = {}
  MaxSize = 1
  Faulty = FALSE
  MaxRuns = 2
PROPERTIES
  RowsHealed
  OrphansCollected
  SizeEnforced

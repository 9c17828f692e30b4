SPECIFICATION Spec
CONSTANTS
  v1 = v1
  v2 = v2
  r1 = r1
  e1 = e1
  e2 = e2
  Videos = {v1, v2}
  NoVideo = "none"
  Readers = {}
  Enforcers = {e1}
  Janitor = "janitor"
  Admins = {"admin"}
  MaxSize = 1
  Faulty = TRUE
  MaxRuns = 2
SYMMETRY Symmetry
PROPERTY OrphansHaveNoRow

SPECIFICATION LifeFairSpec
CONSTANTS
  v1 = v1
  v2 = v2
  l1 = l1
  Ids = {v1, v2}
  Listeners = {l1}
INVARIANTS
  IndexKept
PROPERTY Exits

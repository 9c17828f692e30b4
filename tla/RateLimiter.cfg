SPECIFICATION Spec
CONSTANTS
  r1 = r1
  r2 = r2
  k1 = k1
  Requests = {r1, r2}
  Keys = {k1}
  Max <- Maxima
  Window = 3
  Late = 1
  MaxTime = 9
INVARIANTS WindowBounded
PROPERTIES HeldNotCollected ImplementsBucket

SPECIFICATION Spec
CONSTANTS
  a1 = a1
  a2 = a2
  p1 = p1
  Admins = {a1, a2}
  Players = {p1}
  Ranks <- MCRanks
  Files <- MCFiles
  Edits <- MCEdits
INVARIANTS
  SaveAtomic
  BlocksAgree
PROPERTY DeleteKeepsOthers
SYMMETRY Symmetry

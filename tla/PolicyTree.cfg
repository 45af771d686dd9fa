SPECIFICATION Spec
CONSTANTS
  t1 = t1
  t2 = t2
  a = a
  ab = ab
  c = c
  Tasks = {t1, t2}
  Paths = {a, ab, c}
  Under <- Extends
  Rank <- Order
  Seed = 10
  Limit = 10
  MaxExits = 3
  MaxRestarts = 1
SYMMETRY TasksSymmetry
INVARIANTS
  TypeOK
  ResistanceKept
  StoredIsLive
CHECK_DEADLOCK FALSE

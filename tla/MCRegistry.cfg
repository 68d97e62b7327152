SPECIFICATION Spec
CONSTANTS
  Procs = {c1, c2}
  Paths = {p1, p2, p3}
  Dirs = {d1, d2}
  g1 = g1
  Groups = {g1}
  GroupOf <- MCGroupOf
  Ops = {"add", "rm", "resolve", "locked"}
  MaxUuid = 2
  MaxMoves = 4
  none = none
SYMMETRY Symmetry
INVARIANTS
  OnePathOneProject
PROPERTIES
  IdentityKept
  ReportedTrue
  OneToOne

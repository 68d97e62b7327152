SPECIFICATION MCSpec
CONSTANTS
  p1 = p1 p2 = p2 p3 = p3
  d1 = d1 d2 = d2 d3 = d3
  g1 = g1 g2 = g2 n1 = n1 n2 = n2
  Procs = {c1, s1}
  Senders = {s1}
  Paths = {p1, p2, p3}
  Dirs = {d1, d2, d3}
  Groups = {g1, g2}
  Names = {n1, n2}
  Sought = {n1}
  GroupOf <- MCGroups
  NameOf <- MCNameOf
  Ops = {"add", "rm", "resolve"}
  MaxUuid = 3
  MaxMoves = 3
  none = none
CONSTRAINT Bounded
PROPERTIES
  DeliveredAsAddressed
  AddressKept

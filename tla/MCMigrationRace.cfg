SPECIFICATION Spec
CONSTANTS
  p1 = p1
  p2 = p2
  m1 = m1
  s1 = s1
  Procs = {p1, p2}
  Messages = {m1}
  Strays = {s1}
  MaxOps = 2
  MaxFaults = 0
  MaxSpares = 1
  Legacy = FALSE
INVARIANT StrayKept
CHECK_DEADLOCK FALSE

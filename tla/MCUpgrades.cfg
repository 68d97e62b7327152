SPECIFICATION MCSpec
CONSTANTS
  Procs = {p1, p2}
  Messages = {m1}
  Strays = {s1}
  MaxOps = 2
  MaxFaults = 2
  MaxSpares = 2
  Legacy = TRUE
  Roots = {r1, r2, r3}
  Uuids = {u1, u2, u3, u4}
  none = none
  mine = mine
  UpFaults = 2
  UpEdits = 2
  Wrappers = {"rt-say"}
  Links = {"link"}
  MaxGen = 2
  InstEdits = 2
  MaxInstFaults = 1
  CmdLinks = {"rt-say", "pneu"}
  HLinks = {"plugin", "skill"}
  Added = {"skill"}
  PrefixEdits = 1
  MaxFailures = 2
  MaxInterrupts = 1
SYMMETRY Symmetry
CONSTRAINT Bounded
CHECK_DEADLOCK FALSE
INVARIANTS
  CutoverWhole
  UpgradeExact
  InstallWhole
PROPERTIES
  ImplementsOneMailbox
  ReportsTrue
  OthersKept

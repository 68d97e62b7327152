SPECIFICATION MCSpec
CONSTANTS
  Procs = {c1, c2}
  Harnesses = {"claude", "codex"}
  MaxEdits = 1
  MaxGen = 2
  MaxFaults = 2
  OwnParts = {"config", "skill"}
  HostProcs = {c1, c2, c3}
  HostEdits = 3
  HostRegs = 3
  HostFaults = 3
  MaxRelease = 2
  MaxCli = 2
  MaxNoise = 3
  none = none
SYMMETRY Symmetry
CONSTRAINT Bounded
CHECK_DEADLOCK FALSE
INVARIANTS
  SetupExact
  HostWhole
  ServicesSafe
PROPERTIES
  ServicesAsked

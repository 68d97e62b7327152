SPECIFICATION Spec
CONSTANTS
  codex = codex
  codex2 = codex2
  p1 = p1
  p2 = p2
  None = None
  Agents <- MCAgents
  Harnesses = {"codex"}
  HarnessOf <- MCHarnessOf
  Pids <- MCPids
  MaxStarts = 3
  MaxRevs = 3
CONSTRAINT Bounded
SYMMETRY SeatSymmetry
CHECK_DEADLOCK FALSE
INVARIANTS
  OneActivePerHarness
  CapabilityOfItsGeneration
PROPERTIES
  DisplacedOnlyIfObserved
  DeadOwnerLeaseFrozen
  ImplementsOwnership

SPECIFICATION FairSpec
CONSTANTS
  MaxLease = 2
  MaxThread = 3
  MaxHand = 1
  MaxKill = 1
  MaxEvent = 3
  Killable = {"hook", "bridge"}
CHECK_DEADLOCK FALSE
INVARIANTS
  QueueFollowsIntent
PROPERTIES
  NeverWakeSuperseded
  HandBindingKept
  NeverBindsReplacedLease
  HandedBack
  ManualBindRoutes

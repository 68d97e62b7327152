CONSTANTS
  MaxLease = 2
  MaxThread = 2
  MaxHand = 0
  MaxKill = 0
  MaxEvent = 4
  Killable = {}
SPECIFICATION Spec
CHECK_DEADLOCK FALSE
PROPERTY FreshThreadBinds

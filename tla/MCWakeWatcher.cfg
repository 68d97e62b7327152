CONSTANTS
  m1 = m1  m2 = m2
  w1 = w1  w2 = w2
  None = None
  Mail <- OneMail
  Watchers <- MCWatchers
  MaxRestarts = 1
  DirectoryFails = TRUE
  MaxFaults = 1
  MaxAttempts = 2
SPECIFICATION FairSpec
INVARIANTS
  BoundedRetries
PROPERTIES
  SlotNotStolen
  Notified
